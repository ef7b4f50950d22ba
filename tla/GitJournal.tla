----------------------------- MODULE GitJournal -----------------------------
(***************************************************************************)
(* The git operations on one repository and the journal they keep of       *)
(* themselves: the workflows behind CommandOrchestrator, the engines of    *)
(* src/gitengines, GitTransactionManager, OperationJournal over            *)
(* FilesystemJournalStorage, SafeUndoFramework, and what /resume, /abort   *)
(* and /recover do beside them.                                            *)
(*                                                                         *)
(* git itself is present as what the code relies on. A ref is the sequence *)
(* of the operations it holds the effect of. Contents of files, and with   *)
(* them what /discard throws away, are left out.                           *)
(***************************************************************************)
EXTENDS Naturals, Sequences, FiniteSets, SequencesExt

CONSTANTS Op,        \* operations, each started once; the id of its entry
          Undo,      \* confirmed undo requests
          Kind,      \* the operations that are offered
          Branch, Main,
          MaxJobs,   \* task.max_concurrent_jobs
          MaxFaults, \* bound on timeouts, failed writes and crashes
          None

\* One kind per way to begin, to fail and to be undone. "sync" is also the
\* fast-forward of a merge, and "merge" any merge that is none.
AllKinds    == {"commit", "discard", "sync", "merge", "rebase", "push", "switch", "create"}
Transacted  == {"commit", "discard"}           \* a failure rolls back
Conflicting == {"merge", "rebase"}             \* a failure may stop half way
Recorded    == {"push", "switch", "create"}    \* journalled without a transaction
Advancing   == {"commit", "sync", "merge", "rebase"}

ASSUME GitJournalAssumption ==
    /\ IsFiniteSet(Op) /\ IsFiniteSet(Undo)
    /\ Op \intersect Undo = {}
    /\ None \notin Op
    /\ Kind \subseteq AllKinds
    /\ Main \in Branch
    /\ MaxJobs \in Nat /\ MaxFaults \in Nat

VARIABLES branch,    \* the branch HEAD is on
          tip,       \* the history of each branch there is
          paused,    \* the merge or rebase git has stopped at a conflict
          published, \* operations the remote has
          file,      \* the journal: the status of each entry in it
          readable,  \* no line of the journal is torn
          current,   \* operations of tasks that are still tracked
          pc, kind, arg, before, stamp, \* of each operation, see below
          update,    \* the entry a process updates, and the status it gets
          buf,       \* the journal as it has read it
          ledger,    \* the journal, had every update been atomic
          past,      \* what has disturbed the run, see Disturbance
          faults

git     == <<branch, tip, paused, published>>
journal == <<file, readable, ledger>>
entry   == <<kind, arg, before, stamp>>
vars    == <<git, journal, entry, current, pc, update, buf, past, faults>>

Process == Op \union Undo
Status  == {"in-progress", "completed", "rolled-back", "failed"}
Journal == UNION {[S -> Status] : S \in SUBSET Op}
History == Seq(Op)

\* overlap:   a task, an undo or a /resume began while something was at work
\* race:      the journal was written while an update was rewriting it
\* resumed:   /resume finished what an operation had left
\* unsettled: a rollback failed, or the answer of a push was lost
\* broken:    a write failed or the process died
\* halfway:   it did so with the journal emptied and not yet filled again
\* midway:    an undo reset a repository in which git had stopped
Disturbance == {"overlap", "race", "resumed", "unsettled", "broken", "halfway", "midway"}

Working   == {p \in Process : pc[p] \notin {"idle", "ended"}}
Rewriting == {p \in Process : pc[p] \in {"rewrite", "fill"}}
Filling   == {p \in Process : pc[p] = "fill"}
Held(t)   == UNION {ToSet(t[b]) : b \in DOMAIN t}

TypeOK ==
    /\ branch \in DOMAIN tip /\ DOMAIN tip \subseteq Branch
    /\ tip \in [DOMAIN tip -> History]
    /\ paused \in Op \union {None}
    /\ published \subseteq Op
    /\ file \in Journal /\ ledger \in Journal
    /\ readable \in BOOLEAN
    /\ current \subseteq Op \intersect Working
    /\ pc \in [Process -> {"idle", "cleared", "begun", "recorded", "rollback", "planned",
                           "reset", "read", "rewrite", "fill", "ended"}]
    /\ kind \in [Op -> AllKinds]
    /\ arg \in [Op -> Branch]
    /\ before \in [Op -> [branch : Branch, ref : History]]
    /\ stamp \in [Op -> Nat]
    /\ update \in [Process -> [id : Op \union {None}, status : Status]]
    /\ buf \in [Process -> Journal]
    /\ past \subseteq Disturbance
    /\ faults \in 0..MaxFaults

NoEntries == [o \in {} |-> "failed"]

Init ==
    /\ branch = Main
    /\ tip = [b \in {Main} |-> <<>>]
    /\ paused = None
    /\ published = {}
    /\ file = NoEntries /\ ledger = NoEntries
    /\ readable = TRUE
    /\ current = {}
    /\ pc = [p \in Process |-> "idle"]
    /\ kind = [o \in Op |-> "commit"]
    /\ arg = [o \in Op |-> Main]
    /\ before = [o \in Op |-> [branch |-> Main, ref |-> <<>>]]
    /\ stamp = [o \in Op |-> 0]
    /\ update = [p \in Process |-> [id |-> None, status |-> "failed"]]
    /\ buf = [p \in Process |-> NoEntries]
    /\ past = {}
    /\ faults = 0

-----------------------------------------------------------------------------
Goto(p, place) == pc' = [pc EXCEPT ![p] = place]
Will(p, o, status) == update' = [update EXCEPT ![p] = [id |-> o, status |-> status]]
Disturb(d, when) == past' = IF when THEN past \union {d} ELSE past
Put(entries, o, status) ==
    [x \in DOMAIN entries \union {o} |-> IF x = o THEN status ELSE entries[x]]

End(p) == Goto(p, "ended") /\ current' = current \ {p}

\* A stopped rebase leaves HEAD on no branch.
Detached == paused # None /\ kind[paused] = "rebase"

\* Mutant of Healthy: as for /fetch, a stopped operation does not matter.
HealthyAnyway == readable

\* GitHealthService.getHealth reads the journal too; AutomaticSafetyPolicies
\* and PreflightValidationPolicy refuse what is asked while git has stopped.
Healthy == readable /\ paused = None

\* The operation of a task, which is tracked and has a slot of the planner.
AsTask(o) == Cardinality(current) < MaxJobs /\ current' = current \union {o}

\* "/discard ... confirm": WorkingTreeService waits for the tracked tasks, and
\* goes on without a slot and untracked.
AsDiscard(k) == k = "discard" /\ current = {} /\ UNCHANGED current

\* CommandOrchestrator.execute, up to the approval it may ask for and wait, or
\* the plan of a discard, which looks at the same report.
Clear(o, k) ==
    /\ pc[o] = "idle"
    /\ Healthy
    /\ AsTask(o) \/ AsDiscard(k)
    /\ kind' = [kind EXCEPT ![o] = k]
    /\ Goto(o, "cleared")
    /\ Disturb("overlap", Working # {})
    /\ UNCHANGED <<git, journal, arg, before, stamp, update, buf, faults>>

\* The ref to come back to is read; what the user names is a branch there is,
\* or for "create" one there is not.
Begin(o) ==
    /\ pc[o] = "cleared"
    /\ before' = [before EXCEPT ![o] = [branch |-> branch, ref |-> tip[branch]]]
    /\ \E b \in CASE kind[o] = "switch" -> DOMAIN tip
                  [] kind[o] = "create" -> Branch \ DOMAIN tip
                  [] OTHER -> {branch} : arg' = [arg EXCEPT ![o] = b]
    /\ Goto(o, "begun")
    /\ UNCHANGED <<git, journal, kind, stamp, current, update, buf, past, faults>>

\* Denied, nothing to do, or an error before the entry is in the journal.
Withdraw(o) ==
    /\ pc[o] \in {"cleared", "begun"}
    /\ End(o)
    /\ UNCHANGED <<git, journal, entry, update, buf, past, faults>>

\* OperationJournal.record: one append, of an entry stamped just before.
Record(o) ==
    /\ pc[o] = "begun"
    /\ stamp' = [stamp EXCEPT ![o] = 1 + Cardinality({x \in Op : stamp[x] > 0})]
    /\ file' = Put(file, o, "in-progress")
    /\ ledger' = Put(ledger, o, "in-progress")
    /\ Goto(o, "recorded")
    /\ Disturb("race", Rewriting # {})
    /\ UNCHANGED <<git, readable, kind, arg, before, current, update, buf, faults>>

-----------------------------------------------------------------------------
\* What git does. With a merge stopped it still takes a commit, which
\* concludes the merge, with a rebase stopped one that is on no branch.
Advance(o) ==
    /\ kind[o] \in Advancing
    /\ paused = None \/ kind[o] = "commit"
    /\ IF Detached
       THEN UNCHANGED <<tip, paused>>
       ELSE /\ tip' = [tip EXCEPT ![branch] = Append(@, o)]
            /\ paused' = None
    /\ UNCHANGED <<branch, published>>

Discard(o) ==
    /\ kind[o] = "discard"
    /\ paused' \in {paused} \union (IF Detached THEN {} ELSE {None})
    /\ UNCHANGED <<branch, tip, published>>

Push(o) ==
    /\ kind[o] = "push"
    /\ ~Detached
    /\ published' = published \union ToSet(tip[branch])
    /\ UNCHANGED <<branch, tip, paused>>

Checkout(o) ==
    /\ kind[o] \in {"switch", "create"}
    /\ paused = None
    /\ tip' = IF kind[o] = "switch" THEN tip
              ELSE [b \in DOMAIN tip \union {arg[o]} |-> IF b = arg[o] THEN tip[branch] ELSE tip[b]]
    /\ arg[o] \in DOMAIN tip'
    /\ branch' = arg[o]
    /\ UNCHANGED <<paused, published>>

\* A rebase that finds nothing to do counts as one.
Succeed(o) ==
    /\ pc[o] = "recorded"
    /\ Advance(o) \/ Discard(o) \/ Push(o) \/ Checkout(o)
    /\ Will(o, o, "completed")
    /\ Goto(o, "read")
    /\ UNCHANGED <<journal, entry, current, buf, past, faults>>

\* The error of a transaction is rolled back; the commit may have been made.
FailTransaction(o) ==
    /\ kind[o] \in Transacted
    /\ UNCHANGED git \/ (kind[o] = "commit" /\ Advance(o))
    /\ Goto(o, "rollback")
    /\ UNCHANGED <<current, update, past>>

\* A push may have reached the remote although git reports an error.
FailRecorded(o) ==
    /\ kind[o] \in Recorded
    /\ \/ UNCHANGED <<git, past>>
       \/ Push(o) /\ Disturb("unsettled", TRUE)
    /\ Will(o, o, "failed")
    /\ Goto(o, "read")
    /\ UNCHANGED current

\* The engines leave the entry open: a fast-forward has no catch, and a merge
\* or rebase takes every error for a conflict, which git may have stopped at.
FailOpen(o) ==
    /\ kind[o] \in Conflicting \union {"sync"}
    /\ \/ UNCHANGED paused
       \/ kind[o] \in Conflicting /\ paused = None /\ paused' = o
    /\ End(o)
    /\ UNCHANGED <<branch, tip, published, update, past>>

Fail(o) ==
    /\ pc[o] = "recorded"
    /\ FailTransaction(o) \/ FailRecorded(o) \/ FailOpen(o)
    /\ UNCHANGED <<journal, entry, buf, faults>>

\* reset --soft, which git refuses in a stopped merge, and in a stopped rebase
\* as long as there are conflicts; then it moves HEAD and not the branch.
ResetSoft(ref) ==
    /\ paused = None \/ Detached
    /\ tip' = IF Detached THEN tip ELSE [tip EXCEPT ![branch] = ref]
    /\ UNCHANGED <<branch, paused, published>>

\* reset --hard, which abandons a stopped merge.
ResetHard(ref) ==
    /\ IF Detached
       THEN UNCHANGED <<tip, paused>>
       ELSE tip' = [tip EXCEPT ![branch] = ref] /\ paused' = None
    /\ UNCHANGED <<branch, published>>

\* Transaction.rollback, of a commit or of a discarded tree.
Rollback(o) ==
    /\ pc[o] = "rollback"
    /\ \/ /\ IF kind[o] = "commit" THEN ResetSoft(before[o].ref) ELSE UNCHANGED git
          /\ Will(o, o, "rolled-back")
          /\ UNCHANGED past
       \/ /\ UNCHANGED git
          /\ Will(o, o, "failed")
          /\ Disturb("unsettled", TRUE)
    /\ Goto(o, "read")
    /\ UNCHANGED <<journal, entry, current, buf, faults>>

-----------------------------------------------------------------------------
\* OperationJournal.update and FilesystemJournalStorage.overwrite: the file is
\* read (twice; an entry missing from either read is an error, and what the
\* first finds of the others is not used), emptied, and filled with what was
\* read. An entry that is missing ends the process by an error.
Read(p) ==
    /\ pc[p] = "read"
    /\ \/ /\ readable /\ update[p].id \in DOMAIN file
          /\ buf' = [buf EXCEPT ![p] = file]
          /\ Goto(p, "rewrite")
          /\ Disturb("race", Rewriting # {})
          /\ UNCHANGED current
       \/ /\ ~(readable /\ update[p].id \in DOMAIN file)
          /\ End(p)
          /\ UNCHANGED <<buf, past>>
    /\ UNCHANGED <<git, journal, entry, update, faults>>

Truncate(p) ==
    /\ pc[p] = "rewrite"
    /\ file' = NoEntries
    /\ Goto(p, "fill")
    /\ UNCHANGED <<git, readable, ledger, entry, current, update, buf, past, faults>>

\* Mutant of Overwritten: only the entry that changed is written back.
OverwrittenAlone(entries, o, status) == [x \in {o} |-> status]

Overwritten(entries, o, status) == Put(entries, o, status)

\* What another process has written since the file was emptied is written
\* over; if it was longer, its tail remains.
Fill(p) ==
    /\ pc[p] = "fill"
    /\ file' = Overwritten(buf[p], update[p].id, update[p].status)
    /\ readable' \in IF file = NoEntries THEN {TRUE} ELSE BOOLEAN
    /\ ledger' = Put(ledger, update[p].id, update[p].status)
    /\ End(p)
    /\ UNCHANGED <<git, entry, update, buf, past, faults>>

Fault == faults < MaxFaults /\ faults' = faults + 1

Break(inFill) == past' = past \union {"broken"} \union (IF inFill THEN {"halfway"} ELSE {})

\* A write fails before it changed the file or half way. Only rollback()
\* tries again, with the status "failed".
WriteFails(p) ==
    /\ Fault
    /\ Break(p \in Filling)
    /\ \/ pc[p] = "begun" /\ readable' = FALSE
       \/ pc[p] = "rewrite" /\ UNCHANGED readable
       \/ pc[p] = "fill" /\ readable' \in {readable, FALSE}
    /\ IF p \in Op /\ pc[p] # "begun" /\ update[p].status = "rolled-back"
       THEN Will(p, p, "failed") /\ Goto(p, "read") /\ UNCHANGED current
       ELSE End(p) /\ UNCHANGED update
    /\ UNCHANGED <<git, file, ledger, entry, buf>>

\* TaskPlanner stops waiting for a task whose git commands go on.
Timeout(o) ==
    /\ Fault
    /\ o \in current
    /\ current' = current \ {o}
    /\ UNCHANGED <<git, journal, entry, pc, update, buf, past>>

Crash ==
    /\ Fault
    /\ Working # {}
    /\ pc' = [p \in Process |-> IF p \in Working THEN "ended" ELSE pc[p]]
    /\ current' = {}
    /\ readable' \in IF \E p \in Process : pc[p] \in {"begun", "fill"} THEN {readable, FALSE} ELSE {readable}
    /\ Break(Filling # {})
    /\ UNCHANGED <<git, file, ledger, entry, update, buf>>

-----------------------------------------------------------------------------
\* Mutants of Undoable: entries of pushes are passed over, as those of fetches
\* are; the status of an entry is not asked for.
UndoableLocally(entries) == {o \in DOMAIN entries : entries[o] = "completed" /\ kind[o] # "push"}
UndoableAnyway(entries) == DOMAIN entries

Undoable(entries) == {o \in DOMAIN entries : entries[o] = "completed"}

\* Mutant of Newest: the query sorts the other way.
Oldest(S) == {o \in S : \A x \in S : stamp[o] \leq stamp[x]}

Newest(S) == {o \in S : \A x \in S : stamp[x] \leq stamp[o]}

\* ApplicationService.undoLastExecution with "confirm", when the plan of the
\* journal is the one it prefers: refused while a task is tracked.
Plan(u) ==
    /\ pc[u] = "idle"
    /\ current = {}
    /\ readable
    /\ \E o \in Newest(Undoable(file)) : Will(u, o, "rolled-back")
    /\ Goto(u, "planned")
    /\ Disturb("overlap", Working # {})
    /\ UNCHANGED <<git, journal, entry, current, buf, faults>>

\* executeUndoPlan: the entry is read again, and an approval asked for a push,
\* under the repository's id, which ApprovalProvider can only deny.
Refetch(u) ==
    /\ pc[u] = "planned"
    /\ IF readable /\ update[u].id \in DOMAIN file /\ kind[update[u].id] # "push"
       THEN Goto(u, "reset") /\ UNCHANGED current
       ELSE End(u)
    /\ UNCHANGED <<git, journal, entry, update, buf, past, faults>>

DeleteBranch(b) ==
    /\ b # branch /\ b \in DOMAIN tip
    /\ tip' = [x \in DOMAIN tip \ {b} |-> tip[x]]
    /\ UNCHANGED <<branch, paused, published>>

SwitchBack(b) ==
    /\ paused = None /\ b \in DOMAIN tip
    /\ branch' = b
    /\ UNCHANGED <<tip, paused, published>>

\* The strategy the entry was recorded with.
TakeBack(o) ==
    \/ kind[o] = "commit" /\ ResetSoft(before[o].ref)
    \/ kind[o] \in {"sync", "merge", "rebase"} /\ ResetHard(before[o].ref)
    \/ kind[o] = "discard" /\ UNCHANGED git
    \/ kind[o] = "create" /\ DeleteBranch(arg[o])
    \/ kind[o] = "switch" /\ SwitchBack(before[o].branch)

Reset(u) ==
    /\ pc[u] = "reset"
    /\ TakeBack(update[u].id)
    /\ Goto(u, "read")
    /\ Disturb("midway", paused # None)
    /\ UNCHANGED <<journal, entry, current, update, buf, faults>>

UndoFails(u) ==
    /\ pc[u] = "reset"
    /\ End(u)
    /\ UNCHANGED <<git, journal, entry, update, buf, past, faults>>

\* /resume, when the conflicts are trivial: git goes on, the entry stays open.
Resume ==
    /\ readable /\ paused # None
    /\ tip' = [tip EXCEPT ![branch] = Append(@, paused)]
    /\ paused' = None
    /\ past' = past \union {"resumed"} \union (IF Working # {} THEN {"overlap"} ELSE {})
    /\ UNCHANGED <<branch, published, journal, entry, current, pc, update, buf, faults>>

\* /abort, and the one step a /recover of a stopped operation has.
Abort ==
    /\ readable /\ paused # None
    /\ paused' = None
    /\ UNCHANGED <<branch, tip, published, journal, entry, current, pc, update, buf, past, faults>>

Update(p) == Read(p) \/ Truncate(p) \/ Fill(p) \/ WriteFails(p)

Next ==
    \/ \E o \in Op : \/ \E k \in Kind : Clear(o, k)
                     \/ Begin(o) \/ Withdraw(o) \/ Record(o)
                     \/ Succeed(o) \/ Fail(o) \/ Rollback(o) \/ Timeout(o)
    \/ \E u \in Undo : Plan(u) \/ Refetch(u) \/ Reset(u) \/ UndoFails(u)
    \/ \E p \in Process : Update(p)
    \/ Crash \/ Resume \/ Abort

Spec == Init /\ [][Next]_vars

-----------------------------------------------------------------------------
\* No status is lost or brought back: whatever operations and undo requests
\* there were, and whatever failed or died before an update emptied the file or
\* after it had filled it, the journal reads as if each update had been one
\* step, as long as nothing was written while an update was at work.
NoLostEntries ==
    {"race", "halfway"} \intersect past = {} /\ Filling = {} => file = ledger

\* Known not to hold, see the README.
\* architecture.md calls the journal append-only: what was recorded stays in it.
EntriesStay == Filling = {} => DOMAIN ledger \subseteq DOMAIN file

\* The journal and git agree. When everything has ended, and nothing that past
\* names has happened, the histories hold just the operations that are
\* completed in the journal: no rollback, no undo and no conflict has left or
\* taken one too many.
JournalIsTrue ==
    past = {} /\ Working = {} =>
        Held(tip) = {o \in DOMAIN file : file[o] = "completed" /\ kind[o] \in Advancing}

\* No undo takes back what the remote has (AlreadyPushedError): the entry of
\* the push stands before those of the operations it published.
PublishedIsKept ==
    past \subseteq {"resumed", "midway"} => published \subseteq Held(tip)

\* PreflightValidationPolicy says that no mutating operation proceeds while
\* git has stopped at a conflict. None of those that pass it does, although
\* it judges a report made before the approval and the work.
NothingRunsStopped ==
    [][\A o \in Op : Succeed(o) \/ Fail(o) => "overlap" \in past \/ paused = None]_vars

\* GitHealthService.detectInterrupted looks for a stopped operation in the
\* newest entry only: it is there, and still open.
StoppedIsNewest ==
    paused # None /\ past \subseteq {"resumed", "midway", "unsettled"} =>
        /\ paused \in DOMAIN ledger /\ ledger[paused] = "in-progress"
        /\ \A o \in DOMAIN ledger : stamp[o] \leq stamp[paused]

\* Known not to hold, see the README.
\* An undo while git has stopped is a mutating operation too.
UndoWaitsForGit == [][\A u \in Undo : Reset(u) => paused = None]_vars

\* Known not to hold, see the README.
\* ApplicationService says that only the latest operation is ever undone,
\* since the reset of an earlier one discards what is on top of it.
UndoKeepsLaterWork ==
    [][\A u \in Undo : Reset(u) /\ past \subseteq {"resumed"} =>
          Held(tip) \ Held(tip') \subseteq {update[u].id}]_vars
=============================================================================
