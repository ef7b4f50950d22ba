-------------------------- MODULE GitJournalProofs --------------------------
(***************************************************************************)
(* The promises of GitJournal, for any number of operations, undo requests *)
(* and faults.                                                             *)
(*                                                                         *)
(* No status in the journal is lost as long as no two updates of it        *)
(* overlap and no rewrite ends half way: an update that has read the file  *)
(* then is the only one, and what it has read is current. No operation     *)
(* that passed the preflight works while git has stopped at a conflict, as *)
(* long as what works is alone: only an operation can stop git, and it     *)
(* ends where it does. What has stopped git is the newest entry, and open. *)
(*                                                                         *)
(* The journal and git agree, and what the remote has is never taken back. *)
(* Both rest on what Standing is, the operations whose effect git has at a *)
(* time, and on how it changes: only Succeed adds to it, at the end, and   *)
(* only the Reset of an undo takes from it, the newest. HEAD and every     *)
(* branch are then as the newest of Standing that moved them left them,    *)
(* and a reset brings back what was there when the one it undoes began.    *)
(***************************************************************************)
EXTENDS GitJournal, FiniteSetTheorems, SequenceTheorems, TLAPS

Places == {"idle", "cleared", "begun", "recorded", "rollback", "planned",
           "reset", "read", "rewrite", "fill", "ended"}

Shapes == pc \in [Process -> Places] /\ DOMAIN buf = Process

ReaderIsCurrent ==
    "race" \notin past /\ "halfway" \notin past =>
        /\ \A p, q \in Rewriting : p = q
        /\ \A p \in Rewriting : buf[p] = ledger
        /\ Filling = {} => file = ledger

Calm ==
    "overlap" \notin past =>
        /\ \A p, q \in Working : p = q
        /\ \A o \in Op \intersect Working : paused = None

LEMMA OpsAreProcesses == Op \subseteq Process /\ Undo \subseteq Process
  BY DEF Process

\* What has disturbed a run is never forgotten.
LEMMA PastGrows == [Next]_vars => past \subseteq past'
  BY Zenon DEF Next, vars, git, journal, entry, Disturb, Clear, Begin, Withdraw,
     Record, Succeed, Fail, FailTransaction, FailRecorded, FailOpen, Rollback,
     Update, Read, Truncate, Fill, WriteFails, Break, Timeout, Crash, Plan, Refetch,
     Reset, UndoFails, Resume, Abort

-----------------------------------------------------------------------------
\* Every process takes its steps one at a time, from one place to another.
LEMMA ShapesHold == Spec => []Shapes
  <1>1. Init => Shapes
    BY DEF Init, Shapes, Places
  <1>2. Shapes /\ [Next]_vars => Shapes'
    <2> SUFFICES ASSUME Shapes, [Next]_vars PROVE Shapes'
      OBVIOUS
    <2> USE OpsAreProcesses
    <2>1. ASSUME NEW o \in Op, NEW k \in Kind, Clear(o, k) PROVE Shapes'
      BY <2>1 DEF Shapes, Places, Clear, Goto
    <2>2. ASSUME NEW o \in Op, Begin(o) \/ Withdraw(o) \/ Record(o) PROVE Shapes'
      BY <2>2 DEF Shapes, Places, Begin, Withdraw, Record, Goto, End
    <2>3. ASSUME NEW o \in Op, Succeed(o) \/ Rollback(o) PROVE Shapes'
      BY <2>3 DEF Shapes, Places, Succeed, Rollback, Goto
    <2>4. ASSUME NEW o \in Op, Fail(o) PROVE Shapes'
      BY <2>4 DEF Shapes, Places, Fail, FailTransaction, FailRecorded, FailOpen, Goto, End
    <2>5. ASSUME NEW u \in Undo, Plan(u) \/ Refetch(u) \/ Reset(u) \/ UndoFails(u)
          PROVE  Shapes'
      BY <2>5 DEF Shapes, Places, Plan, Refetch, Reset, UndoFails, Goto, End
    <2>6. ASSUME NEW p \in Process, Update(p) PROVE Shapes'
      BY <2>6 DEF Shapes, Places, Update, Read, Truncate, Fill, WriteFails, Goto, End
    <2>7. ASSUME Crash PROVE Shapes'
      BY <2>7 DEF Shapes, Places, Crash
    <2>8. CASE \/ \E o \in Op : Timeout(o)
               \/ Resume \/ Abort \/ UNCHANGED vars
      BY <2>8 DEF Shapes, Timeout, Resume, Abort, vars
    <2> QED
      BY <2>1, <2>2, <2>3, <2>4, <2>5, <2>6, <2>7, <2>8 DEF Next
  <1> QED BY <1>1, <1>2, PTL DEF Spec

-----------------------------------------------------------------------------
\* A step outside the update of the journal disturbs none that goes on.
LEMMA ElsewhereKeepsReader ==
    ASSUME Shapes, ReaderIsCurrent, past \subseteq past', NEW p \in Process,
           NEW place \in Places \ {"rewrite", "fill"},
           pc[p] \notin {"rewrite", "fill"}, Goto(p, place),
           UNCHANGED <<file, ledger, buf>>
    PROVE  ReaderIsCurrent'
  <1>1. Rewriting' = Rewriting /\ Filling' = Filling
    BY DEF Shapes, Places, Rewriting, Filling, Goto
  <1> QED BY <1>1 DEF ReaderIsCurrent, Rewriting

LEMMA ReaderInit == Init => ReaderIsCurrent
  BY DEF Init, ReaderIsCurrent, Rewriting, Filling

LEMMA RecordKeepsReader ==
    ASSUME Shapes, ReaderIsCurrent, NEW o \in Op, Record(o)
    PROVE  ReaderIsCurrent'
  <1> SUFFICES ASSUME "race" \notin past', "halfway" \notin past' PROVE ReaderIsCurrent'
    BY DEF ReaderIsCurrent
  <1>1. "race" \notin past /\ "halfway" \notin past /\ Rewriting = {} /\ Filling = {}
    BY DEF Record, Disturb, Rewriting, Filling
  <1>2. Rewriting' = {} /\ Filling' = {}
    BY <1>1, OpsAreProcesses DEF Shapes, Places, Record, Goto, Rewriting, Filling
  <1>3. file' = ledger'
    BY <1>1 DEF ReaderIsCurrent, Record
  <1> QED BY <1>2, <1>3 DEF ReaderIsCurrent

LEMMA UpdateKeepsReader ==
    ASSUME Shapes, ReaderIsCurrent, past \subseteq past', NEW p \in Process, Update(p)
    PROVE  ReaderIsCurrent'
  <1> SUFFICES ASSUME "race" \notin past', "halfway" \notin past' PROVE ReaderIsCurrent'
    BY DEF ReaderIsCurrent
  <1>1. "race" \notin past /\ "halfway" \notin past
    OBVIOUS
  <1>2. CASE Read(p)
    <2>1. CASE readable /\ update[p].id \in DOMAIN file
      <3>1. Rewriting = {} /\ Filling = {} /\ file = ledger
        BY <1>1, <1>2, <2>1 DEF Read, Disturb, Rewriting, Filling, ReaderIsCurrent
      <3>2. Rewriting' = {p} /\ Filling' = {}
        BY <1>2, <2>1, <3>1 DEF Read, Goto, Shapes, Places, Rewriting, Filling
      <3>3. buf'[p] = file /\ UNCHANGED <<file, ledger>>
        BY <1>2, <2>1 DEF Read, Shapes, journal
      <3> QED BY <3>1, <3>2, <3>3 DEF ReaderIsCurrent
    <2>2. CASE ~(readable /\ update[p].id \in DOMAIN file)
      <3>1. Goto(p, "ended") /\ UNCHANGED <<file, ledger, buf>>
        BY <1>2, <2>2 DEF Read, End, journal
      <3> QED BY <1>2, <3>1, ElsewhereKeepsReader DEF Read, Places
    <2> QED BY <2>1, <2>2
  <1>3. CASE Truncate(p)
    <2>1. Rewriting = {p} /\ buf[p] = ledger
      BY <1>1, <1>3 DEF Truncate, Rewriting, ReaderIsCurrent
    <2>2. Rewriting' = {p} /\ Filling' = {p}
      BY <1>3, <2>1 DEF Truncate, Goto, Shapes, Places, Rewriting, Filling
    <2>3. UNCHANGED <<ledger, buf>>
      BY <1>3 DEF Truncate
    <2> QED BY <2>1, <2>2, <2>3 DEF ReaderIsCurrent
  <1>4. CASE Fill(p)
    <2>1. Rewriting = {p} /\ buf[p] = ledger
      BY <1>1, <1>4 DEF Fill, Rewriting, ReaderIsCurrent
    <2>2. Rewriting' = {} /\ Filling' = {}
      BY <1>4, <2>1 DEF Fill, End, Goto, Shapes, Places, Rewriting, Filling
    <2>3. file' = ledger'
      BY <1>4, <2>1 DEF Fill, Overwritten
    <2> QED BY <2>2, <2>3 DEF ReaderIsCurrent
  <1>5. CASE WriteFails(p)
    <2>1. \E place \in {"read", "ended"} : Goto(p, place)
      BY <1>5 DEF WriteFails, End
    <2>2. UNCHANGED buf
      BY <1>5 DEF WriteFails
    <2>3. CASE pc[p] = "begun"
      BY <1>5, <2>1, <2>2, <2>3, ElsewhereKeepsReader DEF WriteFails, Places
    <2>4. CASE pc[p] \in {"rewrite", "fill"}
      <3>1. Rewriting = {p} /\ Rewriting' = {} /\ Filling' = {}
        BY <1>1, <2>1, <2>4
        DEF Goto, Shapes, Places, Rewriting, Filling, ReaderIsCurrent
      <3>2. file' = ledger'
        <4>1. CASE pc[p] = "rewrite"
          BY <1>1, <1>5, <3>1, <4>1
          DEF WriteFails, journal, Rewriting, Filling, ReaderIsCurrent
        <4>2. CASE pc[p] = "fill"
          BY <1>5, <4>2 DEF WriteFails, Break, Filling
        <4> QED BY <2>4, <4>1, <4>2
      <3> QED BY <3>1, <3>2 DEF ReaderIsCurrent
    <2> QED BY <1>5, <2>3, <2>4 DEF WriteFails
  <1> QED BY <1>2, <1>3, <1>4, <1>5 DEF Update

LEMMA CrashKeepsReader ==
    ASSUME Shapes, ReaderIsCurrent, past \subseteq past', Crash
    PROVE  ReaderIsCurrent'
  <1>1. Rewriting' = {} /\ Filling' = {}
    BY DEF Crash, Shapes, Places, Rewriting, Filling, Working
  <1>2. "race" \notin past' /\ "halfway" \notin past' => file' = ledger'
    BY DEF Crash, Break, ReaderIsCurrent
  <1> QED BY <1>1, <1>2 DEF ReaderIsCurrent

LEMMA NextKeepsReader ==
    ASSUME Shapes, ReaderIsCurrent, [Next]_vars
    PROVE  ReaderIsCurrent'
  <1>1. past \subseteq past'
    BY PastGrows
  <1>2. ASSUME NEW p \in Process, NEW place \in Places \ {"rewrite", "fill"},
               pc[p] \notin {"rewrite", "fill"}, Goto(p, place),
               UNCHANGED <<file, ledger, buf>>
        PROVE  ReaderIsCurrent'
    BY <1>1, <1>2, ElsewhereKeepsReader
  <1> USE OpsAreProcesses DEF journal
  <1>3. ASSUME NEW o \in Op, NEW k \in Kind, Clear(o, k) PROVE ReaderIsCurrent'
    BY <1>2, <1>3 DEF Clear, Places
  <1>4. ASSUME NEW o \in Op, Begin(o) \/ Withdraw(o) PROVE ReaderIsCurrent'
    BY <1>2, <1>4 DEF Begin, Withdraw, End, Places
  <1>5. ASSUME NEW o \in Op, Record(o) PROVE ReaderIsCurrent'
    BY <1>5, RecordKeepsReader
  <1>6. ASSUME NEW o \in Op, Succeed(o) \/ Rollback(o) PROVE ReaderIsCurrent'
    <2>1. Goto(o, "read") /\ pc[o] \in {"recorded", "rollback"} /\ UNCHANGED <<file, ledger, buf>>
      BY <1>6 DEF Succeed, Rollback
    <2> QED BY <1>2, <2>1 DEF Places
  <1>7. ASSUME NEW o \in Op, Fail(o) PROVE ReaderIsCurrent'
    <2>1. \E place \in {"rollback", "read", "ended"} : Goto(o, place)
      BY <1>7 DEF Fail, FailTransaction, FailRecorded, FailOpen, End
    <2>2. pc[o] = "recorded" /\ UNCHANGED <<file, ledger, buf>>
      BY <1>7 DEF Fail
    <2> QED BY <1>2, <2>1, <2>2 DEF Places
  <1>8. ASSUME NEW u \in Undo, Plan(u) \/ Refetch(u) \/ Reset(u) \/ UndoFails(u)
        PROVE  ReaderIsCurrent'
    <2>1. \E place \in {"planned", "reset", "read", "ended"} : Goto(u, place)
      BY <1>8 DEF Plan, Refetch, Reset, UndoFails, End
    <2>2. pc[u] \in {"idle", "planned", "reset"} /\ UNCHANGED <<file, ledger, buf>>
      BY <1>8 DEF Plan, Refetch, Reset, UndoFails
    <2> QED BY <1>2, <2>1, <2>2 DEF Places
  <1>9. ASSUME NEW p \in Process, Update(p) PROVE ReaderIsCurrent'
    BY <1>1, <1>9, UpdateKeepsReader
  <1>10. ASSUME Crash PROVE ReaderIsCurrent'
    BY <1>1, <1>10, CrashKeepsReader
  <1>11. CASE \/ \E o \in Op : Timeout(o)
              \/ Resume \/ Abort \/ UNCHANGED vars
    <2>1. UNCHANGED <<file, ledger, buf, pc>>
      BY <1>11 DEF Timeout, Resume, Abort, vars
    <2>2. Rewriting' = Rewriting /\ Filling' = Filling
      BY <2>1 DEF Rewriting, Filling
    <2> QED BY <1>1, <2>1, <2>2 DEF ReaderIsCurrent
  <1> QED
    BY <1>3, <1>4, <1>5, <1>6, <1>7, <1>8, <1>9, <1>10, <1>11 DEF Next

\* No status is lost from the journal or brought back in it, whatever fails
\* before or after the rewrite of an update, as long as nothing is written
\* while an update is at work and no rewrite ends half way
\* (OperationJournal.update over FilesystemJournalStorage.overwrite).
THEOREM NoEntryIsLost == Spec => []NoLostEntries
  <1>1. ReaderIsCurrent => NoLostEntries
    BY DEF ReaderIsCurrent, NoLostEntries
  <1> QED
    BY <1>1, ShapesHold, ReaderInit, NextKeepsReader, PTL DEF Spec

-----------------------------------------------------------------------------
\* A step of what works, other than the one that stops git.
LEMMA WorkingKeepsCalm ==
    ASSUME Shapes, Calm, past \subseteq past', NEW p \in Working, NEW place \in Places,
           Goto(p, place), paused' \in {paused, None}
    PROVE  Calm'
  <1>1. Working' \subseteq Working
    BY DEF Shapes, Places, Working, Goto
  <1> QED BY <1>1 DEF Calm

LEMMA CalmInit == Init => Calm
  BY DEF Init, Calm, Working

\* What begins is alone, or the run is disturbed.
LEMMA ClearKeepsCalm ==
    ASSUME Shapes, Calm, NEW o \in Op, NEW k \in Kind, Clear(o, k)
    PROVE  Calm'
  <1> SUFFICES ASSUME "overlap" \notin past' PROVE Calm'
    BY DEF Calm
  <1>1. Working = {}
    BY DEF Clear, Disturb
  <1>2. Working' = {o}
    BY <1>1, OpsAreProcesses DEF Clear, Goto, Shapes, Places, Working
  <1>3. paused' = None
    BY DEF Clear, Healthy, git
  <1> QED BY <1>2, <1>3 DEF Calm

LEMMA PlanKeepsCalm ==
    ASSUME Shapes, Calm, NEW u \in Undo, Plan(u)
    PROVE  Calm'
  <1> SUFFICES ASSUME "overlap" \notin past' PROVE Calm'
    BY DEF Calm
  <1>1. Working = {}
    BY DEF Plan, Disturb
  <1>2. Working' = {u}
    BY <1>1, OpsAreProcesses DEF Plan, Goto, Shapes, Places, Working
  <1> QED BY <1>2, GitJournalAssumption DEF Calm

\* Who stops git ends, and was alone.
LEMMA FailOpenKeepsCalm ==
    ASSUME Shapes, Calm, NEW o \in Working, past \subseteq past', Goto(o, "ended")
    PROVE  Calm'
  <1>1. Working' = Working \ {o}
    BY DEF Goto, Shapes, Working
  <1> QED BY <1>1 DEF Calm

LEMMA NextKeepsCalm ==
    ASSUME Shapes, Calm, [Next]_vars
    PROVE  Calm'
  <1>1. past \subseteq past'
    BY PastGrows
  <1>2. ASSUME NEW p \in Working, NEW place \in Places, Goto(p, place),
               paused' \in {paused, None}
        PROVE  Calm'
    BY <1>1, <1>2, WorkingKeepsCalm
  <1> USE OpsAreProcesses DEF git
  <1>3. ASSUME NEW o \in Op, NEW k \in Kind, Clear(o, k) PROVE Calm'
    BY <1>3, ClearKeepsCalm
  <1>4. ASSUME NEW o \in Op, Begin(o) \/ Withdraw(o) \/ Record(o) PROVE Calm'
    <2>1. \E place \in Places : Goto(o, place)
      BY <1>4 DEF Begin, Withdraw, Record, End, Places
    <2>2. o \in Working /\ paused' = paused
      BY <1>4 DEF Begin, Withdraw, Record, Working
    <2> QED BY <1>2, <2>1, <2>2
  <1>5. ASSUME NEW o \in Op, Succeed(o) PROVE Calm'
    <2>1. o \in Working /\ Goto(o, "read")
      BY <1>5 DEF Succeed, Working
    <2>2. paused' \in {paused, None}
      BY <1>5 DEF Succeed, Advance, Discard, Push, Checkout
    <2> QED BY <1>2, <2>1, <2>2 DEF Places
  <1>6. ASSUME NEW o \in Op, Rollback(o) PROVE Calm'
    <2>1. o \in Working /\ Goto(o, "read")
      BY <1>6 DEF Rollback, Working
    <2>2. paused' = paused
      BY <1>6 DEF Rollback, ResetSoft
    <2> QED BY <1>2, <2>1, <2>2 DEF Places
  <1>7. ASSUME NEW o \in Op, Fail(o) PROVE Calm'
    <2>1. o \in Working
      BY <1>7 DEF Fail, Working
    <2>2. CASE FailTransaction(o) \/ FailRecorded(o)
      <3>1. \E place \in Places : Goto(o, place)
        BY <2>2 DEF FailTransaction, FailRecorded, Places
      <3>2. paused' \in {paused, None}
        BY <2>2 DEF FailTransaction, FailRecorded, Advance, Push
      <3> QED BY <1>2, <2>1, <3>1, <3>2
    <2>3. CASE FailOpen(o)
      BY <1>1, <2>1, <2>3, FailOpenKeepsCalm DEF FailOpen, End
    <2> QED BY <1>7, <2>2, <2>3 DEF Fail
  <1>8. ASSUME NEW u \in Undo, Plan(u) PROVE Calm'
    BY <1>8, PlanKeepsCalm
  <1>9. ASSUME NEW u \in Undo, Refetch(u) \/ UndoFails(u) PROVE Calm'
    <2>1. \E place \in Places : Goto(u, place)
      BY <1>9 DEF Refetch, UndoFails, End, Places
    <2>2. u \in Working /\ paused' = paused
      BY <1>9 DEF Refetch, UndoFails, Working
    <2> QED BY <1>2, <2>1, <2>2
  <1>10. ASSUME NEW u \in Undo, Reset(u) PROVE Calm'
    <2>1. u \in Working /\ Goto(u, "read")
      BY <1>10 DEF Reset, Working
    <2>2. paused' \in {paused, None}
      BY <1>10 DEF Reset, TakeBack, ResetSoft, ResetHard, DeleteBranch, SwitchBack
    <2> QED BY <1>2, <2>1, <2>2 DEF Places
  <1>11. ASSUME NEW p \in Process, Update(p) PROVE Calm'
    <2>1. \E place \in Places : Goto(p, place)
      BY <1>11 DEF Update, Read, Truncate, Fill, WriteFails, End, Places
    <2>2. p \in Working /\ paused' = paused
      BY <1>11 DEF Update, Read, Truncate, Fill, WriteFails, Working
    <2> QED BY <1>2, <2>1, <2>2
  <1>12. ASSUME Crash PROVE Calm'
    <2>1. Working' = {}
      BY <1>12 DEF Crash, Shapes, Places, Working
    <2> QED BY <2>1 DEF Calm
  <1>13. CASE Resume \/ Abort
    <2>1. Working' = Working /\ paused' = None
      BY <1>13 DEF Resume, Abort, Working
    <2> QED BY <1>1, <2>1 DEF Calm
  <1>14. CASE (\E o \in Op : Timeout(o)) \/ UNCHANGED vars
    <2>1. Working' = Working /\ paused' = paused
      BY <1>14 DEF Timeout, vars, Working
    <2> QED BY <1>1, <2>1 DEF Calm
  <1> QED
    BY <1>3, <1>4, <1>5, <1>6, <1>7, <1>8, <1>9, <1>10, <1>11, <1>12, <1>13, <1>14
    DEF Next

\* No operation that passed the preflight is carried out while git has stopped
\* at a conflict (PreflightValidationPolicy.validate), as long as nothing
\* began while it was at work.
THEOREM NothingRunsOnAStoppedRepository == Spec => NothingRunsStopped
  <1>1. Calm => \A o \in Op : Succeed(o) \/ Fail(o) => "overlap" \in past \/ paused = None
    BY OpsAreProcesses DEF Calm, Succeed, Fail, Working
  <1> QED
    BY <1>1, ShapesHold, CalmInit, NextKeepsCalm, PTL DEF Spec, NothingRunsStopped
-----------------------------------------------------------------------------
\* The parts of the type invariant. Only the last is more than TypeOK says: a
\* process that is to update an entry knows which.
GitType ==
    /\ branch \in DOMAIN tip /\ DOMAIN tip \subseteq Branch
    /\ tip \in [DOMAIN tip -> History]
    /\ paused \in Op \union {None}
    /\ published \subseteq Op

EntryType ==
    /\ kind \in [Op -> AllKinds]
    /\ arg \in [Op -> Branch]
    /\ before \in [Op -> [branch : Branch, ref : History]]
    /\ stamp \in [Op -> Nat]

PlaceType ==
    /\ pc \in [Process -> Places]
    /\ current \subseteq Op \intersect Working

JournalType ==
    /\ file \in Journal /\ ledger \in Journal
    /\ readable \in BOOLEAN
    /\ update \in [Process -> [id : Op \union {None}, status : Status]]
    /\ buf \in [Process -> Journal]
    /\ \A p \in Process :
         pc[p] \in {"planned", "reset", "read", "rewrite", "fill"} => update[p].id \in Op

BoundType == past \subseteq Disturbance /\ faults \in 0..MaxFaults

TypeInv == GitType /\ EntryType /\ PlaceType /\ JournalType /\ BoundType

LEMMA JournalMembers ==
    \A e : e \in Journal <=> \E S \in SUBSET Op : e \in [S -> Status]
  BY DEF Journal

LEMMA PutType ==
    ASSUME NEW entries \in Journal, NEW o \in Op, NEW status \in Status
    PROVE  Put(entries, o, status) \in Journal
  <1>1. PICK S \in SUBSET Op : entries \in [S -> Status]
    BY JournalMembers
  <1>2. Put(entries, o, status) \in [S \union {o} -> Status]
    BY <1>1 DEF Put
  <1> QED BY <1>2, JournalMembers

LEMMA NoEntriesType == NoEntries \in Journal
  <1>1. NoEntries \in [{} -> Status]
    BY DEF NoEntries
  <1> QED BY <1>1, JournalMembers

LEMMA InitType == Init => TypeInv
  <1> SUFFICES ASSUME Init PROVE TypeInv
    OBVIOUS
  <1> USE GitJournalAssumption DEF Init
  <1>1. GitType BY DEF GitType, History
  <1>2. EntryType BY DEF EntryType, AllKinds, History
  <1>3. PlaceType BY DEF PlaceType, Places
  <1>4. JournalType BY NoEntriesType DEF JournalType, Status
  <1>5. BoundType BY DEF BoundType
  <1> QED BY <1>1, <1>2, <1>3, <1>4, <1>5 DEF TypeInv

\* What git does leaves it well formed.
LEMMA AdvanceType ==
    ASSUME TypeInv, NEW o \in Op, Advance(o)
    PROVE  GitType'
  BY DEF TypeInv, GitType, History, Advance

LEMMA PushType ==
    ASSUME TypeInv, NEW o \in Op, Push(o)
    PROVE  GitType'
  <1>1. ToSet(tip[branch]) \subseteq Op
    BY DEF TypeInv, GitType, History, ToSet
  <1> QED BY <1>1 DEF TypeInv, GitType, Push

LEMMA CheckoutType ==
    ASSUME TypeInv, NEW o \in Op, Checkout(o)
    PROVE  GitType'
  <1>1. CASE kind[o] = "switch"
    BY <1>1 DEF TypeInv, GitType, Checkout
  <1>2. CASE kind[o] # "switch"
    <2>1. tip' \in [DOMAIN tip \union {arg[o]} -> History]
      BY <1>2 DEF TypeInv, GitType, Checkout
    <2>2. arg[o] \in Branch
      BY DEF TypeInv, EntryType
    <2>3. DOMAIN tip' = DOMAIN tip \union {arg[o]}
      BY <2>1
    <2> QED BY <2>1, <2>2, <2>3 DEF TypeInv, GitType, Checkout
  <1> QED BY <1>1, <1>2

LEMMA ResetType ==
    ASSUME TypeInv, NEW ref \in History, ResetSoft(ref) \/ ResetHard(ref)
    PROVE  GitType'
  BY DEF TypeInv, GitType, ResetSoft, ResetHard

LEMMA TakeBackType ==
    ASSUME TypeInv, NEW o \in Op, TakeBack(o)
    PROVE  GitType'
  <1>1. before[o].ref \in History
    BY DEF TypeInv, EntryType
  <1>2. CASE DeleteBranch(arg[o])
    <2>1. tip' \in [DOMAIN tip \ {arg[o]} -> History]
      BY <1>2 DEF TypeInv, GitType, DeleteBranch
    <2>2. DOMAIN tip' = DOMAIN tip \ {arg[o]}
      BY <2>1
    <2> QED BY <1>2, <2>1, <2>2 DEF TypeInv, GitType, DeleteBranch
  <1>3. CASE SwitchBack(before[o].branch)
    BY <1>3 DEF TypeInv, GitType, SwitchBack
  <1>4. CASE UNCHANGED git
    BY <1>4 DEF TypeInv, GitType, git
  <1> QED BY <1>1, <1>2, <1>3, <1>4, ResetType DEF TakeBack

LEMMA NextGitType ==
    ASSUME TypeInv, [Next]_vars
    PROVE  GitType'
  <1>1. CASE UNCHANGED git
    BY <1>1 DEF TypeInv, GitType, git
  <1>2. ASSUME NEW o \in Op, Succeed(o) PROVE GitType'
    <2>1. CASE Discard(o)
      BY <2>1 DEF TypeInv, GitType, Discard
    <2> QED BY <1>2, <2>1, AdvanceType, PushType, CheckoutType DEF Succeed
  <1>3. ASSUME NEW o \in Op, Fail(o) PROVE GitType'
    <2>1. CASE FailOpen(o)
      BY <2>1 DEF TypeInv, GitType, FailOpen
    <2> QED
      BY <1>1, <1>3, <2>1, AdvanceType, PushType
      DEF Fail, FailTransaction, FailRecorded, git
  <1>4. ASSUME NEW o \in Op, Rollback(o) PROVE GitType'
    <2>1. before[o].ref \in History
      BY DEF TypeInv, EntryType
    <2> QED BY <1>1, <1>4, <2>1, ResetType DEF Rollback
  <1>5. ASSUME NEW u \in Undo, Reset(u) PROVE GitType'
    <2>1. update[u].id \in Op
      BY <1>5, OpsAreProcesses DEF TypeInv, JournalType, Reset
    <2> QED BY <1>5, <2>1, TakeBackType DEF Reset
  <1>6. CASE Resume
    BY <1>6 DEF TypeInv, GitType, History, Resume
  <1>7. CASE Abort
    BY <1>7 DEF TypeInv, GitType, Abort
  <1>8. ASSUME NEW o \in Op, NEW k \in Kind, Clear(o, k) PROVE UNCHANGED git
    BY <1>8 DEF Clear
  <1> QED
    <2>1. ASSUME NEW o \in Op, Begin(o) \/ Withdraw(o) \/ Record(o) \/ Timeout(o)
          PROVE  UNCHANGED git
      BY <2>1 DEF Begin, Withdraw, Record, Timeout
    <2>2. ASSUME NEW u \in Undo, Plan(u) \/ Refetch(u) \/ UndoFails(u)
          PROVE  UNCHANGED git
      BY <2>2 DEF Plan, Refetch, UndoFails
    <2>3. ASSUME NEW p \in Process, Update(p) PROVE UNCHANGED git
      BY <2>3 DEF Update, Read, Truncate, Fill, WriteFails
    <2>4. ASSUME Crash \/ UNCHANGED vars PROVE UNCHANGED git
      BY <2>4 DEF Crash, vars
    <2> QED
      BY <1>1, <1>2, <1>3, <1>4, <1>5, <1>6, <1>7, <1>8, <2>1, <2>2, <2>3, <2>4
      DEF Next

LEMMA StampType ==
    ASSUME TypeInv
    PROVE  1 + Cardinality({x \in Op : stamp[x] > 0}) \in Nat
  <1>1. IsFiniteSet({x \in Op : stamp[x] > 0})
    BY GitJournalAssumption, FS_Subset
  <1> QED BY <1>1, FS_CardinalityType

LEMMA NextEntryType ==
    ASSUME TypeInv, [Next]_vars
    PROVE  EntryType'
  <1> USE DEF entry
  <1>1. CASE UNCHANGED entry
    BY <1>1 DEF TypeInv, EntryType
  <1>2. ASSUME NEW o \in Op, NEW k \in Kind, Clear(o, k) PROVE EntryType'
    BY <1>2, GitJournalAssumption DEF TypeInv, EntryType, Clear
  <1>3. ASSUME NEW o \in Op, Begin(o) PROVE EntryType'
    <2>1. tip[branch] \in History /\ branch \in Branch /\ DOMAIN tip \subseteq Branch
      BY DEF TypeInv, GitType
    <2>2. \E b \in Branch : arg' = [arg EXCEPT ![o] = b]
      BY <1>3, <2>1, Zenon DEF Begin
    <2>3. /\ before' = [before EXCEPT ![o] = [branch |-> branch, ref |-> tip[branch]]]
          /\ UNCHANGED <<kind, stamp>>
      BY <1>3, Zenon DEF Begin
    <2> QED BY <2>1, <2>2, <2>3 DEF TypeInv, EntryType
  <1>4. ASSUME NEW o \in Op, Record(o) PROVE EntryType'
    BY <1>4, StampType DEF TypeInv, EntryType, Record
  <1>5. ASSUME NEW o \in Op, Withdraw(o) \/ Succeed(o) \/ Fail(o) \/ Rollback(o) \/ Timeout(o)
        PROVE  UNCHANGED entry
    BY <1>5 DEF Withdraw, Succeed, Fail, Rollback, Timeout
  <1>6. ASSUME NEW u \in Undo, Plan(u) \/ Refetch(u) \/ Reset(u) \/ UndoFails(u)
        PROVE  UNCHANGED entry
    BY <1>6 DEF Plan, Refetch, Reset, UndoFails
  <1>7. ASSUME NEW p \in Process, Update(p) PROVE UNCHANGED entry
    BY <1>7 DEF Update, Read, Truncate, Fill, WriteFails
  <1>8. ASSUME Crash \/ Resume \/ Abort \/ UNCHANGED vars PROVE UNCHANGED entry
    BY <1>8 DEF Crash, Resume, Abort, vars
  <1> QED
    BY <1>1, <1>2, <1>3, <1>4, <1>5, <1>6, <1>7, <1>8 DEF Next

\* A task is tracked only while its workflow is at work.
LEMMA StepPlaceType ==
    ASSUME TypeInv, NEW p \in Process, NEW place \in Places, Goto(p, place),
           \/ place \notin {"idle", "ended"}
              /\ current' \subseteq current \union (Op \intersect {p})
           \/ current' = current \ {p}
    PROVE  PlaceType'
  BY DEF TypeInv, PlaceType, Places, Working, Goto

LEMMA EndPlaceType ==
    ASSUME TypeInv, NEW p \in Process, End(p)
    PROVE  PlaceType'
  BY StepPlaceType DEF End, Places

LEMMA NextPlaceType ==
    ASSUME TypeInv, [Next]_vars
    PROVE  PlaceType'
  <1> USE OpsAreProcesses
  <1>1. ASSUME NEW p \in Process, NEW place \in Places \ {"idle", "ended"},
               Goto(p, place), UNCHANGED current
        PROVE  PlaceType'
    BY <1>1, StepPlaceType
  <1>2. ASSUME NEW o \in Op, NEW k \in Kind, Clear(o, k) PROVE PlaceType'
    BY <1>2, StepPlaceType DEF Clear, AsTask, AsDiscard, Places
  <1>3. ASSUME NEW o \in Op, Begin(o) \/ Withdraw(o) \/ Record(o) PROVE PlaceType'
    BY <1>1, <1>3, EndPlaceType DEF Begin, Withdraw, Record, Places
  <1>4. ASSUME NEW o \in Op, Succeed(o) \/ Rollback(o) PROVE PlaceType'
    <2>1. Goto(o, "read") /\ UNCHANGED current
      BY <1>4 DEF Succeed, Rollback
    <2> QED BY <1>1, <2>1 DEF Places
  <1>5. ASSUME NEW o \in Op, Fail(o) PROVE PlaceType'
    BY <1>1, <1>5, EndPlaceType
    DEF Fail, FailTransaction, FailRecorded, FailOpen, Places
  <1>6. ASSUME NEW u \in Undo, Plan(u) \/ Refetch(u) \/ Reset(u) \/ UndoFails(u)
        PROVE  PlaceType'
    BY <1>1, <1>6, EndPlaceType DEF Plan, Refetch, Reset, UndoFails, Places
  <1>7. ASSUME NEW p \in Process, Update(p) PROVE PlaceType'
    BY <1>1, <1>7, EndPlaceType DEF Update, Read, Truncate, Fill, WriteFails, Places
  <1>8. ASSUME NEW o \in Op, Timeout(o) PROVE PlaceType'
    BY <1>8 DEF TypeInv, PlaceType, Working, Timeout
  <1>9. ASSUME Crash PROVE PlaceType'
    BY <1>9 DEF TypeInv, PlaceType, Places, Working, Crash
  <1>10. CASE Resume \/ Abort \/ UNCHANGED vars
    BY <1>10 DEF TypeInv, PlaceType, Working, Resume, Abort, vars
  <1> QED
    BY <1>2, <1>3, <1>4, <1>5, <1>6, <1>7, <1>8, <1>9, <1>10 DEF Next

\* A step that leaves the journal alone and names no other entry.
LEMMA ElsewhereKeepsJournalType ==
    ASSUME TypeInv, NEW p \in Process, NEW place \in Places, Goto(p, place),
           UNCHANGED <<file, readable, ledger, buf>>,
           \/ update' = update
           \/ \E o \in Op, status \in Status : Will(p, o, status),
           \/ place \notin {"planned", "reset", "read", "rewrite", "fill"}
           \/ update'[p].id \in Op
    PROVE  JournalType'
  BY DEF TypeInv, JournalType, PlaceType, Will, Goto

LEMMA WillType ==
    ASSUME TypeInv, NEW p \in Process, NEW o \in Op, NEW status \in Status,
           Will(p, o, status)
    PROVE  update'[p].id \in Op
  BY DEF TypeInv, JournalType, Will

LEMMA NextJournalType ==
    ASSUME TypeInv, [Next]_vars
    PROVE  JournalType'
  <1> USE OpsAreProcesses DEF journal
  <1>1. ASSUME NEW p \in Process, End(p), UNCHANGED <<file, readable, ledger, buf, update>>
        PROVE  JournalType'
    BY <1>1, ElsewhereKeepsJournalType DEF End, Places
  <1>2. ASSUME NEW p \in Process, NEW o \in Op, NEW status \in Status,
               Will(p, o, status), Goto(p, "read"),
               UNCHANGED <<file, readable, ledger, buf>>
        PROVE  JournalType'
    BY <1>2, WillType, ElsewhereKeepsJournalType DEF Places
  <1>3. ASSUME NEW o \in Op, NEW k \in Kind, Clear(o, k) PROVE JournalType'
    BY <1>3, ElsewhereKeepsJournalType DEF Clear, Places
  <1>4. ASSUME NEW o \in Op, Begin(o) \/ Withdraw(o) PROVE JournalType'
    <2>1. CASE Begin(o)
      <3>1. Goto(o, "begun") /\ UNCHANGED <<file, readable, ledger, buf, update>>
        BY <2>1, Zenon DEF Begin
      <3> QED BY <3>1, ElsewhereKeepsJournalType DEF Places
    <2>2. CASE Withdraw(o)
      BY <1>1, <2>2 DEF Withdraw
    <2> QED BY <1>4, <2>1, <2>2
  <1>5. ASSUME NEW o \in Op, Record(o) PROVE JournalType'
    <2>1. file' \in Journal /\ ledger' \in Journal
      BY <1>5, PutType DEF TypeInv, JournalType, Record, Status
    <2> QED BY <1>5, <2>1 DEF TypeInv, JournalType, PlaceType, Record, Goto
  <1>6. ASSUME NEW o \in Op, Succeed(o) \/ Rollback(o) PROVE JournalType'
    BY <1>2, <1>6 DEF Succeed, Rollback, Status
  <1>7. ASSUME NEW o \in Op, Fail(o) PROVE JournalType'
    <2>1. CASE FailTransaction(o)
      BY <1>7, <2>1, ElsewhereKeepsJournalType DEF Fail, FailTransaction, Places
    <2>2. CASE FailRecorded(o)
      BY <1>2, <1>7, <2>2 DEF Fail, FailRecorded, Status
    <2>3. CASE FailOpen(o)
      BY <1>1, <1>7, <2>3 DEF Fail, FailOpen
    <2> QED BY <1>7, <2>1, <2>2, <2>3 DEF Fail
  <1>8. ASSUME NEW u \in Undo, Plan(u) PROVE JournalType'
    <2>1. PICK o \in Newest(Undoable(file)) : Will(u, o, "rolled-back")
      BY <1>8 DEF Plan
    <2>2. o \in Op
      BY JournalMembers DEF TypeInv, JournalType, Newest, Undoable
    <2>3. "rolled-back" \in Status
      BY DEF Status
    <2> QED BY <1>8, <2>1, <2>2, <2>3, WillType, ElsewhereKeepsJournalType DEF Plan, Places
  <1>9. ASSUME NEW u \in Undo, Refetch(u) \/ Reset(u) \/ UndoFails(u) PROVE JournalType'
    <2>1. CASE UndoFails(u)
      BY <1>1, <2>1 DEF UndoFails
    <2>2. CASE Refetch(u) /\ End(u)
      BY <1>1, <2>2 DEF Refetch
    <2>3. CASE Reset(u) \/ (Refetch(u) /\ ~End(u))
      <3>1. \E place \in {"reset", "read"} : Goto(u, place)
        BY <2>3 DEF Reset, Refetch
      <3>2. update' = update /\ UNCHANGED <<file, readable, ledger, buf>>
        BY <2>3 DEF Reset, Refetch
      <3>3. update[u].id \in Op
        BY <2>3 DEF TypeInv, JournalType, Reset, Refetch
      <3> QED BY <3>1, <3>2, <3>3, ElsewhereKeepsJournalType DEF Places
    <2> QED BY <1>9, <2>1, <2>2, <2>3
  <1>10. ASSUME NEW p \in Process, Read(p) \/ Truncate(p) PROVE JournalType'
    <2>1. update[p].id \in Op
      BY <1>10 DEF TypeInv, JournalType, Read, Truncate
    <2>2. CASE Truncate(p)
      BY <2>1, <2>2, NoEntriesType DEF TypeInv, JournalType, PlaceType, Truncate, Goto
    <2>3. CASE Read(p)
      BY <2>1, <2>3 DEF TypeInv, JournalType, PlaceType, Read, End, Goto
    <2> QED BY <1>10, <2>2, <2>3
  <1>11. ASSUME NEW p \in Process, Fill(p) PROVE JournalType'
    <2>1. update[p].id \in Op /\ update[p].status \in Status /\ buf[p] \in Journal
      BY <1>11 DEF TypeInv, JournalType, Fill
    <2>2. file' \in Journal /\ ledger' \in Journal
      BY <1>11, <2>1, PutType DEF TypeInv, JournalType, Fill, Overwritten
    <2>3. readable' \in BOOLEAN
      BY <1>11 DEF Fill
    <2> QED
      BY <1>11, <2>1, <2>2, <2>3 DEF TypeInv, JournalType, PlaceType, Fill, End, Goto
  <1>12. ASSUME NEW p \in Process, WriteFails(p) PROVE JournalType'
    <2>1. /\ file' \in Journal /\ ledger' \in Journal
          /\ readable' \in BOOLEAN /\ buf' = buf
      BY <1>12 DEF TypeInv, JournalType, WriteFails
    <2>2. \/ Will(p, p, "failed") /\ p \in Op /\ Goto(p, "read")
          \/ End(p) /\ UNCHANGED update
      BY <1>12 DEF WriteFails
    <2>3. CASE Will(p, p, "failed") /\ p \in Op /\ Goto(p, "read")
      BY <2>1, <2>3 DEF TypeInv, JournalType, PlaceType, Will, Goto, Status
    <2>4. CASE End(p) /\ UNCHANGED update
      BY <2>1, <2>4 DEF TypeInv, JournalType, PlaceType, End, Goto
    <2> QED BY <2>2, <2>3, <2>4
  <1>13. ASSUME Crash PROVE JournalType'
    BY <1>13 DEF TypeInv, JournalType, PlaceType, Places, Working, Crash
  <1>14. CASE (\E o \in Op : Timeout(o)) \/ Resume \/ Abort \/ UNCHANGED vars
    BY <1>14 DEF TypeInv, JournalType, Timeout, Resume, Abort, vars
  <1> QED
    BY <1>3, <1>4, <1>5, <1>6, <1>7, <1>8, <1>9, <1>10, <1>11, <1>12, <1>13, <1>14
    DEF Next, Update

LEMMA NextBoundType ==
    ASSUME TypeInv, [Next]_vars
    PROVE  BoundType'
  <1> USE DEF TypeInv, BoundType, Disturbance
  <1>1. past' \subseteq Disturbance
    <2>1. ASSUME NEW d \in Disturbance, NEW when, Disturb(d, when) PROVE past' \subseteq Disturbance
      BY <2>1 DEF Disturb
    <2>2. ASSUME NEW when, Break(when) PROVE past' \subseteq Disturbance
      BY <2>2 DEF Break
    <2> QED
      BY <2>1, <2>2 DEF Next, vars, Clear, Begin, Withdraw, Record, Succeed, Fail,
         FailTransaction, FailRecorded, FailOpen, Rollback, Update, Read, Truncate,
         Fill, WriteFails, Timeout, Crash, Plan, Refetch, Reset, UndoFails, Resume, Abort
  <1>2. faults' \in 0..MaxFaults
    <2>1. Fault => faults' \in 0..MaxFaults
      BY GitJournalAssumption DEF Fault
    <2> QED
      BY <2>1, Zenon DEF Next, vars, Clear, Begin, Withdraw, Record, Succeed, Fail,
         Rollback, Update, Read, Truncate, Fill, WriteFails, Timeout, Crash, Plan,
         Refetch, Reset, UndoFails, Resume, Abort
  <1> QED BY <1>1, <1>2

LEMMA TypeInvHolds == Spec => []TypeInv
  <1>1. TypeInv /\ [Next]_vars => TypeInv'
    BY NextGitType, NextEntryType, NextPlaceType, NextJournalType, NextBoundType
    DEF TypeInv
  <1> QED BY <1>1, InitType, PTL DEF Spec

\* The type invariant, with what it rests on: the entry a process is to update
\* is one that was recorded (SafeUndoFramework.planUndoLast), and only tasks
\* that are at work are tracked (ExecutionStateTracker).
THEOREM TypeCorrect == Spec => []TypeOK
  <1>1. TypeInv => TypeOK
    BY DEF TypeInv, GitType, EntryType, PlaceType, JournalType, BoundType, TypeOK, Places
  <1> QED BY <1>1, TypeInvHolds, PTL

-----------------------------------------------------------------------------
\* Entries are stamped in the order they are recorded in.
Stamped == {x \in Op : stamp[x] > 0}

StampsRise ==
    /\ \A x \in Op : stamp[x] \leq Cardinality(Stamped)
    /\ \A x \in Op : pc[x] \in {"idle", "cleared", "begun"} => stamp[x] = 0

OpenAndNewest(o) ==
    /\ o \in DOMAIN ledger /\ ledger[o] = "in-progress"
    /\ \A x \in Op : stamp[x] \leq stamp[o]

Quiet == past \subseteq {"resumed", "midway", "unsettled"}

\* What has been recorded and not answered stays the newest entry, and so
\* does what has stopped git, since no undo is after its entry.
OpenStaysNewest ==
    Quiet =>
        /\ \A o \in Op : pc[o] = "recorded" => OpenAndNewest(o)
        /\ paused # None =>
             /\ OpenAndNewest(paused)
             /\ \A u \in Undo \intersect Working : update[u].id # paused

LEMMA StampsInit == Init => StampsRise /\ OpenStaysNewest
  <1> SUFFICES ASSUME Init PROVE StampsRise /\ OpenStaysNewest
    OBVIOUS
  <1>1. Stamped = {} /\ \A x \in Op : stamp[x] = 0
    BY DEF Init, Stamped
  <1>2. Cardinality(Stamped) = 0
    BY <1>1, FS_EmptySet
  <1> QED BY <1>1, <1>2, OpsAreProcesses DEF Init, StampsRise, OpenStaysNewest

LEMMA RecordStamps ==
    ASSUME TypeInv, StampsRise, NEW o \in Op, Record(o)
    PROVE  StampsRise' /\ \A x \in Op : stamp'[x] \leq stamp'[o]
  <1>1. IsFiniteSet(Stamped) /\ o \notin Stamped
    BY GitJournalAssumption, FS_Subset DEF Stamped, StampsRise, Record
  <1>2. Cardinality(Stamped) \in Nat
    BY <1>1, FS_CardinalityType
  <1>3. stamp' = [stamp EXCEPT ![o] = 1 + Cardinality(Stamped)]
    BY DEF Record, Stamped
  <1>4. Stamped' = Stamped \union {o}
    <2>1. stamp'[o] > 0 /\ \A x \in Op \ {o} : stamp'[x] = stamp[x]
      BY <1>2, <1>3 DEF TypeInv, EntryType
    <2> QED BY <2>1 DEF Stamped
  <1>5. Cardinality(Stamped') = 1 + Cardinality(Stamped)
    BY <1>1, <1>2, <1>4, FS_AddElement
  <1>6. \A x \in Op : stamp'[x] \leq stamp'[o] /\ stamp'[o] = Cardinality(Stamped')
    BY <1>2, <1>3, <1>5 DEF TypeInv, EntryType, StampsRise
  <1>7. \A x \in Op : pc'[x] \in {"idle", "cleared", "begun"} => x # o /\ pc'[x] = pc[x]
    BY OpsAreProcesses DEF TypeInv, PlaceType, Record, Goto
  <1> QED
    BY <1>3, <1>6, <1>7 DEF TypeInv, EntryType, StampsRise

LEMMA NextStamps ==
    ASSUME TypeInv, StampsRise, [Next]_vars
    PROVE  StampsRise'
  <1>1. ASSUME UNCHANGED stamp,
               \A x \in Op : pc'[x] \in {"idle", "cleared", "begun"}
                              => pc[x] \in {"idle", "cleared", "begun"}
        PROVE  StampsRise'
    BY <1>1 DEF StampsRise, Stamped
  <1>2. ASSUME NEW p \in Process, NEW place \in Places, Goto(p, place), UNCHANGED stamp,
               \/ place \notin {"idle", "cleared", "begun"}
               \/ pc[p] \in {"idle", "cleared", "begun"}
        PROVE  StampsRise'
    BY <1>1, <1>2, OpsAreProcesses DEF TypeInv, PlaceType, Goto
  <1> USE OpsAreProcesses DEF entry, End
  <1>3. ASSUME NEW o \in Op, NEW k \in Kind, Clear(o, k) PROVE StampsRise'
    BY <1>2, <1>3 DEF Clear, Places
  <1>4. ASSUME NEW o \in Op, Begin(o) \/ Withdraw(o) PROVE StampsRise'
    <2>1. \/ Goto(o, "begun") /\ pc[o] = "cleared"
          \/ Goto(o, "ended")
      BY <1>4, Zenon DEF Begin, Withdraw
    <2>2. UNCHANGED stamp
      BY <1>4, Zenon DEF Begin, Withdraw
    <2> QED BY <1>2, <2>1, <2>2 DEF Places
  <1>5. ASSUME NEW o \in Op, Record(o) PROVE StampsRise'
    BY <1>5, RecordStamps
  <1>6. ASSUME NEW o \in Op, Succeed(o) \/ Fail(o) \/ Rollback(o) PROVE StampsRise'
    <2>1. \E place \in {"rollback", "read", "ended"} : Goto(o, place)
      BY <1>6 DEF Succeed, Fail, FailTransaction, FailRecorded, FailOpen, Rollback
    <2>2. UNCHANGED stamp
      BY <1>6 DEF Succeed, Fail, Rollback
    <2> QED BY <1>2, <2>1, <2>2 DEF Places
  <1>7. ASSUME NEW u \in Undo, Plan(u) \/ Refetch(u) \/ Reset(u) \/ UndoFails(u)
        PROVE  StampsRise'
    <2>1. \E place \in {"planned", "reset", "read", "ended"} : Goto(u, place)
      BY <1>7 DEF Plan, Refetch, Reset, UndoFails
    <2>2. UNCHANGED stamp
      BY <1>7 DEF Plan, Refetch, Reset, UndoFails
    <2> QED BY <1>2, <2>1, <2>2 DEF Places
  <1>8. ASSUME NEW p \in Process, Update(p) PROVE StampsRise'
    <2>1. \E place \in {"read", "rewrite", "fill", "ended"} : Goto(p, place)
      BY <1>8 DEF Update, Read, Truncate, Fill, WriteFails
    <2>2. UNCHANGED stamp
      BY <1>8 DEF Update, Read, Truncate, Fill, WriteFails
    <2> QED BY <1>2, <2>1, <2>2 DEF Places
  <1>9. CASE Crash
    BY <1>1, <1>9 DEF Crash
  <1>10. CASE (\E o \in Op : Timeout(o)) \/ Resume \/ Abort \/ UNCHANGED vars
    BY <1>1, <1>10 DEF Timeout, Resume, Abort, vars
  <1> QED
    BY <1>3, <1>4, <1>5, <1>6, <1>7, <1>8, <1>9, <1>10 DEF Next

\* A step in which nothing that is open or has stopped git has a part.
LEMMA ApartKeepsOpen ==
    ASSUME OpenStaysNewest, Quiet' => Quiet, UNCHANGED <<ledger, stamp, update>>,
           \A o \in Op : pc'[o] = "recorded" => pc[o] = "recorded",
           Working' \subseteq Working, paused' \in {paused, None}
    PROVE  OpenStaysNewest'
  BY DEF OpenStaysNewest, OpenAndNewest

LEMMA NextOpen ==
    ASSUME TypeInv, StampsRise, Calm, Calm', ReaderIsCurrent, OpenStaysNewest, [Next]_vars
    PROVE  OpenStaysNewest'
  <1> SUFFICES ASSUME Quiet' PROVE OpenStaysNewest'
    BY DEF OpenStaysNewest
  <1> USE OpsAreProcesses, GitJournalAssumption DEF git, journal, entry, End
  <1>1. past \subseteq past' /\ Quiet
    BY PastGrows DEF Quiet
  <1>2. /\ "overlap" \notin past' /\ "race" \notin past' /\ "broken" \notin past'
        /\ "overlap" \notin past /\ "race" \notin past /\ "halfway" \notin past
    BY <1>1 DEF Quiet
  <1>3. ASSUME NEW p \in Working, NEW place \in Places \ {"recorded"}, Goto(p, place),
               UNCHANGED <<ledger, stamp, update>>, paused' \in {paused, None}
        PROVE  OpenStaysNewest'
    <2>1. /\ \A o \in Op : pc'[o] = "recorded" => pc[o] = "recorded"
          /\ Working' \subseteq Working
      BY <1>3 DEF TypeInv, PlaceType, Goto, Working
    <2> QED BY <1>1, <1>3, <2>1, ApartKeepsOpen
  \* While an operation is at work, git has not stopped, and no other is.
  <1>4. \A o \in Op \intersect Working : paused = None /\ Working = {o}
    BY <1>2 DEF Calm
  <1>5. ASSUME NEW o \in Op \intersect Working, NEW place \in Places \ {"recorded"},
               Goto(o, place), paused' = None
        PROVE  OpenStaysNewest'
    <2>1. \A x \in Op : pc'[x] # "recorded"
      BY <1>4, <1>5 DEF TypeInv, PlaceType, Goto, Working
    <2> QED BY <1>5, <2>1 DEF OpenStaysNewest
  <1>6. ASSUME NEW o \in Op, NEW k \in Kind, Clear(o, k) PROVE OpenStaysNewest'
    <2>1. \A x \in Op : pc'[x] = "recorded" => pc[x] = "recorded"
      BY <1>6 DEF TypeInv, PlaceType, Clear, Goto
    <2>2. paused' = None /\ UNCHANGED <<ledger, stamp>>
      BY <1>6 DEF Clear, Healthy
    <2> QED BY <1>1, <2>1, <2>2 DEF OpenStaysNewest, OpenAndNewest
  <1>7. ASSUME NEW o \in Op, Begin(o) \/ Withdraw(o) PROVE OpenStaysNewest'
    <2>1. o \in Working /\ \E place \in {"begun", "ended"} : Goto(o, place)
      BY <1>7, Zenon DEF Begin, Withdraw, Working
    <2>2. UNCHANGED <<ledger, stamp, update, paused>>
      BY <1>7, Zenon DEF Begin, Withdraw
    <2> QED BY <1>3, <2>1, <2>2 DEF Places
  <1>8. ASSUME NEW o \in Op, Record(o) PROVE OpenStaysNewest'
    <2>1. o \in Working /\ paused' = None
      BY <1>4, <1>8 DEF Record, Working
    <2>2. OpenAndNewest(o)'
      BY <1>8, RecordStamps DEF OpenAndNewest, Record, Put
    <2>3. \A x \in Op : pc'[x] = "recorded" => x = o
      BY <1>4, <1>8, <2>1 DEF TypeInv, PlaceType, Record, Goto, Working
    <2> QED BY <2>1, <2>2, <2>3 DEF OpenStaysNewest
  <1>9. ASSUME NEW o \in Op, Succeed(o) \/ Rollback(o) PROVE OpenStaysNewest'
    <2>1. o \in Op \intersect Working /\ Goto(o, "read")
      BY <1>9 DEF Succeed, Rollback, Working
    <2>2. paused' \in {paused, None}
      BY <1>9 DEF Succeed, Rollback, Advance, Discard, Push, Checkout, ResetSoft
    <2> QED BY <1>4, <1>5, <2>1, <2>2 DEF Places
  <1>10. ASSUME NEW o \in Op, Fail(o) PROVE OpenStaysNewest'
    <2>1. o \in Op \intersect Working /\ OpenAndNewest(o) /\ UNCHANGED <<ledger, stamp>>
      BY <1>1, <1>10 DEF Fail, Working, OpenStaysNewest
    <2>2. \E place \in {"rollback", "read", "ended"} : Goto(o, place)
      BY <1>10 DEF Fail, FailTransaction, FailRecorded, FailOpen
    <2>3. CASE paused' = None
      BY <1>5, <2>1, <2>2, <2>3 DEF Places
    <2>4. CASE paused' = o /\ Goto(o, "ended")
      <3>1. Working' = {}
        BY <1>4, <2>1, <2>4 DEF TypeInv, PlaceType, Goto, Working
      <3>2. \A x \in Op : pc'[x] # "recorded"
        BY <3>1 DEF Working
      <3> QED BY <2>1, <2>4, <3>1, <3>2 DEF OpenStaysNewest, OpenAndNewest
    <2>5. paused' \in {paused, None} \/ (paused' = o /\ Goto(o, "ended"))
      BY <1>10 DEF Fail, FailTransaction, FailRecorded, FailOpen, Advance, Push
    <2> QED BY <1>4, <2>1, <2>3, <2>4, <2>5
  <1>11. ASSUME NEW u \in Undo, Plan(u) PROVE OpenStaysNewest'
    <2>1. Working = {} /\ UNCHANGED <<ledger, stamp, paused>>
      BY <1>2, <1>11 DEF Plan, Disturb
    <2>2. \A x \in Op : pc'[x] # "recorded"
      BY <1>11, <2>1 DEF TypeInv, PlaceType, Plan, Goto, Working
    <2>3. Working' = {u}
      BY <1>11, <2>1 DEF TypeInv, PlaceType, Plan, Goto, Working
    <2>4. file = ledger
      BY <1>2, <2>1 DEF ReaderIsCurrent, Filling, Working
    <2>5. PICK o \in Newest(Undoable(file)) : Will(u, o, "rolled-back")
      BY <1>11 DEF Plan
    <2>6. update'[u].id = o /\ ledger[o] = "completed"
      BY <2>4, <2>5 DEF TypeInv, JournalType, Will, Newest, Undoable
    <2>7. paused # None => OpenAndNewest(paused)
      BY <1>1 DEF OpenStaysNewest
    <2> QED BY <2>1, <2>2, <2>3, <2>6, <2>7 DEF OpenStaysNewest, OpenAndNewest
  <1>12. ASSUME NEW u \in Undo, Refetch(u) \/ Reset(u) \/ UndoFails(u)
         PROVE  OpenStaysNewest'
    <2>1. u \in Working /\ \E place \in {"reset", "read", "ended"} : Goto(u, place)
      BY <1>12 DEF Refetch, Reset, UndoFails, Working
    <2>2. UNCHANGED <<ledger, stamp, update>>
      BY <1>12 DEF Refetch, Reset, UndoFails
    <2>3. paused' \in {paused, None}
      BY <1>12 DEF Refetch, Reset, UndoFails, TakeBack, ResetSoft, ResetHard, DeleteBranch, SwitchBack
    <2> QED BY <1>3, <2>1, <2>2, <2>3 DEF Places
  <1>13. ASSUME NEW p \in Process, Read(p) \/ Truncate(p) PROVE OpenStaysNewest'
    <2>1. p \in Working /\ \E place \in {"rewrite", "fill", "ended"} : Goto(p, place)
      BY <1>13 DEF Read, Truncate, Working
    <2>2. UNCHANGED <<ledger, stamp, update, paused>>
      BY <1>13 DEF Read, Truncate
    <2> QED BY <1>3, <2>1, <2>2 DEF Places
  <1>14. ASSUME NEW p \in Process, Fill(p) PROVE OpenStaysNewest'
    <2>1. p \in Working /\ Goto(p, "ended") /\ UNCHANGED <<stamp, update, paused>>
      BY <1>14 DEF Fill, Working
    <2>2. CASE p \in Op
      BY <1>4, <1>5, <2>1, <2>2 DEF Places
    <2>3. CASE p \notin Op
      <3>1. p \in Undo
        BY <2>3 DEF Process
      <3>2. \A x \in Op : pc'[x] # "recorded"
        BY <1>4, <2>1, <2>3 DEF TypeInv, PlaceType, Goto, Working
      <3>3. Working' \subseteq Working
        BY <2>1 DEF TypeInv, PlaceType, Goto, Working
      <3>4. \A x \in DOMAIN ledger : x # update[p].id => x \in DOMAIN ledger' /\ ledger'[x] = ledger[x]
        BY <1>14 DEF Fill, Put
      <3>5. paused # None => paused # update[p].id
        BY <1>1, <2>1, <3>1 DEF OpenStaysNewest
      <3> QED BY <1>1, <2>1, <3>2, <3>3, <3>4, <3>5 DEF OpenStaysNewest, OpenAndNewest
    <2> QED BY <2>2, <2>3
  <1>15. CASE Crash \/ \E p \in Process : WriteFails(p)
    BY <1>2, <1>15 DEF Crash, WriteFails, Break
  <1>16. CASE (\E o \in Op : Timeout(o)) \/ Resume \/ Abort \/ UNCHANGED vars
    <2>1. UNCHANGED <<ledger, stamp, update, pc>> /\ paused' \in {paused, None}
      BY <1>16 DEF Timeout, Resume, Abort, vars
    <2>2. Working' = Working
      BY <2>1 DEF Working
    <2> QED BY <1>1, <2>1, <2>2, ApartKeepsOpen
  <1> QED
    BY <1>6, <1>7, <1>8, <1>9, <1>10, <1>11, <1>12, <1>13, <1>14, <1>15, <1>16
    DEF Next, Update

\* What has stopped git is the newest entry of the journal and still open, so
\* that GitHealthService.detectInterrupted finds it there and /recover can
\* name it; an undo never is of it, since its entry is not "completed".
THEOREM StoppedOperationIsFound == Spec => []StoppedIsNewest
  <1>1. TypeInv /\ OpenStaysNewest => StoppedIsNewest
    BY JournalMembers
    DEF TypeInv, JournalType, OpenStaysNewest, OpenAndNewest, Quiet, StoppedIsNewest
  <1>2. TypeInv /\ Calm /\ [Next]_vars => Calm'
    BY NextKeepsCalm DEF TypeInv, PlaceType, JournalType, Shapes
  <1> QED
    BY <1>1, <1>2, TypeInvHolds, CalmInit, StampsInit, NextStamps, ReaderInit, ShapesHold,
       NextKeepsReader, NextOpen, PTL DEF Spec

-----------------------------------------------------------------------------
\* What only some steps change.
LEMMA EntryMoves ==
    ASSUME [Next]_vars
    PROVE  \/ UNCHANGED entry
           \/ \E o \in Op : (\E k \in Kind : Clear(o, k)) \/ Begin(o) \/ Record(o)
  <1>1. ASSUME NEW o \in Op, Withdraw(o) \/ Succeed(o) \/ Fail(o) \/ Rollback(o) \/ Timeout(o)
        PROVE  UNCHANGED entry
    BY <1>1 DEF Withdraw, Succeed, Fail, Rollback, Timeout, entry
  <1>2. ASSUME NEW u \in Undo, Plan(u) \/ Refetch(u) \/ Reset(u) \/ UndoFails(u)
        PROVE  UNCHANGED entry
    BY <1>2 DEF Plan, Refetch, Reset, UndoFails, entry
  <1>3. ASSUME NEW p \in Process, Update(p) PROVE UNCHANGED entry
    BY <1>3 DEF Update, Read, Truncate, Fill, WriteFails, entry
  <1>4. ASSUME Crash \/ Resume \/ Abort \/ UNCHANGED vars PROVE UNCHANGED entry
    BY <1>4 DEF Crash, Resume, Abort, vars, entry
  <1> QED BY <1>1, <1>2, <1>3, <1>4, Zenon DEF Next

LEMMA GitMoves ==
    ASSUME [Next]_vars
    PROVE  \/ UNCHANGED git
           \/ \E o \in Op : Succeed(o) \/ Fail(o) \/ Rollback(o)
           \/ \E u \in Undo : Reset(u)
           \/ Resume \/ Abort
  <1>1. ASSUME NEW o \in Op, NEW k \in Kind, Clear(o, k) PROVE UNCHANGED git
    BY <1>1 DEF Clear
  <1>2. ASSUME NEW o \in Op, Begin(o) \/ Withdraw(o) \/ Record(o) \/ Timeout(o)
        PROVE  UNCHANGED git
    BY <1>2 DEF Begin, Withdraw, Record, Timeout
  <1>3. ASSUME NEW u \in Undo, Plan(u) \/ Refetch(u) \/ UndoFails(u) PROVE UNCHANGED git
    BY <1>3 DEF Plan, Refetch, UndoFails
  <1>4. ASSUME NEW p \in Process, Update(p) PROVE UNCHANGED git
    BY <1>4 DEF Update, Read, Truncate, Fill, WriteFails
  <1>5. ASSUME Crash \/ UNCHANGED vars PROVE UNCHANGED git
    BY <1>5 DEF Crash, vars
  <1> QED BY <1>1, <1>2, <1>3, <1>4, <1>5, Zenon DEF Next

\* The places of a process that has an entry in the journal.
AtEntry == {"recorded", "rollback", "read", "rewrite", "fill"}

LEMMA EntryPlaces ==
    ASSUME TypeInv, [Next]_vars, NEW o \in Op, pc'[o] \in AtEntry
    PROVE  pc[o] \in AtEntry \/ Record(o)
  <1> USE OpsAreProcesses DEF AtEntry, TypeInv, PlaceType, Goto, End
  <1>1. ASSUME NEW p \in Process, \E place \in {"cleared", "begun", "planned", "reset", "ended"} : Goto(p, place)
        PROVE  pc[o] \in AtEntry
    BY <1>1
  <1>2. ASSUME NEW p \in Process, p # o, \E place \in Places : Goto(p, place)
        PROVE  pc[o] \in AtEntry
    BY <1>2
  <1>3. ASSUME NEW x \in Op, NEW k \in Kind, Clear(x, k) PROVE pc[o] \in AtEntry
    BY <1>1, <1>3 DEF Clear
  <1>4. ASSUME NEW x \in Op, Begin(x) \/ Withdraw(x) PROVE pc[o] \in AtEntry
    <2>1. \E place \in {"begun", "ended"} : Goto(x, place)
      BY <1>4, Zenon DEF Begin, Withdraw, End
    <2> QED BY <1>1, <2>1
  <1>5. ASSUME NEW x \in Op, Record(x) PROVE pc[o] \in AtEntry \/ Record(o)
    BY <1>2, <1>5 DEF Record, Places
  <1>6. ASSUME NEW x \in Op, Succeed(x) \/ Fail(x) \/ Rollback(x) PROVE pc[o] \in AtEntry
    <2>1. pc[x] \in AtEntry /\ \E place \in {"rollback", "read", "ended"} : Goto(x, place)
      BY <1>6 DEF Succeed, Fail, FailTransaction, FailRecorded, FailOpen, Rollback
    <2> QED BY <1>2, <2>1 DEF Places
  <1>7. ASSUME NEW u \in Undo, Plan(u) \/ Refetch(u) \/ Reset(u) \/ UndoFails(u)
        PROVE  pc[o] \in AtEntry
    <2>1. u # o
      BY GitJournalAssumption
    <2>2. \E place \in Places : Goto(u, place)
      BY <1>7 DEF Plan, Refetch, Reset, UndoFails, Places
    <2> QED BY <1>2, <2>1, <2>2
  <1>8. ASSUME NEW p \in Process, Update(p) PROVE pc[o] \in AtEntry
    <2>1. \E place \in {"read", "rewrite", "fill", "ended"} : Goto(p, place)
      BY <1>8 DEF Update, Read, Truncate, Fill, WriteFails
    <2>2. CASE pc[p] \in AtEntry
      BY <1>2, <2>1, <2>2 DEF Places
    <2>3. CASE pc[p] \notin AtEntry
      <3>1. Goto(p, "ended")
        BY <1>8, <2>3 DEF Update, Read, Truncate, Fill, WriteFails
      <3> QED BY <1>1, <3>1
    <2> QED BY <2>2, <2>3
  <1>9. CASE Crash
    BY <1>9 DEF Crash
  <1>10. CASE (\E x \in Op : Timeout(x)) \/ Resume \/ Abort \/ UNCHANGED vars
    BY <1>10 DEF Timeout, Resume, Abort, vars
  <1> QED
    BY <1>3, <1>4, <1>5, <1>6, <1>7, <1>8, <1>9, <1>10 DEF Next

\* What an entry says of its operation does not change once it is stamped.
LEMMA Frozen ==
    ASSUME TypeInv, StampsRise, [Next]_vars, NEW o \in Op, stamp[o] > 0
    PROVE  /\ kind'[o] = kind[o] /\ arg'[o] = arg[o]
           /\ before'[o] = before[o] /\ stamp'[o] = stamp[o]
  <1>1. pc[o] \notin {"idle", "cleared", "begun"}
    BY DEF StampsRise
  <1>2. ASSUME NEW x \in Op, (\E k \in Kind : Clear(x, k)) \/ Begin(x) \/ Record(x)
        PROVE  x # o /\ \A y \in Op \ {x} : /\ kind'[y] = kind[y] /\ arg'[y] = arg[y]
                                            /\ before'[y] = before[y] /\ stamp'[y] = stamp[y]
    <2>1. CASE \E k \in Kind : Clear(x, k)
      BY <1>1, <2>1 DEF Clear, TypeInv, EntryType
    <2>2. CASE Begin(x)
      <3>1. /\ pc[x] = "cleared" /\ UNCHANGED <<kind, stamp>>
            /\ \E b : arg' = [arg EXCEPT ![x] = b]
            /\ \E b : before' = [before EXCEPT ![x] = b]
        BY <2>2, Zenon DEF Begin
      <3> QED BY <1>1, <3>1 DEF TypeInv, EntryType
    <2>3. CASE Record(x)
      BY <1>1, <2>3 DEF Record, TypeInv, EntryType
    <2> QED BY <1>2, <2>1, <2>2, <2>3
  <1> QED BY <1>2, EntryMoves DEF entry

-----------------------------------------------------------------------------
\* The branches, and the refs to come back to, hold only what was recorded
\* before, and no two entries have one stamp.
RefIsOlder(o) ==
    \A x \in ToSet(before[o].ref) : stamp[x] > 0 /\ (stamp[o] > 0 => stamp[x] < stamp[o])

Elders ==
    /\ \A x, y \in Op : stamp[x] = stamp[y] /\ stamp[x] > 0 => x = y
    /\ \A o \in Op : pc[o] \in AtEntry => stamp[o] > 0
    /\ \A o \in Op : RefIsOlder(o)
    /\ \A b \in DOMAIN tip : \A x \in ToSet(tip[b]) : stamp[x] > 0
    /\ paused # None => stamp[paused] > 0

LEMMA AppendSet ==
    ASSUME NEW s \in Seq(Op), NEW o \in Op
    PROVE  ToSet(Append(s, o)) = ToSet(s) \union {o}
  <1>1. /\ DOMAIN s = 1..Len(s) /\ Len(s) \in Nat
        /\ DOMAIN Append(s, o) = 1..(Len(s) + 1)
        /\ \A i \in 1..Len(s) : Append(s, o)[i] = s[i]
        /\ Append(s, o)[Len(s) + 1] = o
    BY AppendProperties, LenProperties
  <1> QED BY <1>1 DEF ToSet

LEMMA HistoryOfOps ==
    ASSUME TypeInv
    PROVE  /\ \A b \in DOMAIN tip : tip[b] \in Seq(Op) /\ ToSet(tip[b]) \subseteq Op
           /\ \A o \in Op : before[o].ref \in Seq(Op) /\ ToSet(before[o].ref) \subseteq Op
           /\ branch \in DOMAIN tip
  BY DEF TypeInv, GitType, EntryType, History, ToSet

LEMMA EldersInit == Init => Elders
  <1> SUFFICES ASSUME Init PROVE Elders
    OBVIOUS
  <1>1. \A o \in Op : stamp[o] = 0 /\ pc[o] = "idle" /\ before[o].ref = <<>>
    BY OpsAreProcesses DEF Init
  <1>2. ToSet(<<>>) = {}
    BY DEF ToSet
  <1> QED BY <1>1, <1>2 DEF Init, Elders, RefIsOlder, AtEntry

LEMMA NextRefs ==
    ASSUME TypeInv, StampsRise, Elders, [Next]_vars, NEW o \in Op
    PROVE  RefIsOlder(o)'
  <1>1. \A x \in Op : stamp[x] > 0 => stamp'[x] = stamp[x]
    BY Frozen
  <1>2. CASE before'[o] = before[o] /\ stamp'[o] = stamp[o]
    BY <1>1, <1>2, HistoryOfOps DEF Elders, RefIsOlder
  <1>3. CASE Begin(o)
    <2>1. before' = [before EXCEPT ![o] = [branch |-> branch, ref |-> tip[branch]]]
      BY <1>3, Zenon DEF Begin
    <2>2. pc[o] = "cleared" /\ stamp' = stamp
      BY <1>3, Zenon DEF Begin
    <2>3. before'[o].ref = tip[branch] /\ stamp'[o] = 0
      BY <2>1, <2>2 DEF TypeInv, EntryType, StampsRise
    <2> QED BY <2>2, <2>3, HistoryOfOps DEF Elders, RefIsOlder
  <1>4. CASE Record(o)
    <2>1. before' = before /\ stamp[o] = 0
      BY <1>4 DEF Record, StampsRise
    <2>2. ASSUME NEW x \in ToSet(before[o].ref)
          PROVE  stamp'[x] > 0 /\ stamp'[x] < stamp'[o]
      <3>1. x \in Op /\ x # o /\ stamp[x] > 0
        BY <2>1, HistoryOfOps DEF Elders, RefIsOlder
      <3>2. stamp'[x] = stamp[x] /\ stamp[x] \leq Cardinality(Stamped)
        BY <1>1, <3>1 DEF StampsRise
      <3>3. stamp'[o] = 1 + Cardinality(Stamped)
        BY <1>4 DEF Record, Stamped, TypeInv, EntryType
      <3>4. Cardinality(Stamped) \in Nat /\ stamp[x] \in Nat
        BY <3>1, GitJournalAssumption, FS_Subset, FS_CardinalityType DEF Stamped, TypeInv, EntryType
      <3> QED BY <3>1, <3>2, <3>3, <3>4
    <2> QED BY <2>1, <2>2 DEF RefIsOlder
  <1>5. ASSUME NEW y \in Op, (\E k \in Kind : Clear(y, k)) \/ (Begin(y) /\ y # o) \/ (Record(y) /\ y # o)
        PROVE  before'[o] = before[o] /\ stamp'[o] = stamp[o]
    <2>1. CASE \E k \in Kind : Clear(y, k)
      BY <2>1 DEF Clear
    <2>2. CASE Begin(y) /\ y # o
      <3>1. stamp' = stamp /\ before' = [before EXCEPT ![y] = [branch |-> branch, ref |-> tip[branch]]]
        BY <2>2, Zenon DEF Begin
      <3> QED BY <2>2, <3>1 DEF TypeInv, EntryType
    <2>3. CASE Record(y) /\ y # o
      BY <2>3 DEF Record, TypeInv, EntryType
    <2> QED BY <1>5, <2>1, <2>2, <2>3
  <1> QED BY <1>2, <1>3, <1>4, <1>5, EntryMoves DEF entry

\* What git does puts nothing on a branch that is not in the journal.
LEMMA NextHeld ==
    ASSUME TypeInv, StampsRise, Elders, [Next]_vars
    PROVE  \A b \in DOMAIN tip' : \A x \in ToSet(tip'[b]) : x \in Op /\ stamp[x] > 0
  <1> DEFINE Ok(history) == \A x \in ToSet(history) : x \in Op /\ stamp[x] > 0
  <1>1. /\ \A b \in DOMAIN tip : Ok(tip[b])
        /\ \A o \in Op : Ok(before[o].ref)
    BY HistoryOfOps DEF Elders, RefIsOlder
  <1>2. ASSUME NEW o \in Op, stamp[o] > 0 PROVE Ok(Append(tip[branch], o))
    BY <1>1, <1>2, AppendSet, HistoryOfOps
  <1> HIDE DEF Ok
  <1> SUFFICES \A b \in DOMAIN tip' : Ok(tip'[b])
    BY DEF Ok
  <1>a. branch \in DOMAIN tip /\ DOMAIN tip \subseteq Branch /\ tip = [b \in DOMAIN tip |-> tip[b]]
    BY DEF TypeInv, GitType
  <1>3. ASSUME NEW history, Ok(history), tip' = [tip EXCEPT ![branch] = history]
        PROVE  \A b \in DOMAIN tip' : Ok(tip'[b])
    BY <1>1, <1>a, <1>3
  <1>4. ASSUME tip' = tip PROVE \A b \in DOMAIN tip' : Ok(tip'[b])
    BY <1>1, <1>4
  <1>5. ASSUME NEW o \in Op, Advance(o), pc[o] = "recorded"
        PROVE  \A b \in DOMAIN tip' : Ok(tip'[b])
    <2>1. stamp[o] > 0
      BY <1>5 DEF Elders, AtEntry
    <2> QED BY <1>2, <1>3, <1>4, <1>5, <2>1 DEF Advance
  <1>6. ASSUME NEW o \in Op, Succeed(o) PROVE \A b \in DOMAIN tip' : Ok(tip'[b])
    <2>1. CASE Advance(o)
      BY <1>5, <1>6, <2>1 DEF Succeed
    <2>2. CASE Discard(o) \/ Push(o)
      BY <1>4, <2>2 DEF Discard, Push
    <2>3. CASE Checkout(o)
      BY <1>1, <1>4, <1>a, <2>3 DEF Checkout
    <2> QED BY <1>6, <2>1, <2>2, <2>3 DEF Succeed
  <1>7. ASSUME NEW o \in Op, Fail(o) PROVE \A b \in DOMAIN tip' : Ok(tip'[b])
    <2>1. pc[o] = "recorded" /\ (tip' = tip \/ Advance(o))
      BY <1>7 DEF Fail, FailTransaction, FailRecorded, FailOpen, git, Push
    <2> QED BY <1>4, <1>5, <2>1
  <1>8. ASSUME NEW o \in Op, Rollback(o) PROVE \A b \in DOMAIN tip' : Ok(tip'[b])
    <2>1. tip' = tip \/ tip' = [tip EXCEPT ![branch] = before[o].ref]
      BY <1>8 DEF Rollback, ResetSoft, git
    <2> QED BY <1>1, <1>3, <1>4, <2>1
  <1>9. ASSUME NEW u \in Undo, Reset(u) PROVE \A b \in DOMAIN tip' : Ok(tip'[b])
    <2>1. update[u].id \in Op
      BY <1>9, OpsAreProcesses DEF TypeInv, JournalType, Reset
    <2>2. CASE DeleteBranch(arg[update[u].id])
      BY <1>1, <2>2 DEF DeleteBranch
    <2>3. CASE tip' = tip \/ tip' = [tip EXCEPT ![branch] = before[update[u].id].ref]
      BY <1>1, <1>3, <1>4, <2>1, <2>3
    <2> QED
      BY <1>9, <2>2, <2>3 DEF Reset, TakeBack, ResetSoft, ResetHard, SwitchBack, git
  <1>10. CASE Resume
    <2>1. paused \in Op /\ stamp[paused] > 0
      BY <1>10 DEF Resume, Elders, TypeInv, GitType
    <2> QED BY <1>2, <1>3, <1>10, <2>1 DEF Resume
  <1>11. CASE Abort \/ UNCHANGED git
    BY <1>4, <1>11 DEF Abort, git
  <1> QED BY <1>6, <1>7, <1>8, <1>9, <1>10, <1>11, GitMoves

LEMMA NextElders ==
    ASSUME TypeInv, StampsRise, Elders, [Next]_vars
    PROVE  Elders'
  <1>1. \A x \in Op : stamp[x] > 0 => stamp'[x] = stamp[x]
    BY Frozen
  <1>2. \A x, y \in Op : stamp'[x] = stamp'[y] /\ stamp'[x] > 0 => x = y
    <2>1. CASE stamp' = stamp
      BY <2>1 DEF Elders
    <2>2. ASSUME NEW o \in Op, Record(o)
          PROVE  \A x, y \in Op : stamp'[x] = stamp'[y] /\ stamp'[x] > 0 => x = y
      <3>1. \A x \in Op \ {o} : stamp'[x] = stamp[x] /\ stamp[x] \leq Cardinality(Stamped) /\ stamp[x] \in Nat
        BY <2>2 DEF Record, StampsRise, TypeInv, EntryType
      <3>2. stamp'[o] = 1 + Cardinality(Stamped)
        BY <2>2 DEF Record, Stamped, TypeInv, EntryType
      <3>3. Cardinality(Stamped) \in Nat
        BY GitJournalAssumption, FS_Subset, FS_CardinalityType DEF Stamped
      <3>4. \A x \in Op \ {o} : stamp'[x] # stamp'[o]
        BY <3>1, <3>2, <3>3
      <3>5. \A x, y \in Op \ {o} : stamp'[x] = stamp'[y] /\ stamp'[x] > 0 => x = y
        BY <3>1 DEF Elders
      <3> QED BY <3>4, <3>5
    <2>3. ASSUME NEW o \in Op, (\E k \in Kind : Clear(o, k)) \/ Begin(o) PROVE stamp' = stamp
      BY <2>3, Zenon DEF Clear, Begin
    <2> QED BY <2>1, <2>2, <2>3, EntryMoves DEF entry
  <1>3. \A o \in Op : pc'[o] \in AtEntry => stamp'[o] > 0
    <2>1. ASSUME NEW o \in Op, Record(o) PROVE stamp'[o] > 0
      <3>1. stamp'[o] = 1 + Cardinality({x \in Op : stamp[x] > 0})
        BY <2>1 DEF Record, TypeInv, EntryType
      <3>2. Cardinality({x \in Op : stamp[x] > 0}) \in Nat
        BY GitJournalAssumption, FS_Subset, FS_CardinalityType
      <3> QED BY <3>1, <3>2
    <2> QED BY <1>1, <2>1, EntryPlaces DEF Elders
  <1>4. \A b \in DOMAIN tip' : \A x \in ToSet(tip'[b]) : stamp'[x] > 0
    BY <1>1, NextHeld
  <1>5. paused' # None => stamp'[paused'] > 0
    <2>1. paused' \in {paused, None} \/ \E o \in Op : paused' = o /\ pc[o] = "recorded"
      <3>1. ASSUME NEW o \in Op, Succeed(o) \/ Fail(o) \/ Rollback(o)
            PROVE  paused' \in {paused, None} \/ (paused' = o /\ pc[o] = "recorded")
        BY <3>1 DEF Succeed, Fail, Rollback, FailTransaction, FailRecorded, FailOpen,
                    Advance, Discard, Push, Checkout, ResetSoft, git
      <3>2. ASSUME NEW u \in Undo, Reset(u) PROVE paused' \in {paused, None}
        BY <3>2 DEF Reset, TakeBack, ResetSoft, ResetHard, DeleteBranch, SwitchBack, git
      <3>3. CASE Resume \/ Abort \/ UNCHANGED git
        BY <3>3 DEF Resume, Abort, git
      <3> QED BY <3>1, <3>2, <3>3, GitMoves
    <2> QED BY <1>1, <2>1 DEF Elders, AtEntry, TypeInv, GitType
  <1> QED BY <1>2, <1>3, <1>4, <1>5, NextRefs DEF Elders

-----------------------------------------------------------------------------
\* Under what an undo may still meet, a /resume or a stopped git, every update
\* finds its entry, and finds it alone.
Updating == {"read", "rewrite", "fill"}
Settled  == past \subseteq {"resumed", "midway"}

Base == TypeInv /\ StampsRise /\ Calm /\ ReaderIsCurrent /\ Elders

OpsFind == \A o \in Op : pc[o] \in AtEntry =>
    /\ OpenAndNewest(o)
    /\ pc[o] \in Updating => update[o].id = o

UndosFind == \A u \in Undo \intersect Working :
    /\ update[u].status = "rolled-back"
    /\ update[u].id \in Newest(Undoable(ledger))
    /\ pc[u] # "planned" => kind[update[u].id] # "push"

Found ==
    /\ readable
    /\ Filling # {} => file = NoEntries
    /\ \A o \in DOMAIN ledger : stamp[o] > 0
    /\ OpsFind /\ UndosFind

LEMMA SettledBefore ==
    ASSUME [Next]_vars, Settled'
    PROVE  Settled /\ \A d \in {"overlap", "race", "broken", "halfway", "unsettled"} : d \notin past'
  BY PastGrows DEF Settled

LEMMA AloneAtWork ==
    ASSUME Base, Settled, NEW p \in Working
    PROVE  Working = {p} /\ (p \in Op => paused = None)
  BY DEF Base, Settled, Calm

LEMMA LedgerOfOps == TypeInv => DOMAIN ledger \subseteq Op
  BY JournalMembers DEF TypeInv, JournalType

LEMMA FoundInit == Init => Found
  BY OpsAreProcesses
  DEF Init, Found, OpsFind, UndosFind, Working, Filling, AtEntry, NoEntries

\* Who moves alone, from one place to another, is all that is at work then.
LEMMA OnlyMover ==
    ASSUME TypeInv, NEW p \in Process, NEW place, Goto(p, place), Working \subseteq {p}
    PROVE  /\ pc'[p] = place
           /\ \A q \in Process : pc'[q] \in AtEntry \union {"planned", "reset"} => q = p
           /\ Working' \subseteq {p}
           /\ place # "fill" => Filling' = {}
  BY DEF TypeInv, PlaceType, Goto, Working, Filling, AtEntry

LEMMA OpsKeepFound ==
    ASSUME Base, Found, Settled, [Next]_vars, Settled', NEW o \in Op,
           \/ \E k \in Kind : Clear(o, k)
           \/ Begin(o) \/ Withdraw(o) \/ Record(o) \/ Succeed(o) \/ Fail(o) \/ Rollback(o)
    PROVE  Found'
  <1> USE OpsAreProcesses DEF Base
  <1>1. TypeInv /\ StampsRise
    OBVIOUS
  <1>2. o \notin Undo
    BY GitJournalAssumption
  <1>3. CASE \E k \in Kind : Clear(o, k)
    <2>1. Working = {} /\ Goto(o, "cleared")
      BY <1>3, SettledBefore DEF Clear, Disturb
    <2>2. /\ pc'[o] = "cleared" /\ Filling' = {} /\ Working' \subseteq {o}
          /\ \A q \in Process : pc'[q] \notin AtEntry
      BY <1>1, <2>1, OnlyMover DEF AtEntry
    <2>3. UNCHANGED <<readable, ledger, stamp>>
      BY <1>3 DEF Clear, journal
    <2> QED BY <1>2, <2>2, <2>3 DEF Found, OpsFind, UndosFind
  <1>4. CASE Begin(o) \/ Withdraw(o)
    <2>1. /\ pc[o] \in {"cleared", "begun"} /\ UNCHANGED <<readable, ledger, stamp>>
          /\ \E place \in {"begun", "ended"} : Goto(o, place)
      BY <1>4, Zenon DEF Begin, Withdraw, End, journal, entry
    <2>2. Working = {o}
      BY <2>1, AloneAtWork DEF Working
    <2>3. /\ Filling' = {} /\ Working' \subseteq {o}
          /\ \A q \in Process : pc'[q] \notin AtEntry
      BY <1>1, <2>1, <2>2, OnlyMover DEF AtEntry
    <2> QED BY <1>2, <2>1, <2>3 DEF Found, OpsFind, UndosFind
  <1>5. CASE Record(o)
    <2>1. Working = {o} /\ Goto(o, "recorded") /\ readable' = readable
      BY <1>5, AloneAtWork DEF Working, Record
    <2>2. /\ pc'[o] = "recorded" /\ Filling' = {} /\ Working' \subseteq {o}
          /\ \A q \in Process : pc'[q] \in AtEntry => q = o
      BY <1>1, <2>1, OnlyMover
    <2>3. OpenAndNewest(o)'
      BY <1>1, <1>5, RecordStamps DEF OpenAndNewest, Record, Put
    <2>4. stamp'[o] > 0
      BY <1>5, NextElders, <2>2 DEF Elders, AtEntry
    <2>5. \A x \in DOMAIN ledger' : stamp'[x] > 0
      <3>1. DOMAIN ledger' = DOMAIN ledger \union {o}
        BY <1>5 DEF Record, Put
      <3> QED BY <1>1, <2>4, <3>1, Frozen, LedgerOfOps DEF Found
    <2> QED BY <1>2, <2>1, <2>2, <2>3, <2>5 DEF Found, OpsFind, UndosFind, Updating
  <1>6. CASE Succeed(o) \/ Fail(o) \/ Rollback(o)
    <2>1. pc[o] \in {"recorded", "rollback"} /\ UNCHANGED <<readable, ledger, stamp>>
      BY <1>6 DEF Succeed, Fail, Rollback, journal, entry
    <2>2. PICK place \in {"rollback", "read", "ended"} :
            Goto(o, place) /\ (place = "read" => \E status \in Status : Will(o, o, status))
      BY <1>6 DEF Succeed, Fail, FailTransaction, FailRecorded, FailOpen, Rollback, End, Status
    <2>3. Working = {o}
      BY <2>1, AloneAtWork DEF Working
    <2>4. /\ pc'[o] = place /\ Filling' = {} /\ Working' \subseteq {o}
          /\ \A q \in Process : pc'[q] \in AtEntry => q = o
      BY <1>1, <2>2, <2>3, OnlyMover
    <2>5. OpenAndNewest(o)'
      BY <2>1 DEF Found, OpsFind, OpenAndNewest, AtEntry
    <2>6. place = "read" => update'[o].id = o
      BY <2>2 DEF Will, TypeInv, JournalType
    <2> QED BY <1>2, <2>1, <2>2, <2>4, <2>5, <2>6 DEF Found, OpsFind, UndosFind, Updating
  <1> QED BY <1>3, <1>4, <1>5, <1>6

LEMMA UndosKeepFound ==
    ASSUME Base, Found, Settled, [Next]_vars, Settled', NEW u \in Undo,
           Plan(u) \/ Refetch(u) \/ Reset(u) \/ UndoFails(u)
    PROVE  Found'
  <1> USE OpsAreProcesses DEF Base
  <1>1. TypeInv
    OBVIOUS
  <1>2. u \notin Op
    BY GitJournalAssumption
  <1>3. CASE Plan(u)
    <2>1. Working = {} /\ Goto(u, "planned") /\ UNCHANGED <<readable, ledger, stamp, kind>>
      BY <1>3, SettledBefore DEF Plan, Disturb, journal, entry
    <2>2. /\ pc'[u] = "planned" /\ Filling' = {} /\ Working' \subseteq {u}
          /\ \A q \in Process : pc'[q] \notin AtEntry
      BY <1>1, <2>1, OnlyMover DEF AtEntry
    <2>3. file = ledger
      BY <2>1 DEF Settled, ReaderIsCurrent, Filling, Working
    <2>4. PICK o \in Newest(Undoable(file)) : Will(u, o, "rolled-back")
      BY <1>3 DEF Plan
    <2>5. update'[u].id = o /\ update'[u].status = "rolled-back"
      BY <2>4 DEF Will, TypeInv, JournalType
    <2>6. o \in Newest(Undoable(ledger))'
      BY <2>1, <2>3, <2>4 DEF Newest, Undoable
    <2> QED BY <1>2, <2>1, <2>2, <2>5, <2>6 DEF Found, OpsFind, UndosFind
  <1>4. CASE Refetch(u) \/ Reset(u) \/ UndoFails(u)
    <2>1. /\ pc[u] \in {"planned", "reset"}
          /\ UNCHANGED <<readable, ledger, stamp, kind, update>>
      BY <1>4 DEF Refetch, Reset, UndoFails, journal, entry
    <2>2. PICK place \in {"reset", "read", "ended"} : Goto(u, place)
      BY <1>4 DEF Refetch, Reset, UndoFails, End
    <2>3. Working = {u}
      BY <2>1, AloneAtWork DEF Working
    <2>4. /\ pc'[u] = place /\ Filling' = {} /\ Working' \subseteq {u}
          /\ \A q \in Process : pc'[q] \in AtEntry => q = u
      BY <1>1, <2>2, <2>3, OnlyMover
    <2>5. place # "ended" => kind[update[u].id] # "push"
      BY <1>1, <1>4, <2>1, <2>3, <2>4 DEF Refetch, Reset, UndoFails, Found, UndosFind, End, Goto, TypeInv, PlaceType
    <2>6. /\ update[u].status = "rolled-back"
          /\ update[u].id \in Newest(Undoable(ledger))
      BY <2>3 DEF Found, UndosFind
    <2>7. Newest(Undoable(ledger))' = Newest(Undoable(ledger))
      BY <2>1 DEF Newest, Undoable
    <2>8. place = "ended" => Working' = {}
      BY <2>4 DEF Working
    <2> QED
      BY <1>2, <2>1, <2>4, <2>5, <2>6, <2>7, <2>8 DEF Found, OpsFind, UndosFind
  <1> QED BY <1>3, <1>4

\* An update in progress finds the file as the ledger has it, and its entry.
LEMMA UpdateIsAlone ==
    ASSUME Base, Found, Settled, NEW p \in Process, pc[p] \in Updating
    PROVE  /\ Working = {p} /\ p \in Working
           /\ update[p].id \in DOMAIN ledger /\ update[p].id \in Op
           /\ pc[p] = "read" => readable /\ update[p].id \in DOMAIN file
           /\ pc[p] = "fill" => file = NoEntries
  <1>1. Working = {p} /\ p \in Working
    BY AloneAtWork DEF Working, Updating
  <1>2. update[p].id \in DOMAIN ledger
    <2>1. CASE p \in Op
      BY <2>1 DEF Found, OpsFind, Updating, AtEntry, OpenAndNewest
    <2>2. CASE p \in Undo
      BY <1>1, <2>2 DEF Found, UndosFind, Newest, Undoable
    <2> QED BY <2>1, <2>2 DEF Process
  <1>3. pc[p] = "read" => file = ledger
    <2>1. pc[p] = "read" => Filling = {}
      BY <1>1 DEF Filling, Working
    <2> QED BY <2>1 DEF Base, ReaderIsCurrent, Settled
  <1>4. pc[p] = "fill" => Filling # {}
    BY DEF Filling
  <1> QED BY <1>1, <1>2, <1>3, <1>4, LedgerOfOps DEF Base, Found

LEMMA UpdatesKeepFound ==
    ASSUME Base, Found, Settled, [Next]_vars, Settled', NEW p \in Process,
           Read(p) \/ Truncate(p) \/ Fill(p)
    PROVE  Found'
  <1> USE DEF Base
  <1>1. pc[p] \in Updating /\ UNCHANGED <<stamp, kind, update>>
    BY DEF Read, Truncate, Fill, Updating, entry
  <1>2. /\ Working = {p}
        /\ update[p].id \in DOMAIN ledger
        /\ pc[p] = "read" => readable /\ update[p].id \in DOMAIN file
        /\ pc[p] = "fill" => file = NoEntries
    BY <1>1, UpdateIsAlone
  <1>3. CASE Read(p) \/ Truncate(p)
    <2>1. PICK place \in {"rewrite", "fill"} : Goto(p, place) /\ (place = "fill" => file' = NoEntries)
      BY <1>2, <1>3 DEF Read, Truncate
    <2>2. UNCHANGED <<readable, ledger>>
      BY <1>3 DEF Read, Truncate, journal
    <2>3. /\ pc'[p] = place /\ (place # "fill" => Filling' = {}) /\ Working' \subseteq {p}
          /\ \A q \in Process : pc'[q] \in AtEntry => q = p
      BY <1>2, <2>1, OnlyMover
    <2>4. Newest(Undoable(ledger))' = Newest(Undoable(ledger))
      BY <1>1, <2>2 DEF Newest, Undoable
    <2>5. OpsFind'
      <3>1. ASSUME p \in Op PROVE OpenAndNewest(p)' /\ update'[p].id = p
        BY <1>1, <2>2, <3>1 DEF Found, OpsFind, OpenAndNewest, Updating, AtEntry
      <3> QED BY <2>3, <3>1, OpsAreProcesses DEF OpsFind
    <2>6. UndosFind'
      <3>1. pc[p] # "planned" /\ p \in Working
        BY <1>1, <1>2 DEF Updating
      <3> QED BY <1>1, <2>2, <2>3, <2>4, <3>1 DEF Found, UndosFind
    <2> QED BY <1>1, <2>1, <2>2, <2>3, <2>5, <2>6 DEF Found
  <1>4. CASE Fill(p)
    <2>1. Goto(p, "ended") /\ readable' /\ ledger' = Put(ledger, update[p].id, update[p].status)
      BY <1>2, <1>4 DEF Fill, End
    <2>2. /\ Filling' = {} /\ Working' = {}
          /\ \A q \in Process : pc'[q] \notin AtEntry
      <3>1. pc'[p] = "ended" /\ Filling' = {} /\ Working' \subseteq {p}
            /\ \A q \in Process : pc'[q] \in AtEntry => q = p
        BY <1>2, <2>1, OnlyMover
      <3> QED BY <3>1 DEF Working, AtEntry
    <2>3. DOMAIN ledger' = DOMAIN ledger
      BY <1>2, <2>1 DEF Put
    <2> QED BY <1>1, <2>1, <2>2, <2>3, OpsAreProcesses DEF Found, OpsFind, UndosFind
  <1> QED BY <1>3, <1>4

LEMMA NextFound ==
    ASSUME Base, Found, Settled, [Next]_vars, Settled'
    PROVE  Found'
  <1>1. CASE Crash \/ \E p \in Process : WriteFails(p)
    BY <1>1, SettledBefore DEF Crash, WriteFails, Break
  <1>2. CASE (\E o \in Op : Timeout(o)) \/ Resume \/ Abort \/ UNCHANGED vars
    <2>1. UNCHANGED <<readable, file, ledger, stamp, kind, update, pc>>
      BY <1>2 DEF Timeout, Resume, Abort, vars, journal, entry
    <2>2. UNCHANGED <<Filling, Working>>
      BY <2>1 DEF Filling, Working
    <2>3. Newest(Undoable(ledger))' = Newest(Undoable(ledger))
      BY <2>1 DEF Newest, Undoable
    <2> QED BY <2>1, <2>2, <2>3 DEF Found, OpsFind, UndosFind, OpenAndNewest
  <1> QED
    BY <1>1, <1>2, OpsKeepFound, UndosKeepFound, UpdatesKeepFound DEF Next, Update

-----------------------------------------------------------------------------
\* The operations whose effect git has: those the journal has as completed,
\* and with them the one whose entry is about to be, without the one whose
\* undo has been carried out.
Undoing    == {u \in Undo : pc[u] \in Updating}
Completing == {o \in Op : pc[o] \in Updating /\ update[o].status = "completed"}
Standing   == (Undoable(ledger) \ {update[u].id : u \in Undoing}) \union Completing

LEMMA StandingIsRecorded ==
    ASSUME Base, Found
    PROVE  /\ Standing \subseteq Op /\ Standing \subseteq DOMAIN ledger
           /\ \A o \in Standing : stamp[o] > 0 /\ stamp[o] \in Nat
  <1>1. Completing \subseteq DOMAIN ledger
    BY DEF Completing, Found, OpsFind, Updating, AtEntry, OpenAndNewest
  <1>2. Standing \subseteq DOMAIN ledger
    BY <1>1 DEF Standing, Undoable
  <1> QED BY <1>2, LedgerOfOps DEF Base, Found, TypeInv, EntryType

\* As long as no entry is being updated, what stands is what the journal says.
LEMMA StandingAtRest ==
    ASSUME NEW p, Working \subseteq {p}, pc[p] \notin Updating
    PROVE  Standing = Undoable(ledger)
  BY OpsAreProcesses DEF Standing, Undoing, Completing, Working, Updating

LEMMA StandingAfterRest ==
    ASSUME NEW p, Working' \subseteq {p}, pc'[p] \notin Updating
    PROVE  Standing' = Undoable(ledger')
  BY OpsAreProcesses DEF Standing, Undoing, Completing, Working, Updating, Undoable

\* What has its entry in the journal and has not been answered is newer than
\* all that stands, and at work alone.
LEMMA WorkerIsNewest ==
    ASSUME Base, Found, Settled, NEW o \in Op, pc[o] \in {"recorded", "rollback"}
    PROVE  /\ Working = {o} /\ paused = None
           /\ Standing = Undoable(ledger) /\ o \notin Standing /\ stamp[o] > 0
           /\ \A x \in Standing : stamp[x] < stamp[o]
  <1> USE OpsAreProcesses DEF Base
  <1>1. Working = {o} /\ paused = None
    BY AloneAtWork DEF Working
  <1>2. Standing = Undoable(ledger)
    BY <1>1, StandingAtRest DEF Updating
  <1>3. OpenAndNewest(o) /\ stamp[o] > 0
    BY DEF Found, OpsFind, AtEntry, Elders
  <1>4. o \notin Standing
    BY <1>2, <1>3 DEF Undoable, OpenAndNewest
  <1>5. \A x \in Standing : stamp[x] < stamp[o]
    <2> SUFFICES ASSUME NEW x \in Standing PROVE stamp[x] < stamp[o]
      OBVIOUS
    <2>1. x \in Op /\ stamp[x] > 0 /\ x # o
      BY <1>4, StandingIsRecorded
    <2>2. stamp[x] \leq stamp[o] /\ stamp[x] # stamp[o]
      BY <1>3, <2>1 DEF OpenAndNewest, Elders
    <2>3. stamp[x] \in Nat /\ stamp[o] \in Nat
      BY <2>1 DEF TypeInv, EntryType
    <2> QED BY <2>2, <2>3
  <1> QED BY <1>1, <1>2, <1>3, <1>4, <1>5

LEMMA SucceedStands ==
    ASSUME Base, Found, Settled, NEW o \in Op, Succeed(o)
    PROVE  /\ Standing' = Standing \union {o} /\ o \notin Standing
           /\ \A x \in Standing : stamp[x] < stamp[o]
           /\ Working = {o} /\ paused = None
  <1> USE OpsAreProcesses DEF Base
  <1>1. /\ Working = {o} /\ paused = None
        /\ Standing = Undoable(ledger) /\ o \notin Standing
        /\ \A x \in Standing : stamp[x] < stamp[o]
    BY WorkerIsNewest DEF Succeed
  <1>2. Undoing' = {} /\ Completing' = {o} /\ ledger' = ledger
    <2>1. /\ pc' = [pc EXCEPT ![o] = "read"] /\ ledger' = ledger
          /\ update' = [update EXCEPT ![o] = [id |-> o, status |-> "completed"]]
      BY DEF Succeed, Goto, Will, journal
    <2>2. /\ pc'[o] = "read" /\ update'[o].status = "completed"
          /\ \A p \in Process : p # o => pc'[p] = pc[p] /\ pc[p] \notin Updating
      BY <1>1, <2>1 DEF TypeInv, PlaceType, JournalType, Working, Updating
    <2> QED BY <2>1, <2>2, GitJournalAssumption DEF Undoing, Completing, Updating
  <1> QED BY <1>1, <1>2 DEF Standing, Undoable

LEMMA ResetFalls ==
    ASSUME Base, Found, Settled, NEW u \in Undo, Reset(u)
    PROVE  /\ update[u].id \in Standing /\ Standing' = Standing \ {update[u].id}
           /\ \A x \in Standing \ {update[u].id} : stamp[x] < stamp[update[u].id]
           /\ kind[update[u].id] # "push"
           /\ Working = {u}
  <1> USE OpsAreProcesses DEF Base
  <1>1. Working = {u} /\ pc[u] = "reset"
    BY AloneAtWork DEF Reset, Working
  <1>2. Standing = Undoable(ledger)
    BY <1>1, StandingAtRest DEF Updating
  <1>3. PICK t : t = update[u].id
    OBVIOUS
  <1>4. t \in Newest(Standing) /\ kind[t] # "push"
    BY <1>1, <1>2, <1>3 DEF Found, UndosFind
  <1>5. \A x \in Standing \ {t} : stamp[x] < stamp[t]
    <2> SUFFICES ASSUME NEW x \in Standing \ {t} PROVE stamp[x] < stamp[t]
      OBVIOUS
    <2>1. x \in Op /\ t \in Op /\ stamp[x] > 0
      BY <1>4, StandingIsRecorded DEF Newest
    <2>2. stamp[x] \leq stamp[t] /\ stamp[x] # stamp[t]
      BY <1>4, <2>1 DEF Newest, Elders
    <2>3. stamp[x] \in Nat /\ stamp[t] \in Nat
      BY <2>1 DEF TypeInv, EntryType
    <2> QED BY <2>2, <2>3
  <1>6. Undoing' = {u} /\ Completing' = {} /\ UNCHANGED <<ledger, update>>
    <2>1. pc' = [pc EXCEPT ![u] = "read"] /\ UNCHANGED <<ledger, update>>
      BY DEF Reset, Goto, journal
    <2>2. /\ pc'[u] = "read"
          /\ \A p \in Process : p # u => pc'[p] = pc[p] /\ pc[p] \notin Updating
      BY <1>1, <2>1 DEF TypeInv, PlaceType, Working, Updating
    <2> QED BY <2>1, <2>2, GitJournalAssumption DEF Undoing, Completing, Updating
  <1>7. Standing' = Standing \ {t}
    BY <1>2, <1>3, <1>6 DEF Standing, Undoable
  <1> QED BY <1>1, <1>3, <1>4, <1>5, <1>7 DEF Newest

LEMMA FillStands ==
    ASSUME Base, Found, Settled, NEW p \in Process, Fill(p)
    PROVE  Standing' = Standing
  <1> USE OpsAreProcesses DEF Base
  <1>1. Working = {p} /\ pc[p] = "fill"
    BY UpdateIsAlone DEF Fill, Updating
  <1>2. /\ ledger' = Put(ledger, update[p].id, update[p].status)
        /\ pc' = [pc EXCEPT ![p] = "ended"]
    BY DEF Fill, End, Goto
  <1>3. Standing' = Undoable(ledger')
    <2>1. Working' \subseteq {p} /\ pc'[p] \notin Updating
      BY <1>1, <1>2 DEF TypeInv, PlaceType, Working, Updating
    <2> QED BY <2>1, StandingAfterRest
  <1>4. \A q \in Process : pc[q] \in Updating <=> q = p
    BY <1>1 DEF Working, Updating
  <1>5. CASE p \in Op
    <2>1. update[p].id = p /\ ledger[p] = "in-progress" /\ p \in DOMAIN ledger
      BY <1>1, <1>5 DEF Found, OpsFind, Updating, AtEntry, OpenAndNewest
    <2>2. Undoing = {} /\ Completing = {x \in {p} : update[p].status = "completed"}
      BY <1>4, <1>5, GitJournalAssumption DEF Undoing, Completing
    <2>3. /\ DOMAIN ledger' = DOMAIN ledger /\ ledger'[p] = update[p].status
          /\ \A x \in DOMAIN ledger \ {p} : ledger'[x] = ledger[x]
      BY <1>2, <2>1 DEF Put
    <2> QED BY <1>3, <2>1, <2>2, <2>3 DEF Standing, Undoable
  <1>6. CASE p \in Undo
    <2>1. /\ update[p].status = "rolled-back" /\ update[p].id \in DOMAIN ledger
      BY <1>1, <1>6 DEF Found, UndosFind, Newest, Undoable
    <2>2. Undoing = {p} /\ Completing = {}
      BY <1>4, <1>6, GitJournalAssumption DEF Undoing, Completing
    <2>3. /\ DOMAIN ledger' = DOMAIN ledger /\ ledger'[update[p].id] = "rolled-back"
          /\ \A x \in DOMAIN ledger \ {update[p].id} : ledger'[x] = ledger[x]
      BY <1>2, <2>1 DEF Put
    <2> QED BY <1>3, <2>2, <2>3 DEF Standing, Undoable
  <1> QED BY <1>5, <1>6 DEF Process

\* No other step changes what stands.
LEMMA OthersStand ==
    ASSUME Base, Found, Settled, [Next]_vars, Settled',
           \A o \in Op : ~Succeed(o), \A u \in Undo : ~Reset(u)
    PROVE  Standing' = Standing
  <1> USE OpsAreProcesses DEF Base
  <1>0. TypeInv
    OBVIOUS
  <1>1. ASSUME NEW p \in Process, NEW place, Goto(p, place), Working \subseteq {p},
               pc[p] \notin Updating, place \notin Updating,
               Undoable(ledger') = Undoable(ledger)
        PROVE  Standing' = Standing
    <2>1. Working' \subseteq {p} /\ pc'[p] \notin Updating
      BY <1>0, <1>1, OnlyMover
    <2> QED BY <1>1, <2>1, StandingAtRest, StandingAfterRest
  <1>2. ASSUME NEW p \in Process, NEW place, Goto(p, place), pc[p] \notin {"idle", "ended"},
               pc[p] \notin Updating, place \notin Updating, ledger' = ledger
        PROVE  Standing' = Standing
    <2>1. Working = {p}
      BY <1>2, AloneAtWork DEF Working
    <2> QED BY <1>1, <1>2, <2>1
  <1>3. ASSUME NEW o \in Op, \E k \in Kind : Clear(o, k) PROVE Standing' = Standing
    <2>1. Working = {} /\ Goto(o, "cleared") /\ pc[o] = "idle" /\ ledger' = ledger
      BY <1>3, SettledBefore DEF Clear, Disturb, journal
    <2> QED BY <1>1, <2>1 DEF Updating
  <1>4. ASSUME NEW o \in Op, Begin(o) \/ Withdraw(o) PROVE Standing' = Standing
    <2>1. /\ pc[o] \in {"cleared", "begun"} /\ ledger' = ledger
          /\ \E place \in {"begun", "ended"} : Goto(o, place)
      BY <1>4, Zenon DEF Begin, Withdraw, End, journal
    <2> QED BY <1>2, <2>1 DEF Updating
  <1>5. ASSUME NEW o \in Op, Record(o) PROVE Standing' = Standing
    <2>1. pc[o] = "begun" /\ Goto(o, "recorded") /\ ledger' = Put(ledger, o, "in-progress")
      BY <1>5 DEF Record
    <2>2. Working = {o}
      BY <2>1, AloneAtWork DEF Working
    <2>3. o \notin DOMAIN ledger
      BY <2>1 DEF Found, StampsRise
    <2>4. Undoable(ledger') = Undoable(ledger)
      BY <2>1, <2>3 DEF Put, Undoable
    <2> QED BY <1>1, <2>1, <2>2, <2>4 DEF Updating
  <1>6. ASSUME NEW o \in Op, Fail(o) \/ Rollback(o) PROVE Standing' = Standing
    <2>1. pc[o] \in {"recorded", "rollback"} /\ ledger' = ledger
      BY <1>6 DEF Fail, Rollback, journal
    <2>2. CASE \E place \in {"rollback", "ended"} : Goto(o, place)
      BY <1>2, <2>1, <2>2 DEF Updating
    <2>3. CASE Goto(o, "read") /\ \E status \in {"failed", "rolled-back"} : Will(o, o, status)
      <3>1. Working = {o}
        BY <2>1, AloneAtWork DEF Working
      <3>2. /\ update'[o].status # "completed"
            /\ \A p \in Process : p # o => pc'[p] = pc[p] /\ pc[p] \notin Updating
        BY <2>3, <3>1 DEF TypeInv, PlaceType, JournalType, Goto, Will, Working, Updating
      <3>3. Undoing' = {} /\ Completing' = {}
        BY <3>2, GitJournalAssumption DEF Undoing, Completing
      <3>4. Standing = Undoable(ledger)
        BY <2>1, <3>1, StandingAtRest DEF Updating
      <3> QED BY <2>1, <3>3, <3>4 DEF Standing, Undoable
    <2>4. \/ \E place \in {"rollback", "ended"} : Goto(o, place)
          \/ Goto(o, "read") /\ \E status \in {"failed", "rolled-back"} : Will(o, o, status)
      BY <1>6 DEF Fail, FailTransaction, FailRecorded, FailOpen, Rollback, End
    <2> QED BY <2>2, <2>3, <2>4
  <1>7. ASSUME NEW u \in Undo, Plan(u) PROVE Standing' = Standing
    <2>1. Working = {} /\ Goto(u, "planned") /\ pc[u] = "idle" /\ ledger' = ledger
      BY <1>7, SettledBefore DEF Plan, Disturb, journal
    <2> QED BY <1>1, <2>1 DEF Updating
  <1>8. ASSUME NEW u \in Undo, Refetch(u) \/ UndoFails(u) PROVE Standing' = Standing
    <2>1. /\ pc[u] \in {"planned", "reset"} /\ ledger' = ledger
          /\ \E place \in {"reset", "ended"} : Goto(u, place)
      BY <1>8 DEF Refetch, UndoFails, End, journal
    <2> QED BY <1>2, <2>1 DEF Updating
  <1>9. ASSUME NEW p \in Process, Read(p) \/ Truncate(p) PROVE Standing' = Standing
    <2>1. pc[p] \in {"read", "rewrite"} /\ UNCHANGED <<update, ledger>>
      BY <1>9 DEF Read, Truncate, journal
    <2>2. \E place \in {"rewrite", "fill"} : Goto(p, place)
      BY <1>9, <2>1, UpdateIsAlone DEF Read, Truncate, Updating
    <2>3. \A q \in Process : pc'[q] \in Updating <=> pc[q] \in Updating
      BY <2>1, <2>2 DEF TypeInv, PlaceType, Goto, Updating
    <2>4. Undoing' = Undoing /\ Completing' = Completing
      BY <2>1, <2>3 DEF Undoing, Completing
    <2> QED BY <2>1, <2>4 DEF Standing, Undoable
  <1>10. CASE (\E o \in Op : Timeout(o)) \/ Resume \/ Abort \/ UNCHANGED vars
    <2>1. UNCHANGED <<pc, update, ledger>>
      BY <1>10 DEF Timeout, Resume, Abort, vars, journal
    <2> QED BY <2>1 DEF Standing, Undoing, Completing, Undoable
  <1>11. CASE Crash \/ \E p \in Process : WriteFails(p)
    BY <1>11, SettledBefore DEF Crash, WriteFails, Break
  <1> QED
    BY <1>3, <1>4, <1>5, <1>6, <1>7, <1>8, <1>9, <1>10, <1>11, FillStands DEF Next, Update

-----------------------------------------------------------------------------
\* HEAD is where the newest of what stands and moves it has left it, and so it
\* was when each of them began.
Below(S, o) == {x \in S : stamp[x] < stamp[o]}

Moving == {"switch", "create"}

HeadBy(S, b) ==
    \/ b = Main /\ \A x \in S : kind[x] \notin Moving
    \/ \E o \in S : /\ kind[o] \in Moving /\ b = arg[o]
                    /\ \A x \in S : kind[x] \in Moving => stamp[x] \leq stamp[o]

HeadsFor(S, b) == HeadBy(S, b) /\ \A o \in S : HeadBy(Below(S, o), before[o].branch)

\* What is recorded of an operation that has not ended is still so.
Starting == {"begun", "recorded", "rollback"}

Starts == \A o \in Op :
    /\ pc[o] \in Starting => before[o].branch = branch
    /\ pc[o] \in {"begun", "recorded"} =>
          /\ before[o].ref = tip[branch]
          /\ kind[o] = "create" => arg[o] \notin DOMAIN tip
    /\ pc[o] = "rollback" => kind[o] \in Transacted

LEMMA BelowNewest ==
    ASSUME EntryType, NEW S \in SUBSET Op, NEW o \in Op, o \notin S,
           \A x \in S : stamp[x] < stamp[o]
    PROVE  /\ Below(S \union {o}, o) = S
           /\ \A x \in S : Below(S \union {o}, x) = Below(S, x)
  <1>1. \A x \in S : stamp[x] \in Nat /\ stamp[o] \in Nat
    BY DEF EntryType
  <1>2. stamp[o] \in Nat
    BY DEF EntryType
  <1> QED BY <1>1, <1>2 DEF Below

LEMMA HeadIsOne ==
    ASSUME EntryType, Elders, NEW S \in SUBSET Op, \A x \in S : stamp[x] > 0,
           NEW b, HeadBy(S, b), NEW c, HeadBy(S, c)
    PROVE  b = c
  <1>1. ASSUME NEW o \in S, NEW x \in S, stamp[o] \leq stamp[x], stamp[x] \leq stamp[o]
        PROVE  o = x
    <2>1. stamp[o] \in Nat /\ stamp[x] \in Nat
      BY DEF EntryType
    <2> QED BY <1>1, <2>1 DEF Elders
  <1> QED BY <1>1 DEF HeadBy

LEMMA HeadsGrow ==
    ASSUME EntryType, NEW S \in SUBSET Op, NEW o \in Op, o \notin S,
           \A x \in S : stamp[x] < stamp[o], HeadsFor(S, before[o].branch),
           NEW b, b = IF kind[o] \in Moving THEN arg[o] ELSE before[o].branch
    PROVE  HeadsFor(S \union {o}, b)
  <1>1. \A x \in S : stamp[x] \leq stamp[o]
    BY DEF EntryType
  <1>2. stamp[o] \leq stamp[o]
    BY DEF EntryType
  <1>3. HeadBy(S \union {o}, b)
    BY <1>1, <1>2 DEF HeadBy, HeadsFor
  <1>4. Below(S \union {o}, o) = S /\ \A x \in S : Below(S \union {o}, x) = Below(S, x)
    BY BelowNewest
  <1>5. \A x \in S \union {o} : HeadBy(Below(S \union {o}, x), before[x].branch)
    BY <1>4 DEF HeadsFor
  <1> QED BY <1>3, <1>5 DEF HeadsFor

\* The newest of what stands is taken away: HEAD was where it began, unless it
\* has moved it.
LEMMA HeadsShrink ==
    ASSUME EntryType, Elders, NEW S \in SUBSET Op, \A x \in S : stamp[x] > 0,
           NEW t \in S, \A x \in S \ {t} : stamp[x] < stamp[t], NEW b, HeadsFor(S, b)
    PROVE  /\ HeadsFor(S \ {t}, before[t].branch)
           /\ kind[t] \notin Moving => b = before[t].branch
           /\ kind[t] \in Moving => b = arg[t]
  <1>1. PICK R \in SUBSET Op : R = S \ {t}
    OBVIOUS
  <1>2. Below(S, t) = R /\ \A x \in R : Below(S, x) = Below(R, x)
    <2>1. S = R \union {t} /\ t \notin R /\ t \in Op /\ \A x \in R : stamp[x] < stamp[t]
      BY <1>1
    <2> QED BY <2>1, BelowNewest
  <1>3. HeadsFor(R, before[t].branch)
    BY <1>1, <1>2 DEF HeadsFor
  <1>4. HeadBy(S, b)
    BY DEF HeadsFor
  <1>5. ASSUME kind[t] \notin Moving PROVE b = before[t].branch
    <2>1. HeadBy(R, b)
      BY <1>1, <1>4, <1>5 DEF HeadBy
    <2> QED BY <1>1, <1>3, <2>1, HeadIsOne DEF HeadsFor
  <1>6. ASSUME kind[t] \in Moving PROVE b = arg[t]
    <2>1. HeadBy(S, arg[t])
      <3>1. \A x \in S : stamp[x] \leq stamp[t]
        BY DEF EntryType
      <3> QED BY <1>6, <3>1 DEF HeadBy
    <2> QED BY <1>4, <2>1, HeadIsOne
  <1> QED BY <1>1, <1>3, <1>5, <1>6

\* What the entries say of what stands after a step is what they said before.
LEMMA StandingFrozen ==
    ASSUME Base, Found, Settled, [Next]_vars, Settled', NEW o \in Standing'
    PROVE  /\ o \in Op /\ stamp[o] > 0
           /\ kind'[o] = kind[o] /\ arg'[o] = arg[o]
           /\ before'[o] = before[o] /\ stamp'[o] = stamp[o]
  <1>1. o \in Op /\ stamp[o] > 0
    <2>1. CASE o \in Standing
      BY <2>1, StandingIsRecorded
    <2>2. ASSUME NEW x \in Op, Succeed(x) PROVE o \in Standing \/ (o = x /\ stamp[x] > 0)
      BY <2>2, SucceedStands DEF Base, Elders, Succeed, AtEntry
    <2>3. ASSUME NEW u \in Undo, Reset(u) PROVE o \in Standing
      BY <2>3, ResetFalls
    <2> QED BY <2>1, <2>2, <2>3, OthersStand
  <1> QED BY <1>1, Frozen DEF Base

LEMMA HeadsAfter ==
    ASSUME Base, Found, Settled, [Next]_vars, Settled', HeadsFor(Standing', branch')
    PROVE  HeadsFor(Standing, branch)'
  <1>1. PICK S \in SUBSET Op : S = Standing'
    BY StandingFrozen
  <1>2. \A x \in S : /\ kind'[x] = kind[x] /\ arg'[x] = arg[x]
                     /\ before'[x] = before[x] /\ stamp'[x] = stamp[x]
    BY <1>1, StandingFrozen
  <1>3. \A x \in S : Below(Standing, x)' = Below(S, x)
    BY <1>1, <1>2 DEF Below
  <1>4. ASSUME NEW R \in SUBSET S, NEW b, HeadBy(R, b) PROVE HeadBy(R, b)'
    BY <1>2, <1>4 DEF HeadBy
  <1>5. HeadBy(Standing, branch)'
    <2>1. HeadBy(S, branch') => HeadBy(Standing, branch)'
      BY <1>1, <1>2 DEF HeadBy
    <2> QED BY <1>1, <2>1 DEF HeadsFor
  <1>6. ASSUME NEW o \in S PROVE HeadBy(Below(Standing, o), before[o].branch)'
    <2>1. HeadBy(Below(S, o), before[o].branch)
      BY <1>1 DEF HeadsFor
    <2>2. before'[o].branch = before[o].branch /\ Below(S, o) \subseteq S
      BY <1>2 DEF Below
    <2> QED BY <1>2, <1>3, <2>1, <2>2 DEF HeadBy
  <1> QED BY <1>1, <1>5, <1>6 DEF HeadsFor

\* How an operation comes to where it has begun, or stays there.
LEMMA StartingSteps ==
    ASSUME Base, Found, Settled, [Next]_vars, Settled', NEW o \in Op, pc'[o] \in Starting
    PROVE  \/ (Begin(o) \/ Record(o)) /\ pc'[o] # "rollback"
           \/ Fail(o) /\ FailTransaction(o) /\ pc'[o] = "rollback" /\ branch' = branch
           \/ pc'[o] = pc[o] /\ UNCHANGED <<git, entry>>
  <1> USE OpsAreProcesses DEF Base
  <1>1. ASSUME NEW p \in Process, \E place : Goto(p, place), p # o \/ pc'[o] \notin Starting,
               Working \subseteq {p}
        PROVE  FALSE
    BY <1>1 DEF TypeInv, PlaceType, Goto, Working, Starting
  <1>2. ASSUME NEW p \in Process, NEW place, Goto(p, place), pc[p] \notin {"idle", "ended"},
               p # o \/ place \notin Starting
        PROVE  FALSE
    <2>1. Working = {p}
      BY <1>2, AloneAtWork DEF Working
    <2>2. p = o => pc'[o] = place
      BY <1>2 DEF TypeInv, PlaceType, Goto
    <2> QED BY <1>1, <1>2, <2>1, <2>2
  <1>3. ASSUME NEW x \in Op, \E k \in Kind : Clear(x, k) PROVE FALSE
    <2>1. Working = {} /\ Goto(x, "cleared")
      BY <1>3, SettledBefore DEF Clear, Disturb
    <2>2. x = o => pc'[o] = "cleared"
      BY <2>1 DEF TypeInv, PlaceType, Goto
    <2> QED BY <1>1, <2>1, <2>2 DEF Starting
  <1>4. ASSUME NEW x \in Op, Withdraw(x) \/ Succeed(x) \/ Rollback(x) PROVE FALSE
    <2>1. /\ pc[x] \in {"cleared", "begun", "recorded", "rollback"}
          /\ \E place \in {"read", "ended"} : Goto(x, place)
      BY <1>4 DEF Withdraw, Succeed, Rollback, End
    <2> QED BY <1>2, <2>1 DEF Starting
  <1>5. ASSUME NEW x \in Op, Begin(x) \/ Record(x) PROVE x = o /\ pc'[o] # "rollback"
    <2>1. pc[x] \in {"cleared", "begun"} /\ \E place \in {"begun", "recorded"} : Goto(x, place)
      BY <1>5, Zenon DEF Begin, Record
    <2>2. x = o
      BY <1>2, <2>1
    <2> QED BY <2>1, <2>2 DEF TypeInv, PlaceType, Goto
  <1>6. ASSUME NEW x \in Op, Fail(x)
        PROVE  x = o /\ FailTransaction(o) /\ pc'[o] = "rollback" /\ branch' = branch
    <2>1. pc[x] = "recorded"
      BY <1>6 DEF Fail
    <2>2. CASE FailTransaction(x)
      <3>1. Goto(x, "rollback") /\ branch' = branch
        BY <2>2 DEF FailTransaction, Advance, git
      <3>2. x = o
        BY <1>2, <2>1, <3>1
      <3> QED BY <2>2, <3>1, <3>2 DEF TypeInv, PlaceType, Goto
    <2>3. CASE FailRecorded(x) \/ FailOpen(x)
      <3>1. \E place \in {"read", "ended"} : Goto(x, place)
        BY <2>3 DEF FailRecorded, FailOpen, End
      <3> QED BY <1>2, <2>1, <3>1 DEF Starting
    <2> QED BY <1>6, <2>2, <2>3 DEF Fail
  <1>7. ASSUME NEW u \in Undo, Plan(u) PROVE FALSE
    <2>1. Working = {} /\ Goto(u, "planned")
      BY <1>7, SettledBefore DEF Plan, Disturb
    <2> QED BY <1>1, <2>1, GitJournalAssumption
  <1>8. ASSUME NEW u \in Undo, Refetch(u) \/ Reset(u) \/ UndoFails(u) PROVE FALSE
    <2>1. pc[u] \in {"planned", "reset"} /\ \E place : Goto(u, place)
      BY <1>8 DEF Refetch, Reset, UndoFails, End
    <2> QED BY <1>2, <2>1, GitJournalAssumption
  <1>9. ASSUME NEW p \in Process, Read(p) \/ Truncate(p) \/ Fill(p) PROVE FALSE
    <2>1. /\ pc[p] \in {"read", "rewrite", "fill"}
          /\ \E place \in {"rewrite", "fill", "ended"} : Goto(p, place)
      BY <1>9 DEF Read, Truncate, Fill, End
    <2> QED BY <1>2, <2>1 DEF Starting
  <1>10. CASE (\E x \in Op : Timeout(x)) \/ UNCHANGED vars
    BY <1>10 DEF Timeout, vars
  <1>11. CASE Resume \/ Abort
    <2>1. pc'[o] = pc[o] /\ paused # None
      BY <1>11 DEF Resume, Abort
    <2>2. o \in Working
      BY <2>1 DEF Working, Starting
    <2> QED BY <2>1, <2>2, AloneAtWork
  <1>12. CASE Crash \/ \E p \in Process : WriteFails(p)
    BY <1>12, SettledBefore DEF Crash, WriteFails, Break
  <1> QED
    BY <1>3, <1>4, <1>5, <1>6, <1>7, <1>8, <1>9, <1>10, <1>11, <1>12 DEF Next, Update

LEMMA NextStarts ==
    ASSUME Base, Found, Settled, [Next]_vars, Settled', Starts
    PROVE  Starts'
  <1> SUFFICES ASSUME NEW o \in Op, pc'[o] \in Starting
               PROVE  /\ before'[o].branch = branch'
                      /\ pc'[o] # "rollback" =>
                            /\ before'[o].ref = tip'[branch']
                            /\ kind'[o] = "create" => arg'[o] \notin DOMAIN tip'
                      /\ pc'[o] = "rollback" => kind'[o] \in Transacted
    BY DEF Starts, Starting
  <1> USE OpsAreProcesses
  <1>1. CASE Begin(o) /\ pc'[o] # "rollback"
    <2>1. /\ before' = [before EXCEPT ![o] = [branch |-> branch, ref |-> tip[branch]]]
          /\ UNCHANGED <<branch, tip, kind>>
      BY <1>1, Zenon DEF Begin, git
    <2>2. before'[o] = [branch |-> branch, ref |-> tip[branch]]
      BY <2>1 DEF Base, TypeInv, EntryType
    <2>3. ASSUME kind[o] = "create" PROVE arg'[o] \in Branch \ DOMAIN tip
      <3>1. \E b \in Branch \ DOMAIN tip : arg' = [arg EXCEPT ![o] = b]
        BY <1>1, <2>3 DEF Begin
      <3> QED BY <3>1 DEF Base, TypeInv, EntryType
    <2> QED BY <1>1, <2>1, <2>2, <2>3
  <1>2. CASE Record(o) /\ pc'[o] # "rollback"
    <2>1. pc[o] = "begun" /\ UNCHANGED <<branch, tip, kind, arg, before>>
      BY <1>2 DEF Record, git
    <2> QED BY <1>2, <2>1 DEF Starts, Starting
  <1>3. CASE Fail(o) /\ FailTransaction(o) /\ pc'[o] = "rollback" /\ branch' = branch
    <2>1. pc[o] = "recorded" /\ UNCHANGED <<before, kind>> /\ kind[o] \in Transacted
      BY <1>3 DEF Fail, FailTransaction, entry
    <2> QED BY <1>3, <2>1 DEF Starts, Starting
  <1>4. CASE pc'[o] = pc[o] /\ UNCHANGED <<git, entry>>
    BY <1>4 DEF Starts, Starting, git, entry
  <1> QED BY <1>1, <1>2, <1>3, <1>4, StartingSteps

\* What an undo takes back is the newest of what stands, on the branch it was
\* carried out on; it is never the making of a branch, since HEAD is on that.
LEMMA ResetTakesNewest ==
    ASSUME Base, Found, Settled, HeadsFor(Standing, branch), NEW u \in Undo, Reset(u)
    PROVE  LET t == update[u].id IN
           /\ HeadsFor(Standing \ {t}, branch')
           /\ kind[t] \notin {"push", "create"}
           /\ kind[t] # "switch" => branch' = branch /\ before[t].branch = branch
           /\ \/ tip' = tip /\ kind[t] \notin Advancing
              \/ tip' = tip /\ Detached
              \/ kind[t] \in Advancing /\ tip' = [tip EXCEPT ![branch] = before[t].ref]
  <1>1. PICK t : t = update[u].id
    OBVIOUS
  <1>2. /\ t \in Standing /\ kind[t] # "push"
        /\ \A x \in Standing \ {t} : stamp[x] < stamp[t]
    BY <1>1, ResetFalls
  <1>3. PICK S \in SUBSET Op : S = Standing /\ \A x \in S : stamp[x] > 0
    BY StandingIsRecorded
  <1>4. /\ HeadsFor(S \ {t}, before[t].branch)
        /\ kind[t] \notin Moving => branch = before[t].branch
        /\ kind[t] \in Moving => branch = arg[t]
    BY <1>2, <1>3, HeadsShrink DEF Base, TypeInv
  <1>5. TakeBack(t) /\ t \in Op
    BY <1>1, <1>2, <1>3 DEF Reset
  <1>6. kind[t] \in AllKinds
    BY <1>5 DEF Base, TypeInv, EntryType
  <1>7. kind[t] # "create"
    BY <1>4, <1>5 DEF TakeBack, DeleteBranch, Moving
  <1>8. CASE kind[t] = "switch"
    <2>1. branch' = before[t].branch /\ tip' = tip
      BY <1>5, <1>8 DEF TakeBack, SwitchBack
    <2> QED BY <1>1, <1>2, <1>3, <1>4, <1>7, <1>8, <2>1 DEF Advancing
  <1>9. CASE kind[t] # "switch"
    <2>1. before[t].branch = branch
      BY <1>4, <1>7, <1>9 DEF Moving
    <2>2. branch' = branch
      BY <1>5, <1>7, <1>9 DEF TakeBack, ResetSoft, ResetHard, git
    <2>3. \/ tip' = tip /\ kind[t] \notin Advancing
          \/ tip' = tip /\ Detached
          \/ kind[t] \in Advancing /\ tip' = [tip EXCEPT ![branch] = before[t].ref]
      BY <1>5, <1>7, <1>9 DEF TakeBack, ResetSoft, ResetHard, git, Advancing
    <2> QED BY <1>1, <1>2, <1>3, <1>4, <1>7, <1>9, <2>1, <2>2, <2>3
  <1> QED BY <1>8, <1>9

LEMMA BranchStays ==
    ASSUME [Next]_vars, \A o \in Op : ~Succeed(o), \A u \in Undo : ~Reset(u)
    PROVE  branch' = branch
  <1>1. ASSUME NEW o \in Op, Fail(o) \/ Rollback(o) PROVE branch' = branch
    BY <1>1 DEF Fail, FailTransaction, FailRecorded, FailOpen, Rollback, Advance, Push, ResetSoft, git
  <1>2. CASE Resume \/ Abort \/ UNCHANGED git
    BY <1>2 DEF Resume, Abort, git
  <1> QED BY <1>1, <1>2, GitMoves

LEMMA NextHeads ==
    ASSUME Base, Found, Settled, [Next]_vars, Settled', Starts, HeadsFor(Standing, branch)
    PROVE  HeadsFor(Standing, branch)'
  <1>1. PICK S \in SUBSET Op : S = Standing
    BY StandingIsRecorded
  <1>2. ASSUME NEW o \in Op, Succeed(o) PROVE HeadsFor(Standing', branch')
    <2>1. /\ Standing' = S \union {o} /\ o \notin S
          /\ \A x \in S : stamp[x] < stamp[o]
      BY <1>1, <1>2, SucceedStands
    <2>2. before[o].branch = branch
      BY <1>2 DEF Starts, Starting, Succeed
    <2>3. branch' = IF kind[o] \in Moving THEN arg[o] ELSE branch
      BY <1>2 DEF Succeed, Advance, Discard, Push, Checkout, Advancing, Moving
    <2> QED BY <1>1, <2>1, <2>2, <2>3, HeadsGrow DEF Base, TypeInv
  <1>3. ASSUME NEW u \in Undo, Reset(u) PROVE HeadsFor(Standing', branch')
    BY <1>3, ResetFalls, ResetTakesNewest
  <1>4. ASSUME \A o \in Op : ~Succeed(o), \A u \in Undo : ~Reset(u)
        PROVE  HeadsFor(Standing', branch')
    BY <1>4, OthersStand, BranchStays
  <1> QED BY <1>2, <1>3, <1>4, HeadsAfter

-----------------------------------------------------------------------------
\* What the remote has was on a branch when it was pushed, and still is: it is
\* under everything that began on that branch after the push.
Pushes(S) == {p \in S : kind[p] = "push"}

Holds(p, ref) == ToSet(before[p].ref) \subseteq ToSet(ref)

KeptFor(S, t, remote) ==
    /\ remote \subseteq UNION {ToSet(before[p].ref) : p \in Pushes(S)}
    /\ \A p \in Pushes(S) : before[p].branch \in DOMAIN t /\ Holds(p, t[before[p].branch])
    /\ \A p \in Pushes(S), o \in S :
          before[o].branch = before[p].branch /\ stamp[p] < stamp[o] => Holds(p, before[o].ref)

StartsKept == \A o \in Op : pc[o] \in Starting =>
    \A p \in Pushes(Standing) : before[p].branch = branch => Holds(p, before[o].ref)

LEMMA KeptAfter ==
    ASSUME Base, Found, Settled, [Next]_vars, Settled', KeptFor(Standing', tip', published')
    PROVE  KeptFor(Standing, tip, published)'
  <1>1. PICK S \in SUBSET Op : S = Standing'
    BY StandingFrozen
  <1>2. \A x \in S : kind'[x] = kind[x] /\ before'[x] = before[x] /\ stamp'[x] = stamp[x]
    BY <1>1, StandingFrozen
  <1>3. Pushes(Standing)' = Pushes(S) /\ Pushes(S) \subseteq S
    BY <1>1, <1>2 DEF Pushes
  <1>4. published' \subseteq UNION {ToSet(before'[p].ref) : p \in Pushes(S)}
    BY <1>1, <1>2, <1>3 DEF KeptFor
  <1>5. ASSUME NEW p \in Pushes(S)
        PROVE  /\ before'[p].branch \in DOMAIN tip'
               /\ ToSet(before'[p].ref) \subseteq ToSet(tip'[before'[p].branch])
    BY <1>1, <1>2, <1>3 DEF KeptFor, Holds
  <1>6. ASSUME NEW p \in Pushes(S), NEW o \in S, before'[o].branch = before'[p].branch, stamp'[p] < stamp'[o]
        PROVE  ToSet(before'[p].ref) \subseteq ToSet(before'[o].ref)
    BY <1>1, <1>2, <1>3, <1>6 DEF KeptFor, Holds
  <1> QED BY <1>1, <1>3, <1>4, <1>5, <1>6 DEF KeptFor, Holds

LEMMA AppendHolds ==
    ASSUME NEW p, NEW s \in Seq(Op), NEW o \in Op, Holds(p, s)
    PROVE  Holds(p, Append(s, o))
  BY AppendSet DEF Holds

\* A branch gets longer.
LEMMA AdvanceKeeps ==
    ASSUME TypeInv, NEW S \in SUBSET Op, NEW remote, KeptFor(S, tip, remote), NEW o \in Op,
           tip' = [tip EXCEPT ![branch] = Append(@, o)]
    PROVE  KeptFor(S, tip', remote)
  <1>1. branch \in DOMAIN tip /\ tip[branch] \in Seq(Op)
    BY HistoryOfOps
  <1>2. ASSUME NEW p \in Pushes(S)
        PROVE  before[p].branch \in DOMAIN tip' /\ Holds(p, tip'[before[p].branch])
    <2>1. before[p].branch \in DOMAIN tip /\ Holds(p, tip[before[p].branch])
      BY DEF KeptFor
    <2> QED BY <1>1, <2>1, AppendHolds DEF TypeInv, GitType
  <1> QED BY <1>2 DEF KeptFor

\* A branch goes back to where something on it began.
LEMMA ResetKeeps ==
    ASSUME TypeInv, NEW S \in SUBSET Op, NEW remote, KeptFor(S, tip, remote),
           NEW ref, tip' = [tip EXCEPT ![branch] = ref],
           \A p \in Pushes(S) : before[p].branch = branch => Holds(p, ref)
    PROVE  KeptFor(S, tip', remote)
  <1>1. ASSUME NEW p \in Pushes(S)
        PROVE  before[p].branch \in DOMAIN tip' /\ Holds(p, tip'[before[p].branch])
    <2>1. before[p].branch \in DOMAIN tip /\ Holds(p, tip[before[p].branch])
      BY DEF KeptFor
    <2> QED BY <2>1 DEF TypeInv, GitType
  <1> QED BY <1>1 DEF KeptFor

LEMMA SucceedKeeps ==
    ASSUME Base, Found, Settled, Starts, StartsKept,
           KeptFor(Standing, tip, published), NEW o \in Op, Succeed(o)
    PROVE  KeptFor(Standing', tip', published')
  <1>1. PICK S \in SUBSET Op : S = Standing
    BY StandingIsRecorded
  <1>2. /\ Standing' = S \union {o} /\ o \notin S /\ paused = None
        /\ \A x \in S : stamp[x] < stamp[o]
    BY <1>1, SucceedStands
  <1>3. /\ pc[o] = "recorded" /\ before[o].branch = branch /\ before[o].ref = tip[branch]
        /\ kind[o] = "create" => arg[o] \notin DOMAIN tip
        /\ \A p \in Pushes(S) : before[p].branch = branch => Holds(p, before[o].ref)
    BY <1>1 DEF Succeed, Starts, Starting, StartsKept
  <1>4. ~Detached /\ TypeInv /\ branch \in DOMAIN tip
    BY <1>2, HistoryOfOps DEF Detached, Base
  <1>5. \A x \in S \union {o} : ~(stamp[o] < stamp[x])
    BY <1>1, <1>2 DEF Base, TypeInv, EntryType
  \* What was pushed before is under the operation too, see StartsKept.
  <1>6. ASSUME kind[o] # "push", published' = published, KeptFor(S, tip', published)
        PROVE  KeptFor(S \union {o}, tip', published')
    <2>1. Pushes(S \union {o}) = Pushes(S)
      BY <1>6 DEF Pushes
    <2> QED BY <1>3, <1>6, <2>1 DEF KeptFor
  <1>7. CASE Advance(o)
    <2>1. tip' = [tip EXCEPT ![branch] = Append(@, o)] /\ published' = published /\ kind[o] # "push"
      BY <1>4, <1>7 DEF Advance, Advancing
    <2>2. KeptFor(S, tip', published)
      BY <1>1, <1>4, <2>1, AdvanceKeeps
    <2> QED BY <1>2, <1>6, <2>1, <2>2
  <1>8. CASE Discard(o)
    BY <1>1, <1>2, <1>6, <1>8 DEF Discard
  <1>9. CASE Checkout(o)
    <2>1. published' = published /\ kind[o] # "push"
      BY <1>9 DEF Checkout
    <2>2. DOMAIN tip \subseteq DOMAIN tip' /\ \A b \in DOMAIN tip : tip'[b] = tip[b]
      BY <1>3, <1>9 DEF Checkout
    <2>3. KeptFor(S, tip', published)
      BY <1>1, <2>2 DEF KeptFor
    <2> QED BY <1>2, <1>6, <2>1, <2>3
  <1>10. CASE Push(o)
    <2>1. published' = published \union ToSet(before[o].ref) /\ tip' = tip /\ kind[o] = "push"
      BY <1>3, <1>10 DEF Push
    <2>2. Pushes(S \union {o}) = Pushes(S) \union {o}
      BY <2>1 DEF Pushes
    <2>3. KeptFor(S, tip, published)
      BY <1>1
    <2>4. published' \subseteq UNION {ToSet(before[p].ref) : p \in Pushes(S) \union {o}}
      BY <2>1, <2>3 DEF KeptFor
    <2>5. Holds(o, tip[branch])
      BY <1>3 DEF Holds
    <2>6. ASSUME NEW p \in Pushes(S) \union {o}, NEW x \in S \union {o},
                 before[x].branch = before[p].branch, stamp[p] < stamp[x]
          PROVE  Holds(p, before[x].ref)
      <3>1. p \in Pushes(S)
        BY <1>5, <2>6 DEF Pushes
      <3> QED BY <1>3, <2>3, <2>6, <3>1 DEF KeptFor
    <2> QED BY <1>2, <1>3, <1>4, <2>1, <2>2, <2>3, <2>4, <2>5, <2>6 DEF KeptFor
  <1> QED BY <1>7, <1>8, <1>9, <1>10 DEF Succeed

LEMMA ResetKeepsPushed ==
    ASSUME Base, Found, Settled, HeadsFor(Standing, branch),
           KeptFor(Standing, tip, published), NEW u \in Undo, Reset(u)
    PROVE  KeptFor(Standing', tip', published')
  <1>1. PICK S \in SUBSET Op : S = Standing
    BY StandingIsRecorded
  <1>2. PICK t : t = update[u].id
    OBVIOUS
  <1>3. /\ t \in S /\ Standing' = S \ {t} /\ kind[t] # "push"
        /\ \A x \in S \ {t} : stamp[x] < stamp[t]
    BY <1>1, <1>2, ResetFalls
  <1>4. published' = published
    BY DEF Reset, TakeBack, ResetSoft, ResetHard, DeleteBranch, SwitchBack, git
  <1>5. \/ tip' = tip
        \/ before[t].branch = branch /\ tip' = [tip EXCEPT ![branch] = before[t].ref]
    BY <1>2, ResetTakesNewest DEF Advancing
  <1>6. KeptFor(S, tip', published)
    <2>1. \A p \in Pushes(S) : p \in S \ {t}
      BY <1>3 DEF Pushes
    <2>2. before[t].branch = branch =>
            \A p \in Pushes(S) : before[p].branch = branch => Holds(p, before[t].ref)
      BY <1>1, <1>3, <2>1 DEF KeptFor
    <2> QED BY <1>1, <1>5, <2>2, ResetKeeps DEF Base
  <1>7. Pushes(S \ {t}) = Pushes(S)
    BY <1>3 DEF Pushes
  <1> QED BY <1>3, <1>4, <1>6, <1>7 DEF KeptFor

LEMMA OthersKeep ==
    ASSUME Base, Found, Settled, [Next]_vars, Settled', Starts, StartsKept,
           KeptFor(Standing, tip, published),
           \A o \in Op : ~Succeed(o), \A u \in Undo : ~Reset(u)
    PROVE  KeptFor(Standing', tip', published')
  <1> USE OpsAreProcesses
  <1>1. PICK S \in SUBSET Op : S = Standing /\ S = Standing' /\ KeptFor(S, tip, published)
    BY StandingIsRecorded, OthersStand
  <1>2. TypeInv
    BY DEF Base
  <1>3. ASSUME UNCHANGED <<tip, published>> PROVE KeptFor(S, tip', published')
    BY <1>1, <1>3
  <1>4. ASSUME NEW o \in Op, tip' = [tip EXCEPT ![branch] = Append(@, o)], published' = published
        PROVE  KeptFor(S, tip', published')
    BY <1>1, <1>2, <1>4, AdvanceKeeps
  <1>5. ASSUME NEW o \in Op, Fail(o) PROVE KeptFor(S, tip', published')
    <2>1. "unsettled" \notin past'
      BY SettledBefore
    <2>2. UNCHANGED <<tip, published>> \/ Advance(o)
      BY <1>5, <2>1 DEF Fail, FailTransaction, FailRecorded, FailOpen, Disturb, git
    <2> QED BY <1>3, <1>4, <2>2 DEF Advance
  <1>6. ASSUME NEW o \in Op, Rollback(o) PROVE KeptFor(S, tip', published')
    <2>1. published' = published
      BY <1>6 DEF Rollback, ResetSoft, git
    <2>2. tip' = tip \/ tip' = [tip EXCEPT ![branch] = before[o].ref]
      BY <1>6 DEF Rollback, ResetSoft, git
    <2>3. \A p \in Pushes(S) : before[p].branch = branch => Holds(p, before[o].ref)
      BY <1>1, <1>6 DEF Rollback, StartsKept, Starting
    <2> QED BY <1>1, <1>2, <1>3, <2>1, <2>2, <2>3, ResetKeeps
  <1>7. ASSUME Resume PROVE KeptFor(S, tip', published')
    <2>1. paused \in Op
      BY <1>2, <1>7 DEF Resume, TypeInv, GitType
    <2> QED BY <1>4, <1>7, <2>1 DEF Resume
  <1>8. ASSUME Abort \/ UNCHANGED git PROVE KeptFor(S, tip', published')
    BY <1>3, <1>8 DEF Abort, git
  <1>9. KeptFor(S, tip', published')
    BY <1>5, <1>6, <1>7, <1>8, GitMoves
  <1> QED BY <1>1, <1>9

LEMMA NextStartsKept ==
    ASSUME Base, Found, Settled, [Next]_vars, Settled', Starts, StartsKept,
           KeptFor(Standing, tip, published)
    PROVE  StartsKept'
  <1> SUFFICES ASSUME NEW o \in Op, pc'[o] \in Starting, NEW p \in Pushes(Standing)',
                      before'[p].branch = branch'
               PROVE  ToSet(before'[p].ref) \subseteq ToSet(before'[o].ref)
    BY DEF StartsKept, Holds
  <1> USE OpsAreProcesses
  <1>1. \A x \in Op : ~Succeed(x)
    <2>1. ASSUME NEW x \in Op, Succeed(x) PROVE FALSE
      <3>1. pc'[x] = "read" /\ \A q \in Process : q # x => pc'[q] = pc[q] /\ pc[q] \in {"idle", "ended"}
        BY <2>1, SucceedStands DEF Succeed, Goto, Base, TypeInv, PlaceType, Working
      <3> QED BY <3>1 DEF Starting
    <2> QED BY <2>1
  <1>2. \A u \in Undo : ~Reset(u)
    <2>1. ASSUME NEW u \in Undo, Reset(u) PROVE FALSE
      <3>1. pc'[u] = "read" /\ \A q \in Process : q # u => pc'[q] = pc[q] /\ pc[q] \in {"idle", "ended"}
        BY <2>1, ResetFalls DEF Reset, Goto, Base, TypeInv, PlaceType, Working
      <3> QED BY <3>1 DEF Starting
    <2> QED BY <2>1
  <1>3. Standing' = Standing /\ branch' = branch
    BY <1>1, <1>2, OthersStand, BranchStays
  <1>4. p \in Standing' /\ p \in Pushes(Standing) /\ before'[p] = before[p]
    <2>1. p \in Standing' /\ kind'[p] = "push"
      BY DEF Pushes
    <2> QED BY <1>3, <2>1, StandingFrozen DEF Pushes
  <1>5. CASE Begin(o)
    <2>1. before' = [before EXCEPT ![o] = [branch |-> branch, ref |-> tip[branch]]]
      BY <1>5, Zenon DEF Begin
    <2>2. before'[o].ref = tip[branch]
      BY <2>1 DEF Base, TypeInv, EntryType
    <2> QED BY <1>3, <1>4, <2>2 DEF KeptFor, Holds
  <1>6. CASE pc[o] \in Starting /\ before'[o] = before[o]
    BY <1>3, <1>4, <1>6 DEF StartsKept, Holds
  <1>7. Record(o) \/ Fail(o) => pc[o] \in Starting /\ before'[o] = before[o]
    BY DEF Record, Fail, entry, Starting
  <1> QED BY <1>5, <1>6, <1>7, StartingSteps DEF entry

LEMMA NextKept ==
    ASSUME Base, Found, Settled, [Next]_vars, Settled', Starts, HeadsFor(Standing, branch),
           StartsKept, KeptFor(Standing, tip, published)
    PROVE  KeptFor(Standing, tip, published)'
  BY SucceedKeeps, ResetKeepsPushed, OthersKeep, KeptAfter

\* All of it, under what may disturb a run.
Standings == Settled =>
    /\ Found /\ Starts /\ HeadsFor(Standing, branch)
    /\ StartsKept /\ KeptFor(Standing, tip, published)

LEMMA StandingsInit == Init => Standings
  <1> SUFFICES ASSUME Init PROVE Standings
    OBVIOUS
  <1>1. Standing = {} /\ \A o \in Op : pc[o] = "idle"
    BY OpsAreProcesses
    DEF Init, Standing, Undoing, Completing, Undoable, Updating, NoEntries
  <1>2. Starts /\ StartsKept
    BY <1>1 DEF Starts, StartsKept, Starting
  <1>3. HeadsFor(Standing, branch)
    BY <1>1 DEF Init, HeadsFor, HeadBy
  <1>4. KeptFor(Standing, tip, published)
    BY <1>1 DEF Init, KeptFor, Pushes
  <1> QED BY <1>2, <1>3, <1>4, FoundInit DEF Standings

LEMMA BaseHolds == Spec => []Base
  <1>1. Init => Base
    BY InitType, StampsInit, CalmInit, ReaderInit, EldersInit DEF Base
  <1>2. Base /\ [Next]_vars => Base'
    <2> SUFFICES ASSUME Base, [Next]_vars PROVE Base'
      OBVIOUS
    <2>1. Shapes /\ TypeInv /\ StampsRise /\ Calm /\ ReaderIsCurrent /\ Elders
      BY DEF Base, Shapes, TypeInv, PlaceType, JournalType
    <2>2. TypeInv'
      BY <2>1, NextGitType, NextEntryType, NextPlaceType, NextJournalType, NextBoundType
      DEF TypeInv
    <2> QED BY <2>1, <2>2, NextStamps, NextKeepsCalm, NextKeepsReader, NextElders DEF Base
  <1> QED BY <1>1, <1>2, PTL DEF Spec

LEMMA NextStandings ==
    ASSUME Base, Standings, [Next]_vars
    PROVE  Standings'
  <1> SUFFICES ASSUME Settled' PROVE Standings'
    BY DEF Standings
  <1>1. Settled
    BY SettledBefore
  <1> QED
    BY <1>1, NextFound, NextStarts, NextHeads, NextStartsKept, NextKept DEF Standings

\* No undo takes back what the remote has (SafeUndoFramework, AlreadyPushedError),
\* whatever /resume or an undo in a stopped repository do beside it, as long as
\* nothing overlaps, no write fails and no push or rollback is left in doubt: the
\* entry of a push stands before those it published, and is never undone.
THEOREM PublishedIsNeverLost == Spec => []PublishedIsKept
  <1>1. Standings => PublishedIsKept
    <2> SUFFICES ASSUME KeptFor(Standing, tip, published) PROVE published \subseteq Held(tip)
      BY DEF Standings, Settled, PublishedIsKept
    <2> QED BY DEF KeptFor, Holds, Held
  <1> QED BY <1>1, BaseHolds, StandingsInit, NextStandings, PTL DEF Spec

-----------------------------------------------------------------------------
\* Each branch is as the newest of what stands and has moved it has left it,
\* and so it was when each of them began.
Touching(o, b) ==
    \/ kind[o] \in Advancing /\ before[o].branch = b
    \/ kind[o] = "create" /\ arg[o] = b

Left(o) == IF kind[o] = "create" THEN before[o].ref ELSE Append(before[o].ref, o)

TipBy(S, b, ref) ==
    \/ ref = <<>> /\ \A x \in S : ~Touching(x, b)
    \/ \E o \in S : /\ Touching(o, b) /\ ref = Left(o)
                    /\ \A x \in S : Touching(x, b) => stamp[x] \leq stamp[o]

AdvancingOf(S) == {o \in S : kind[o] \in Advancing}
RollingBack == {o \in Op : pc[o] = "rollback"}

\* S stands, t are the branches, and R is the operation that is rolled back,
\* if any: its commit may be there. Everything that stands is on a branch, and
\* nothing else is.
TipsFor(S, R, t) ==
    /\ \A o \in S : TipBy(Below(S, o), before[o].branch, before[o].ref)
    /\ \A o \in R : TipBy(S, branch, before[o].ref)
    /\ \A b \in DOMAIN t :
          \/ TipBy(S, b, t[b])
          \/ \E o \in R : kind[o] = "commit" /\ b = branch /\ t[b] = Left(o)
    /\ \A b \in DOMAIN t : ToSet(t[b]) \subseteq AdvancingOf(S \union R)
    /\ \A o \in AdvancingOf(S) : \E b \in DOMAIN t : o \in ToSet(t[b])

LEMMA TipIsOne ==
    ASSUME EntryType, Elders, NEW S \in SUBSET Op, \A x \in S : stamp[x] > 0,
           NEW b, NEW ref, TipBy(S, b, ref), NEW old, TipBy(S, b, old)
    PROVE  ref = old
  <1>1. ASSUME NEW o \in S, NEW x \in S, stamp[o] \leq stamp[x], stamp[x] \leq stamp[o]
        PROVE  o = x
    <2>1. stamp[o] \in Nat /\ stamp[x] \in Nat
      BY DEF EntryType
    <2> QED BY <1>1, <2>1 DEF Elders
  <1> QED BY <1>1 DEF TipBy

\* A branch holds nothing newer than what has moved it.
LEMMA TipIsOlder ==
    ASSUME TypeInv, Elders, NEW S \in SUBSET Op, \A x \in S : stamp[x] > 0,
           NEW b, NEW ref, TipBy(S, b, ref),
           NEW n \in Op, \A x \in S : Touching(x, b) => stamp[x] < stamp[n]
    PROVE  n \notin ToSet(ref)
  <1>1. CASE ref = <<>>
    <2>1. ToSet(<<>>) = {}
      BY DEF ToSet
    <2> QED BY <1>1, <2>1
  <1>2. ASSUME NEW o \in S, Touching(o, b), ref = Left(o) PROVE n \notin ToSet(ref)
    <2>1. o \in Op /\ stamp[o] > 0 /\ stamp[o] < stamp[n] /\ stamp[o] \in Nat /\ stamp[n] \in Nat
      BY <1>2 DEF TypeInv, EntryType
    <2>2. \A x \in ToSet(before[o].ref) : stamp[x] < stamp[o]
      BY <2>1 DEF Elders, RefIsOlder
    <2>3. n \notin ToSet(before[o].ref) /\ n # o
      BY <2>1, <2>2
    <2>4. before[o].ref \in Seq(Op)
      BY <2>1, HistoryOfOps
    <2>5. ToSet(Append(before[o].ref, o)) = ToSet(before[o].ref) \union {o}
      BY <2>1, <2>4, AppendSet
    <2> QED BY <1>2, <2>3, <2>5 DEF Left
  <1> QED BY <1>1, <1>2 DEF TipBy

\* What touches no branch, or not this one, does not matter to it.
LEMMA TipUntouched ==
    ASSUME NEW S, NEW o, NEW b, ~Touching(o, b), NEW ref
    PROVE  TipBy(S \union {o}, b, ref) <=> TipBy(S, b, ref)
  BY DEF TipBy

LEMMA TipTouched ==
    ASSUME EntryType, NEW S \in SUBSET Op, NEW o \in Op, NEW b, Touching(o, b),
           \A x \in S : stamp[x] < stamp[o]
    PROVE  TipBy(S \union {o}, b, Left(o))
  <1>1. \A x \in S \union {o} : stamp[x] \leq stamp[o]
    BY DEF EntryType
  <1> QED BY <1>1 DEF TipBy

\* One more stands, as its own entry says.
LEMMA TipsGrow ==
    ASSUME TypeInv, NEW S \in SUBSET Op, NEW o \in Op, o \notin S,
           \A x \in S : stamp[x] < stamp[o], NEW t, TipsFor(S, {}, t),
           before[o].branch \in DOMAIN t, before[o].ref = t[before[o].branch],
           NEW next, DOMAIN t \subseteq DOMAIN next,
           \A b \in DOMAIN next : IF Touching(o, b) THEN next[b] = Left(o)
                                                    ELSE b \in DOMAIN t /\ next[b] = t[b],
           kind[o] = "create" => arg[o] \in DOMAIN next /\ arg[o] \notin DOMAIN t
    PROVE  TipsFor(S \union {o}, {}, next)
  <1> DEFINE S2 == S \union {o}
  <1>1. EntryType
    BY DEF TypeInv
  <1>2. Below(S2, o) = S /\ \A x \in S : Below(S2, x) = Below(S, x)
    BY <1>1, BelowNewest
  <1>3. TipBy(S, before[o].branch, before[o].ref)
    BY DEF TipsFor
  <1>4. \A x \in S2 : TipBy(Below(S2, x), before[x].branch, before[x].ref)
    BY <1>2, <1>3 DEF TipsFor
  <1>5. ASSUME NEW b \in DOMAIN next PROVE TipBy(S2, b, next[b])
    <2>1. CASE Touching(o, b)
      BY <1>1, <2>1, TipTouched
    <2>2. CASE ~Touching(o, b)
      <3>1. TipBy(S, b, next[b])
        BY <2>2 DEF TipsFor
      <3> QED BY <2>2, <3>1, TipUntouched
    <2> QED BY <2>1, <2>2
  <1>6. ToSet(before[o].ref) \subseteq AdvancingOf(S)
    BY DEF TipsFor
  <1>7. ToSet(Append(before[o].ref, o)) = ToSet(before[o].ref) \union {o}
    BY AppendSet, HistoryOfOps
  <1>8. ASSUME NEW b \in DOMAIN next PROVE ToSet(next[b]) \subseteq AdvancingOf(S2 \union {})
    <2>1. CASE ~Touching(o, b)
      BY <2>1 DEF TipsFor, AdvancingOf
    <2>2. CASE Touching(o, b)
      BY <1>6, <1>7, <2>2 DEF Left, Touching, AdvancingOf
    <2> QED BY <2>1, <2>2
  <1>9. ASSUME NEW x \in AdvancingOf(S2) PROVE \E b \in DOMAIN next : x \in ToSet(next[b])
    <2>1. CASE x = o
      <3>1. Touching(o, before[o].branch) /\ kind[o] # "create"
        BY <1>9, <2>1 DEF AdvancingOf, Touching, Advancing
      <3> QED BY <1>7, <2>1, <3>1 DEF Left
    <2>2. CASE x # o
      <3>1. PICK b \in DOMAIN t : x \in ToSet(t[b])
        BY <1>9, <2>2 DEF TipsFor, AdvancingOf
      <3>2. CASE ~Touching(o, b)
        BY <3>1, <3>2
      <3>3. CASE Touching(o, b)
        <4>1. b = before[o].branch /\ kind[o] # "create"
          BY <3>1, <3>3 DEF Touching, Advancing
        <4> QED BY <1>7, <3>1, <3>3, <4>1 DEF Left
      <3> QED BY <3>2, <3>3
    <2> QED BY <2>1, <2>2
  <1> QED BY <1>4, <1>5, <1>8, <1>9 DEF TipsFor

\* The newest does not stand any more, and its branch is where it began.
LEMMA TipsShrink ==
    ASSUME TypeInv, Elders, NEW S \in SUBSET Op, \A x \in S : stamp[x] > 0,
           NEW o \in S, \A x \in S \ {o} : stamp[x] < stamp[o],
           NEW t, TipsFor(S, {}, t), kind[o] # "create",
           NEW next, DOMAIN next = DOMAIN t,
           kind[o] \in Advancing => before[o].branch \in DOMAIN t,
           \A b \in DOMAIN t : next[b] = IF Touching(o, b) THEN before[o].ref ELSE t[b]
    PROVE  TipsFor(S \ {o}, {}, next)
  <1>0. PICK R \in SUBSET Op : R = S \ {o}
    OBVIOUS
  <1>1. /\ R = S \ {o} /\ o \notin R /\ S = R \union {o} /\ o \in Op
        /\ \A x \in R : stamp[x] < stamp[o]
    BY <1>0
  <1>2. EntryType
    BY DEF TypeInv
  <1>3. Below(S, o) = R /\ \A x \in R : Below(S, x) = Below(R, x)
    <2>1. Below(R \union {o}, o) = R /\ \A x \in R : Below(R \union {o}, x) = Below(R, x)
      BY <1>1, <1>2, BelowNewest
    <2>2. R \union {o} = S
      BY <1>1
    <2> QED BY <2>1, <2>2
  <1>4. \A x \in R : TipBy(Below(R, x), before[x].branch, before[x].ref)
    BY <1>1, <1>3 DEF TipsFor
  <1>5. TipBy(R, before[o].branch, before[o].ref)
    BY <1>3 DEF TipsFor
  <1>6. ASSUME NEW b \in DOMAIN t, Touching(o, b)
        PROVE  b = before[o].branch /\ t[b] = Append(before[o].ref, o) /\ kind[o] \in Advancing
    <2>1. TipBy(S, b, Left(o))
      <3>1. TipBy(R \union {o}, b, Left(o))
        BY <1>1, <1>2, <1>6, TipTouched
      <3> QED BY <1>1, <3>1
    <2>2. TipBy(S, b, t[b])
      BY DEF TipsFor
    <2>3. t[b] = Left(o)
      BY <1>2, <2>1, <2>2, TipIsOne
    <2> QED BY <1>6, <2>3 DEF Left, Touching
  <1>7. ASSUME NEW b \in DOMAIN t, ~Touching(o, b)
        PROVE  TipBy(R, b, t[b]) /\ o \notin ToSet(t[b])
    <2>1. TipBy(R, b, t[b])
      <3>1. TipBy(R \union {o}, b, t[b])
        BY <1>1 DEF TipsFor
      <3> QED BY <1>7, <3>1, TipUntouched
    <2>2. o \notin ToSet(t[b])
      BY <1>1, <2>1, TipIsOlder
    <2> QED BY <2>1, <2>2
  <1>8. /\ ToSet(Append(before[o].ref, o)) = ToSet(before[o].ref) \union {o}
        /\ o \notin ToSet(before[o].ref)
    <2>1. o \notin ToSet(before[o].ref)
      BY <1>1, <1>2 DEF Elders, RefIsOlder, EntryType
    <2> QED BY <1>1, <2>1, AppendSet, HistoryOfOps
  <1>9. ASSUME NEW b \in DOMAIN next PROVE TipBy(R, b, next[b])
    BY <1>5, <1>6, <1>7
  <1>10. ASSUME NEW b \in DOMAIN next PROVE ToSet(next[b]) \subseteq AdvancingOf(R \union {})
    <2>1. ToSet(t[b]) \subseteq AdvancingOf(R) \union {o} /\ b \in DOMAIN t
      <3>1. b \in DOMAIN t
        OBVIOUS
      <3>2. ToSet(t[b]) \subseteq AdvancingOf(S \union {})
        BY <3>1 DEF TipsFor
      <3> QED BY <1>1, <3>2 DEF AdvancingOf
    <2>2. CASE Touching(o, b)
      <3>1. next[b] = before[o].ref /\ t[b] = Append(before[o].ref, o)
        BY <1>6, <2>2
      <3> QED BY <1>8, <2>1, <3>1
    <2>3. CASE ~Touching(o, b)
      <3>1. next[b] = t[b] /\ o \notin ToSet(t[b])
        BY <1>7, <2>3
      <3> QED BY <2>1, <3>1
    <2>4. AdvancingOf(R \union {}) = AdvancingOf(R)
      BY DEF AdvancingOf
    <2> QED BY <2>2, <2>3, <2>4
  <1>11. ASSUME NEW x \in AdvancingOf(R) PROVE \E b \in DOMAIN next : x \in ToSet(next[b])
    <2>1. PICK b \in DOMAIN t : x \in ToSet(t[b])
      BY <1>1, <1>11 DEF TipsFor, AdvancingOf
    <2>2. x # o
      BY <1>1, <1>11 DEF AdvancingOf
    <2>3. CASE Touching(o, b)
      BY <1>6, <1>8, <2>1, <2>2, <2>3
    <2>4. CASE ~Touching(o, b)
      BY <2>1, <2>4
    <2> QED BY <2>3, <2>4
  <1> QED BY <1>1, <1>4, <1>9, <1>10, <1>11 DEF TipsFor

\* A transaction fails, with or without its commit.
LEMMA TipsFail ==
    ASSUME TypeInv, NEW S \in SUBSET Op, NEW o \in Op, before[o].branch = branch,
           before[o].ref = tip[branch], TipsFor(S, {}, tip), NEW next,
           \/ next = tip
           \/ kind[o] = "commit" /\ next = [tip EXCEPT ![branch] = Append(@, o)]
    PROVE  TipsFor(S, {o}, next)
  <1>1. branch \in DOMAIN tip /\ tip[branch] \in Seq(Op)
    BY HistoryOfOps
  <1>2. DOMAIN next = DOMAIN tip
    BY DEF TypeInv, GitType
  <1>3. TipBy(S, branch, before[o].ref)
    BY <1>1 DEF TipsFor
  <1>4. ASSUME NEW b \in DOMAIN next
        PROVE  /\ TipBy(S, b, next[b]) \/ (kind[o] = "commit" /\ b = branch /\ next[b] = Left(o))
               /\ ToSet(tip[b]) \subseteq ToSet(next[b])
               /\ ToSet(next[b]) \subseteq AdvancingOf(S \union {o})
    <2>1. /\ TipBy(S, b, tip[b]) /\ b \in DOMAIN tip
          /\ ToSet(tip[b]) \subseteq AdvancingOf(S \union {})
      BY <1>2 DEF TipsFor
    <2>2. ToSet(tip[b]) \subseteq AdvancingOf(S \union {o})
      BY <2>1 DEF AdvancingOf
    <2>3. CASE next[b] = tip[b]
      BY <2>1, <2>2, <2>3
    <2>4. CASE kind[o] = "commit" /\ b = branch /\ next[b] = Append(tip[b], o)
      <3>1. next[b] = Left(o)
        BY <2>4 DEF Left
      <3>2. ToSet(next[b]) = ToSet(tip[b]) \union {o}
        BY <1>1, <2>4, AppendSet
      <3>3. o \in AdvancingOf(S \union {o})
        BY <2>4 DEF AdvancingOf, Advancing
      <3> QED BY <2>2, <2>4, <3>1, <3>2, <3>3
    <2> QED BY <2>1, <2>3, <2>4 DEF TypeInv, GitType
  <1>5. \A x \in AdvancingOf(S) : \E b \in DOMAIN next : x \in ToSet(next[b])
    <2>1. \A x \in AdvancingOf(S) : \E b \in DOMAIN tip : x \in ToSet(tip[b])
      BY DEF TipsFor
    <2> QED BY <1>2, <1>4, <2>1
  <1>6. \A x \in S : TipBy(Below(S, x), before[x].branch, before[x].ref)
    BY DEF TipsFor
  <1> QED BY <1>3, <1>4, <1>5, <1>6 DEF TipsFor

\* The commit is taken back, whether it was made or not.
LEMMA TipsRollback ==
    ASSUME TypeInv, Elders, NEW S \in SUBSET Op, \A x \in S : stamp[x] > 0,
           NEW o \in Op, stamp[o] > 0, \A x \in S : stamp[x] < stamp[o],
           TipsFor(S, {o}, tip), NEW next,
           \/ kind[o] = "discard" /\ next = tip
           \/ kind[o] = "commit" /\ next = [tip EXCEPT ![branch] = before[o].ref]
    PROVE  TipsFor(S, {}, next)
  <1>1. EntryType /\ branch \in DOMAIN tip /\ before[o].ref \in Seq(Op)
    BY HistoryOfOps DEF TypeInv
  <1>2. DOMAIN next = DOMAIN tip
    BY DEF TypeInv, GitType
  <1>3. TipBy(S, branch, before[o].ref)
    BY DEF TipsFor
  <1>4. /\ ToSet(Append(before[o].ref, o)) = ToSet(before[o].ref) \union {o}
        /\ o \notin ToSet(before[o].ref)
    <2>1. o \notin ToSet(before[o].ref)
      BY <1>1 DEF Elders, RefIsOlder, EntryType
    <2> QED BY <1>1, <2>1, AppendSet
  <1>5. ASSUME NEW b \in DOMAIN tip
        PROVE  /\ TipBy(S, b, next[b])
               /\ ToSet(next[b]) = ToSet(tip[b]) \ {o}
    <2>1. ASSUME NEW ref, TipBy(S, b, ref) PROVE o \notin ToSet(ref)
      BY <2>1, TipIsOlder
    <2>2. \/ TipBy(S, b, tip[b])
          \/ kind[o] = "commit" /\ b = branch /\ tip[b] = Left(o)
      BY DEF TipsFor
    <2>3. CASE next[b] = tip[b] /\ (kind[o] # "commit" \/ b # branch)
      BY <2>1, <2>2, <2>3
    <2>4. CASE kind[o] = "commit" /\ b = branch /\ next[b] = before[o].ref
      <3>1. tip[b] = before[o].ref \/ tip[b] = Append(before[o].ref, o)
        <4>1. TipBy(S, b, tip[b]) => tip[b] = before[o].ref
          BY <1>1, <1>3, <2>4, TipIsOne
        <4> QED BY <2>2, <2>4, <4>1 DEF Left
      <3>2. TipBy(S, b, next[b])
        BY <1>3, <2>4
      <3>3. ToSet(next[b]) = ToSet(tip[b]) \ {o}
        BY <1>4, <2>4, <3>1
      <3> QED BY <3>2, <3>3
    <2> QED BY <2>3, <2>4 DEF TypeInv, GitType
  <1>6. ASSUME NEW b \in DOMAIN next PROVE ToSet(next[b]) \subseteq AdvancingOf(S \union {})
    <2>1. ToSet(tip[b]) \subseteq AdvancingOf(S \union {o})
      BY <1>2 DEF TipsFor
    <2> QED BY <1>2, <1>5, <2>1 DEF AdvancingOf
  <1>7. ASSUME NEW x \in AdvancingOf(S) PROVE \E b \in DOMAIN next : x \in ToSet(next[b])
    <2>1. PICK b \in DOMAIN tip : x \in ToSet(tip[b])
      BY DEF TipsFor
    <2>2. x # o
      BY <1>1 DEF AdvancingOf, EntryType
    <2> QED BY <1>2, <1>5, <2>1, <2>2
  <1>8. \A x \in S : TipBy(Below(S, x), before[x].branch, before[x].ref)
    BY DEF TipsFor
  <1> QED BY <1>2, <1>5, <1>6, <1>7, <1>8 DEF TipsFor

\* What is rolled back has not moved since.
LEMMA RollingFrozen ==
    ASSUME Base, Found, Settled, [Next]_vars, Settled', NEW o \in RollingBack'
    PROVE  /\ o \in Op /\ branch' = branch
           /\ kind'[o] = kind[o] /\ arg'[o] = arg[o]
           /\ before'[o] = before[o] /\ stamp'[o] = stamp[o]
  <1>1. o \in Op /\ pc'[o] = "rollback" /\ pc'[o] \in Starting
    BY DEF RollingBack, Starting
  <1> QED BY <1>1, StartingSteps DEF Fail, git, entry

LEMMA TipsAfter ==
    ASSUME Base, Found, Settled, [Next]_vars, Settled', TipsFor(Standing', RollingBack', tip')
    PROVE  TipsFor(Standing, RollingBack, tip)'
  <1>1. PICK S \in SUBSET Op : S = Standing'
    BY StandingFrozen
  <1>2. PICK R \in SUBSET Op : R = RollingBack'
    BY RollingFrozen
  <1>3. \A x \in S \union R :
          /\ kind'[x] = kind[x] /\ arg'[x] = arg[x]
          /\ before'[x] = before[x] /\ stamp'[x] = stamp[x]
    BY <1>1, <1>2, StandingFrozen, RollingFrozen
  <1>4. R # {} => branch' = branch
    BY <1>2, RollingFrozen
  <1>5. ASSUME NEW Q \in SUBSET S, NEW b, NEW ref, TipBy(Q, b, ref) PROVE TipBy(Q, b, ref)'
    BY <1>3, <1>5 DEF TipBy, Touching, Left
  <1>6. \A x \in S : Below(Standing, x)' = Below(S, x) /\ Below(S, x) \subseteq S
    BY <1>1, <1>3 DEF Below
  <1>7. AdvancingOf(Standing \union RollingBack)' = AdvancingOf(S \union R)
    BY <1>1, <1>2, <1>3 DEF AdvancingOf
  <1>8. AdvancingOf(Standing)' = AdvancingOf(S)
    BY <1>1, <1>3 DEF AdvancingOf
  <1>9. \A x \in R : Left(x)' = Left(x)
    BY <1>3 DEF Left
  <1>10. TipsFor(S, R, tip')
    BY <1>1, <1>2
  <1>11. ASSUME NEW x \in S PROVE TipBy(Below(Standing, x), before[x].branch, before[x].ref)'
    <2>1. PICK Q \in SUBSET S : Q = Below(S, x)
      BY <1>6
    <2>2. PICK b, ref : b = before[x].branch /\ ref = before[x].ref /\ TipBy(Q, b, ref)
      BY <1>10, <2>1 DEF TipsFor
    <2>3. TipBy(Q, b, ref)'
      BY <1>5, <2>2
    <2>4. Below(Standing, x)' = Q /\ before'[x].branch = b /\ before'[x].ref = ref
      BY <1>3, <1>6, <2>1, <2>2
    <2> QED BY <2>3, <2>4 DEF TipBy
  <1>12. ASSUME NEW x \in R PROVE TipBy(Standing, branch, before[x].ref)'
    <2>1. PICK b, ref : b = branch /\ ref = before[x].ref /\ TipBy(S, b, ref)
      BY <1>10 DEF TipsFor
    <2>2. TipBy(S, b, ref)'
      BY <1>5, <2>1
    <2>3. branch' = b /\ before'[x].ref = ref
      BY <1>3, <1>4, <2>1
    <2> QED BY <1>1, <2>2, <2>3 DEF TipBy
  <1>13. ASSUME NEW b \in DOMAIN tip'
         PROVE  \/ TipBy(Standing, b, tip[b])'
                \/ \E x \in R : kind'[x] = "commit" /\ b = branch' /\ tip'[b] = Left(x)'
    <2>1. CASE TipBy(S, b, tip'[b])
      <3>1. PICK ref : ref = tip'[b] /\ TipBy(S, b, ref)
        BY <2>1
      <3>2. TipBy(S, b, ref)'
        BY <1>5, <3>1
      <3>3. TipBy(Standing, b, tip[b])'
        BY <1>1, <3>1, <3>2 DEF TipBy
      <3> QED BY <3>3
    <2>2. CASE \E x \in R : kind[x] = "commit" /\ b = branch /\ tip'[b] = Left(x)
      BY <1>3, <1>4, <1>9, <2>2
    <2> QED BY <1>10, <2>1, <2>2 DEF TipsFor
  <1>14. \A b \in DOMAIN tip' : ToSet(tip'[b]) \subseteq AdvancingOf(S \union R)
    BY <1>10 DEF TipsFor
  <1>15. \A x \in AdvancingOf(S) : \E b \in DOMAIN tip' : x \in ToSet(tip'[b])
    BY <1>10 DEF TipsFor
  <1> QED BY <1>1, <1>2, <1>7, <1>8, <1>11, <1>12, <1>13, <1>14, <1>15 DEF TipsFor

LEMMA NothingRolls ==
    ASSUME NEW p, Working = {p}, pc[p] # "rollback"
    PROVE  RollingBack = {}
  BY OpsAreProcesses DEF RollingBack, Working

LEMMA SucceedTips ==
    ASSUME Base, Found, Settled, Starts, NEW o \in Op, Succeed(o),
           TipsFor(Standing, RollingBack, tip)
    PROVE  TipsFor(Standing', RollingBack', tip')
  <1>1. PICK S \in SUBSET Op : S = Standing
    BY StandingIsRecorded
  <1>2. /\ Standing' = S \union {o} /\ o \notin S /\ Working = {o} /\ paused = None
        /\ \A x \in S : stamp[x] < stamp[o]
    BY <1>1, SucceedStands
  <1>3. /\ before[o].branch = branch /\ before[o].ref = tip[branch] /\ pc[o] = "recorded"
        /\ kind[o] = "create" => arg[o] \notin DOMAIN tip
    BY DEF Succeed, Starts, Starting
  <1>4. RollingBack = {} /\ RollingBack' = {}
    <2>1. RollingBack = {}
      BY <1>2, <1>3, NothingRolls
    <2>2. pc' = [pc EXCEPT ![o] = "read"]
      BY DEF Succeed, Goto
    <2> QED BY <2>1, <2>2, OpsAreProcesses DEF RollingBack, Base, TypeInv, PlaceType
  <1>5. TypeInv /\ ~Detached /\ branch \in DOMAIN tip /\ kind[o] \in AllKinds
    BY <1>2, HistoryOfOps DEF Base, TypeInv, EntryType, Detached
  <1>6. /\ DOMAIN tip \subseteq DOMAIN tip'
        /\ \A b \in DOMAIN tip' : IF Touching(o, b) THEN tip'[b] = Left(o)
                                  ELSE b \in DOMAIN tip /\ tip'[b] = tip[b]
        /\ kind[o] = "create" => arg[o] \in DOMAIN tip'
    <2>1. CASE Advance(o)
      <3>1. tip' = [tip EXCEPT ![branch] = Append(@, o)] /\ kind[o] \in Advancing /\ kind[o] # "create"
        BY <1>5, <2>1 DEF Advance, Advancing
      <3>2. \A b : Touching(o, b) <=> b = branch
        BY <1>3, <3>1 DEF Touching
      <3> QED BY <1>3, <1>5, <3>1, <3>2 DEF Left, TypeInv, GitType
    <2>2. CASE tip' = tip /\ kind[o] \notin Advancing \union {"create"}
      BY <2>2 DEF Touching
    <2>3. CASE Checkout(o) /\ kind[o] = "create"
      <3>1. tip' = [b \in DOMAIN tip \union {arg[o]} |-> IF b = arg[o] THEN tip[branch] ELSE tip[b]]
        BY <2>3 DEF Checkout
      <3>2. \A b : Touching(o, b) <=> b = arg[o]
        BY <2>3 DEF Touching, Advancing
      <3> QED BY <1>3, <2>3, <3>1, <3>2 DEF Left
    <2>4. Discard(o) \/ Push(o) \/ (Checkout(o) /\ kind[o] # "create")
            => tip' = tip /\ kind[o] \notin Advancing \union {"create"}
      BY DEF Discard, Push, Checkout, Advancing
    <2> QED BY <2>1, <2>2, <2>3, <2>4 DEF Succeed
  <1>7. TipsFor(S \union {o}, {}, tip')
    BY <1>1, <1>2, <1>3, <1>4, <1>5, <1>6, TipsGrow
  <1> QED BY <1>2, <1>4, <1>7

LEMMA ResetTips ==
    ASSUME Base, Found, Settled, HeadsFor(Standing, branch), NEW u \in Undo, Reset(u),
           past' = {}, TipsFor(Standing, RollingBack, tip)
    PROVE  TipsFor(Standing', RollingBack', tip')
  <1>1. PICK S \in SUBSET Op : S = Standing /\ \A x \in S : stamp[x] > 0
    BY StandingIsRecorded
  <1>2. PICK t : t = update[u].id
    OBVIOUS
  <1>3. /\ t \in S /\ Standing' = S \ {t} /\ Working = {u}
        /\ \A x \in S \ {t} : stamp[x] < stamp[t]
    BY <1>1, <1>2, ResetFalls
  <1>4. paused = None /\ ~Detached
    BY DEF Reset, Disturb, Detached
  <1>5. RollingBack = {} /\ RollingBack' = {}
    <2>1. RollingBack = {}
      BY <1>3, NothingRolls DEF Reset
    <2>2. pc' = [pc EXCEPT ![u] = "read"]
      BY DEF Reset, Goto
    <2> QED BY <2>1, <2>2, OpsAreProcesses DEF RollingBack, Base, TypeInv, PlaceType
  <1>6. /\ kind[t] # "create" /\ (kind[t] # "switch" => before[t].branch = branch)
        /\ \/ tip' = tip /\ kind[t] \notin Advancing
           \/ kind[t] \in Advancing /\ tip' = [tip EXCEPT ![branch] = before[t].ref]
    BY <1>2, <1>4, ResetTakesNewest
  <1>7. TypeInv /\ Elders /\ branch \in DOMAIN tip
    BY HistoryOfOps DEF Base
  <1>8. /\ DOMAIN tip' = DOMAIN tip
        /\ kind[t] \in Advancing => before[t].branch \in DOMAIN tip
        /\ \A b \in DOMAIN tip : tip'[b] = IF Touching(t, b) THEN before[t].ref ELSE tip[b]
    BY <1>6, <1>7 DEF Touching, Advancing, TypeInv, GitType
  <1>9. TipsFor(S \ {t}, {}, tip')
    BY <1>1, <1>3, <1>5, <1>6, <1>7, <1>8, TipsShrink
  <1> QED BY <1>3, <1>5, <1>9

LEMMA FailTips ==
    ASSUME Base, Found, Settled, Starts, NEW o \in Op, Fail(o), Standing' = Standing,
           TipsFor(Standing, RollingBack, tip), past' = {}
    PROVE  TipsFor(Standing', RollingBack', tip')
  <1>1. PICK S \in SUBSET Op : S = Standing
    BY StandingIsRecorded
  <1>2. /\ pc[o] = "recorded" /\ before[o].branch = branch /\ before[o].ref = tip[branch]
        /\ Working = {o} /\ paused = None
    BY WorkerIsNewest DEF Fail, Starts, Starting
  <1>3. RollingBack = {}
    BY <1>2, NothingRolls
  <1>4. PICK place \in Places : Goto(o, place)
    BY DEF Fail, FailTransaction, FailRecorded, FailOpen, End, Places
  <1>5. RollingBack' = IF place = "rollback" THEN {o} ELSE {}
    BY <1>3, <1>4, OpsAreProcesses DEF RollingBack, Goto, Base, TypeInv, PlaceType
  <1>6. CASE FailTransaction(o)
    <2>1. place = "rollback"
      BY <1>4, <1>6, OpsAreProcesses DEF FailTransaction, Goto, Base, TypeInv, PlaceType
    <2>2. \/ tip' = tip
          \/ kind[o] = "commit" /\ tip' = [tip EXCEPT ![branch] = Append(@, o)]
      BY <1>2, <1>6 DEF FailTransaction, Advance, Detached, git
    <2>3. TipsFor(S, {o}, tip')
      BY <1>1, <1>2, <1>3, <2>2, TipsFail DEF Base
    <2> QED BY <1>1, <1>5, <2>1, <2>3
  <1>7. CASE FailRecorded(o) \/ FailOpen(o)
    <2>1. place # "rollback"
      BY <1>4, <1>7, OpsAreProcesses DEF FailRecorded, FailOpen, End, Goto, Base, TypeInv, PlaceType
    <2>2. tip' = tip
      BY <1>7 DEF FailRecorded, FailOpen, Push, git
    <2> QED BY <1>1, <1>3, <1>5, <2>1, <2>2
  <1> QED BY <1>6, <1>7 DEF Fail

LEMMA RollbackTips ==
    ASSUME Base, Found, Settled, Starts, NEW o \in Op, Rollback(o), Standing' = Standing,
           TipsFor(Standing, RollingBack, tip), past' = {}
    PROVE  TipsFor(Standing', RollingBack', tip')
  <1>1. PICK S \in SUBSET Op : S = Standing /\ \A x \in S : stamp[x] > 0
    BY StandingIsRecorded
  <1>2. /\ pc[o] = "rollback" /\ Working = {o} /\ paused = None /\ stamp[o] > 0
        /\ \A x \in S : stamp[x] < stamp[o]
    BY <1>1, WorkerIsNewest DEF Rollback
  <1>3. kind[o] \in {"commit", "discard"}
    BY <1>2 DEF Starts, Transacted
  <1>4. RollingBack = {o} /\ RollingBack' = {}
    <2>1. RollingBack = {o}
      BY <1>2, OpsAreProcesses DEF RollingBack, Working
    <2>2. pc' = [pc EXCEPT ![o] = "read"]
      BY DEF Rollback, Goto
    <2> QED BY <2>1, <2>2, OpsAreProcesses DEF RollingBack, Base, TypeInv, PlaceType
  <1>5. \/ kind[o] = "discard" /\ tip' = tip
        \/ kind[o] = "commit" /\ tip' = [tip EXCEPT ![branch] = before[o].ref]
    BY <1>2, <1>3 DEF Rollback, Disturb, ResetSoft, Detached, git
  <1>6. TipsFor(S, {}, tip')
    BY <1>1, <1>2, <1>4, <1>5, TipsRollback DEF Base
  <1> QED BY <1>1, <1>4, <1>6

\* What is rolled back is so until Rollback.
LEMMA RollingStays ==
    ASSUME Base, Found, Settled, [Next]_vars, Settled', NEW o \in Op, pc[o] = "rollback",
           ~Rollback(o)
    PROVE  pc'[o] = "rollback"
  <1> USE OpsAreProcesses
  <1>1. Working = {o}
    BY WorkerIsNewest
  <1>2. ASSUME NEW p \in Process, pc[p] # "rollback", pc[p] \notin {"idle", "ended"} PROVE FALSE
    BY <1>1, <1>2 DEF Working
  <1>3. \A x \in Op : /\ \A k \in Kind : ~Clear(x, k)
                      /\ ~Begin(x) /\ ~Withdraw(x) /\ ~Record(x) /\ ~Succeed(x) /\ ~Fail(x)
    <2>1. ASSUME NEW x \in Op, NEW k \in Kind, Clear(x, k) PROVE FALSE
      BY <1>1, <2>1, SettledBefore DEF Clear, Disturb
    <2>2. ASSUME NEW x \in Op, Begin(x) \/ Withdraw(x) \/ Record(x) \/ Succeed(x) \/ Fail(x)
          PROVE  FALSE
      <3>1. pc[x] \in {"cleared", "begun", "recorded"}
        BY <2>2, Zenon DEF Begin, Withdraw, Record, Succeed, Fail
      <3> QED BY <1>2, <3>1
    <2> QED BY <2>1, <2>2
  <1>4. \A u \in Undo : ~Plan(u) /\ ~Refetch(u) /\ ~Reset(u) /\ ~UndoFails(u)
    <2>1. ASSUME NEW u \in Undo, Plan(u) PROVE FALSE
      BY <1>1, <2>1, SettledBefore DEF Plan, Disturb
    <2>2. ASSUME NEW u \in Undo, Refetch(u) \/ Reset(u) \/ UndoFails(u) PROVE FALSE
      BY <1>2, <2>2 DEF Refetch, Reset, UndoFails
    <2> QED BY <2>1, <2>2
  <1>5. \A p \in Process : ~Read(p) /\ ~Truncate(p) /\ ~Fill(p)
    BY <1>2 DEF Read, Truncate, Fill
  <1>6. ~Crash /\ \A p \in Process : ~WriteFails(p)
    BY SettledBefore DEF Crash, WriteFails, Break
  <1>7. \A x \in Op : Rollback(x) => x = o
    BY <1>1 DEF Rollback, Working
  <1>8. (\E x \in Op : Timeout(x)) \/ Resume \/ Abort \/ UNCHANGED vars
    BY <1>3, <1>4, <1>5, <1>6, <1>7 DEF Next, Update
  <1> QED BY <1>8 DEF Timeout, Resume, Abort, vars

LEMMA OtherTips ==
    ASSUME Base, Found, Settled, Starts, [Next]_vars, Settled', past' = {},
           \A o \in Op : ~Succeed(o), \A u \in Undo : ~Reset(u),
           TipsFor(Standing, RollingBack, tip)
    PROVE  TipsFor(Standing', RollingBack', tip')
  <1>1. Standing' = Standing
    BY OthersStand
  <1>2. ASSUME NEW o \in Op, Fail(o) \/ Rollback(o) PROVE TipsFor(Standing', RollingBack', tip')
    BY <1>1, <1>2, FailTips, RollbackTips
  <1>3. ASSUME \A o \in Op : ~Fail(o) /\ ~Rollback(o)
        PROVE  TipsFor(Standing', RollingBack', tip')
    <2>1. tip' = tip
      <3>1. ~Resume
        BY DEF Resume
      <3>2. UNCHANGED git \/ Abort
        BY <1>3, <3>1, GitMoves
      <3> QED BY <3>2 DEF Abort, git
    <2>2. RollingBack' = RollingBack
      <3>1. ASSUME NEW o \in Op, pc'[o] = "rollback" PROVE pc[o] = "rollback"
        BY <1>3, <3>1, StartingSteps DEF Starting
      <3>2. ASSUME NEW o \in Op, pc[o] = "rollback" PROVE pc'[o] = "rollback"
        BY <1>3, <3>2, RollingStays
      <3> QED BY <3>1, <3>2 DEF RollingBack
    <2> QED BY <1>1, <2>1, <2>2
  <1> QED BY <1>2, <1>3

TipsHold == past = {} => TipsFor(Standing, RollingBack, tip)

LEMMA TipsInit == Init => TipsHold
  <1> SUFFICES ASSUME Init PROVE TipsFor(Standing, RollingBack, tip)
    BY DEF TipsHold
  <1>1. Standing = {} /\ RollingBack = {}
    BY OpsAreProcesses
    DEF Init, Standing, Undoing, Completing, Undoable, Updating, NoEntries, RollingBack
  <1>2. ToSet(<<>>) = {}
    BY DEF ToSet
  <1> QED BY <1>1, <1>2 DEF Init, TipsFor, TipBy, AdvancingOf

LEMMA NextTips ==
    ASSUME Base, Standings, TipsHold, [Next]_vars
    PROVE  TipsHold'
  <1> SUFFICES ASSUME past' = {} PROVE TipsFor(Standing, RollingBack, tip)'
    BY DEF TipsHold
  <1>1. past = {} /\ Settled /\ Settled'
    BY PastGrows DEF Settled
  <1>2. /\ Found /\ Starts /\ HeadsFor(Standing, branch)
        /\ TipsFor(Standing, RollingBack, tip)
    BY <1>1 DEF Standings, TipsHold
  <1> QED BY <1>1, <1>2, SucceedTips, ResetTips, OtherTips, TipsAfter

\* The journal and git agree: when all has ended, and nothing has disturbed the
\* run, the branches hold just what the journal has as completed
\* (OperationJournal, SafeUndoFramework, GitTransactionManager), for any number
\* of operations and undo requests and any order they come in.
THEOREM JournalAgreesWithGit == Spec => []JournalIsTrue
  <1>1. Base /\ Standings /\ TipsHold => JournalIsTrue
    <2> SUFFICES ASSUME Base, Standings, TipsHold, past = {}, Working = {}
                 PROVE  Held(tip) = {o \in DOMAIN file : file[o] = "completed" /\ kind[o] \in Advancing}
      BY DEF JournalIsTrue
    <2>1. Settled /\ TipsFor(Standing, RollingBack, tip)
      BY DEF Settled, TipsHold
    <2>2. file = ledger
      BY DEF Base, ReaderIsCurrent, Filling, Working
    <2>3. Standing = Undoable(ledger) /\ RollingBack = {}
      BY OpsAreProcesses DEF Standing, Undoing, Completing, RollingBack, Working, Updating
    <2>4. /\ \A b \in DOMAIN tip : ToSet(tip[b]) \subseteq AdvancingOf(Standing)
          /\ \A o \in AdvancingOf(Standing) : \E b \in DOMAIN tip : o \in ToSet(tip[b])
      BY <2>1, <2>3 DEF TipsFor, AdvancingOf
    <2>5. Held(tip) = AdvancingOf(Standing)
      BY <2>4 DEF Held
    <2> QED BY <2>2, <2>3, <2>5 DEF AdvancingOf, Undoable
  <1> QED
    BY <1>1, BaseHolds, StandingsInit, NextStandings, TipsInit, NextTips, PTL DEF Spec
=============================================================================
