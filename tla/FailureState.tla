---------------------------- MODULE FailureState ----------------------------
(***************************************************************************)
(* src/memory/ProjectMemoryService.ts: the append-only events.jsonl and    *)
(* the derived failure-state.json of one repository, under calls that are  *)
(* not awaited by their callers, writes that fail half way, and crashes.   *)
(*                                                                         *)
(* A write replaces the file in two steps (it is truncated, then filled);  *)
(* between them, and for ever if the second never comes, it is torn.       *)
(***************************************************************************)
EXTENDS Naturals, Sequences, FiniteSets, SequencesExt

CONSTANTS Call,        \* calls of the service that can be in flight
          Key,         \* task types that are counted
          NoKey,
          Threshold,   \* FAILURE_BLOCK_THRESHOLD
          MaxLog,      \* bound on the events appended
          MaxFaults    \* bound on failed writes and crashes

ASSUME FailureStateAssumption ==
    /\ NoKey \notin Key
    /\ Threshold \in Nat
    /\ MaxLog \in Nat
    /\ MaxFaults \in Nat

VARIABLES mode,   \* up, down, or failed: main() threw during start-up
          disk,   \* failure-state.json
          log,    \* events.jsonl, oldest first
          queue,  \* failureStateWriteQueue: calls that wait for it, holder first
          pc, op, \* where each call is suspended, and what it records
          buf,    \* the counts the holder of the queue has read
          seen,   \* task types the last reader found blocked
          ledger, \* the counts after the updates made so far, in their order
          serial, \* no call started while another was in flight
          cutOff, \* a write ended between its truncation and its end
          faults

vars == <<mode, disk, log, queue, pc, op, buf, seen, ledger, serial, cutOff, faults>>

Counts == [Key -> Nat]
Zero   == [k \in Key |-> 0]

\* What is recorded: an outcome of a task, an error thrown by one, a clear of
\* one type or (NoKey) of all, and the rest, which counts nothing: workflow
\* results, undo and pipeline-blocked records.
Outcomes == [kind : {"success", "failure", "error"}, key : Key]
Clears   == [kind : {"cleared"}, key : Key \union {NoKey}]
Others   == [kind : {"other"}, key : {NoKey}]
Op       == Outcomes \union Clears \union Others

\* The stored event of a thrown error does not say which task threw it.
Event(o) == IF o.kind = "error" THEN [o EXCEPT !.key = NoKey] ELSE o
Torn     == [kind |-> "torn", key |-> NoKey]

Busy(c)  == pc[c] # "idle"
Writing  == {c \in Call : pc[c] = "writing"}

\* failure-state.json: missing, torn, or whole with its counts.
File == [file : {"missing", "torn"}, counts : {Zero}] \union [file : {"whole"}, counts : Counts]

Whole(counts)  == [file |-> "whole", counts |-> counts]
Broken(reason) == [file |-> reason, counts |-> Zero]

TypeOK ==
    /\ mode \in {"up", "down", "failed"}
    /\ disk \in File
    /\ log \in Seq({Event(o) : o \in Op} \union {Torn})
    /\ queue \in Seq(Call)
    /\ IsInjective(queue)
    /\ ToSet(queue) = {c \in Call : pc[c] \in {"queued", "write", "writing"}}
    /\ pc \in [Call -> {"idle", "append", "queued", "write", "writing"}]
    /\ op \in [Call -> Op]
    /\ buf \in [Call -> Counts]
    /\ seen \subseteq Key
    /\ ledger \in Counts
    /\ serial \in BOOLEAN
    /\ cutOff \in BOOLEAN
    /\ faults \in 0..MaxFaults

Init ==
    /\ mode = "down"
    /\ disk = Broken("missing")
    /\ log = <<>>
    /\ queue = <<>>
    /\ pc = [c \in Call |-> "idle"]
    /\ op = [c \in Call |-> CHOOSE o \in Others : TRUE]
    /\ buf = [c \in Call |-> Zero]
    /\ seen = {}
    /\ ledger = Zero
    /\ serial = TRUE
    /\ cutOff = FALSE
    /\ faults = 0

-----------------------------------------------------------------------------
\* readFailureStateFile: a file that is missing or invalid reads as empty.
Contents == disk.counts

Blocked(counts) == {k \in Key : counts[k] \geq Threshold}

\* recordTaskOutcome, clearFailureState and clearAllFailureStates.
Apply(counts, o) ==
    CASE o.kind = "success" -> [counts EXCEPT ![o.key] = 0]
      [] o.kind \in {"failure", "error"} -> [counts EXCEPT ![o.key] = @ + 1]
      [] o.kind = "cleared" /\ o.key \in Key -> [counts EXCEPT ![o.key] = 0]
      [] o.kind = "cleared" /\ o.key = NoKey -> Zero
      [] OTHER -> counts

\* Mutant of ReplayEvent: a clear of all types names none of them.
ReplayEventByKey(counts, ev) ==
    CASE ev.kind = "cleared" /\ ev.key \in Key -> [counts EXCEPT ![ev.key] = 0]
      [] ev.kind = "success" -> [counts EXCEPT ![ev.key] = 0]
      [] ev.kind = "failure" -> [counts EXCEPT ![ev.key] = @ + 1]
      [] OTHER -> counts

\* The loop of rebuildFailureStateFromEvents.
ReplayEvent(counts, ev) ==
    CASE ev.kind = "cleared" /\ ev.key = NoKey -> Zero
      [] ev.kind = "cleared" /\ ev.key \in Key -> [counts EXCEPT ![ev.key] = 0]
      [] ev.kind = "success" -> [counts EXCEPT ![ev.key] = 0]
      [] ev.kind = "failure" -> [counts EXCEPT ![ev.key] = @ + 1]
      [] OTHER -> counts

Replay(events) ==
    LET after[n \in 0..Len(events)] ==
            IF n = 0 THEN Zero ELSE ReplayEvent(after[n - 1], events[n])
    IN  after[Len(events)]

\* JSON.parse throws on one torn line, and with it every read of the log.
Readable(events) == Torn \notin ToSet(events)

Goto(c, place) == pc' = [pc EXCEPT ![c] = place]

-----------------------------------------------------------------------------
Enqueue(c) ==
    /\ Goto(c, "queued")
    /\ queue' = Append(queue, c)

\* record() appends first and counts afterwards; a clear takes its place in
\* the queue at once and appends afterwards.
Start(c, o) ==
    /\ mode = "up"
    /\ pc[c] = "idle"
    /\ Len(log) + Cardinality({d \in Call : Busy(d)}) < MaxLog
    /\ op' = [op EXCEPT ![c] = o]
    /\ IF o \in Clears THEN Enqueue(c) ELSE Goto(c, "append") /\ UNCHANGED queue
    /\ serial' = (serial /\ \A d \in Call : ~Busy(d))
    /\ UNCHANGED <<mode, disk, log, buf, seen, ledger, cutOff, faults>>

\* appendFile returns. (After a torn line, which has no end, the event becomes
\* part of that line; the log cannot be read then, with the event or without.)
AppendEvent(c) ==
    /\ pc[c] = "append"
    /\ log' = Append(log, Event(op[c]))
    /\ IF op[c] \in Outcomes THEN Enqueue(c) ELSE Goto(c, "idle") /\ UNCHANGED queue
    /\ UNCHANGED <<mode, disk, op, buf, seen, ledger, serial, cutOff, faults>>

\* Mutant of HasQueue: nothing serializes the updates.
HasNoQueue(c) == c \in ToSet(queue)

HasQueue(c) == queue # <<>> /\ Head(queue) = c

Read(c) ==
    /\ pc[c] = "queued"
    /\ HasQueue(c)
    /\ buf' = [buf EXCEPT ![c] = Contents]
    /\ Goto(c, "write")
    /\ UNCHANGED <<mode, disk, log, queue, op, seen, ledger, serial, cutOff, faults>>

Truncate(c) ==
    /\ pc[c] = "write"
    /\ disk' = Broken("torn")
    /\ Goto(c, "writing")
    /\ UNCHANGED <<mode, log, queue, op, buf, seen, ledger, serial, cutOff, faults>>

\* The update is on disk. A call that has its event in the log is done.
Fill(c) ==
    /\ pc[c] = "writing"
    /\ disk' = Whole(Apply(buf[c], op[c]))
    /\ ledger' = Apply(ledger, op[c])
    /\ queue' = Tail(queue)
    /\ Goto(c, IF op[c] \in Clears THEN "append" ELSE "idle")
    /\ UNCHANGED <<mode, log, op, buf, seen, serial, cutOff, faults>>

\* Mutant of ReleaseOnError: the queue is a chain of then(fn).
KeepOnError(c) == UNCHANGED queue

\* withFailureStateLock: the next call runs after a rejection too.
ReleaseOnError(c) == queue' = IF HasQueue(c) THEN Tail(queue) ELSE queue

\* A write fails (no space, no permission), before it changed the file or
\* half way; the call is rejected, and nobody tries again.
AppendFails(c) ==
    /\ pc[c] = "append"
    /\ log' \in {log, Append(log, Torn)}
    /\ UNCHANGED <<queue, cutOff>>

\* One that fails half way leaves the file torn, with the counts of all types.
WriteFails(c) ==
    /\ pc[c] \in {"write", "writing"}
    /\ cutOff' = (cutOff \/ c \in Writing)
    /\ ReleaseOnError(c)
    /\ UNCHANGED log

Fails(c) ==
    /\ faults < MaxFaults
    /\ faults' = faults + 1
    /\ AppendFails(c) \/ WriteFails(c)
    /\ Goto(c, "idle")
    /\ UNCHANGED <<mode, disk, op, buf, seen, ledger, serial>>

\* getAllFailureStates, which does not wait for the queue.
Look ==
    /\ mode = "up"
    /\ seen' = Blocked(Contents)
    /\ UNCHANGED <<mode, disk, log, queue, pc, op, buf, ledger, serial, cutOff, faults>>

\* The process dies. A write in progress leaves the file torn, an append in
\* progress leaves its line whole, torn or absent.
Crash ==
    /\ mode = "up"
    /\ faults < MaxFaults
    /\ faults' = faults + 1
    /\ mode' = "down"
    /\ \/ UNCHANGED log
       \/ \E c \in Call : pc[c] = "append" /\ log' \in {Append(log, Event(op[c])), Append(log, Torn)}
    /\ pc' = [c \in Call |-> "idle"]
    /\ queue' = <<>>
    /\ cutOff' = (cutOff \/ Writing # {})
    /\ UNCHANGED <<disk, op, buf, seen, ledger, serial>>

\* validateAndRepairFailureState: a valid file is kept, any other is rebuilt
\* from the log, and main() dies if the log cannot be read.
Restart ==
    /\ mode # "up"
    /\ \/ /\ disk.file = "whole"
          /\ mode' = "up"
          /\ UNCHANGED disk
       \/ /\ disk.file # "whole"
          /\ Readable(log)
          /\ mode' = "up"
          /\ disk' = Whole(Replay(log))
       \/ /\ disk.file # "whole"
          /\ ~Readable(log)
          /\ mode' = "failed"
          /\ UNCHANGED disk
    /\ UNCHANGED <<log, queue, pc, op, buf, seen, ledger, serial, cutOff, faults>>

Progress(c) == AppendEvent(c) \/ Read(c) \/ Truncate(c) \/ Fill(c)

Next ==
    \/ \E c \in Call : (\E o \in Op : Start(c, o)) \/ Progress(c) \/ Fails(c)
    \/ Look \/ Crash \/ Restart

Spec == Init /\ [][Next]_vars

\* File operations end.
FairSpec == Spec /\ \A c \in Call : WF_vars(Progress(c))

-----------------------------------------------------------------------------
\* No update is lost or made twice: whenever the process is up and no write is
\* in progress, failure-state.json reads as the updates that reached it, in
\* the order of the queue, whatever else was in flight, however often a write
\* failed before it touched the file or the process died between two writes.
\* It is not claimed of a write that ended half way, see the next property.
NoLostUpdate == mode = "up" /\ Writing = {} /\ ~cutOff => Contents = ledger

\* Known not to hold, see the README.
\* readFailureStateFile says that to read a broken file as empty keeps ordinary
\* operation just as resilient as start-up, which rebuilds it: an update that
\* fails loses no count but its own.
FailedWritesLoseNothing ==
    [][\A c \in Call : Fails(c) /\ Writing \subseteq {c} /\ ~cutOff => Contents' = ledger]_vars

\* A call waits for the queue at most until the calls before it have ended,
\* by success or by an error.
CallsFinish == \A c \in Call : Busy(c) ~> ~Busy(c)

\* Nothing is in flight, nothing failed, and no event of a thrown error, which
\* is documented not to be replayed, is in the log.
Replayable ==
    /\ mode = "up"
    /\ \A c \in Call : ~Busy(c)
    /\ faults = 0
    /\ \A i \in 1..Len(log) : log[i].kind # "error"

\* Known not to hold, see the README.
\* rebuildFailureStateFromEvents says that it reconstructs what
\* recordTaskOutcome would have produced.
ReplayAgrees == Replayable => Replay(log) = ledger

\* It does as long as calls do not overlap: the log and the counts, updated in
\* different orders by different calls, agree after each.
SerialReplayAgrees == serial => ReplayAgrees

\* Known not to hold, see the README.
\* SYSTEM_DESIGN.md says that five consecutive failures block a task type: a
\* reader finds every type blocked that is blocked before and after the write
\* in progress.
BlocksAreSeen ==
    [][Look => \A k \in Blocked(ledger) :
                  (\A c \in Writing : k \in Blocked(Apply(buf[c], op[c]))) => k \in seen']_vars

\* Known not to hold, see the README.
\* src/index.ts says that start-up always continues with a valid file.
StartupContinues == mode # "failed"
=============================================================================
