---------------------------- MODULE AutonomousLoop ----------------------------
(***************************************************************************)
(* Autonomous execution: the worker that records a plan of the portfolio   *)
(* in each interval, and the worker that has the first entry of the        *)
(* schedule executed if it is one that can be and nothing has been         *)
(* executed in that repository lately; the same can be asked for by hand.  *)
(*                                                                         *)
(* The pipeline that executes is what it answers: shipped, not shipped, or *)
(* an error before anything was begun (Pipeline has the rest). An hour is  *)
(* the interval of both workers and the window of "lately".                *)
(***************************************************************************)
EXTENDS AutonomousPlans

CONSTANTS
  Fact,      \* of each repository, the facts that vary
  Tick,      \* the calls of the recording worker's tick() in flight
  MaxCycles, \* bound: recorded cycles
  MaxFaults  \* bound: reads and writes that fail, and crashes

ASSUME AutonomousLoopAssumption ==
  /\ Fact \in [Repository -> SUBSET RepositoryFact]
  /\ MaxCycles \in Nat /\ MaxFaults \in Nat

VARIABLES
  facts,    \* what is true of each repository
  history,  \* autonomous-plans.jsonl
  torn,     \* its last line is incomplete
  ticking,  \* AutonomousPlanRecordingWorker.ticking
  tick,     \* what each of its ticks is doing
  worker,   \* what AutonomousExecutionWorker's tick is doing
  trigger,  \* what /autonomous-execute is doing
  recent,   \* the repositories with an event in the last hour
  tried,    \* those the worker began to execute in during the last hour, less
            \* those it has no event of because of a fault
  faults

recorder == <<history, torn, ticking, tick>>
vars == <<facts, recorder, worker, trigger, recent, tried, faults>>

Idle == [at |-> "idle", target |-> None]
Attempt == [at : {"scheduled", "checked", "executing"}, target : Repository] \cup {Idle}

NoTick == [at |-> "idle", plan |-> {}, entry |-> None]

TypeOK ==
  /\ \A r \in Repository : facts[r] \subseteq Fact[r]
  /\ torn \in BOOLEAN
  /\ ticking <=> \E t \in Tick : tick[t].at # "idle"
  /\ \A t \in Tick : tick[t] = NoTick \/ tick[t].at \in {"planned", "appending"}
  /\ worker \in Attempt
  /\ trigger \in Attempt /\ trigger.at \in {"idle", "executing"}
  /\ recent \in SUBSET Repository /\ tried \in SUBSET Repository
  /\ faults \in 0..MaxFaults

Init ==
  /\ facts = [r \in Repository |-> {}]
  /\ history = <<>> /\ torn = FALSE
  /\ ticking = FALSE /\ tick = [t \in Tick |-> NoTick]
  /\ worker = Idle /\ trigger = Idle
  /\ recent = {} /\ tried = {}
  /\ faults = 0

Fault == faults < MaxFaults /\ faults' = faults + 1

\* getAutonomousPlan asks every repository; one whose recommendations cannot be
\* had is left out of the plan.
Readings == {facts} \cup {[r \in Repository \ {out} |-> facts[r]] : out \in Repository}
Read(f) == IF f = facts THEN UNCHANGED faults ELSE Fault

-----------------------------------------------------------------------------
(* AutonomousPlanRecordingWorker and AutonomousPlanHistoryService          *)

\* The tick has its plan; only the reads of the portfolio precede it.
Begin(t, f) ==
  /\ tick' = [tick EXCEPT ![t] = [NoTick EXCEPT !.at = "planned", !.plan = BuildPlan(f)]]
  /\ ticking' = TRUE
  /\ UNCHANGED <<facts, history, torn, worker, trigger, recent, tried>>

\* Mutant of Fire: nobody asks whether a tick is in flight.
FireAlways(t) ==
  /\ tick[t].at = "idle" /\ Len(history) < MaxCycles
  /\ \E f \in Readings : Read(f) /\ Begin(t, f)

Fire(t) ==
  /\ tick[t].at = "idle" /\ ~ticking /\ Len(history) < MaxCycles
  /\ \E f \in Readings : Read(f) /\ Begin(t, f)

Latest == IF history = <<>> THEN None ELSE history[Len(history)]

NextEntry(plan) ==
  LET last == IF history = <<>> THEN [cycle |-> 0, transitions |-> {}] ELSE Latest
  IN  [cycle |-> last.cycle + 1, items |-> plan,
       transitions |-> Evolution(last.transitions, plan)]

\* record() reads the latest entry, which a torn line makes impossible.
ReadLatest(t) ==
  /\ tick[t].at = "planned" /\ ~torn
  /\ tick' = [tick EXCEPT ![t] = [NoTick EXCEPT !.at = "appending", !.entry = NextEntry(tick[t].plan)]]
  /\ UNCHANGED <<facts, history, torn, ticking, worker, trigger, recent, tried, faults>>

TickEnds(t) ==
  /\ tick' = [tick EXCEPT ![t] = NoTick]
  /\ ticking' = FALSE

AppendEntry(t) ==
  /\ tick[t].at = "appending"
  /\ history' = Append(history, tick[t].entry)
  /\ TickEnds(t)
  /\ UNCHANGED <<facts, torn, worker, trigger, recent, tried, faults>>

RecordFails(t) ==
  /\ tick[t].at # "idle"
  /\ IF tick[t].at = "planned" /\ torn THEN UNCHANGED faults ELSE Fault
  /\ TickEnds(t)
  /\ UNCHANGED <<facts, history, torn, worker, trigger, recent, tried>>

-----------------------------------------------------------------------------
(* The schedule that is executed from: of the plan as it is now, with what *)
(* the last recorded cycle says of it. A torn line makes it unreadable.    *)

Cycles == IF history = <<>> THEN <<>> ELSE <<Latest>>
Top(f) == TopEntry(BuildPlan(f), Cycles)

\* AutonomousExecutionWorker.tick; without an entry the tick is over.
Wake ==
  /\ worker.at = "idle" /\ ~torn
  /\ \E f \in Readings :
       /\ Read(f) /\ Top(f) # None
       /\ worker' = [at |-> "scheduled", target |-> Top(f).repository]
  /\ UNCHANGED <<facts, recorder, trigger, recent, tried>>

\* Mutant of Check: the events of the last hour are not looked at.
CheckNothing ==
  /\ worker.at = "scheduled"
  /\ worker' = [worker EXCEPT !.at = "checked"]
  /\ UNCHANGED <<facts, recorder, trigger, recent, tried, faults>>

Check ==
  /\ worker.at = "scheduled"
  /\ worker' = IF worker.target \in recent THEN Idle ELSE [worker EXCEPT !.at = "checked"]
  /\ UNCHANGED <<facts, recorder, trigger, recent, tried, faults>>

\* attemptExecution reads the schedule once more, and only what it says now
\* counts: nothing else than its first entry is ever translated.
Translated(f) ==
  IF Top(f) # None /\ Top(f).kind = "RepositoryReadyToShip"
  THEN [at |-> "executing", target |-> Top(f).repository] ELSE Idle

WorkerAttempts ==
  /\ worker.at = "checked" /\ ~torn
  /\ \E f \in Readings :
       /\ Read(f)
       /\ worker' = Translated(f)
       /\ tried' = tried \cup ({Translated(f).target} \cap Repository)
  /\ UNCHANGED <<facts, recorder, trigger, recent>>

\* /autonomous-execute
TriggerAttempts ==
  /\ trigger.at = "idle" /\ ~torn
  /\ \E f \in Readings : Read(f) /\ Translated(f) # Idle /\ trigger' = Translated(f)
  /\ UNCHANGED <<facts, recorder, worker, recent, tried>>

\* The pipeline has run: a ship, done or not, or the record of a block.
Executed(r) ==
  \/ UNCHANGED facts
  \/ facts' = [facts EXCEPT ![r] = (@ \ {"shippable"}) \cup (Fact[r] \cap {"reviewable"})]

WorkerEnds ==
  /\ worker.at = "executing"
  /\ Executed(worker.target)
  /\ recent' = recent \cup {worker.target}
  /\ worker' = Idle
  /\ UNCHANGED <<recorder, trigger, tried, faults>>

\* Its event could not be recorded, or it failed before it had anything to
\* record.
WorkerUnrecorded ==
  /\ worker.at = "executing" /\ Fault
  /\ Executed(worker.target)
  /\ tried' = tried \ {worker.target}
  /\ worker' = Idle
  /\ UNCHANGED <<recorder, trigger, recent>>

TriggerEnds ==
  /\ trigger.at = "executing"
  /\ Executed(trigger.target)
  /\ \/ recent' = recent \cup {trigger.target} /\ UNCHANGED faults
     \/ UNCHANGED recent /\ Fault
  /\ trigger' = Idle
  /\ UNCHANGED <<recorder, worker, tried>>

\* One of the reads of a tick fails, and the tick with it.
WorkerFails ==
  /\ worker.at \in {"scheduled", "checked"} /\ worker' = Idle
  /\ IF torn /\ worker.at = "checked" THEN UNCHANGED faults ELSE Fault
  /\ UNCHANGED <<facts, recorder, trigger, recent, tried>>

-----------------------------------------------------------------------------
Change(r, f) ==
  /\ facts' = [facts EXCEPT ![r] = IF f \in @ THEN @ \ {f} ELSE @ \cup {f}]
  /\ UNCHANGED <<recorder, worker, trigger, recent, tried, faults>>

\* Any other execution in the repository has left its event.
OtherExecution(r) ==
  /\ r \notin recent /\ recent' = recent \cup {r}
  /\ UNCHANGED <<facts, recorder, worker, trigger, tried, faults>>

\* An attempt is an hour old before its event is.
AttemptAges(r) ==
  /\ r \in tried /\ tried' = tried \ {r}
  /\ UNCHANGED <<facts, recorder, worker, trigger, recent, faults>>

EventAges(r) ==
  /\ r \in recent \ tried /\ recent' = recent \ {r}
  /\ UNCHANGED <<facts, recorder, worker, trigger, tried, faults>>

Crash ==
  /\ Fault
  /\ torn' \in {torn, torn \/ \E t \in Tick : tick[t].at = "appending"}
  /\ ticking' = FALSE /\ tick' = [t \in Tick |-> NoTick]
  /\ tried' = IF worker.at = "executing" THEN tried \ {worker.target} ELSE tried
  /\ worker' = Idle /\ trigger' = Idle
  /\ UNCHANGED <<facts, history, recent>>

Next ==
  \/ \E t \in Tick : Fire(t) \/ ReadLatest(t) \/ AppendEntry(t) \/ RecordFails(t)
  \/ Wake \/ Check \/ WorkerAttempts \/ WorkerEnds \/ WorkerUnrecorded \/ WorkerFails
  \/ TriggerAttempts \/ TriggerEnds
  \/ \E r \in Repository : OtherExecution(r) \/ AttemptAges(r) \/ EventAges(r)
  \/ \E r \in Repository : \E f \in Fact[r] : Change(r, f)
  \/ Crash

Spec == Init /\ [][Next]_vars

-----------------------------------------------------------------------------
\* The recorded cycles are numbered one after the other, whatever ticks, fails
\* or crashes (cycleNumber is read from the last line, with nothing reserved).
CyclesAreConsecutive == \A n \in DOMAIN history : history[n].cycle = n

\* The key has been in every plan of the last count cycles up to n, and not in
\* the one before them.
IsStreak(key, n, count) ==
  /\ count \in 1..n
  /\ \A i \in n - count + 1 .. n : key \in Keys(history[i].items)
  /\ count < n => key \notin Keys(history[n - count].items)

\* What a cycle says of a recommendation is what the plans recorded before it
\* say: its count is the length of its streak, and it is resolved exactly when
\* its streak ended with the cycle before (each cycle is only ever compared
\* with the one before it).
StreakIsTrue ==
  \A n \in DOMAIN history :
    /\ \A t \in history[n].transitions :
         IF t.change = "resolved"
         THEN /\ n > 1 /\ Key(t) \notin Keys(history[n].items)
              /\ IsStreak(Key(t), n - 1, t.count)
         ELSE IsStreak(Key(t), n, t.count) /\ (t.change = "new" <=> t.count = 1)
    /\ Keys(history[n].items) \subseteq Keys(history[n].transitions)

\* The worker does not begin again within an hour in the repository it has
\* checked, unless a fault kept the event of its last attempt from being
\* recorded (the circuit breaker of AutonomousExecutionWorker). That the
\* schedule may by then be headed by a repository nobody has checked is left
\* out.
AttemptsAreSpaced ==
  [][\A r \in Repository :
       worker = [at |-> "checked", target |-> r]
         /\ worker' = [at |-> "executing", target |-> r] => r \notin tried]_vars

=============================================================================
