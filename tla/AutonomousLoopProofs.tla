------------------------- MODULE AutonomousLoopProofs -------------------------
(***************************************************************************)
(* What AutonomousLoop promises of the recorded cycles and of the worker's *)
(* attempts, for any number of repositories, ticks, cycles and faults.     *)
(*                                                                         *)
(* The cycles: while a tick is on its way nobody else is, so that the      *)
(* entry it appends is still the one after the last. That what an entry    *)
(* says of a streak is true then follows from what the entry before it     *)
(* says: a key is followed from one cycle to the next, and no further.     *)
(***************************************************************************)
EXTENDS AutonomousLoop, SequenceTheorems, TLAPS

\* The recording worker: one tick at a time, with the entry that comes next.
Recording ==
  /\ \E S : history \in Seq(S)
  /\ tick = [t \in Tick |-> tick[t]]
  /\ \A t \in Tick : tick[t].at # "idle" => ticking
  /\ \A t, u \in Tick : tick[t].at # "idle" /\ tick[u].at # "idle" => t = u
  /\ \A t \in Tick : tick[t].at = "appending" => \E plan : tick[t].entry = NextEntry(plan)

\* The last entry is where history ends, and an appended one comes after it.
LEMMA Appended ==
    ASSUME NEW S, NEW h \in Seq(S), NEW e
    PROVE  /\ \E T : Append(h, e) \in Seq(T)
           /\ Len(h) \in Nat /\ DOMAIN h = 1..Len(h)
           /\ DOMAIN Append(h, e) = 1..(Len(h) + 1)
           /\ Append(h, e)[Len(h) + 1] = e
           /\ \A i \in 1..Len(h) : Append(h, e)[i] = h[i]
           /\ h = <<>> <=> Len(h) = 0
  <1> DEFINE T == S \cup {e}
  <1>1. h \in Seq(T) /\ e \in T
    BY SeqMonotonic
  <1>2. /\ Append(h, e) \in Seq(T) /\ Len(Append(h, e)) = Len(h) + 1
        /\ Append(h, e)[Len(h) + 1] = e
        /\ \A i \in 1..Len(h) : Append(h, e)[i] = h[i]
    BY <1>1, AppendProperties
  <1>3. Len(h) \in Nat /\ DOMAIN h = 1..Len(h) /\ DOMAIN Append(h, e) = 1..(Len(h) + 1)
    BY <1>1, <1>2, LenProperties
  <1>4. h = <<>> <=> Len(h) = 0
    BY EmptySeq, Len(<<>>) = 0
  <1> HIDE DEF T
  <1> QED BY <1>2, <1>3, <1>4

-----------------------------------------------------------------------------
\* One cycle further, a streak that goes on is one longer.
LEMMA StreakGrows ==
    ASSUME NEW n \in Nat, NEW key, NEW count, NEW plan,
           \A i \in 1..n : history'[i] = history[i],
           history'[n + 1].items = plan,
           key \in Keys(plan), IsStreak(key, n, count)
    PROVE  IsStreak(key, n + 1, count + 1)'
  <1>1. count \in 1..n /\ count + 1 \in 1..(n + 1)
    BY DEF IsStreak
  <1>2. ASSUME NEW i \in (n + 1) - (count + 1) + 1 .. n + 1
        PROVE  key \in Keys(history'[i].items)
    <2>1. CASE i = n + 1
      BY <2>1
    <2>2. CASE i # n + 1
      <3>1. i \in n - count + 1 .. n /\ i \in 1..n
        BY <1>1, <2>2
      <3> QED BY <3>1 DEF IsStreak
    <2> QED BY <2>1, <2>2
  <1>3. ASSUME count + 1 < n + 1
        PROVE  key \notin Keys(history'[(n + 1) - (count + 1)].items)
    <2>1. (n + 1) - (count + 1) = n - count /\ n - count \in 1..n /\ count < n
      BY <1>1, <1>3
    <2> QED BY <2>1 DEF IsStreak
  <1> QED BY <1>1, <1>2, <1>3 DEF IsStreak, Keys, Key

LEMMA StreakStays ==
    ASSUME NEW n \in Nat, NEW m \in 1..n, NEW key, NEW count,
           \A i \in 1..n : history'[i] = history[i]
    PROVE  IsStreak(key, m, count)' <=> IsStreak(key, m, count)
  <1>1. ASSUME count \in 1..m
        PROVE  /\ \A i \in m - count + 1 .. m : i \in 1..n
               /\ count < m => m - count \in 1..n
    BY <1>1
  <1> QED BY <1>1 DEF IsStreak, Keys, Key

\* An evolution has one transition for each recommendation of the plan, and
\* one for each that was followed and is not in it.
LEMMA EvolutionIs ==
    ASSUME NEW ts, NEW plan, NEW t \in Evolution(ts, plan)
    PROVE  \/ /\ t.change = "resolved"
              /\ \E u \in ts : /\ u.change # "resolved" /\ Key(t) = Key(u) /\ t.count = u.count
                              /\ Key(t) \notin Keys(plan)
           \/ /\ t.change = "new" /\ t.count = 1
              /\ Key(t) \in Keys(plan)
              /\ \A u \in ts : u.change # "resolved" => Key(u) # Key(t)
           \/ /\ t.change \in {"recurring", "escalating"}
              /\ Key(t) \in Keys(plan)
              /\ \E u \in ts : u.change # "resolved" /\ Key(t) = Key(u) /\ t.count = u.count + 1
  <1>1. ASSUME NEW x, NEW change, NEW count
        PROVE  /\ Key(Transition(x, change, count)) = Key(x)
               /\ Transition(x, change, count).change = change
               /\ Transition(x, change, count).count = count
    BY DEF Key, Transition
  <1>2. CASE \E item \in plan : t = ToTransition(item, Tracked(ts))
    <2>1. PICK item \in plan : t = ToTransition(item, Tracked(ts))
      BY <1>2
    <2>2. Key(item) \in Keys(plan)
      BY DEF Keys
    <2>3. CASE Key(item) \notin Keys(Tracked(ts))
      <3>1. t = Transition(item, "new", 1)
        BY <2>1, <2>3 DEF ToTransition
      <3>2. \A u \in ts : u.change # "resolved" => Key(u) # Key(item)
        BY <2>3 DEF Keys, Tracked
      <3> QED BY <1>1, <2>2, <3>1, <3>2
    <2>4. CASE Key(item) \in Keys(Tracked(ts))
      <3> DEFINE u == CHOOSE v \in Tracked(ts) : Key(v) = Key(item)
      <3>1. u \in Tracked(ts) /\ Key(u) = Key(item)
        BY <2>4 DEF Keys
      <3>2. \E change \in {"recurring", "escalating"} : t = Transition(item, change, u.count + 1)
        BY <2>1, <2>4 DEF ToTransition
      <3> HIDE DEF u
      <3> QED BY <1>1, <2>2, <3>1, <3>2 DEF Tracked
    <2> QED BY <2>3, <2>4
  <1>3. CASE \E u \in Tracked(ts) : Key(u) \notin Keys(plan) /\ t = Transition(u, "resolved", u.count)
    BY <1>1, <1>3 DEF Tracked
  <1> QED BY <1>2, <1>3 DEF Evolution

LEMMA EvolutionCovers ==
    ASSUME NEW ts, NEW plan
    PROVE  Keys(plan) \subseteq Keys(Evolution(ts, plan))
  <1> SUFFICES ASSUME NEW item \in plan PROVE Key(item) \in Keys(Evolution(ts, plan))
    BY DEF Keys
  <1>1. Key(ToTransition(item, Tracked(ts))) = Key(item)
    BY DEF ToTransition, Transition, Key
  <1>2. ToTransition(item, Tracked(ts)) \in Evolution(ts, plan)
    BY DEF Evolution
  <1> QED BY <1>1, <1>2 DEF Keys

\* The next entry is as true as those before it.
LEMMA NextEntryIsTrue ==
    ASSUME NEW S, history \in Seq(S), CyclesAreConsecutive, StreakIsTrue,
           NEW plan, history' = Append(history, NextEntry(plan))
    PROVE  CyclesAreConsecutive' /\ StreakIsTrue'
  <1>0. PICK n \in Nat : n = Len(history)
    BY LenProperties
  <1> DEFINE last == IF history = <<>> THEN [cycle |-> 0, transitions |-> {}] ELSE Latest
  <1>1. /\ n \in Nat /\ DOMAIN history = 1..n /\ DOMAIN history' = 1..(n + 1)
        /\ history'[n + 1] = NextEntry(plan)
        /\ \A i \in 1..n : history'[i] = history[i]
        /\ history = <<>> <=> n = 0
    BY <1>0, Appended
  <1>2. /\ NextEntry(plan).cycle = last.cycle + 1
        /\ NextEntry(plan).items = plan
        /\ NextEntry(plan).transitions = Evolution(last.transitions, plan)
    BY DEF NextEntry
  <1>3. n # 0 => last = history[n] /\ n \in DOMAIN history
    BY <1>0, <1>1 DEF Latest
  <1>4. n = 0 => last.transitions = {} /\ last.cycle = 0
    BY <1>1
  <1> HIDE DEF last
  <1>5. CyclesAreConsecutive'
    <2>1. last.cycle = n
      BY <1>1, <1>3, <1>4 DEF CyclesAreConsecutive
    <2> SUFFICES ASSUME NEW i \in 1..(n + 1) PROVE history'[i].cycle = i
      BY <1>1 DEF CyclesAreConsecutive
    <2>2. CASE i = n + 1
      BY <1>1, <1>2, <2>1, <2>2
    <2>3. CASE i # n + 1
      <3>1. i \in 1..n
        BY <1>1, <2>3
      <3> QED BY <1>1, <3>1 DEF CyclesAreConsecutive
    <2> QED BY <2>2, <2>3
  \* What is followed from the last cycle is what was in its plan.
  <1>6. ASSUME NEW u \in last.transitions, u.change # "resolved"
        PROVE  /\ n # 0 /\ IsStreak(Key(u), n, u.count)
               /\ u.count \in 1..n
               /\ Key(u) \in Keys(history[n].items)
    <2>1. n # 0 /\ IsStreak(Key(u), n, u.count)
      BY <1>3, <1>4, <1>6 DEF StreakIsTrue
    <2>2. u.count \in 1..n
      BY <2>1 DEF IsStreak
    <2>3. n \in n - u.count + 1 .. n
      BY <1>1, <2>2
    <2> QED BY <2>1, <2>2, <2>3 DEF IsStreak
  <1>7. ASSUME NEW key, \A u \in last.transitions : u.change # "resolved" => Key(u) # key
        PROVE  n # 0 => key \notin Keys(history[n].items)
    <2> SUFFICES ASSUME n # 0, key \in Keys(history[n].items) PROVE FALSE
      OBVIOUS
    <2>1. PICK u \in history[n].transitions : Key(u) = key
      BY <1>3 DEF StreakIsTrue, Keys
    <2>2. u.change = "resolved"
      BY <1>3, <1>7, <2>1
    <2> QED BY <1>3, <2>1, <2>2 DEF StreakIsTrue
  <1>8. ASSUME NEW t \in Evolution(last.transitions, plan)
        PROVE  IF t.change = "resolved"
               THEN /\ n + 1 > 1 /\ Key(t) \notin Keys(plan)
                    /\ IsStreak(Key(t), n, t.count)
               ELSE IsStreak(Key(t), n + 1, t.count)' /\ (t.change = "new" <=> t.count = 1)
    <2>1. CASE /\ t.change = "resolved"
               /\ \E u \in last.transitions :
                    /\ u.change # "resolved" /\ Key(t) = Key(u) /\ t.count = u.count
                    /\ Key(t) \notin Keys(plan)
      BY <1>1, <1>6, <2>1
    <2>2. CASE /\ t.change = "new" /\ t.count = 1 /\ Key(t) \in Keys(plan)
               /\ \A u \in last.transitions : u.change # "resolved" => Key(u) # Key(t)
      <3>1. n # 0 => Key(t) \notin Keys(history[n].items)
        BY <1>7, <2>2
      <3>2. 1 \in 1..(n + 1) /\ (n + 1) - 1 = n /\ (n + 1) - 1 + 1 .. n + 1 = {n + 1}
        BY <1>1
      <3>3. 1 < n + 1 => n \in 1..n
        BY <1>1
      <3>4. IsStreak(Key(t), n + 1, 1)'
        <4> DEFINE key == Key(t)
        <4> HIDE DEF key
        <4>1. key \in Keys(history'[n + 1].items) /\ (1 < n + 1 => key \notin Keys(history'[n].items))
          BY <1>1, <1>2, <2>2, <3>1, <3>3 DEF key
        <4>2. IsStreak(key, n + 1, 1)'
          BY <3>2, <4>1 DEF IsStreak, Keys, Key
        <4> QED BY <4>2 DEF key
      <3> QED BY <2>2, <3>4
    <2>3. CASE /\ t.change \in {"recurring", "escalating"} /\ Key(t) \in Keys(plan)
               /\ \E u \in last.transitions :
                    u.change # "resolved" /\ Key(t) = Key(u) /\ t.count = u.count + 1
      <3>1. PICK u \in last.transitions : u.change # "resolved" /\ Key(t) = Key(u) /\ t.count = u.count + 1
        BY <2>3
      <3>2. IsStreak(Key(t), n, u.count) /\ u.count \in 1..n
        BY <1>6, <3>1
      <3>3. IsStreak(Key(t), n + 1, u.count + 1)'
        BY <1>1, <1>2, <2>3, <3>2, StreakGrows
      <3>4. t.count # 1
        BY <1>1, <3>1, <3>2
      <3> QED BY <2>3, <3>1, <3>3, <3>4
    <2> QED BY <2>1, <2>2, <2>3, EvolutionIs
  <1>9. StreakIsTrue'
    <2> SUFFICES ASSUME NEW m \in 1..(n + 1)
                 PROVE  /\ \A t \in history'[m].transitions :
                             IF t.change = "resolved"
                             THEN /\ m > 1 /\ Key(t) \notin Keys(history'[m].items)
                                  /\ IsStreak(Key(t), m - 1, t.count)'
                             ELSE IsStreak(Key(t), m, t.count)' /\ (t.change = "new" <=> t.count = 1)
                        /\ Keys(history'[m].items) \subseteq Keys(history'[m].transitions)
      BY <1>1 DEF StreakIsTrue, Keys, Key
    <2>1. CASE m = n + 1
      <3>1. ASSUME NEW t \in Evolution(last.transitions, plan), t.change = "resolved"
            PROVE  IsStreak(Key(t), n, t.count)'
        <4>1. n + 1 > 1 /\ IsStreak(Key(t), n, t.count)
          BY <1>8, <3>1
        <4>2. n \in 1..n
          BY <1>1, <4>1
        <4> QED BY <1>1, <4>1, <4>2, StreakStays
      <3>2. m - 1 = n
        BY <1>1, <2>1
      <3> QED BY <1>1, <1>2, <1>8, <2>1, <3>1, <3>2, EvolutionCovers
    <2>2. CASE m # n + 1
      <3>1. m \in 1..n /\ m \in DOMAIN history /\ history'[m] = history[m]
        BY <1>1, <2>2
      <3>2. ASSUME NEW t \in history[m].transitions
            PROVE  IF t.change = "resolved"
                   THEN /\ m > 1 /\ Key(t) \notin Keys(history[m].items)
                        /\ IsStreak(Key(t), m - 1, t.count)'
                   ELSE IsStreak(Key(t), m, t.count)' /\ (t.change = "new" <=> t.count = 1)
        <4>1. m > 1 => m - 1 \in 1..n
          BY <1>1, <3>1
        <4>2. m > 1 => (IsStreak(Key(t), m - 1, t.count)' <=> IsStreak(Key(t), m - 1, t.count))
          BY <1>1, <4>1, StreakStays
        <4>3. IsStreak(Key(t), m, t.count)' <=> IsStreak(Key(t), m, t.count)
          BY <1>1, <3>1, StreakStays
        <4> QED BY <3>1, <4>2, <4>3 DEF StreakIsTrue
      <3> QED BY <3>1, <3>2 DEF StreakIsTrue
    <2> QED BY <2>1, <2>2
  <1> QED BY <1>5, <1>9

-----------------------------------------------------------------------------
IInv == Recording /\ CyclesAreConsecutive /\ StreakIsTrue

LEMMA HistoryUnchanged ==
    ASSUME UNCHANGED history, CyclesAreConsecutive, StreakIsTrue
    PROVE  CyclesAreConsecutive' /\ StreakIsTrue'
  BY DEF CyclesAreConsecutive, StreakIsTrue, IsStreak, Keys, Key

LEMMA Inductive == Spec => []IInv
  <1>1. Init => IInv
    <2> SUFFICES ASSUME Init PROVE IInv
      OBVIOUS
    <2>1. history = <<>> /\ DOMAIN history = {} /\ history \in Seq({})
      BY EmptySeq DEF Init
    <2>2. Recording
      BY <2>1 DEF Init, Recording, NoTick
    <2> QED BY <2>1, <2>2 DEF IInv, CyclesAreConsecutive, StreakIsTrue
  <1>2. IInv /\ [Next]_vars => IInv'
    <2> SUFFICES ASSUME IInv, [Next]_vars PROVE IInv'
      OBVIOUS
    <2> USE DEF IInv
    <2>1. ASSUME NEW t \in Tick, Fire(t) PROVE IInv'
      <3>1. PICK f \in Readings : Begin(t, f)
        BY <2>1 DEF Fire
      <3>2. /\ tick' = [tick EXCEPT ![t] = [at |-> "planned", plan |-> BuildPlan(f), entry |-> None]]
            /\ ticking' = TRUE /\ ~ticking /\ UNCHANGED history
        BY <2>1, <3>1 DEF Fire, Begin, NoTick
      <3>3. \A u \in Tick : tick[u].at = "idle"
        BY <3>2 DEF Recording
      <3>4. \A u \in Tick : tick'[u].at = IF u = t THEN "planned" ELSE "idle"
        BY <3>2, <3>3 DEF Recording
      <3>5. tick' = [u \in Tick |-> tick'[u]]
        BY <3>2 DEF Recording
      <3>6. Recording'
        BY <3>2, <3>4, <3>5 DEF Recording
      <3> QED BY <3>2, <3>6, HistoryUnchanged
    <2>2. ASSUME NEW t \in Tick, ReadLatest(t) PROVE IInv'
      <3> DEFINE new == [NoTick EXCEPT !.at = "appending", !.entry = NextEntry(tick[t].plan)]
      <3>0. new.at = "appending" /\ new.entry = NextEntry(tick[t].plan)
        BY DEF NoTick
      <3>1. /\ tick' = [tick EXCEPT ![t] = new]
            /\ tick[t].at = "planned" /\ UNCHANGED <<history, ticking>>
        BY <2>2 DEF ReadLatest
      <3> HIDE DEF new
      <3>2. \A u \in Tick : tick'[u] = IF u = t THEN new ELSE tick[u]
        BY <3>1 DEF Recording
      <3>3. tick' = [u \in Tick |-> tick'[u]]
        BY <3>1 DEF Recording
      <3>4. ticking /\ \A u \in Tick \ {t} : tick[u].at = "idle"
        BY <3>1 DEF Recording
      <3>5. \A u \in Tick : tick'[u].at # "idle" => u = t
        BY <3>2, <3>4
      <3>6. tick'[t].entry = NextEntry(tick[t].plan)
        BY <3>0, <3>2
      <3>7. \A plan : NextEntry(plan)' = NextEntry(plan)
        BY <3>1 DEF NextEntry, Latest
      <3>8. \A u \in Tick : tick'[u].at = "appending" => \E plan : tick'[u].entry = NextEntry(plan)'
        BY <3>5, <3>6, <3>7
      <3>9. Recording'
        BY <3>1, <3>3, <3>4, <3>5, <3>8 DEF Recording
      <3> QED BY <3>1, <3>9, HistoryUnchanged
    <2>3. ASSUME NEW t \in Tick, TickEnds(t), tick[t].at # "idle"
          PROVE  /\ tick' = [u \in Tick |-> tick'[u]]
                 /\ \A u \in Tick : tick'[u].at = "idle"
      <3>1. tick' = [tick EXCEPT ![t] = NoTick]
        BY <2>3 DEF TickEnds
      <3>2. \A u \in Tick \ {t} : tick[u].at = "idle"
        BY <2>3 DEF Recording
      <3>3. tick' = [u \in Tick |-> tick'[u]]
        BY <3>1 DEF Recording
      <3>4. \A u \in Tick : tick'[u] = IF u = t THEN NoTick ELSE tick[u]
        BY <3>1 DEF Recording
      <3>5. \A u \in Tick : tick'[u].at = "idle"
        BY <3>2, <3>4 DEF NoTick
      <3> QED BY <3>3, <3>5
    <2>4. ASSUME NEW t \in Tick, AppendEntry(t) PROVE IInv'
      <3>1. PICK plan : tick[t].entry = NextEntry(plan)
        BY <2>4 DEF AppendEntry, Recording
      <3>2. PICK S : history \in Seq(S)
        BY DEF Recording
      <3>3. history' = Append(history, NextEntry(plan))
        BY <2>4, <3>1 DEF AppendEntry
      <3>4. CyclesAreConsecutive' /\ StreakIsTrue'
        BY <3>2, <3>3, NextEntryIsTrue
      <3>5. \E T : history' \in Seq(T)
        BY <3>2, <3>3, Appended
      <3>6. Recording'
        BY <2>3, <2>4, <3>5 DEF AppendEntry, Recording
      <3> QED BY <3>4, <3>6
    <2>5. ASSUME NEW t \in Tick, RecordFails(t) PROVE IInv'
      <3>1. Recording'
        BY <2>3, <2>5 DEF RecordFails, Recording
      <3> QED BY <2>5, <3>1, HistoryUnchanged DEF RecordFails
    <2>6. CASE Crash
      <3>1. tick' = [u \in Tick |-> NoTick] /\ UNCHANGED history
        BY <2>6 DEF Crash
      <3>2. Recording'
        BY <3>1 DEF Recording, NoTick
      <3> QED BY <3>1, <3>2, HistoryUnchanged
    <2>7. CASE UNCHANGED <<history, ticking, tick>>
      <3>1. Recording'
        BY <2>7 DEF Recording, NextEntry, Latest
      <3> QED BY <2>7, <3>1, HistoryUnchanged
    <2> QED
      BY <2>1, <2>2, <2>4, <2>5, <2>6, <2>7
      DEF Next, vars, recorder, Wake, Check, WorkerAttempts, WorkerEnds, WorkerUnrecorded,
          WorkerFails, TriggerAttempts, TriggerEnds, OtherExecution, AttemptAges, EventAges,
          Change
  <1> QED BY <1>1, <1>2, PTL DEF Spec

\* The recorded cycles are numbered one after the other.
THEOREM CyclesAreNumbered == Spec => []CyclesAreConsecutive
  BY Inductive, PTL DEF IInv

\* What each recorded cycle says of the streaks is what the plans recorded
\* before it say.
THEOREM StreaksAreTrue == Spec => []StreakIsTrue
  BY Inductive, PTL DEF IInv

-----------------------------------------------------------------------------
\* Of what the worker tried there is an event, as soon as it is done; and what
\* it has checked it has not tried.
Spacing ==
  /\ tried \subseteq recent \cup (IF worker.at = "executing" THEN {worker.target} ELSE {})
  /\ worker.at = "checked" => worker.target \notin tried

LEMMA NobodyIsNone == None \notin Repository
  BY AutonomousPlansAssumption DEF Repository

LEMMA SpacingHolds == Spec => []Spacing
  <1>1. Init => Spacing
    BY DEF Init, Spacing, Idle
  <1>2. Spacing /\ [Next]_vars => Spacing'
    <2> SUFFICES ASSUME Spacing, [Next]_vars PROVE Spacing'
      OBVIOUS
    <2> USE DEF Spacing
    <2>1. CASE UNCHANGED <<worker, recent, tried>>
      BY <2>1
    <2>2. CASE Wake
      <3>1. worker.at = "idle" /\ worker'.at = "scheduled" /\ UNCHANGED <<recent, tried>>
        BY <2>2 DEF Wake
      <3> QED BY <3>1
    <2>3. CASE Check
      <3>1. CASE worker.target \in recent
        <4>1. worker'.at = "idle" /\ worker.at = "scheduled" /\ UNCHANGED <<recent, tried>>
          BY <2>3, <3>1 DEF Check, Idle
        <4> QED BY <4>1
      <3>2. CASE worker.target \notin recent
        <4>1. /\ worker' = [worker EXCEPT !.at = "checked"] /\ worker.at = "scheduled"
              /\ UNCHANGED <<recent, tried>>
          BY <2>3, <3>2 DEF Check
        <4>2. worker'.target = worker.target /\ worker'.at # "executing"
          BY <4>1
        <4> QED BY <3>2, <4>1, <4>2
      <3> QED BY <3>1, <3>2
    <2>4. CASE WorkerAttempts
      <3>1. PICK f \in Readings : worker' = Translated(f) /\ tried' = tried \cup ({Translated(f).target} \cap Repository)
        BY <2>4 DEF WorkerAttempts
      <3>2. tried \subseteq recent /\ UNCHANGED recent
        BY <2>4 DEF WorkerAttempts
      <3>3. Translated(f) = [at |-> "executing", target |-> Top(f).repository] \/ Translated(f) = Idle
        BY DEF Translated
      <3>4. CASE Translated(f) = Idle
        BY <3>1, <3>2, <3>4, NobodyIsNone DEF Idle
      <3>5. CASE Translated(f) = [at |-> "executing", target |-> Top(f).repository]
        BY <3>1, <3>2, <3>5
      <3> QED BY <3>3, <3>4, <3>5
    <2>5. CASE WorkerEnds
      BY <2>5 DEF WorkerEnds, Idle
    <2>6. CASE WorkerUnrecorded
      BY <2>6 DEF WorkerUnrecorded, Idle
    <2>7. CASE WorkerFails
      BY <2>7 DEF WorkerFails, Idle
    <2>8. CASE TriggerEnds
      BY <2>8 DEF TriggerEnds
    <2>9. ASSUME NEW r \in Repository, OtherExecution(r) \/ AttemptAges(r) \/ EventAges(r)
          PROVE  Spacing'
      BY <2>9 DEF OtherExecution, AttemptAges, EventAges
    <2>10. CASE Crash
      BY <2>10 DEF Crash, Idle
    <2> QED
      BY <2>1, <2>2, <2>3, <2>4, <2>5, <2>6, <2>7, <2>8, <2>9, <2>10
      DEF Next, vars, Fire, Begin, ReadLatest, AppendEntry, RecordFails, TriggerAttempts, Change
  <1> QED BY <1>1, <1>2, PTL DEF Spec

\* The worker does not begin again within an hour in the repository it has
\* checked, unless a fault kept its last attempt from being recorded.
THEOREM AttemptsAreFarApart == Spec => AttemptsAreSpaced
  <1>1. Spacing /\ [Next]_vars =>
          [\A r \in Repository :
             worker = [at |-> "checked", target |-> r]
               /\ worker' = [at |-> "executing", target |-> r] => r \notin tried]_vars
    BY DEF Spacing
  <1> QED BY <1>1, SpacingHolds, PTL DEF Spec, AttemptsAreSpaced
=============================================================================
