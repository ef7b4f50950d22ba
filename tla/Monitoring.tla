------------------------------ MODULE Monitoring ------------------------------
(***************************************************************************)
(* The monitoring half of the background runtime: BackgroundRuntime and    *)
(* its monitoring worker, ProactiveMonitor over the persisted              *)
(* RecommendationStateStore, AttentionDispatcher, RuntimePolicyEngine and  *)
(* the recommendations they all work on.                                   *)
(*                                                                         *)
(* A tick of the worker walks through the repositories: it reads the       *)
(* recommendations of one, marks in the store which of them have just      *)
(* become worth an alert, saves the store and has the alerts delivered.    *)
(* The marks are what keeps an alert from being repeated, also over a      *)
(* restart, and they are set before anything is delivered.                 *)
(*                                                                         *)
(* Time is abstracted to what it decides: whether an hour is quiet,        *)
(* whether a recommendation has lasted, whether a cooldown or the interval *)
(* of a notification has passed.                                           *)
(***************************************************************************)
EXTENDS Integers, Sequences, FiniteSets, Recommendations

CONSTANTS
  Repositories,   \* the registered repositories, in the registry's order
  Fact,           \* what may be true of a repository
  Tick,           \* the calls of tick() that may be in flight
  MaxPerInterval, \* maxNotificationsPerInterval
  Hours, StartHour, EndHour, \* the hours of a day, and the quiet ones
  MaxDisturbances, \* bound: failed writes and sends, crashes, commands, hours
  None

ASSUME MonitoringAssumption ==
  /\ Repositories \in Seq({Repositories[i] : i \in DOMAIN Repositories})
  /\ Fact \subseteq RepositoryFact
  /\ MaxPerInterval \in Nat \ {0} /\ Hours \in Nat \ {0}
  /\ StartHour \in 0..Hours /\ EndHour \in 0..Hours
  /\ MaxDisturbances \in Nat

VARIABLES
  facts,       \* what is true of each repository
  hour,        \* the hour of the day
  alive,       \* the process runs
  running,     \* BackgroundRuntime.running; its workers' timers are armed
  ticking,     \* MonitoringWorker.ticking
  tick,        \* what each call of tick() is doing
  states,      \* the records of the RecommendationStateStore
  file,        \* recommendation-state.json: the records, or None when torn
  maintenance, disabled, \* RuntimePolicyEngine.maintenanceMode and its set
  cooling,     \* the repositories whose last notification is recent
  sent,        \* the notifications of the current interval
  alerted,     \* the alerts the user has got, in the streak that lasts
  unsaved,     \* history: the store could once not be written
  disturbances \* how many there were, up to MaxDisturbances

environment == <<facts, hour>>
policy == <<maintenance, disabled>>
limits == <<cooling, sent>>
history == <<alerted, unsaved>>
runtimeVars == <<environment, alive, running, ticking, tick, states, file, policy,
          limits, history, disturbances>>

Repository == {Repositories[i] : i \in DOMAIN Repositories}

\* The kinds of recommendation there may be.
Possible == {a.kind : a \in UNION {Recommend(f) : f \in SUBSET Fact}}

-----------------------------------------------------------------------------
(* The store: one record for each repository and kind that is active.      *)

Trigger == {"new-urgent-recommendation", "sustained-recommendation"}
\* lasted: sustainedDurationMs have passed since firstSeen.
State == [repository : Repository, kind : Kind, lasted : BOOLEAN,
          urgentDelivered : BOOLEAN, sustainedDelivered : BOOLEAN]
Alert == Repository \X Kind \X Trigger

CreateState(r, kind) ==
  [repository |-> r, kind |-> kind, lasted |-> FALSE,
   urgentDelivered |-> FALSE, sustainedDelivered |-> FALSE]

StateOf(r, kind) ==
  LET known == {s \in states : s.repository = r /\ s.kind = kind}
  IN  IF known = {} THEN CreateState(r, kind) ELSE CHOOSE s \in known : TRUE

\* The record of an active recommendation after its marks are set.
Refreshed(r, advice) ==
  LET s == StateOf(r, advice.kind)
  IN  [s EXCEPT !.urgentDelivered = @ \/ IsUrgent(advice),
                !.sustainedDelivered = @ \/ s.lasted]

Reconciled(r, report) ==
  {s \in states : s.repository # r} \cup {Refreshed(r, advice) : advice \in report}

\* The alerts whose marks are set by that.
Transitions(r, report) ==
  {<<r, a.kind, "new-urgent-recommendation">> : a \in
     {b \in report : IsUrgent(b) /\ ~StateOf(r, b.kind).urgentDelivered}}
  \cup
  {<<r, a.kind, "sustained-recommendation">> : a \in
     {b \in report : LET s == StateOf(r, b.kind)
                     IN  s.lasted /\ ~s.sustainedDelivered}}

-----------------------------------------------------------------------------
(* RuntimePolicyEngine                                                     *)

IsQuietHours ==
  /\ StartHour # EndHour
  /\ IF StartHour < EndHour THEN hour >= StartHour /\ hour < EndHour
                            ELSE hour >= StartHour \/ hour < EndHour

EvaluateMonitoring(r) == ~IsQuietHours /\ ~maintenance /\ r \notin disabled

EvaluateNotification(r) ==
  ~IsQuietHours /\ ~maintenance /\ r \notin cooling /\ sent < MaxPerInterval

-----------------------------------------------------------------------------
Idle == [at |-> "idle", next |-> 1, report |-> {}, alerts |-> {}]

\* The file the program starts with is missing, which reads as no records.
RuntimeInit ==
  /\ facts = [r \in Repository |-> {}] /\ hour = EndHour % Hours
  /\ alive = TRUE /\ running = TRUE /\ ticking = FALSE
  /\ tick = [t \in Tick |-> Idle]
  /\ states = {} /\ file = {}
  /\ maintenance = FALSE /\ disabled = {}
  /\ cooling = {} /\ sent = 0
  /\ alerted = {} /\ unsaved = FALSE
  /\ disturbances = 0

At(t, place) == alive /\ tick[t].at = place
Target(t) == Repositories[tick[t].next]
Go(t, place) == tick' = [tick EXCEPT ![t].at = place]
Onward(t) ==
  tick' = [tick EXCEPT ![t] = [Idle EXCEPT !.at = "walking", !.next = tick[t].next + 1]]
Disturb ==
  disturbances < MaxDisturbances /\ disturbances' = disturbances + 1

\* Mutant of Fire: nobody asks whether a tick is in flight.
FireAlways(t) ==
  /\ alive /\ running /\ tick[t].at = "idle"
  /\ t = CHOOSE u \in Tick : tick[u].at = "idle"
  /\ ticking' = TRUE /\ tick' = [tick EXCEPT ![t].at = "walking"]
  /\ UNCHANGED <<environment, alive, running, states, file, policy, limits,
                 history, disturbances>>

\* The timer fires; a tick that is still in flight makes this one return.
Unused == CHOOSE t \in Tick : tick[t].at = "idle"

Fire(t) ==
  /\ alive /\ running /\ ~ticking /\ tick[t].at = "idle" /\ t = Unused
  /\ ticking' = TRUE /\ Go(t, "walking")
  /\ UNCHANGED <<environment, alive, running, states, file, policy, limits,
                 history, disturbances>>

More(t) == At(t, "walking") /\ tick[t].next \in DOMAIN Repositories

\* Mutant of Skip: the tick ends where it should go on.
SkipTheRest(t) ==
  /\ More(t) /\ ~EvaluateMonitoring(Target(t))
  /\ tick' = [tick EXCEPT ![t] = Idle] /\ ticking' = FALSE
  /\ UNCHANGED <<environment, alive, running, states, file, policy, limits,
                 history, disturbances>>

\* Monitoring of this repository is suppressed: the next one.
Skip(t) ==
  /\ More(t) /\ ~EvaluateMonitoring(Target(t))
  /\ Onward(t)
  /\ UNCHANGED <<environment, alive, running, ticking, states, file, policy,
                 limits, history, disturbances>>

\* getRecommendations(): what it reads is old by the time it returns.
Read(t) ==
  /\ More(t) /\ EvaluateMonitoring(Target(t))
  /\ tick' = [tick EXCEPT ![t].at = "reading",
                          ![t].report = Recommend(facts[Target(t)])]
  /\ UNCHANGED <<environment, alive, running, ticking, states, file, policy,
                 limits, history, disturbances>>

\* It throws, which ends the tick: the repositories after this one wait. It
\* may do so whenever it is called, there is no bound.
ReadFails(t) ==
  /\ At(t, "reading")
  /\ tick' = [tick EXCEPT ![t] = Idle] /\ ticking' = FALSE
  /\ UNCHANGED <<environment, alive, running, states, file, policy, limits,
                 history, disturbances>>

\* reconcile() up to the first wait of persist(). A recommendation that is
\* gone ends its streak, and what was told in it.
Reconcile(t) ==
  /\ At(t, "reading")
  /\ LET r == Target(t)
         report == tick[t].report
         Lasts(alert) == alert[1] # r \/ \E a \in report : a.kind = alert[2]
     IN  /\ states' = Reconciled(r, report)
         /\ tick' = [tick EXCEPT ![t].at = "saving",
                                 ![t].report = {},
                                 ![t].alerts = Transitions(r, report)]
         /\ alerted' = {alert \in alerted : Lasts(alert)}
  /\ UNCHANGED <<environment, alive, running, ticking, file, policy, limits,
                 unsaved, disturbances>>

\* persist(): the file is rewritten in place.
Truncate(t) ==
  /\ At(t, "saving")
  /\ file' = None /\ Go(t, "filling")
  /\ UNCHANGED <<environment, alive, running, ticking, states, policy, limits,
                 history, disturbances>>

\* Mutant of Persisted: it writes the records without their marks.
PersistedUnmarked ==
  {[s EXCEPT !.urgentDelivered = FALSE, !.sustainedDelivered = FALSE] : s \in states}

Persisted == states

Fill(t) ==
  /\ At(t, "filling")
  /\ file' = Persisted /\ Go(t, "dispatching")
  /\ UNCHANGED <<environment, alive, running, ticking, states, policy, limits,
                 history, disturbances>>

\* A write that fails is logged, and the tick goes on.
PersistFails(t) ==
  /\ At(t, "saving") \/ At(t, "filling")
  /\ Disturb /\ unsaved' = TRUE /\ Go(t, "dispatching")
  /\ UNCHANGED <<environment, alive, running, ticking, states, file, policy,
                 limits, alerted>>

\* dispatch(): no alerts, or the policy suppresses them, for good.
NothingToSend(t) ==
  /\ At(t, "dispatching")
  /\ tick[t].alerts = {} \/ ~EvaluateNotification(Target(t))
  /\ Onward(t)
  /\ UNCHANGED <<environment, alive, running, ticking, states, file, policy,
                 limits, history, disturbances>>

Send(t) ==
  /\ At(t, "dispatching")
  /\ tick[t].alerts # {} /\ EvaluateNotification(Target(t))
  /\ Go(t, "delivering")
  /\ UNCHANGED <<environment, alive, running, ticking, states, file, policy,
                 limits, history, disturbances>>

\* recordNotificationSent(), whether or not the transport succeeded.
RecordSent(r) == cooling' = cooling \cup {r} /\ sent' = sent + 1

Deliver(t) ==
  /\ At(t, "delivering")
  /\ alerted' = alerted \cup tick[t].alerts
  /\ RecordSent(Target(t)) /\ Onward(t)
  /\ UNCHANGED <<environment, alive, running, ticking, states, file, policy,
                 unsaved, disturbances>>

DeliveryFails(t) ==
  /\ At(t, "delivering") /\ Disturb
  /\ RecordSent(Target(t)) /\ Onward(t)
  /\ UNCHANGED <<environment, alive, running, ticking, states, file, policy,
                 history>>

Finish(t) ==
  /\ At(t, "walking") /\ tick[t].next \notin DOMAIN Repositories
  /\ tick' = [tick EXCEPT ![t] = Idle] /\ ticking' = FALSE
  /\ UNCHANGED <<environment, alive, running, states, file, policy, limits,
                 history, disturbances>>

-----------------------------------------------------------------------------
(* RuntimeControlService                                                   *)

Control ==
  /\ alive /\ Disturb
  /\ UNCHANGED <<environment, alive, ticking, tick, states, file, limits,
                 history>>

\* stop() disarms the timer; a tick in flight goes on.
PauseMonitoring == Control /\ running' = FALSE /\ UNCHANGED policy

\* start() throws while it is running.
ResumeMonitoring == Control /\ ~running /\ running' = TRUE /\ UNCHANGED policy

SetMaintenanceMode ==
  /\ Control /\ maintenance' = ~maintenance
  /\ UNCHANGED <<running, disabled>>

SetRepositoryMonitoringEnabled(r) ==
  /\ Control
  /\ disabled' = IF r \in disabled THEN disabled \ {r} ELSE disabled \cup {r}
  /\ UNCHANGED <<running, maintenance>>

-----------------------------------------------------------------------------
(* Time, and what happens to the repositories and the process.             *)

Change(r) ==
  /\ \E f \in SUBSET Fact : facts' = [facts EXCEPT ![r] = f]
  /\ UNCHANGED <<hour, alive, running, ticking, tick, states, file, policy,
                 limits, history, disturbances>>

HourPasses ==
  /\ Disturb /\ hour' = (hour + 1) % Hours
  /\ UNCHANGED <<facts, alive, running, ticking, tick, states, file, policy,
                 limits, history>>

Aged(records, r, kind) ==
  {IF s.repository = r /\ s.kind = kind THEN [s EXCEPT !.lasted = TRUE] ELSE s :
     s \in records}

\* A streak has lasted sustainedDurationMs, by memory and by the file.
SustainedPasses(r, kind) ==
  /\ states' = Aged(states, r, kind)
  /\ file' = IF file = None THEN None ELSE Aged(file, r, kind)
  /\ <<states, file>>' # <<states, file>>
  /\ UNCHANGED <<environment, alive, running, ticking, tick, policy, limits,
                 history, disturbances>>

CooldownPasses(r) ==
  /\ r \in cooling /\ cooling' = cooling \ {r}
  /\ UNCHANGED <<environment, alive, running, ticking, tick, states, file,
                 policy, sent, history, disturbances>>

\* notificationIntervalMs is longer than cooldownMs.
IntervalPasses ==
  /\ sent > Cardinality(cooling) /\ sent' = sent - 1
  /\ UNCHANGED <<environment, alive, running, ticking, tick, states, file,
                 policy, cooling, history, disturbances>>

Crash ==
  /\ alive /\ Disturb
  /\ alive' = FALSE /\ running' = FALSE /\ ticking' = FALSE
  /\ tick' = [t \in Tick |-> Idle] /\ states' = {}
  /\ maintenance' = FALSE /\ disabled' = {} /\ cooling' = {} /\ sent' = 0
  /\ UNCHANGED <<environment, file, history>>

\* restore() before start(). A torn file makes it throw, and main() with it:
\* there is no restart then.
RestartRuntime ==
  /\ ~alive /\ file # None
  /\ alive' = TRUE /\ running' = TRUE /\ states' = file
  /\ UNCHANGED <<environment, ticking, tick, file, policy, limits,
                 history, disturbances>>

-----------------------------------------------------------------------------
Step(t) ==
  \/ Skip(t) \/ Read(t) \/ Reconcile(t) \/ Truncate(t) \/ Fill(t)
  \/ NothingToSend(t) \/ Send(t) \/ Deliver(t) \/ Finish(t)

RuntimeNext ==
  \/ \E t \in Tick : \/ Fire(t) \/ Step(t)
                     \/ ReadFails(t) \/ PersistFails(t) \/ DeliveryFails(t)
  \/ PauseMonitoring \/ ResumeMonitoring \/ SetMaintenanceMode
  \/ \E r \in Repository : \/ SetRepositoryMonitoringEnabled(r)
                           \/ Change(r) \/ CooldownPasses(r)
                           \/ \E kind \in Possible : SustainedPasses(r, kind)
  \/ HourPasses \/ IntervalPasses \/ Crash \/ RestartRuntime

\* A tick that has begun goes on, and an armed timer fires in the end.
Fairness ==
  /\ \A t \in Tick : WF_runtimeVars(Step(t))
  /\ WF_runtimeVars(\E t \in Tick : Fire(t))

RuntimeSpec == RuntimeInit /\ [][RuntimeNext]_runtimeVars /\ Fairness

-----------------------------------------------------------------------------
(* Properties                                                              *)

RuntimeTypeOK ==
  /\ facts \in [Repository -> SUBSET Fact] /\ hour \in 0..(Hours - 1)
  /\ alive \in BOOLEAN /\ running \in BOOLEAN /\ ticking \in BOOLEAN
  /\ tick \in [Tick -> [at : {"idle", "walking", "reading", "saving", "filling",
                              "dispatching", "delivering"},
                        next : 1..(Len(Repositories) + 1),
                        report : SUBSET UNION {Recommend(f) : f \in SUBSET Fact},
                        alerts : SUBSET Alert]]
  /\ states \subseteq State /\ (file = None \/ file \subseteq State)
  /\ maintenance \in BOOLEAN /\ disabled \subseteq Repository
  /\ cooling \subseteq Repository /\ sent \in Nat
  /\ alerted \subseteq Alert /\ unsaved \in BOOLEAN
  /\ disturbances \in 0..MaxDisturbances
  /\ \A s, u \in states :
       s.repository = u.repository /\ s.kind = u.kind => s = u

\* However pauses, resumes and ticks overlap, no repository is notified
\* while it cools down, no two notifications are on their way at once, and
\* no interval has more of them than its limit (RuntimePolicyEngine asks
\* before a delivery and is told after it).
NotifiedWithinLimits ==
  /\ sent <= MaxPerInterval
  /\ \A t \in Tick : tick[t].at = "delivering" =>
       /\ Target(t) \notin cooling
       /\ \A u \in Tick \ {t} : tick[u].at # "delivering"

\* The user is told of a streak once for each trigger, also when the process
\* is killed at any point of a tick and started again, as long as the store
\* could be written (RecommendationStateStore.persist() and restore()).
ToldOncePerStreak ==
  [][\A t \in Tick : Deliver(t) => unsaved \/ tick[t].alerts \cap alerted = {}]_runtimeVars

Urgent(r, kind) == \E a \in Recommend(facts[r]) : a.kind = kind /\ IsUrgent(a)

\* The reads of r, and of those a tick comes to before it, fail no more.
Reached(r) ==
  \E i \in DOMAIN Repositories :
    /\ Repositories[i] = r
    /\ <>[][\A t \in Tick : ReadFails(t) => tick[t].next > i]_runtimeVars

Noticed(r, kind) ==
  (alive /\ running /\ Urgent(r, kind)) ~>
    \/ StateOf(r, kind).urgentDelivered
    \/ ~Urgent(r, kind) \/ ~EvaluateMonitoring(r) \/ ~alive \/ ~running

\* A recommendation that is urgent and stays so is marked for an alert, unless
\* its repository is not monitored or the process dies: whatever is suppressed,
\* sent or not saved for the repositories before it, and whatever fails after
\* it. A read that keeps failing before it or for it is excluded, see the next
\* property (MonitoringWorker.tick()).
UrgentIsNoticed ==
  \A r \in Repository, kind \in Possible : Reached(r) => Noticed(r, kind)

\* Known not to hold, see the README.
\* MonitoringWorker says that a tick evaluates every registered repository.
EveryRepositoryIsNoticed ==
  \A r \in Repository, kind \in Possible : Noticed(r, kind)

=============================================================================
