------------------------------ MODULE JobSlots ------------------------------
(***************************************************************************)
(* What TaskPlanner.run() promises its callers: a call is refused or takes *)
(* one of MaxJobs slots, is decided once, by its workflow or by the first  *)
(* abort, and gives the slot back when it returns. No timer, snapshot or   *)
(* child process is visible here; TaskPlanner implements this module.      *)
(***************************************************************************)
EXTENDS Naturals, FiniteSets

CONSTANTS Run, MaxJobs

VARIABLES job,      \* idle, running, unwinding (decided, not returned), returned
          verdict,  \* what the caller will be told
          abort     \* the first abort of the call

jobVars == <<job, verdict, abort>>

Holding == {r \in Run : job[r] \in {"running", "unwinding"}}

Init ==
    /\ job = [r \in Run |-> "idle"]
    /\ verdict = [r \in Run |-> "none"]
    /\ abort = [r \in Run |-> "none"]

Refuse(r) ==
    /\ job[r] = "idle"
    /\ job' = [job EXCEPT ![r] = "returned"]
    /\ verdict' = [verdict EXCEPT ![r] = "refused"]
    /\ UNCHANGED abort

Admit(r) ==
    /\ job[r] = "idle"
    /\ Cardinality(Holding) < MaxJobs
    /\ job' = [job EXCEPT ![r] = "running"]
    /\ UNCHANGED <<verdict, abort>>

\* The call is decided, and returns now or after it has unwound.
Conclude(r, res) ==
    /\ verdict' = [verdict EXCEPT ![r] = res]
    /\ \E j \in {"unwinding", "returned"} : job' = [job EXCEPT ![r] = j]

\* By the workflow, or by an abort that came before it was started.
Decide(r, res) ==
    /\ job[r] = "running"
    /\ \/ res \in {"success", "failed"} /\ abort[r] = "none"
       \/ res = abort[r] /\ abort[r] # "none"
    /\ Conclude(r, res)
    /\ UNCHANGED abort

\* An abort decides a running call, now or once its workflow is started; it
\* is registered, and without effect, while the call unwinds.
Abort(r, why) ==
    /\ r \in Holding
    /\ abort[r] = "none"
    /\ abort' = [abort EXCEPT ![r] = why]
    /\ \/ job[r] = "running" /\ Conclude(r, why)
       \/ UNCHANGED <<job, verdict>>

Return(r) ==
    /\ job[r] = "unwinding"
    /\ job' = [job EXCEPT ![r] = "returned"]
    /\ UNCHANGED <<verdict, abort>>

Forget(r) ==
    /\ job[r] = "returned"
    /\ job' = [job EXCEPT ![r] = "idle"]
    /\ verdict' = [verdict EXCEPT ![r] = "none"]
    /\ abort' = [abort EXCEPT ![r] = "none"]

Progress(r) ==
    \/ \E res \in {"success", "failed", "timedOut", "cancelled"} : Decide(r, res)
    \/ \E why \in {"timedOut", "cancelled"} : Abort(r, why)
    \/ Return(r)

Next ==
    \E r \in Run : Refuse(r) \/ Admit(r) \/ Progress(r) \/ Forget(r)

Spec == Init /\ [][Next]_jobVars

FairSpec == Spec /\ \A r \in Run : WF_jobVars(Progress(r))
=============================================================================
