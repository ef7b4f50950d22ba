-------------------------- MODULE ApprovalProvider --------------------------
(***************************************************************************)
(* src/telegram/TelegramApprovalProvider.ts: approval requests that wait   *)
(* for a button press, a rejection by /task cancel, a failed prompt or a   *)
(* timer. The pending map is keyed by correlationId, and so is the button  *)
(* of a prompt, while one correlationId makes several requests one after   *)
(* the other: every step of a workflow reuses it, and so does every        *)
(* autonomous attempt.                                                     *)
(*                                                                         *)
(* A request is a pair <<c, n>>: the nth one made under correlationId c.   *)
(***************************************************************************)
EXTENDS Naturals

CONSTANTS Correlation,  \* correlationIds
          Parsable,     \* those of the form telegram:<chat>:<update>
          User,         \* Telegram users who can press a button
          Authorized,   \* security.allowed_users
          NoUser,       \* decided by no button
          MaxRequests   \* bound on the requests of one correlationId

ASSUME ApprovalAssumption ==
    /\ Parsable \subseteq Correlation
    /\ Authorized \subseteq User
    /\ NoUser \notin User
    /\ MaxRequests \in Nat

VARIABLES asked,     \* requests made so far, by correlationId
          pending,   \* the map: the request whose resolve it holds, 0 if none
          timers,    \* requests whose timeout is armed
          sending,   \* requests whose sendMessage() is in progress
          prompts,   \* prompts shown in the chat, their buttons still there
          decision,  \* what the caller of a request was told
          told,      \* what the user was told a request's decision was
          tapper,    \* who pressed the button that decided a request
          from       \* which request's prompt or send decided it, 0 if none

vars == <<asked, pending, timers, sending, prompts, decision, told, tapper,
          from>>

Number  == 1..MaxRequests
Request == Correlation \X Number

\* The request a caller of c awaits; callers of one correlationId take turns.
Awaits(c) == asked[c] # 0 /\ decision[<<c, asked[c]>>] = "none"

TypeOK ==
    /\ asked \in [Correlation -> 0..MaxRequests]
    /\ pending \in [Correlation -> 0..MaxRequests]
    /\ timers \subseteq Request
    /\ sending \subseteq Request
    /\ prompts \subseteq Request
    /\ decision \in [Request -> {"none", "approved", "denied", "lost"}]
    /\ told \in [Request -> {"none", "approved", "denied"}]
    /\ tapper \in [Request -> User \union {NoUser}]
    /\ from \in [Request -> 0..MaxRequests]

Init ==
    /\ asked = [c \in Correlation |-> 0]
    /\ pending = [c \in Correlation |-> 0]
    /\ timers = {}
    /\ sending = {}
    /\ prompts = {}
    /\ decision = [q \in Request |-> "none"]
    /\ told = [q \in Request |-> "none"]
    /\ tapper = [q \in Request |-> NoUser]
    /\ from = [q \in Request |-> 0]

-----------------------------------------------------------------------------
\* Mutant of Settle: the timer is not cleared.
SettleTicking(c, d, u, n) ==
    IF pending[c] = 0
    THEN UNCHANGED <<pending, timers, decision, tapper, from>>
    ELSE LET q == <<c, pending[c]>> IN
         /\ pending' = [pending EXCEPT ![c] = 0]
         /\ decision' = [decision EXCEPT ![q] = d]
         /\ tapper' = [tapper EXCEPT ![q] = u]
         /\ from' = [from EXCEPT ![q] = n]
         /\ UNCHANGED timers

\* settle(): decides whatever request the entry of c holds, pressed by u on,
\* or failed while sending, the prompt of request n.
Settle(c, d, u, n) ==
    IF pending[c] = 0
    THEN UNCHANGED <<pending, timers, decision, tapper, from>>
    ELSE LET q == <<c, pending[c]>> IN
         /\ pending' = [pending EXCEPT ![c] = 0]
         /\ timers' = timers \ {q}
         /\ decision' = [decision EXCEPT ![q] = d]
         /\ tapper' = [tapper EXCEPT ![q] = u]
         /\ from' = [from EXCEPT ![q] = n]

\* awaitDecision(): a correlationId that is not Telegram's is denied at once;
\* any other arms its timer, takes the entry and starts sending the prompt.
Ask(c) ==
    /\ ~Awaits(c)
    /\ asked[c] < MaxRequests
    /\ asked' = [asked EXCEPT ![c] = @ + 1]
    /\ LET n == asked[c] + 1 IN
       \/ /\ c \notin Parsable
          /\ decision' = [decision EXCEPT ![<<c, n>>] = "denied"]
          /\ UNCHANGED <<pending, timers, sending>>
       \/ /\ c \in Parsable
          /\ pending' = [pending EXCEPT ![c] = n]
          /\ timers' = timers \union {<<c, n>>}
          /\ sending' = sending \union {<<c, n>>}
          /\ UNCHANGED decision
    /\ UNCHANGED <<prompts, told, tapper, from>>

\* Telegram shows the prompt; its answer to sendMessage() may still be lost.
PromptShown(c, n) ==
    /\ <<c, n>> \in sending
    /\ prompts' = prompts \union {<<c, n>>}
    /\ UNCHANGED <<asked, pending, timers, sending, decision, told, tapper,
                   from>>

SendSucceeds(c, n) ==
    /\ <<c, n>> \in sending
    /\ <<c, n>> \in prompts
    /\ sending' = sending \ {<<c, n>>}
    /\ UNCHANGED <<asked, pending, timers, prompts, decision, told, tapper,
                   from>>

\* The catch of sendMessage(): settles by correlationId, however late.
SendFails(c, n) ==
    /\ <<c, n>> \in sending
    /\ sending' = sending \ {<<c, n>>}
    /\ Settle(c, "denied", NoUser, n)
    /\ UNCHANGED <<asked, prompts, told>>

\* Mutant of Tap: nobody asks whether the request is still pending.
TapUnchecked(c, n, u, d) ==
    /\ <<c, n>> \in prompts
    /\ u \in Authorized
    /\ Settle(c, d, u, n)
    /\ told' = [told EXCEPT ![<<c, n>>] = d]
    /\ UNCHANGED <<asked, sending, prompts>>

\* handleCallback(): the press of an unauthorized user, and one of a request
\* that is no longer pending, are only answered. The buttons stay.
Tap(c, n, u, d) ==
    /\ <<c, n>> \in prompts
    /\ u \in Authorized
    /\ pending[c] # 0
    /\ Settle(c, d, u, n)
    /\ told' = [told EXCEPT ![<<c, pending[c]>>] = d]
    /\ UNCHANGED <<asked, sending, prompts>>

\* reject(), for /task cancel.
Reject(c) ==
    /\ pending[c] # 0
    /\ Settle(c, "denied", NoUser, 0)
    /\ UNCHANGED <<asked, sending, prompts, told>>

\* Mutant of TimerFires: the caller is never told.
TimerFiresSilently(c, n) ==
    /\ <<c, n>> \in timers
    /\ timers' = timers \ {<<c, n>>}
    /\ pending' = [pending EXCEPT ![c] = 0]
    /\ UNCHANGED <<asked, sending, prompts, decision, told, tapper, from>>

\* The timeout drops the entry of c whoever's it is, and resolves its own
\* request (a promise that is already resolved stays as it is).
TimerFires(c, n) ==
    /\ <<c, n>> \in timers
    /\ timers' = timers \ {<<c, n>>}
    /\ pending' = [pending EXCEPT ![c] = 0]
    /\ decision' = IF decision[<<c, n>>] = "none"
                   THEN [decision EXCEPT ![<<c, n>>] = "denied"]
                   ELSE decision
    /\ UNCHANGED <<asked, sending, prompts, told, tapper, from>>

\* The process restarts: map, timers, sends and callers are gone, the prompts
\* are still in the chat.
Restart ==
    /\ pending' = [c \in Correlation |-> 0]
    /\ timers' = {}
    /\ sending' = {}
    /\ decision' = [q \in Request |->
                       IF q[2] = asked[q[1]] /\ decision[q] = "none"
                       THEN "lost" ELSE decision[q]]
    /\ UNCHANGED <<asked, prompts, told, tapper, from>>

Next ==
    \/ \E c \in Correlation :
          \/ Ask(c)
          \/ Reject(c)
          \/ \E n \in Number :
                \/ PromptShown(c, n)
                \/ SendSucceeds(c, n)
                \/ SendFails(c, n)
                \/ TimerFires(c, n)
                \/ \E u \in User, d \in {"approved", "denied"} :
                      Tap(c, n, u, d)
    \/ Restart

Spec == Init /\ [][Next]_vars

\* Only the timer is owed: nobody has to press anything.
FairSpec ==
    Spec /\ \A c \in Correlation, n \in Number : WF_vars(TimerFires(c, n))

-----------------------------------------------------------------------------
\* The caller's view: the last request of the correlationId.
CallerView ==
    [c \in Correlation |->
        IF asked[c] = 0 THEN "idle"
        ELSE LET d == decision[<<c, asked[c]>>] IN
             IF d = "none" THEN "asked" ELSE d]

Gate == INSTANCE ApprovalGate WITH gate <- CallerView

\* The provider keeps the promise of ApprovalGate, its progress included.
ImplementsApprovalGate == Gate!FairSpec

\* The entry of a correlationId is that of the request being awaited under it,
\* its timer and no other is armed: nothing an earlier request left behind can
\* drop the entry of a later one.
PendingMatchesAwaited ==
    /\ \A c \in Correlation :
          pending[c] = IF Awaits(c) THEN asked[c] ELSE 0
    /\ timers = {q \in Request : q[2] = pending[q[1]]}

\* Nothing but an authorized user's press approves.
ApprovedByAuthorized ==
    \A q \in Request : decision[q] = "approved" => tapper[q] \in Authorized

\* The user is told "Approved" exactly when the caller is: a press racing the
\* timer, /task cancel or a failed send is answered by what it did.
ToldAsDecided ==
    \A q \in Request : told[q] # "none" => decision[q] = told[q]

\* Known not to hold, see the README.
\* EXECUTION_PIPELINE.md:152-154 calls the reuse of one correlationId by the
\* successive steps of a workflow safe: then a step that follows approved ones
\* is approved on its own prompt.
StepApprovedOnOwnPrompt ==
    \A q \in Request :
        (\A n \in 1..q[2] : decision[<<q[1], n>>] = "approved")
            => from[q] = q[2]

\* Every request is decided, by its timer if by nothing else.
AwaitedIsDecided ==
    \A c \in Correlation : Awaits(c) ~> ~Awaits(c)
=============================================================================
