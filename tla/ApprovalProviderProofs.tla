---------------------- MODULE ApprovalProviderProofs ----------------------
(***************************************************************************)
(* Safety of the two parts that talk to the user.                          *)
(*                                                                         *)
(* ApprovalProvider, for any users, correlationIds and number of requests, *)
(* and that it implements ApprovalGate. What Inv adds is history: nothing  *)
(* exists of a request that was not made, and nothing decides a request by *)
(* a later one's prompt.                                                   *)
(*                                                                         *)
(* Monitoring, in the second half, for any repositories, facts and limits. *)
(* RuntimeInv says that ticks do not overlap, and StreakInv that the marks *)
(* of what the user was told are in memory and on disk.                    *)
(***************************************************************************)
EXTENDS ApprovalProvider, Monitoring, FiniteSetTheorems, TLAPS

\* A request not made yet has left no trace.
NoTraceBefore ==
    \A q \in Request : q[2] > asked[q[1]] =>
        /\ decision[q] = "none" /\ told[q] = "none" /\ from[q] = 0
        /\ q \notin timers /\ q \notin sending /\ q \notin prompts

\* Only the last request of a correlationId can be undecided.
OthersDecided ==
    \A q \in Request : q[2] < asked[q[1]] => decision[q] # "none"

\* What decided a request belongs to it or to an earlier one.
NotFromLater ==
    \A q \in Request : from[q] <= q[2]

\* Told only together with the decision.
UntoldWhileAwaited ==
    \A q \in Request : decision[q] = "none" => told[q] = "none"

Inv ==
    /\ TypeOK
    /\ PendingMatchesAwaited
    /\ ApprovedByAuthorized
    /\ ToldAsDecided
    /\ NoTraceBefore
    /\ OthersDecided
    /\ NotFromLater
    /\ UntoldWhileAwaited

-----------------------------------------------------------------------------
LEMMA RequestPair ==
    ASSUME NEW q \in Request
    PROVE  q[1] \in Correlation /\ q[2] \in Number /\ q = <<q[1], q[2]>>
  BY DEF Request

\* An entry is that of an awaited, hence existing, request.
LEMMA EntryIsRequest ==
    ASSUME Inv, NEW c \in Correlation, pending[c] # 0
    PROVE  /\ <<c, pending[c]>> \in Request
           /\ pending[c] = asked[c]
           /\ decision[<<c, pending[c]>>] = "none"
<1>1. pending[c] = IF Awaits(c) THEN asked[c] ELSE 0
  BY DEF Inv, PendingMatchesAwaited
<1>2. Awaits(c) /\ pending[c] = asked[c]
  BY <1>1
<1>3. pending[c] \in Number
  BY ApprovalAssumption DEF Inv, TypeOK, Number
<1>4. QED
  BY <1>2, <1>3 DEF Awaits, Request

\* settle() of an entry, for the prompt or send n of a request already made.
LEMMA SettleInv ==
    ASSUME Inv, NEW c \in Correlation, NEW d \in {"approved", "denied"},
           NEW u \in User \union {NoUser}, NEW n \in 0..MaxRequests,
           n <= asked[c], d = "approved" => u \in Authorized,
           pending[c] # 0, Settle(c, d, u, n), asked' = asked,
           sending' \subseteq sending, prompts' = prompts,
           \/ told' = told
           \/ told' = [told EXCEPT ![<<c, pending[c]>>] = d]
    PROVE  Inv'
<1> DEFINE q0 == <<c, pending[c]>>
<1> USE ApprovalAssumption
<1>1. q0 \in Request /\ pending[c] = asked[c] /\ decision[q0] = "none"
  BY EntryIsRequest
<1>2. /\ pending' = [pending EXCEPT ![c] = 0]
      /\ timers' = timers \ {q0}
      /\ decision' = [decision EXCEPT ![q0] = d]
      /\ tapper' = [tapper EXCEPT ![q0] = u]
      /\ from' = [from EXCEPT ![q0] = n]
  BY DEF Settle
<1>3. TypeOK'
  BY <1>1, <1>2 DEF Inv, TypeOK
<1>4. PendingMatchesAwaited'
  <2>1. \A b \in Correlation : pending'[b] = IF Awaits(b)' THEN asked'[b] ELSE 0
    BY <1>1, <1>2 DEF Inv, TypeOK, PendingMatchesAwaited, Awaits, Request, Number
  <2>2. \A q \in Request : q \in timers' <=> q[2] = pending'[q[1]]
    BY <1>1, <1>2, RequestPair DEF Inv, TypeOK, PendingMatchesAwaited, Number
  <2>3. timers' \subseteq Request
    BY <1>3 DEF TypeOK
  <2>4. QED
    BY <2>1, <2>2, <2>3 DEF PendingMatchesAwaited
<1>5. ApprovedByAuthorized' /\ ToldAsDecided' /\ UntoldWhileAwaited'
  BY <1>1, <1>2 DEF Inv, TypeOK, ApprovedByAuthorized, ToldAsDecided,
     UntoldWhileAwaited
<1>6. NoTraceBefore' /\ OthersDecided' /\ NotFromLater'
  BY <1>1, <1>2, RequestPair DEF Inv, TypeOK, NoTraceBefore, OthersDecided,
     NotFromLater, Number
<1>7. QED
  BY <1>3, <1>4, <1>5, <1>6 DEF Inv

LEMMA InitInv == Init => Inv
  BY ApprovalAssumption, RequestPair
  DEF Init, Inv, TypeOK, PendingMatchesAwaited, Awaits, ApprovedByAuthorized,
      ToldAsDecided, NoTraceBefore, OthersDecided, NotFromLater,
      UntoldWhileAwaited, Number

LEMMA AskInv ==
    ASSUME Inv, NEW c \in Correlation, Ask(c)
    PROVE  Inv'
<1> DEFINE q0 == <<c, asked[c] + 1>>
<1> USE ApprovalAssumption
<1>1. q0 \in Request /\ asked[c] + 1 \in Number
  BY DEF Ask, Inv, TypeOK, Request, Number
<1>2. /\ pending[c] = 0 /\ decision[q0] = "none" /\ told[q0] = "none"
      /\ asked' = [asked EXCEPT ![c] = asked[c] + 1]
  BY <1>1 DEF Ask, Inv, TypeOK, PendingMatchesAwaited, NoTraceBefore, Number
<1>3. \A n \in Number : n <= asked[c] => decision[<<c, n>>] # "none"
  BY DEF Ask, Inv, TypeOK, OthersDecided, Awaits, Request, Number
<1>4. CASE c \notin Parsable
  <2>1. /\ decision' = [decision EXCEPT ![q0] = "denied"]
        /\ UNCHANGED <<pending, timers, sending, prompts, told, tapper, from>>
    BY <1>4 DEF Ask
  <2>2. TypeOK'
    BY <1>1, <1>2, <2>1 DEF Inv, TypeOK, Number
  <2>3. PendingMatchesAwaited'
    BY <1>1, <1>2, <2>1 DEF Inv, TypeOK, PendingMatchesAwaited, Awaits,
       Request, Number
  <2>4. ApprovedByAuthorized' /\ ToldAsDecided' /\ UntoldWhileAwaited'
    BY <1>1, <1>2, <2>1 DEF Inv, TypeOK, ApprovedByAuthorized, ToldAsDecided,
       UntoldWhileAwaited
  <2>5. NoTraceBefore' /\ OthersDecided' /\ NotFromLater'
    BY <1>1, <1>2, <1>3, <2>1, RequestPair DEF Inv, TypeOK, NoTraceBefore,
       OthersDecided, NotFromLater, Number
  <2>6. QED
    BY <2>2, <2>3, <2>4, <2>5 DEF Inv
<1>5. CASE c \in Parsable
  <2>1. /\ pending' = [pending EXCEPT ![c] = asked[c] + 1]
        /\ timers' = timers \union {q0}
        /\ sending' = sending \union {q0}
        /\ UNCHANGED <<decision, prompts, told, tapper, from>>
    BY <1>5 DEF Ask
  <2>2. TypeOK'
    BY <1>1, <1>2, <2>1 DEF Inv, TypeOK, Number
  <2>3. PendingMatchesAwaited'
    <3>1. \A b \in Correlation :
              pending'[b] = IF Awaits(b)' THEN asked'[b] ELSE 0
      BY <1>1, <1>2, <2>1 DEF Inv, TypeOK, PendingMatchesAwaited, Awaits, Number
    <3>2. \A q \in Request : q \in timers' <=> q[2] = pending'[q[1]]
      BY <1>1, <1>2, <2>1, RequestPair
      DEF Inv, TypeOK, PendingMatchesAwaited, Number
    <3>3. QED
      BY <2>2, <3>1, <3>2 DEF PendingMatchesAwaited, TypeOK
  <2>4. ApprovedByAuthorized' /\ ToldAsDecided' /\ UntoldWhileAwaited'
    BY <2>1 DEF Inv, ApprovedByAuthorized, ToldAsDecided, UntoldWhileAwaited
  <2>5. NoTraceBefore' /\ OthersDecided' /\ NotFromLater'
    BY <1>1, <1>2, <1>3, <2>1, RequestPair DEF Inv, TypeOK, NoTraceBefore,
       OthersDecided, NotFromLater, Number
  <2>6. QED
    BY <2>2, <2>3, <2>4, <2>5 DEF Inv
<1>6. QED
  BY <1>4, <1>5

LEMMA TimerInv ==
    ASSUME Inv, NEW c \in Correlation, NEW n \in Number, TimerFires(c, n)
    PROVE  Inv'
<1> DEFINE q0 == <<c, n>>
<1> USE ApprovalAssumption
<1>1. q0 \in Request /\ n = pending[c] /\ n = asked[c] /\ n # 0
      /\ decision[q0] = "none"
  BY EntryIsRequest
  DEF TimerFires, Inv, TypeOK, PendingMatchesAwaited, Request, Number
<1>2. /\ timers' = timers \ {q0} /\ pending' = [pending EXCEPT ![c] = 0]
      /\ decision' = [decision EXCEPT ![q0] = "denied"]
      /\ UNCHANGED <<asked, sending, prompts, told, tapper, from>>
  BY <1>1 DEF TimerFires
<1>3. TypeOK'
  BY <1>1, <1>2 DEF Inv, TypeOK
<1>4. PendingMatchesAwaited'
  <2>1. \A b \in Correlation : pending'[b] = IF Awaits(b)' THEN asked'[b] ELSE 0
    BY <1>1, <1>2 DEF Inv, TypeOK, PendingMatchesAwaited, Awaits, Request, Number
  <2>2. \A q \in Request : q \in timers' <=> q[2] = pending'[q[1]]
    BY <1>1, <1>2, RequestPair DEF Inv, TypeOK, PendingMatchesAwaited, Number
  <2>3. QED
    BY <1>3, <2>1, <2>2 DEF PendingMatchesAwaited, TypeOK
<1>5. ApprovedByAuthorized' /\ ToldAsDecided' /\ UntoldWhileAwaited'
  BY <1>1, <1>2 DEF Inv, TypeOK, ApprovedByAuthorized, ToldAsDecided,
     UntoldWhileAwaited
<1>6. NoTraceBefore' /\ OthersDecided' /\ NotFromLater'
  BY <1>1, <1>2, RequestPair DEF Inv, TypeOK, NoTraceBefore, OthersDecided,
     NotFromLater, Number
<1>7. QED
  BY <1>3, <1>4, <1>5, <1>6 DEF Inv

LEMMA RestartInv ==
    ASSUME Inv, Restart
    PROVE  Inv'
<1> USE ApprovalAssumption
<1>1. TypeOK'
  BY RequestPair DEF Restart, Inv, TypeOK
<1>2. \A c \in Correlation : ~Awaits(c)'
  BY RequestPair DEF Restart, Inv, TypeOK, Awaits, Request, Number
<1>3. PendingMatchesAwaited'
  BY <1>2, RequestPair DEF Restart, PendingMatchesAwaited, Number
<1>4. \A q \in Request : decision'[q] # decision[q] =>
          /\ decision[q] = "none" /\ decision'[q] = "lost"
          /\ q[2] = asked[q[1]] /\ told[q] = "none"
  BY DEF Restart, Inv, TypeOK, UntoldWhileAwaited
<1>5. ApprovedByAuthorized' /\ ToldAsDecided' /\ UntoldWhileAwaited'
  BY <1>4 DEF Restart, Inv, TypeOK, ApprovedByAuthorized, ToldAsDecided,
     UntoldWhileAwaited
<1>6. NoTraceBefore' /\ OthersDecided' /\ NotFromLater'
  BY <1>4, RequestPair DEF Restart, Inv, TypeOK, NoTraceBefore, OthersDecided,
     NotFromLater, Number
<1>7. QED
  BY <1>1, <1>3, <1>5, <1>6 DEF Inv

LEMMA NextInv == Inv /\ [Next]_vars => Inv'
<1> SUFFICES ASSUME Inv, [Next]_vars PROVE Inv'
  OBVIOUS
<1> USE ApprovalAssumption
<1>1. ASSUME NEW c \in Correlation, NEW n \in Number,
             PromptShown(c, n) \/ SendSucceeds(c, n)
      PROVE  Inv'
  <2>1. <<c, n>> \in Request /\ <<c, n>> \in sending
    BY <1>1 DEF PromptShown, SendSucceeds, Inv, TypeOK
  <2>2. n <= asked[c]
    BY <2>1 DEF Inv, TypeOK, NoTraceBefore, Number, Request
  <2>3. NoTraceBefore'
    BY <1>1, <2>2, RequestPair DEF PromptShown, SendSucceeds, Inv, TypeOK,
       NoTraceBefore, Number
  <2>4. QED
    BY <1>1, <2>1, <2>3 DEF PromptShown, SendSucceeds, Inv, TypeOK,
       PendingMatchesAwaited, Awaits, ApprovedByAuthorized, ToldAsDecided,
       OthersDecided, NotFromLater, UntoldWhileAwaited
<1>2. ASSUME NEW c \in Correlation, NEW n \in Number, SendFails(c, n)
      PROVE  Inv'
  <2>1. n <= asked[c] /\ n \in 0..MaxRequests
    BY <1>2 DEF SendFails, Inv, TypeOK, NoTraceBefore, Number, Request
  <2>2. CASE pending[c] # 0
    BY <1>2, <2>1, <2>2, SettleInv DEF SendFails
  <2>3. CASE pending[c] = 0
    <3>1. /\ sending' \subseteq sending
          /\ UNCHANGED <<asked, pending, timers, prompts, decision, told,
                         tapper, from>>
      BY <1>2, <2>3 DEF SendFails, Settle
    <3>2. TypeOK' /\ PendingMatchesAwaited' /\ NoTraceBefore'
      BY <3>1 DEF Inv, TypeOK, PendingMatchesAwaited, Awaits, NoTraceBefore
    <3>3. ApprovedByAuthorized' /\ ToldAsDecided' /\ OthersDecided'
          /\ NotFromLater' /\ UntoldWhileAwaited'
      BY <3>1 DEF Inv, ApprovedByAuthorized, ToldAsDecided, OthersDecided,
         NotFromLater, UntoldWhileAwaited
    <3>4. QED
      BY <3>2, <3>3 DEF Inv
  <2>4. QED
    BY <2>2, <2>3
<1>3. ASSUME NEW c \in Correlation, NEW n \in Number, NEW u \in User,
             NEW d \in {"approved", "denied"}, Tap(c, n, u, d)
      PROVE  Inv'
  <2>1. n <= asked[c] /\ n \in 0..MaxRequests
    BY <1>3 DEF Tap, Inv, TypeOK, NoTraceBefore, Number, Request
  <2>2. QED
    BY <1>3, <2>1, SettleInv DEF Tap
<1>4. ASSUME NEW c \in Correlation, Reject(c)
      PROVE  Inv'
  BY <1>4, SettleInv DEF Reject, Inv, TypeOK
<1>5. CASE UNCHANGED vars
  BY <1>5 DEF vars, Inv, TypeOK, PendingMatchesAwaited, Awaits,
     ApprovedByAuthorized, ToldAsDecided, NoTraceBefore, OthersDecided,
     NotFromLater, UntoldWhileAwaited
<1>6. QED
  BY <1>1, <1>2, <1>3, <1>4, <1>5, AskInv, TimerInv, RestartInv DEF Next

LEMMA SpecInv == Spec => []Inv
  BY InitInv, NextInv, PTL DEF Spec

-----------------------------------------------------------------------------
\* The entry and the armed timer are always those of the awaited request.
THEOREM EntriesMatch == Spec => [](TypeOK /\ PendingMatchesAwaited)
<1>1. Inv => TypeOK /\ PendingMatchesAwaited
  BY DEF Inv
<1>2. QED
  BY <1>1, SpecInv, PTL

\* Nothing but the press of an authorized user approves, across restarts too.
THEOREM ApprovalsAreAuthorized == Spec => []ApprovedByAuthorized
<1>1. Inv => ApprovedByAuthorized
  BY DEF Inv
<1>2. QED
  BY <1>1, SpecInv, PTL

\* The answer to a press is what the caller of the request was told.
THEOREM AnswersAreTruthful == Spec => []ToldAsDecided
<1>1. Inv => ToldAsDecided
  BY DEF Inv
<1>2. QED
  BY <1>1, SpecInv, PTL

\* The first request of a correlationId is decided on its own prompt if on
\* any: what the reuse of the id gives up is limited to the later ones.
THEOREM FirstOnOwnPrompt ==
    Spec => [](\A c \in Correlation : 1 \in Number => from[<<c, 1>>] \in {0, 1})
<1>1. Inv => \A c \in Correlation : 1 \in Number => from[<<c, 1>>] \in {0, 1}
  <2>1. SUFFICES ASSUME Inv, NEW c \in Correlation, 1 \in Number
                 PROVE  from[<<c, 1>>] \in {0, 1}
    OBVIOUS
  <2>2. <<c, 1>> \in Request
    BY <2>1 DEF Request
  <2>3. from[<<c, 1>>] \in Nat /\ from[<<c, 1>>] <= 1
    BY <2>1, <2>2, ApprovalAssumption DEF Inv, TypeOK, NotFromLater
  <2>4. QED
    BY <2>3
<1>2. QED
  BY <1>1, SpecInv, PTL
-----------------------------------------------------------------------------
\* The gate of c as its last request leaves it.
Seen(n, d) == IF n = 0 THEN "idle" ELSE IF d = "none" THEN "asked" ELSE d

LEMMA ViewIs ==
    CallerView = [c \in Correlation |-> Seen(asked[c], decision[<<c, asked[c]>>])]
  BY DEF CallerView, Seen

LEMMA ViewIsPrimed ==
    CallerView' =
        [c \in Correlation |-> Seen(asked'[c], decision'[<<c, asked'[c]>>])]
  BY DEF CallerView, Seen

\* The gate shows "asked" while the caller awaits and at no other time.
LEMMA AskedIsAwaited ==
    ASSUME TypeOK, NEW c \in Correlation
    PROVE  CallerView[c] = "asked" <=> Awaits(c)
<1>1. asked[c] # 0 => <<c, asked[c]>> \in Request
  BY ApprovalAssumption DEF TypeOK, Request, Number
<1>2. asked[c] # 0 => decision[<<c, asked[c]>>] # "asked"
  BY <1>1 DEF TypeOK
<1>3. QED
  BY <1>2, ViewIs DEF Awaits, Seen

\* A step that touches neither the awaited request nor its number is invisible.
LEMMA Invisible == UNCHANGED <<asked, decision>> => UNCHANGED CallerView
  BY ViewIs, ViewIsPrimed

\* Deciding the awaited request of c opens or shuts the gate of c only.
LEMMA DecidesGate ==
    ASSUME Inv, NEW c \in Correlation, Awaits(c), UNCHANGED asked,
           NEW d \in {"approved", "denied"},
           decision' = [decision EXCEPT ![<<c, asked[c]>>] = d]
    PROVE  Gate!Decide(c, d)
<1>1. <<c, asked[c]>> \in Request
  BY ApprovalAssumption DEF Inv, TypeOK, Request, Number, Awaits
<1>2. decision'[<<c, asked[c]>>] = d
  BY <1>1 DEF Inv, TypeOK
<1>3. \A b \in Correlation :
         b # c => decision'[<<b, asked[b]>>] = decision[<<b, asked[b]>>]
  BY DEF Inv, TypeOK
<1>4. CallerView' = [CallerView EXCEPT ![c] = d]
  BY <1>2, <1>3, ViewIs, ViewIsPrimed DEF Seen, Awaits
<1>5. QED
  BY <1>4, AskedIsAwaited DEF Inv, Gate!Decide

LEMMA SettleDecidesGate ==
    ASSUME Inv, NEW c \in Correlation, NEW d \in {"approved", "denied"},
           NEW u, NEW n, Settle(c, d, u, n), UNCHANGED asked
    PROVE  Gate!Decide(c, d) \/ UNCHANGED CallerView
<1>1. CASE pending[c] = 0
  BY <1>1, Invisible DEF Settle
<1>2. CASE pending[c] # 0
  <2>1. Awaits(c) /\ pending[c] = asked[c]
    BY <1>2 DEF Inv, PendingMatchesAwaited
  <2>2. decision' = [decision EXCEPT ![<<c, asked[c]>>] = d]
    BY <1>2, <2>1 DEF Settle
  <2>3. QED
    BY <2>1, <2>2, DecidesGate
<1>3. QED
  BY <1>1, <1>2

LEMMA AskIsAsk == ASSUME Inv, NEW c \in Correlation, Ask(c) PROVE Gate!Ask(c)
<1> DEFINE n == asked[c] + 1
<1>1. <<c, n>> \in Request /\ n # 0
  BY ApprovalAssumption DEF Inv, TypeOK, Ask, Request, Number
<1>2. decision[<<c, n>>] = "none"
  BY <1>1 DEF Inv, NoTraceBefore, TypeOK
<1>3. PICK d \in {"none", "denied"} : decision' = [decision EXCEPT ![<<c, n>>] = d]
  <2>1. CASE decision' = [decision EXCEPT ![<<c, n>>] = "denied"]
    BY <2>1
  <2>2. CASE UNCHANGED decision
    <3>1. decision' = [decision EXCEPT ![<<c, n>>] = "none"]
      BY <1>1, <1>2, <2>2 DEF Inv, TypeOK
    <3>2. QED
      BY <3>1
  <2>3. QED
    BY <2>1, <2>2 DEF Ask
<1>4. asked'[c] = n /\ \A b \in Correlation : b # c => asked'[b] = asked[b]
  BY DEF Inv, TypeOK, Ask
<1> HIDE DEF n
<1>x. /\ decision'[<<c, n>>] = d
      /\ \A b \in Correlation :
            b # c => decision'[<<b, asked[b]>>] = decision[<<b, asked[b]>>]
  BY <1>1, <1>3 DEF Inv, TypeOK
<1>5. CallerView' = [CallerView EXCEPT ![c] = IF d = "none" THEN "asked" ELSE d]
  <2>1. CallerView'[c] = IF d = "none" THEN "asked" ELSE d
    BY <1>1, <1>x, <1>4, ViewIsPrimed DEF Seen
  <2>2. \A b \in Correlation : b # c => CallerView'[b] = CallerView[b]
    BY <1>x, <1>4, ViewIs, ViewIsPrimed
  <2>3. QED
    BY <2>1, <2>2, ViewIs, ViewIsPrimed
<1>6. CallerView[c] # "asked"
  BY AskedIsAwaited DEF Inv, Ask
<1>7. QED
  BY <1>5, <1>6 DEF Gate!Ask

LEMMA TimerDecidesGate ==
    ASSUME Inv, NEW c \in Correlation, NEW n \in Number, TimerFires(c, n)
    PROVE  Gate!Decide(c, "denied")
<1>1. <<c, n>> \in Request /\ pending[c] = n
  BY DEF TimerFires, Inv, PendingMatchesAwaited, Request
<1>2. Awaits(c) /\ asked[c] = n
  BY <1>1 DEF Inv, PendingMatchesAwaited, Number
<1>3. decision' = [decision EXCEPT ![<<c, asked[c]>>] = "denied"]
  BY <1>2 DEF TimerFires, Awaits
<1>4. QED
  BY <1>2, <1>3, DecidesGate DEF TimerFires

LEMMA RestartLoses == Inv /\ Restart => Gate!Lose
<1> SUFFICES ASSUME Inv, Restart PROVE Gate!Lose
  OBVIOUS
<1>1. ASSUME NEW c \in Correlation
      PROVE  Seen(asked'[c], decision'[<<c, asked'[c]>>])
                = IF Awaits(c) THEN "lost" ELSE CallerView[c]
  <2>1. CASE asked[c] = 0
    BY <2>1, ViewIs DEF Restart, Awaits, Seen
  <2>2. CASE asked[c] # 0
    <3>1. <<c, asked[c]>> \in Request
      BY <2>2, ApprovalAssumption DEF Inv, TypeOK, Request, Number
    <3>2. decision'[<<c, asked[c]>>] = IF Awaits(c) THEN "lost"
                                       ELSE decision[<<c, asked[c]>>]
      BY <2>2, <3>1 DEF Restart, Awaits
    <3>3. QED
      BY <2>2, <3>2, ViewIs DEF Restart, Awaits, Seen
  <2>3. QED
    BY <2>1, <2>2
<1>2. QED
  BY <1>1, AskedIsAwaited, ViewIsPrimed DEF Gate!Lose, Inv

LEMMA InitGate == Init => Gate!Init
  BY ViewIs DEF Init, Gate!Init, Seen

LEMMA NextGate == Inv /\ [Next]_vars => [Gate!Next]_CallerView
<1> SUFFICES ASSUME Inv, [Next]_vars
             PROVE  Gate!Next \/ UNCHANGED CallerView
  OBVIOUS
<1>1. ASSUME NEW c \in Correlation, Ask(c)
      PROVE  Gate!Next
  BY <1>1, AskIsAsk DEF Gate!Next
<1>2. ASSUME NEW c \in Correlation, Reject(c)
      PROVE  Gate!Next \/ UNCHANGED CallerView
  BY <1>2, SettleDecidesGate DEF Reject, Gate!Next
<1>3. ASSUME NEW c \in Correlation, NEW n \in Number,
             PromptShown(c, n) \/ SendSucceeds(c, n)
      PROVE  UNCHANGED CallerView
  BY <1>3, Invisible DEF PromptShown, SendSucceeds
<1>4. ASSUME NEW c \in Correlation, NEW n \in Number, SendFails(c, n)
      PROVE  Gate!Next \/ UNCHANGED CallerView
  BY <1>4, SettleDecidesGate DEF SendFails, Gate!Next
<1>5. ASSUME NEW c \in Correlation, NEW n \in Number, TimerFires(c, n)
      PROVE  Gate!Next
  BY <1>5, TimerDecidesGate DEF Gate!Next
<1>6. ASSUME NEW c \in Correlation, NEW n \in Number, NEW u \in User,
             NEW d \in {"approved", "denied"}, Tap(c, n, u, d)
      PROVE  Gate!Next \/ UNCHANGED CallerView
  BY <1>6, SettleDecidesGate DEF Tap, Gate!Next
<1>7. CASE Restart
  BY <1>7, RestartLoses DEF Gate!Next
<1>8. CASE UNCHANGED vars
  BY <1>8, Invisible DEF vars
<1>9. QED
  BY <1>1, <1>2, <1>3, <1>4, <1>5, <1>6, <1>7, <1>8 DEF Next

\* A provider keeps what ApprovalGate promises ApprovalEngine: whatever the
\* map, the timers and the buttons do, a caller sees its request asked,
\* decided once, or lost with the process.
THEOREM ProviderImplementsGate == Spec => Gate!Spec
<1>1. QED
  BY InitGate, NextGate, SpecInv, PTL DEF Spec, Gate!Spec

-----------------------------------------------------------------------------
(* Monitoring                                                              *)

\* What the recommendations of a repository may be.
Reports == {Recommend(f) : f \in SUBSET Fact}
Place == {"idle", "walking", "reading", "saving", "filling", "dispatching", "delivering"}

\* One record of each repository and kind, and one advice of each kind.
OneRecord(records) ==
  \A s, u \in records : s.repository = u.repository /\ s.kind = u.kind => s = u

\* The call t of tick() is in flight.
Busy(t) == tick[t].at # "idle"

\* Ticks do not overlap, and one at work on a repository has one.
TickInv ==
  /\ \A t, u \in Tick : Busy(t) /\ Busy(u) => t = u
  /\ \A t \in Tick : Busy(t) => ticking /\ alive
  /\ \A t \in Tick : tick[t].at \notin {"idle", "walking"} => tick[t].next \in DOMAIN Repositories
  /\ \A t \in Tick : tick[t].at \in {"idle", "walking", "reading"} => tick[t].alerts = {}

\* A report is what RecommendationEngine.recommend has returned.
ReportInv == \A t \in Tick : tick[t].report \in Reports \cup {{}}

RuntimeInv ==
  /\ RuntimeTypeOK
  /\ file = None \/ OneRecord(file)
  /\ TickInv /\ ReportInv

-----------------------------------------------------------------------------
\* RecommendationEngine gives at most one advice of a kind.
LEMMA OneAdvice ==
    ASSUME NEW f \in SUBSET Fact
    PROVE  /\ \A a \in Recommend(f) : a.kind \in Kind
           /\ \A a, b \in Recommend(f) : a.kind = b.kind => a = b
<1>1. f \in SUBSET RepositoryFact
  BY MonitoringAssumption
<1>2. \A a \in Recommend(f) : a.kind \in Kind
  BY <1>1 DEF Kind
<1>3. \A a, b \in Recommend(f) : a.kind = b.kind => a = b
  BY DEF Recommend, RepeatedFailures, ReviewChanges, PullRequired, ReviewPullRequest,
         ShipOrContinue, Advice
<1>4. QED
  BY <1>2, <1>3

LEMMA OneAdviceOfReport ==
    ASSUME NEW report \in Reports \cup {{}}
    PROVE  /\ \A a \in report : a.kind \in Kind
           /\ \A a, b \in report : a.kind = b.kind => a = b
  BY OneAdvice DEF Reports

LEMMA Registered ==
  /\ Len(Repositories) \in Nat /\ DOMAIN Repositories = 1..Len(Repositories)
  /\ \A i \in DOMAIN Repositories : Repositories[i] \in Repository
  BY MonitoringAssumption DEF Repository

LEMMA RecordFound ==
    ASSUME states \subseteq State, OneRecord(states), NEW r \in Repository, NEW kind \in Kind
    PROVE  /\ StateOf(r, kind) \in State
           /\ StateOf(r, kind).repository = r /\ StateOf(r, kind).kind = kind
           /\ \A s \in states : s.repository = r /\ s.kind = kind => StateOf(r, kind) = s
<1> DEFINE known == {s \in states : s.repository = r /\ s.kind = kind}
<1>1. CASE known = {}
  <2>1. StateOf(r, kind) = CreateState(r, kind)
    BY <1>1 DEF StateOf
  <2>2. QED
    BY <1>1, <2>1 DEF CreateState, State
<1>2. CASE known # {}
  <2>1. StateOf(r, kind) = CHOOSE s \in known : TRUE
    BY <1>2 DEF StateOf
  <2>2. StateOf(r, kind) \in known
    BY <1>2, <2>1
  <2>3. QED
    BY <2>2 DEF OneRecord
<1>3. QED
  BY <1>1, <1>2

LEMMA RefreshedRecord ==
    ASSUME states \subseteq State, OneRecord(states), NEW r \in Repository,
           NEW a, a.kind \in Kind
    PROVE  /\ Refreshed(r, a) \in State
           /\ Refreshed(r, a).repository = r /\ Refreshed(r, a).kind = a.kind
           /\ StateOf(r, a.kind).urgentDelivered \/ IsUrgent(a) => Refreshed(r, a).urgentDelivered
           /\ StateOf(r, a.kind).sustainedDelivered \/ StateOf(r, a.kind).lasted =>
                Refreshed(r, a).sustainedDelivered
<1> DEFINE s == StateOf(r, a.kind)
<1>1. s \in State /\ s.repository = r /\ s.kind = a.kind
  BY RecordFound
<1>2. Refreshed(r, a) = [s EXCEPT !.urgentDelivered = @ \/ IsUrgent(a),
                                  !.sustainedDelivered = @ \/ s.lasted]
  BY DEF Refreshed
<1>3. IsUrgent(a) \in BOOLEAN
  BY DEF IsUrgent
<1> HIDE DEF s
<1>4. /\ s.repository \in Repository /\ s.kind \in Kind /\ s.lasted \in BOOLEAN
      /\ s.urgentDelivered \in BOOLEAN /\ s.sustainedDelivered \in BOOLEAN
      /\ s = [repository |-> s.repository, kind |-> s.kind, lasted |-> s.lasted,
              urgentDelivered |-> s.urgentDelivered, sustainedDelivered |-> s.sustainedDelivered]
  BY <1>1 DEF State
<1> DEFINE urgent == s.urgentDelivered \/ IsUrgent(a)
           sustained == s.sustainedDelivered \/ s.lasted
<1>5. Refreshed(r, a) = [s EXCEPT !.urgentDelivered = urgent, !.sustainedDelivered = sustained]
  BY <1>2
<1>6. /\ urgent \in BOOLEAN /\ sustained \in BOOLEAN
      /\ s.urgentDelivered \/ IsUrgent(a) => urgent
      /\ s.sustainedDelivered \/ s.lasted => sustained
  BY <1>3, <1>4
<1> HIDE DEF urgent, sustained
<1>7. Refreshed(r, a) = [repository |-> s.repository, kind |-> s.kind, lasted |-> s.lasted,
                         urgentDelivered |-> urgent, sustainedDelivered |-> sustained]
  BY <1>1, <1>4, <1>5 DEF State
<1>8. Refreshed(r, a) \in State
  BY <1>4, <1>6, <1>7 DEF State
<1>9. QED
  BY <1>1, <1>6, <1>7, <1>8 DEF s

TickState == [at : Place, next : 1..(Len(Repositories) + 1),
              report : SUBSET UNION Reports, alerts : SUBSET Alert]

\* A tick that goes on, or that begins while none is in flight.
LEMMA TickStep ==
    ASSUME RuntimeInv, NEW t \in Tick, NEW next \in TickState,
           tick' = [tick EXCEPT ![t] = next],
           Busy(t) \/ ~ticking,
           next.at # "idle" => ticking' /\ alive',
           next.at \notin {"idle", "walking"} => next.next \in DOMAIN Repositories,
           next.at \in {"idle", "walking", "reading"} => next.alerts = {},
           next.report \in Reports \cup {{}}
    PROVE  tick' \in [Tick -> TickState] /\ TickInv' /\ ReportInv'
<1>1. tick \in [Tick -> TickState]
  BY DEF RuntimeInv, RuntimeTypeOK, TickState, Place, Reports
<1>2. \A u \in Tick : tick'[u] = IF u = t THEN next ELSE tick[u]
  BY <1>1
<1>3. \A u \in Tick \ {t} : tick[u].at = "idle"
  BY DEF RuntimeInv, TickInv, Busy
<1>4. TickInv'
  BY <1>2, <1>3 DEF RuntimeInv, TickInv, Busy
<1>5. QED
  BY <1>1, <1>2, <1>4 DEF RuntimeInv, ReportInv

\* The same of a tick that goes from one place to the next and keeps the rest.
LEMMA TickGoes ==
    ASSUME RuntimeInv, NEW t \in Tick, NEW place \in Place \ {"idle"},
           tick' = [tick EXCEPT ![t].at = place],
           \/ tick[t].at = "idle" /\ place = "walking" /\ ~ticking
           \/ tick[t].at \notin {"idle", "walking"} /\ place \notin {"walking", "reading"},
           ticking' /\ alive'
    PROVE  /\ tick' \in [Tick -> TickState] /\ TickInv' /\ ReportInv'
           /\ \A u \in Tick : tick'[u].alerts = tick[u].alerts
<1>1. tick[t] \in TickState /\ tick \in [Tick -> TickState]
  BY DEF RuntimeInv, RuntimeTypeOK, TickState, Place, Reports
<1> DEFINE next == [tick[t] EXCEPT !.at = place]
<1>2. /\ next \in TickState /\ next.at = place /\ next.next = tick[t].next
      /\ next.report = tick[t].report /\ next.alerts = tick[t].alerts
  BY <1>1 DEF TickState
<1>3. tick' = [tick EXCEPT ![t] = next]
  OBVIOUS
<1> HIDE DEF next
<1>4. /\ next.at \notin {"idle", "walking"} => next.next \in DOMAIN Repositories
      /\ next.at \in {"idle", "walking", "reading"} => next.alerts = {}
      /\ next.report \in Reports \cup {{}}
  BY <1>2 DEF RuntimeInv, TickInv, ReportInv
<1>5. tick' \in [Tick -> TickState] /\ TickInv' /\ ReportInv'
  BY <1>2, <1>3, <1>4, TickStep DEF Busy
<1>6. QED
  BY <1>1, <1>2, <1>3, <1>5

\* A tick that is done with a repository, or over.
LEMMA TickLeaves ==
    ASSUME RuntimeInv, NEW t \in Tick, Busy(t),
           \/ Onward(t) /\ tick[t].next \in DOMAIN Repositories /\ UNCHANGED <<ticking, alive>>
           \/ tick' = [tick EXCEPT ![t] = Idle]
    PROVE  /\ tick' \in [Tick -> TickState] /\ TickInv' /\ ReportInv'
           /\ tick'[t].alerts = {} /\ tick'[t].at \in {"idle", "walking"}
           /\ \A u \in Tick \ {t} : tick'[u] = tick[u]
<1>1. tick \in [Tick -> TickState] /\ 1 \in 1..(Len(Repositories) + 1)
  BY Registered DEF RuntimeInv, RuntimeTypeOK, TickState, Place, Reports
<1>2. \E next \in TickState :
        /\ tick' = [tick EXCEPT ![t] = next] /\ next.report = {} /\ next.alerts = {}
        /\ next.at \in {"idle", "walking"}
        /\ next.at = "walking" => UNCHANGED <<ticking, alive>>
  <2>1. CASE tick' = [tick EXCEPT ![t] = Idle]
    <3>1. /\ Idle \in TickState /\ Idle.at = "idle"
          /\ Idle.report = {} /\ Idle.alerts = {}
      BY <1>1 DEF Idle, TickState, Place
    <3>2. QED
      BY <2>1, <3>1
  <2>2. CASE Onward(t) /\ tick[t].next \in DOMAIN Repositories /\ UNCHANGED <<ticking, alive>>
    <3>1. PICK n \in 1..(Len(Repositories) + 1) : n = tick[t].next + 1
      BY <2>2, Registered
    <3> DEFINE next == [at |-> "walking", next |-> n, report |-> {}, alerts |-> {}]
    <3>2. [Idle EXCEPT !.at = "walking", !.next = n] = next
      <4>1. Idle \in TickState /\ Idle.report = {} /\ Idle.alerts = {}
        BY <1>1 DEF Idle, TickState, Place
      <4>2. PICK i \in TickState : i = Idle
        BY <4>1
      <4>3. [i EXCEPT !.at = "walking", !.next = n]
              = [at |-> "walking", next |-> n, report |-> i.report, alerts |-> i.alerts]
        <5>1. PICK j \in TickState : j = [i EXCEPT !.at = "walking"]
          BY DEF TickState, Place
        <5>2. /\ j.at = "walking" /\ j.report = i.report /\ j.alerts = i.alerts
              /\ [i EXCEPT !.at = "walking", !.next = n] = [j EXCEPT !.next = n]
          BY <5>1 DEF TickState
        <5>3. [j EXCEPT !.next = n] = [at |-> j.at, next |-> n, report |-> j.report, alerts |-> j.alerts]
          BY DEF TickState
        <5>4. QED
          BY <5>2, <5>3
      <4>4. QED
        BY <4>1, <4>2, <4>3
    <3>3. tick' = [tick EXCEPT ![t] = next]
      BY <2>2, <3>1, <3>2 DEF Onward
    <3>4. next \in TickState
      BY DEF TickState, Place
    <3>5. next.at = "walking" /\ next.report = {} /\ next.alerts = {}
      OBVIOUS
    <3> HIDE DEF next
    <3>6. QED
      BY <2>2, <3>3, <3>4, <3>5
  <2>3. QED
    BY <2>1, <2>2
<1>3. PICK next \in TickState :
        /\ tick' = [tick EXCEPT ![t] = next] /\ next.report = {} /\ next.alerts = {}
        /\ next.at \in {"idle", "walking"}
        /\ next.at = "walking" => UNCHANGED <<ticking, alive>>
  BY <1>2
<1>4. next.at # "idle" => ticking' /\ alive'
  BY <1>3 DEF RuntimeInv, TickInv
<1>5. tick' \in [Tick -> TickState] /\ TickInv' /\ ReportInv'
  BY <1>3, <1>4, TickStep
<1>6. QED
  BY <1>1, <1>3, <1>5

LEMMA ReconciledTyped ==
    ASSUME states \subseteq State, OneRecord(states), NEW r \in Repository,
           NEW report \in Reports \cup {{}}
    PROVE  /\ Reconciled(r, report) \subseteq State /\ OneRecord(Reconciled(r, report))
           /\ Transitions(r, report) \subseteq Alert
<1>1. \A a \in report : /\ Refreshed(r, a) \in State
                        /\ Refreshed(r, a).repository = r /\ Refreshed(r, a).kind = a.kind
  BY OneAdviceOfReport, RefreshedRecord
<1>2. Reconciled(r, report) \subseteq State
  BY <1>1 DEF Reconciled
<1>3. ASSUME NEW s \in Reconciled(r, report), NEW u \in Reconciled(r, report),
             s.repository = u.repository, s.kind = u.kind
      PROVE  s = u
  <2>1. CASE s.repository # r
    BY <1>1, <1>3, <2>1 DEF Reconciled, OneRecord
  <2>2. CASE s.repository = r
    <3>1. PICK a \in report, b \in report : s = Refreshed(r, a) /\ u = Refreshed(r, b)
      BY <1>3, <2>2 DEF Reconciled
    <3>2. a.kind = b.kind
      BY <1>1, <1>3, <3>1
    <3>3. QED
      BY <3>1, <3>2, OneAdviceOfReport
  <2>3. QED
    BY <2>1, <2>2
<1>4. Transitions(r, report) \subseteq Alert
  BY OneAdviceOfReport DEF Transitions, Alert, Trigger
<1>5. QED
  BY <1>2, <1>3, <1>4 DEF OneRecord

LEMMA AgedTyped ==
    ASSUME NEW records, records \subseteq State, OneRecord(records),
           NEW r \in Repository, NEW kind
    PROVE  /\ Aged(records, r, kind) \subseteq State /\ OneRecord(Aged(records, r, kind))
           /\ \A s \in records : \E u \in Aged(records, r, kind) :
                /\ u.repository = s.repository /\ u.kind = s.kind
                /\ u.urgentDelivered = s.urgentDelivered /\ u.sustainedDelivered = s.sustainedDelivered
<1> DEFINE older(s) == IF s.repository = r /\ s.kind = kind THEN [s EXCEPT !.lasted = TRUE] ELSE s
<1>1. Aged(records, r, kind) = {older(s) : s \in records}
  BY DEF Aged
<1>2. ASSUME NEW s \in State
      PROVE  /\ older(s) \in State /\ older(s).repository = s.repository /\ older(s).kind = s.kind
             /\ older(s).urgentDelivered = s.urgentDelivered
             /\ older(s).sustainedDelivered = s.sustainedDelivered
  BY DEF State
<1> HIDE DEF older
<1>3. Aged(records, r, kind) \subseteq State
  BY <1>1, <1>2
<1>4. OneRecord(Aged(records, r, kind))
  <2> SUFFICES ASSUME NEW s \in records, NEW u \in records,
                      older(s).repository = older(u).repository, older(s).kind = older(u).kind
               PROVE  older(s) = older(u)
    BY <1>1 DEF OneRecord
  <2>1. s.repository = u.repository /\ s.kind = u.kind
    BY <1>2
  <2>2. QED
    BY <2>1 DEF OneRecord
<1>5. ASSUME NEW s \in records
      PROVE  \E u \in Aged(records, r, kind) :
                /\ u.repository = s.repository /\ u.kind = s.kind
                /\ u.urgentDelivered = s.urgentDelivered /\ u.sustainedDelivered = s.sustainedDelivered
  <2>1. older(s) \in Aged(records, r, kind)
    BY <1>1
  <2>2. QED
    BY <1>2, <2>1
<1>6. QED
  BY <1>3, <1>4, <1>5

LEMMA CoolingFinite == ASSUME cooling \subseteq Repository PROVE Cardinality(cooling) \in Nat
<1>1. IsFiniteSet(1..Len(Repositories))
  BY Registered, FS_Interval
<1>2. IsFiniteSet(Repository)
  <2>1. Repositories \in Surjection(1..Len(Repositories), Repository)
    BY Registered, MonitoringAssumption DEF Surjection, Repository
  <2>2. QED
    BY <1>1, <2>1, FS_Surjection
<1>3. QED
  BY <1>2, FS_Subset, FS_CardinalityType

LEMMA HoursTyped == ASSUME NEW n \in Nat PROVE n % Hours \in 0..(Hours - 1)
  BY MonitoringAssumption

LEMMA RuntimeInvInit == RuntimeInit => RuntimeInv
<1> SUFFICES ASSUME RuntimeInit PROVE RuntimeInv
  OBVIOUS
<1>1. hour \in 0..(Hours - 1)
  BY HoursTyped, MonitoringAssumption DEF RuntimeInit
<1>2. Idle \in TickState /\ Idle.at = "idle" /\ Idle.alerts = {} /\ Idle.report = {}
  BY Registered DEF Idle, TickState, Place
<1>3. tick = [t \in Tick |-> Idle]
  BY DEF RuntimeInit
<1>4. tick \in [Tick -> TickState]
  BY <1>2, <1>3
<1>5. TickInv /\ ReportInv
  BY <1>2, <1>3 DEF TickInv, ReportInv, Busy
<1>6. RuntimeTypeOK
  <2>1. facts \in [Repository -> SUBSET Fact] /\ disturbances \in 0..MaxDisturbances
    BY MonitoringAssumption DEF RuntimeInit
  <2>2. /\ UNION {Recommend(f) : f \in SUBSET Fact} = UNION Reports
        /\ states = {} /\ file = {} /\ disabled = {} /\ cooling = {} /\ sent = 0 /\ alerted = {}
        /\ {alive, running, ticking, maintenance, unsaved} \subseteq BOOLEAN
    BY DEF RuntimeInit, Reports
  <2>3. QED
    BY <1>1, <1>4, <2>1, <2>2 DEF RuntimeTypeOK, TickState, Place
<1>7. file = None \/ OneRecord(file)
  BY DEF RuntimeInit, OneRecord
<1>8. QED
  BY <1>5, <1>6, <1>7 DEF RuntimeInv

\* A step of a tick; what it does to the tick itself is the work of the lemmas above.
LEMMA StepsOfTick ==
    ASSUME RuntimeInv, NEW t \in Tick,
           Fire(t) \/ Step(t) \/ ReadFails(t) \/ PersistFails(t) \/ DeliveryFails(t)
    PROVE  tick' \in [Tick -> TickState] /\ TickInv' /\ ReportInv'
<1> USE DEF Place
<1>1. RuntimeTypeOK /\ TickInv /\ ReportInv
  BY DEF RuntimeInv
<1>2. CASE Fire(t)
  BY <1>2, TickGoes DEF Fire, Go
<1>3. CASE Skip(t)
  BY <1>3, TickLeaves DEF Skip, More, At, Busy
<1>4. CASE Read(t)
  <2>1. /\ tick[t] \in TickState /\ tick[t].at = "walking" /\ alive /\ ticking
        /\ tick[t].next \in DOMAIN Repositories /\ tick[t].alerts = {}
    BY <1>1, <1>4 DEF Read, More, At, RuntimeTypeOK, TickState, Reports, TickInv, Busy
  <2>2. Target(t) \in Repository
    BY <2>1, Registered DEF Target
  <2>3. PICK report \in Reports : report = Recommend(facts[Target(t)])
    BY <1>1, <2>2 DEF RuntimeTypeOK, Reports
  <2> DEFINE next == [tick[t] EXCEPT !.at = "reading", !.report = report]
  <2>4. /\ next \in TickState
        /\ next.at = "reading" /\ next.report = report
        /\ next.next = tick[t].next /\ next.alerts = {}
    BY <2>1, <2>3 DEF TickState
  <2>5. tick' = [tick EXCEPT ![t] = next]
    BY <1>4, <2>3 DEF Read
  <2> HIDE DEF next
  <2>6. ticking' /\ alive'
    BY <1>4, <2>1 DEF Read
  <2>7. QED
    BY <2>1, <2>4, <2>5, <2>6, TickStep DEF Busy
<1>5. CASE Reconcile(t)
  <2>1. /\ tick[t] \in TickState /\ tick[t].at = "reading" /\ alive /\ ticking
        /\ tick[t].next \in DOMAIN Repositories /\ tick[t].report \in Reports \cup {{}}
    BY <1>1, <1>5 DEF Reconcile, At, RuntimeTypeOK, TickState, Reports, TickInv, Busy, ReportInv
  <2>2. Target(t) \in Repository
    BY <2>1, Registered DEF Target
  <2>3. PICK alerts \in SUBSET Alert : alerts = Transitions(Target(t), tick[t].report)
    BY <1>1, <2>1, <2>2, ReconciledTyped DEF RuntimeTypeOK, OneRecord
  <2> DEFINE next == [tick[t] EXCEPT !.at = "saving", !.report = {}, !.alerts = alerts]
  <2>4. /\ next \in TickState
        /\ next.at = "saving" /\ next.report = {} /\ next.next = tick[t].next
    BY <2>1, <2>3 DEF TickState
  <2>5. tick' = [tick EXCEPT ![t] = next]
    BY <1>5, <2>3 DEF Reconcile
  <2> HIDE DEF next
  <2>6. ticking' /\ alive'
    BY <1>5, <2>1 DEF Reconcile
  <2>7. QED
    BY <2>1, <2>4, <2>5, <2>6, TickStep DEF Busy
<1>6. CASE Truncate(t) \/ Fill(t) \/ Send(t) \/ PersistFails(t)
  <2>1. /\ tick[t].at \notin {"idle", "walking"} /\ ticking' /\ alive'
        /\ \E place \in {"filling", "dispatching", "delivering"} : tick' = [tick EXCEPT ![t].at = place]
    BY <1>1, <1>6 DEF Truncate, Fill, Send, PersistFails, Go, At, TickInv, Busy
  <2>2. QED
    BY <2>1, TickGoes
<1>7. CASE NothingToSend(t) \/ Deliver(t) \/ DeliveryFails(t)
  <2>1. Busy(t) /\ Onward(t) /\ tick[t].next \in DOMAIN Repositories /\ UNCHANGED <<ticking, alive>>
    BY <1>1, <1>7 DEF NothingToSend, Deliver, DeliveryFails, At, TickInv, Busy
  <2>2. QED
    BY <2>1, TickLeaves
<1>8. CASE Finish(t) \/ ReadFails(t)
  BY <1>8, TickLeaves DEF Finish, ReadFails, At, Busy
<1>9. QED
  BY <1>2, <1>3, <1>4, <1>5, <1>6, <1>7, <1>8 DEF Step

LEMMA TargetRegistered ==
    ASSUME RuntimeInv, NEW t \in Tick, tick[t].at \notin {"idle", "walking"}
    PROVE  Target(t) \in Repository
  BY Registered DEF RuntimeInv, TickInv, Target

\* The records in memory and on disk.
LEMMA RecordsNext ==
    ASSUME RuntimeInv, [RuntimeNext]_runtimeVars
    PROVE  /\ states' \subseteq State /\ OneRecord(states')
           /\ file' = None \/ (file' \subseteq State /\ OneRecord(file'))
<1>1. /\ states \subseteq State /\ OneRecord(states)
      /\ file = None \/ (file \subseteq State /\ OneRecord(file))
  BY DEF RuntimeInv, RuntimeTypeOK, OneRecord
<1>2. ASSUME NEW t \in Tick, Reconcile(t)
      PROVE  states' \subseteq State /\ OneRecord(states') /\ file' = file
  <2>1. Target(t) \in Repository /\ tick[t].report \in Reports \cup {{}}
    BY <1>2, TargetRegistered DEF Reconcile, At, RuntimeInv, ReportInv
  <2>2. states' = Reconciled(Target(t), tick[t].report) /\ file' = file
    BY <1>2 DEF Reconcile
  <2>3. QED
    BY <1>1, <2>1, <2>2, ReconciledTyped
<1>3. ASSUME NEW r \in Repository, NEW kind \in Possible, SustainedPasses(r, kind)
      PROVE  /\ states' \subseteq State /\ OneRecord(states')
             /\ file' = None \/ (file' \subseteq State /\ OneRecord(file'))
  BY <1>1, <1>3, AgedTyped DEF SustainedPasses
<1>4. CASE Crash
  BY <1>1, <1>4 DEF Crash, OneRecord
<1>5. CASE RestartRuntime
  BY <1>1, <1>5 DEF RestartRuntime
<1>6. CASE \E t \in Tick : Truncate(t) \/ Fill(t)
  BY <1>1, <1>6 DEF Truncate, Fill, Persisted
<1>7. CASE UNCHANGED <<states, file>>
  BY <1>1, <1>7
<1>8. QED
  <2>1. \/ \E t \in Tick : Reconcile(t) \/ Truncate(t) \/ Fill(t)
        \/ \E r \in Repository, kind \in Possible : SustainedPasses(r, kind)
        \/ Crash \/ RestartRuntime \/ UNCHANGED <<states, file>>
    BY DEF RuntimeNext, Step, Fire, Skip, Read, ReadFails, PersistFails, NothingToSend, Send,
        Deliver, DeliveryFails, Finish, PauseMonitoring, ResumeMonitoring, SetMaintenanceMode,
        SetRepositoryMonitoringEnabled, Control, Change, HourPasses, CooldownPasses,
        IntervalPasses, runtimeVars
  <2>2. QED
    BY <1>1, <1>2, <1>3, <1>4, <1>5, <1>6, <1>7, <2>1

\* The ticks, whatever is done beside them.
LEMMA TicksNext ==
    ASSUME RuntimeInv, [RuntimeNext]_runtimeVars
    PROVE  tick' \in [Tick -> TickState] /\ TickInv' /\ ReportInv'
<1>1. /\ tick \in [Tick -> TickState] /\ TickInv /\ ReportInv
  BY DEF RuntimeInv, RuntimeTypeOK, TickState, Place, Reports
<1>2. CASE UNCHANGED <<tick, ticking, alive>>
  BY <1>1, <1>2 DEF TickInv, ReportInv, Busy
<1>3. CASE Crash
  <2>1. Idle \in TickState /\ Idle.at = "idle" /\ Idle.alerts = {} /\ Idle.report = {}
    BY Registered DEF Idle, TickState, Place
  <2>2. tick' = [t \in Tick |-> Idle]
    BY <1>3 DEF Crash
  <2>3. QED
    BY <2>1, <2>2 DEF TickInv, ReportInv, Busy
<1>4. CASE RestartRuntime
  BY <1>1, <1>4 DEF RestartRuntime, TickInv, ReportInv, Busy
<1>5. QED
  <2>1. \/ \E t \in Tick : Fire(t) \/ Step(t) \/ ReadFails(t) \/ PersistFails(t) \/ DeliveryFails(t)
        \/ Crash \/ RestartRuntime \/ UNCHANGED <<tick, ticking, alive>>
    BY DEF RuntimeNext, PauseMonitoring, ResumeMonitoring, SetMaintenanceMode,
        SetRepositoryMonitoringEnabled, Control, Change, HourPasses, CooldownPasses,
        IntervalPasses, SustainedPasses, runtimeVars
  <2>2. QED
    BY <1>2, <1>3, <1>4, <2>1, StepsOfTick

\* The alerts the user has got.
LEMMA AlertedNext ==
    ASSUME RuntimeInv, [RuntimeNext]_runtimeVars
    PROVE  /\ alerted' \subseteq Alert /\ unsaved' \in BOOLEAN /\ unsaved' \in {unsaved, TRUE}
           /\ \/ \E t \in Tick : Reconcile(t) \/ Deliver(t)
              \/ alerted' = alerted
<1>1. alerted \subseteq Alert /\ unsaved \in BOOLEAN
  BY DEF RuntimeInv, RuntimeTypeOK
<1>2. CASE \E t \in Tick : Reconcile(t) \/ Deliver(t)
  <2>1. \A t \in Tick : tick[t].alerts \subseteq Alert
    BY DEF RuntimeInv, RuntimeTypeOK
  <2>2. alerted' \subseteq Alert
    BY <1>1, <1>2, <2>1 DEF Reconcile, Deliver
  <2>3. unsaved' = unsaved
    BY <1>2 DEF Reconcile, Deliver
  <2>4. QED
    BY <1>1, <1>2, <2>2, <2>3
<1>3. CASE ~\E t \in Tick : Reconcile(t) \/ Deliver(t)
  BY <1>1, <1>3
  DEF RuntimeNext, Step, Fire, Skip, Read, ReadFails, PersistFails, NothingToSend, Send,
      Truncate, Fill, DeliveryFails, Finish, PauseMonitoring, ResumeMonitoring, SetMaintenanceMode,
      SetRepositoryMonitoringEnabled, Control, Change, HourPasses, CooldownPasses,
      IntervalPasses, SustainedPasses, Crash, RestartRuntime, runtimeVars, history
<1>4. QED
  BY <1>2, <1>3

\* The limits the policy counts.
LEMMA LimitsNext ==
    ASSUME RuntimeInv, [RuntimeNext]_runtimeVars
    PROVE  /\ cooling' \subseteq Repository /\ sent' \in Nat
           /\ \/ \E t \in Tick : Deliver(t) \/ DeliveryFails(t)
              \/ cooling' \subseteq cooling /\ sent' <= sent
<1>1. cooling \subseteq Repository /\ sent \in Nat /\ Cardinality(cooling) \in Nat
  BY CoolingFinite DEF RuntimeInv, RuntimeTypeOK
<1>2. CASE \E t \in Tick : Deliver(t) \/ DeliveryFails(t)
  BY <1>1, <1>2, TargetRegistered DEF Deliver, DeliveryFails, RecordSent, At
<1>3. CASE IntervalPasses
  BY <1>1, <1>3 DEF IntervalPasses
<1>4. CASE Crash \/ \E r \in Repository : CooldownPasses(r)
  BY <1>1, <1>4 DEF Crash, CooldownPasses
<1>5. CASE UNCHANGED limits
  BY <1>1, <1>5 DEF limits
<1>6. QED
  <2>1. \/ \E t \in Tick : Deliver(t) \/ DeliveryFails(t)
        \/ IntervalPasses \/ Crash \/ \E r \in Repository : CooldownPasses(r)
        \/ UNCHANGED limits
    BY DEF RuntimeNext, Step, Fire, Skip, Read, ReadFails, PersistFails, NothingToSend, Send,
        Truncate, Fill, Reconcile, Finish, PauseMonitoring, ResumeMonitoring, SetMaintenanceMode,
        SetRepositoryMonitoringEnabled, Control, Change, HourPasses,
        SustainedPasses, RestartRuntime, runtimeVars
  <2>2. QED
    BY <1>2, <1>3, <1>4, <1>5, <2>1

\* What the ticks only read, and the bound.
LEMMA RestNext ==
    ASSUME RuntimeInv, [RuntimeNext]_runtimeVars
    PROVE  /\ facts' \in [Repository -> SUBSET Fact] /\ hour' \in 0..(Hours - 1)
           /\ alive' \in BOOLEAN /\ running' \in BOOLEAN /\ ticking' \in BOOLEAN
           /\ maintenance' \in BOOLEAN /\ disabled' \subseteq Repository
           /\ disturbances' \in 0..MaxDisturbances
<1>1. /\ facts \in [Repository -> SUBSET Fact] /\ hour \in 0..(Hours - 1)
      /\ alive \in BOOLEAN /\ running \in BOOLEAN /\ ticking \in BOOLEAN
      /\ maintenance \in BOOLEAN /\ disabled \subseteq Repository
      /\ disturbances \in 0..MaxDisturbances /\ MaxDisturbances \in Nat
  BY MonitoringAssumption DEF RuntimeInv, RuntimeTypeOK
<1>2. Disturb => disturbances' \in 0..MaxDisturbances
  BY <1>1 DEF Disturb
<1>3. CASE HourPasses
  <2>1. hour' \in 0..(Hours - 1)
    BY <1>1, <1>3, HoursTyped, MonitoringAssumption DEF HourPasses
  <2>2. QED
    BY <1>1, <1>2, <1>3, <2>1 DEF HourPasses, policy
<1>4. CASE \E r \in Repository : Change(r)
  BY <1>1, <1>4 DEF Change, policy
<1>5. CASE \E t \in Tick : Fire(t) \/ Step(t) \/ ReadFails(t) \/ PersistFails(t) \/ DeliveryFails(t)
  <2>1. /\ UNCHANGED <<environment, alive, running, policy>> /\ ticking' \in BOOLEAN
        /\ Disturb \/ disturbances' = disturbances
    BY <1>1, <1>5 DEF Step, Fire, Skip, Read, ReadFails, PersistFails, NothingToSend, Send,
        Truncate, Fill, Reconcile, Deliver, DeliveryFails, Finish
  <2>2. QED
    BY <1>1, <1>2, <2>1 DEF environment, policy
<1>6. CASE PauseMonitoring \/ ResumeMonitoring \/ SetMaintenanceMode
             \/ \E r \in Repository : SetRepositoryMonitoringEnabled(r)
  BY <1>1, <1>2, <1>6 DEF PauseMonitoring, ResumeMonitoring, SetMaintenanceMode,
      SetRepositoryMonitoringEnabled, Control, environment, policy
<1>7. CASE \/ \E r \in Repository : \/ CooldownPasses(r)
                                  \/ \E kind \in Possible : SustainedPasses(r, kind)
          \/ IntervalPasses \/ RestartRuntime \/ UNCHANGED runtimeVars
  BY <1>1, <1>7 DEF CooldownPasses, SustainedPasses, IntervalPasses, RestartRuntime, runtimeVars,
      environment, policy
<1>8. CASE Crash
  BY <1>1, <1>2, <1>8 DEF Crash, environment
<1>9. QED
  BY <1>3, <1>4, <1>5, <1>6, <1>7, <1>8 DEF RuntimeNext

LEMMA RuntimeInvNext == RuntimeInv /\ [RuntimeNext]_runtimeVars => RuntimeInv'
<1> SUFFICES ASSUME RuntimeInv, [RuntimeNext]_runtimeVars PROVE RuntimeInv'
  OBVIOUS
<1>1. tick' \in [Tick -> TickState] /\ UNION {Recommend(f) : f \in SUBSET Fact} = UNION Reports
  BY TicksNext DEF Reports
<1>2. RuntimeTypeOK'
  <2>1. /\ states' \subseteq State /\ (file' = None \/ file' \subseteq State)
        /\ \A s, u \in states' : s.repository = u.repository /\ s.kind = u.kind => s = u
    BY RecordsNext DEF OneRecord
  <2>2. alerted' \subseteq Alert /\ unsaved' \in BOOLEAN
    BY AlertedNext
  <2>3. cooling' \subseteq Repository /\ sent' \in Nat
    BY LimitsNext
  <2>4. QED
    BY <1>1, <2>1, <2>2, <2>3, RestNext DEF RuntimeTypeOK, TickState, Place
<1>3. QED
  BY <1>2, TicksNext, RecordsNext DEF RuntimeInv

\* The background runtime keeps its types, and its ticks never overlap.
THEOREM RuntimeTypeCorrect == RuntimeSpec => [](RuntimeTypeOK /\ TickInv)
<1>1. RuntimeInv => RuntimeTypeOK /\ TickInv
  BY DEF RuntimeInv
<1>2. QED
  BY <1>1, RuntimeInvInit, RuntimeInvNext, PTL DEF RuntimeSpec

-----------------------------------------------------------------------------
\* Between Send and the record of it no other notification is sent.
LimitsInv ==
  /\ sent <= MaxPerInterval
  /\ \A t \in Tick : tick[t].at = "delivering" => Target(t) \notin cooling /\ sent < MaxPerInterval

LEMMA DeliveringStep ==
    ASSUME RuntimeInv, [RuntimeNext]_runtimeVars, NEW t \in Tick, tick'[t].at = "delivering"
    PROVE  Send(t) \/ (tick[t].at = "delivering" /\ tick'[t] = tick[t])
<1>1. tick \in [Tick -> TickState]
  BY DEF RuntimeInv, RuntimeTypeOK, TickState, Place, Reports
<1>2. ASSUME NEW u \in Tick,
             Fire(u) \/ Step(u) \/ ReadFails(u) \/ PersistFails(u) \/ DeliveryFails(u), u # t
      PROVE  tick'[t] = tick[t]
  BY <1>1, <1>2
  DEF Step, Fire, Skip, Read, ReadFails, PersistFails, NothingToSend, Send,
      Truncate, Fill, Reconcile, Deliver, DeliveryFails, Finish, Go, Onward
<1>3. CASE \/ Fire(t) \/ Skip(t) \/ Read(t) \/ Reconcile(t) \/ Truncate(t) \/ Fill(t)
          \/ NothingToSend(t) \/ Deliver(t) \/ Finish(t)
          \/ ReadFails(t) \/ PersistFails(t) \/ DeliveryFails(t)
  <2>1. Idle.at = "idle" /\ [Idle EXCEPT !.at = "walking", !.next = tick[t].next + 1].at = "walking"
    BY DEF Idle
  <2>2. \A place \in Place : [tick[t] EXCEPT !.at = place].at = place
    BY <1>1 DEF TickState
  <2>3. QED
    BY <1>1, <1>3, <2>1, <2>2
    DEF Fire, Skip, Read, ReadFails, PersistFails, NothingToSend, Place,
        Truncate, Fill, Reconcile, Deliver, DeliveryFails, Finish, Go, Onward, TickState
<1>4. CASE Crash
  BY <1>4 DEF Crash, Idle
<1>5. CASE UNCHANGED tick
  BY <1>5
<1>6. QED
  BY <1>2, <1>3, <1>4, <1>5
  DEF RuntimeNext, Step, PauseMonitoring, ResumeMonitoring, SetMaintenanceMode,
      SetRepositoryMonitoringEnabled, Control, Change, HourPasses, CooldownPasses,
      IntervalPasses, SustainedPasses, RestartRuntime, runtimeVars

LEMMA LimitsInvNext ==
    ASSUME RuntimeInv, RuntimeInv', LimitsInv, [RuntimeNext]_runtimeVars
    PROVE  LimitsInv'
<1>1. sent \in Nat /\ MaxPerInterval \in Nat /\ MaxPerInterval > 0
  BY MonitoringAssumption DEF RuntimeInv, RuntimeTypeOK
<1>2. ASSUME NEW t \in Tick, Deliver(t) \/ DeliveryFails(t)
      PROVE  LimitsInv'
  <2>1. tick[t].at = "delivering" /\ sent' = sent + 1
    BY <1>2 DEF Deliver, DeliveryFails, RecordSent, At
  <2>2. sent' <= MaxPerInterval
    BY <1>1, <2>1 DEF LimitsInv
  <2>3. ASSUME NEW u \in Tick, tick'[u].at = "delivering" PROVE FALSE
    <3>1. tick[u].at = "delivering" \/ Send(u)
      BY <2>3, DeliveringStep
    <3>2. Busy(t) /\ Busy(u)
      BY <2>1, <3>1 DEF Busy, Send, At
    <3>3. u = t
      BY <3>2 DEF RuntimeInv, TickInv
    <3>4. tick'[t].at \in {"idle", "walking"}
      <4>1. Onward(t) /\ tick[t].next \in DOMAIN Repositories /\ UNCHANGED <<ticking, alive>>
        BY <1>2, <2>1 DEF Deliver, DeliveryFails, RuntimeInv, TickInv
      <4>2. QED
        BY <3>2, <4>1, TickLeaves
    <3>5. QED
      BY <2>3, <3>3, <3>4
  <2>4. QED
    BY <2>2, <2>3 DEF LimitsInv
<1>3. CASE ~\E t \in Tick : Deliver(t) \/ DeliveryFails(t)
  <2>1. cooling' \subseteq cooling /\ sent' <= sent /\ sent' \in Nat
    BY <1>3, LimitsNext
  <2>2. sent' <= MaxPerInterval
    BY <1>1, <2>1 DEF LimitsInv
  <2>3. ASSUME NEW t \in Tick, tick'[t].at = "delivering"
        PROVE  Target(t)' \notin cooling' /\ sent' < MaxPerInterval
    <3>1. CASE Send(t)
      <4>1. Target(t)' = Target(t)
        BY <3>1 DEF Send, Go, Target, RuntimeInv, RuntimeTypeOK
      <4>2. Target(t) \notin cooling /\ sent < MaxPerInterval
        BY <3>1 DEF Send, EvaluateNotification
      <4>3. QED
        BY <1>1, <2>1, <4>1, <4>2
    <3>2. CASE tick[t].at = "delivering" /\ tick'[t] = tick[t]
      BY <1>1, <2>1, <3>2 DEF LimitsInv, Target
    <3>3. QED
      BY <2>3, <3>1, <3>2, DeliveringStep
  <2>4. QED
    BY <2>2, <2>3 DEF LimitsInv
<1>4. QED
  BY <1>2, <1>3

\* No repository is notified while it cools down, and no interval has more
\* notifications than its limit, however pauses, resumes and ticks overlap.
THEOREM LimitsHold == RuntimeSpec => []NotifiedWithinLimits
<1>1. RuntimeInit => LimitsInv
  BY MonitoringAssumption DEF RuntimeInit, LimitsInv, Idle
<1>2. RuntimeInv /\ LimitsInv => NotifiedWithinLimits
  BY DEF RuntimeInv, TickInv, Busy, LimitsInv, NotifiedWithinLimits
<1>3. RuntimeInv /\ LimitsInv /\ [RuntimeNext]_runtimeVars => (RuntimeInv /\ LimitsInv)'
  BY RuntimeInvNext, LimitsInvNext
<1>4. QED
  BY <1>1, <1>2, <1>3, RuntimeInvInit, PTL DEF RuntimeSpec

-----------------------------------------------------------------------------
(* What the user was told stays marked, in memory and on disk.             *)

Marked(records, alert) ==
  \E s \in records :
    /\ s.repository = alert[1] /\ s.kind = alert[2]
    /\ IF alert[3] = "new-urgent-recommendation" THEN s.urgentDelivered ELSE s.sustainedDelivered

AllMarked(records, alerts) == \A alert \in alerts : Marked(records, alert)

\* As long as the store could be written: what was told, and what is about to
\* be, is marked, and the file has the marks before anything is delivered.
StreakInv ==
  unsaved \/
    /\ alive => AllMarked(states, alerted)
    /\ file # None => AllMarked(file, alerted)
    /\ \A t \in Tick : /\ tick[t].alerts \cap alerted = {}
                       /\ AllMarked(states, tick[t].alerts)
                       /\ tick[t].at \in {"dispatching", "delivering"} /\ file # None =>
                            AllMarked(file, tick[t].alerts)

\* Aging keeps the marks.
LEMMA AgedMarked ==
    ASSUME NEW records, records \subseteq State, OneRecord(records),
           NEW r \in Repository, NEW kind, NEW alerts, AllMarked(records, alerts)
    PROVE  AllMarked(Aged(records, r, kind), alerts)
<1>1. ASSUME NEW alert \in alerts PROVE Marked(Aged(records, r, kind), alert)
  <2>1. PICK s \in records :
          /\ s.repository = alert[1] /\ s.kind = alert[2]
          /\ IF alert[3] = "new-urgent-recommendation" THEN s.urgentDelivered ELSE s.sustainedDelivered
    BY DEF AllMarked, Marked
  <2>2. PICK u \in Aged(records, r, kind) :
          /\ u.repository = s.repository /\ u.kind = s.kind
          /\ u.urgentDelivered = s.urgentDelivered /\ u.sustainedDelivered = s.sustainedDelivered
    BY AgedTyped
  <2>3. QED
    BY <2>1, <2>2 DEF Marked
<1>2. QED
  BY <1>1 DEF AllMarked

\* Reconciling keeps the marks of a streak that lasts, marks what it alerts,
\* and alerts nothing that was marked.
LEMMA ReconciledMarked ==
    ASSUME states \subseteq State, OneRecord(states), NEW r \in Repository,
           NEW report \in Reports \cup {{}}, NEW alerts \in SUBSET Alert,
           AllMarked(states, alerts),
           \A alert \in alerts : alert[1] # r \/ \E a \in report : a.kind = alert[2]
    PROVE  /\ AllMarked(Reconciled(r, report), alerts)
           /\ AllMarked(Reconciled(r, report), Transitions(r, report))
           /\ Transitions(r, report) \cap alerts = {}
<1>1. \A a \in report :
        /\ a.kind \in Kind /\ Refreshed(r, a) \in Reconciled(r, report)
        /\ Refreshed(r, a).repository = r /\ Refreshed(r, a).kind = a.kind
        /\ StateOf(r, a.kind).urgentDelivered \/ IsUrgent(a) => Refreshed(r, a).urgentDelivered
        /\ StateOf(r, a.kind).sustainedDelivered \/ StateOf(r, a.kind).lasted =>
             Refreshed(r, a).sustainedDelivered
  BY OneAdviceOfReport, RefreshedRecord DEF Reconciled
<1>2. ASSUME NEW alert \in alerts PROVE Marked(Reconciled(r, report), alert)
  <2>1. PICK s \in states :
          /\ s.repository = alert[1] /\ s.kind = alert[2]
          /\ IF alert[3] = "new-urgent-recommendation" THEN s.urgentDelivered ELSE s.sustainedDelivered
    BY DEF AllMarked, Marked
  <2>2. CASE alert[1] # r
    <3>1. s \in Reconciled(r, report)
      BY <2>1, <2>2 DEF Reconciled
    <3>2. QED
      BY <2>1, <3>1 DEF Marked
  <2>3. CASE alert[1] = r
    <3>1. PICK a \in report : a.kind = alert[2]
      BY <2>3
    <3>2. StateOf(r, a.kind) = s
      BY <1>1, <2>1, <2>3, <3>1, RecordFound
    <3>3. QED
      BY <1>1, <2>1, <2>3, <3>1, <3>2 DEF Marked
  <2>4. QED
    BY <2>2, <2>3
<1>3. ASSUME NEW alert \in Transitions(r, report)
      PROVE  Marked(Reconciled(r, report), alert) /\ alert \notin alerts
  <2>1. CASE \E a \in report : /\ alert = <<r, a.kind, "new-urgent-recommendation">>
                              /\ IsUrgent(a) /\ ~StateOf(r, a.kind).urgentDelivered
    <3>1. PICK a \in report : /\ alert = <<r, a.kind, "new-urgent-recommendation">>
                             /\ IsUrgent(a) /\ ~StateOf(r, a.kind).urgentDelivered
      BY <2>1
    <3>2. alert[1] = r /\ alert[2] = a.kind /\ alert[3] = "new-urgent-recommendation"
      BY <3>1
    <3>3. Marked(Reconciled(r, report), alert)
      BY <1>1, <3>1, <3>2 DEF Marked
    <3>4. ~Marked(states, alert)
      <4>1. \A s \in states : s.repository = r /\ s.kind = a.kind => StateOf(r, a.kind) = s
        BY <1>1, RecordFound
      <4>2. QED
        BY <3>1, <3>2, <4>1 DEF Marked
    <3>5. QED
      BY <3>3, <3>4 DEF AllMarked
  <2>2. CASE \E a \in report : /\ alert = <<r, a.kind, "sustained-recommendation">>
                              /\ StateOf(r, a.kind).lasted
                              /\ ~StateOf(r, a.kind).sustainedDelivered
    <3>1. PICK a \in report : /\ alert = <<r, a.kind, "sustained-recommendation">>
                             /\ StateOf(r, a.kind).lasted
                             /\ ~StateOf(r, a.kind).sustainedDelivered
      BY <2>2
    <3>2. alert[1] = r /\ alert[2] = a.kind /\ alert[3] # "new-urgent-recommendation"
      BY <3>1
    <3>3. Marked(Reconciled(r, report), alert)
      BY <1>1, <3>1, <3>2 DEF Marked
    <3>4. ~Marked(states, alert)
      <4>1. \A s \in states : s.repository = r /\ s.kind = a.kind => StateOf(r, a.kind) = s
        BY <1>1, RecordFound
      <4>2. QED
        BY <3>1, <3>2, <4>1 DEF Marked
    <3>5. QED
      BY <3>3, <3>4 DEF AllMarked
  <2>3. QED
    BY <2>1, <2>2 DEF Transitions
<1>4. QED
  BY <1>2, <1>3 DEF AllMarked

\* Where the marks stand is what matters of a tick.
LEMMA StreakKept ==
    ASSUME StreakInv, UNCHANGED <<states, file, alerted, unsaved>>, alive' => alive,
           \A t \in Tick :
             \/ tick'[t].alerts = {}
             \/ /\ tick'[t].alerts = tick[t].alerts
                /\ tick'[t].at \in {"dispatching", "delivering"} =>
                     tick[t].at \in {"dispatching", "delivering"}
    PROVE  StreakInv'
<1>1. \A records : AllMarked(records, {})
  BY DEF AllMarked
<1>2. QED
  BY <1>1 DEF StreakInv, AllMarked, Marked

LEMMA StreakSteps ==
    ASSUME RuntimeInv, StreakInv, NEW t \in Tick,
           Reconcile(t) \/ Truncate(t) \/ Fill(t) \/ PersistFails(t) \/ Deliver(t)
    PROVE  StreakInv'
<1>1. /\ tick \in [Tick -> TickState] /\ states \subseteq State /\ OneRecord(states)
      /\ alerted \subseteq Alert
  BY DEF RuntimeInv, RuntimeTypeOK, TickState, Place, Reports, OneRecord
<1>2. /\ tick[t].at \notin {"idle", "walking"} /\ alive /\ Busy(t)
      /\ alive' = alive
  BY DEF Reconcile, Truncate, Fill, PersistFails, Deliver, At, Busy
<1>3. \A u \in Tick \ {t} : tick[u].at = "idle" /\ tick[u].alerts = {} /\ tick'[u] = tick[u]
  BY <1>1, <1>2 DEF RuntimeInv, TickInv, Busy, Reconcile, Truncate, Fill, PersistFails, Deliver,
                    Go, Onward
<1>4. CASE PersistFails(t)
  BY <1>4 DEF PersistFails, StreakInv
<1>5. SUFFICES ASSUME ~unsaved', ~PersistFails(t) PROVE StreakInv'
  BY <1>4 DEF StreakInv
<1>6. unsaved' = unsaved
  BY <1>5 DEF Reconcile, Truncate, Fill, Deliver, history
<1>7. /\ AllMarked(states, alerted) /\ (file # None => AllMarked(file, alerted))
      /\ tick[t].alerts \cap alerted = {} /\ AllMarked(states, tick[t].alerts)
      /\ tick[t].at \in {"dispatching", "delivering"} /\ file # None =>
           AllMarked(file, tick[t].alerts)
  BY <1>2, <1>5, <1>6 DEF StreakInv
<1>8. SUFFICES /\ AllMarked(states', alerted') /\ (file' # None => AllMarked(file', alerted'))
               /\ tick'[t].alerts \cap alerted' = {} /\ AllMarked(states', tick'[t].alerts)
               /\ tick'[t].at \in {"dispatching", "delivering"} /\ file' # None =>
                    AllMarked(file', tick'[t].alerts)
  <2>1. \A u \in Tick \ {t} : tick'[u].at = "idle" /\ tick'[u].alerts = {}
    BY <1>3
  <2>2. \A u \in Tick \ {t} : /\ tick'[u].alerts \cap alerted' = {}
                             /\ AllMarked(states', tick'[u].alerts)
                             /\ tick'[u].at \notin {"dispatching", "delivering"}
    BY <2>1 DEF AllMarked
  <2>3. QED
    BY <1>8, <2>2 DEF StreakInv, AllMarked, Marked
<1>9. CASE Reconcile(t)
  <2>1. PICK r \in Repository : r = Target(t)
    BY <1>2, TargetRegistered
  <2>2. PICK report \in Reports \cup {{}} : report = tick[t].report
    BY DEF RuntimeInv, ReportInv
  <2>3. /\ states' = Reconciled(r, report) /\ file' = file
        /\ tick'[t].alerts = Transitions(r, report) /\ tick'[t].at = "saving"
    BY <1>1, <1>9, <2>1, <2>2 DEF Reconcile, TickState
  <2>4. /\ alerted' \subseteq alerted
        /\ \A alert \in alerted' : alert[1] # r \/ \E a \in report : a.kind = alert[2]
    BY <1>9, <2>1, <2>2 DEF Reconcile
  <2>5. AllMarked(states, alerted') /\ (file # None => AllMarked(file, alerted'))
    BY <1>7, <2>4 DEF AllMarked
  <2>6. PICK alerts \in SUBSET Alert : alerts = alerted'
    BY <1>1, <2>4
  <2>7. /\ AllMarked(Reconciled(r, report), alerts)
        /\ AllMarked(Reconciled(r, report), Transitions(r, report))
        /\ Transitions(r, report) \cap alerts = {}
    BY <1>1, <2>4, <2>5, <2>6, ReconciledMarked
  <2>8. QED
    BY <2>3, <2>5, <2>6, <2>7
<1>10. CASE Truncate(t)
  <2>1. /\ states' = states /\ alerted' = alerted /\ file' = None
        /\ tick'[t].alerts = tick[t].alerts
    BY <1>1, <1>10 DEF Truncate, Go, history, TickState
  <2>2. QED
    BY <1>7, <2>1
<1>11. CASE Fill(t)
  <2>1. /\ states' = states /\ alerted' = alerted /\ file' = states
        /\ tick'[t].alerts = tick[t].alerts
    BY <1>1, <1>11 DEF Fill, Persisted, Go, history, TickState
  <2>2. QED
    BY <1>7, <2>1
<1>12. CASE Deliver(t)
  <2>1. Onward(t) /\ tick[t].next \in DOMAIN Repositories /\ UNCHANGED <<ticking, alive>>
    BY <1>2, <1>12 DEF Deliver, RuntimeInv, TickInv
  <2>2. tick'[t].alerts = {}
    BY <1>2, <2>1, TickLeaves
  <2>3. states' = states /\ file' = file /\ alerted' = alerted \cup tick[t].alerts
    BY <1>12 DEF Deliver
  <2>4. tick[t].at = "delivering"
    BY <1>12 DEF Deliver, At
  <2>5. QED
    BY <1>7, <2>2, <2>3, <2>4 DEF AllMarked
<1>13. QED
  BY <1>5, <1>9, <1>10, <1>11, <1>12

LEMMA StreakInvNext ==
    ASSUME RuntimeInv, StreakInv, [RuntimeNext]_runtimeVars
    PROVE  StreakInv'
<1>1. /\ tick \in [Tick -> TickState] /\ states \subseteq State /\ OneRecord(states)
      /\ file = None \/ (file \subseteq State /\ OneRecord(file))
  BY DEF RuntimeInv, RuntimeTypeOK, TickState, Place, Reports, OneRecord
<1>2. ASSUME NEW t \in Tick,
             Fire(t) \/ Skip(t) \/ Read(t) \/ ReadFails(t) \/ NothingToSend(t) \/ Send(t)
               \/ DeliveryFails(t) \/ Finish(t)
      PROVE  StreakInv'
  <2>1. UNCHANGED <<states, file, alerted, unsaved, alive>>
    BY <1>2 DEF Fire, Skip, Read, ReadFails, NothingToSend, Send, DeliveryFails, Finish, history
  <2>2. CASE Fire(t) \/ Read(t) \/ Send(t)
    <3>1. /\ tick'[t].alerts = tick[t].alerts
          /\ tick'[t].at \in {"walking", "reading"} \/ tick[t].at = "dispatching"
      BY <1>1, <2>2 DEF Fire, Read, Send, Go, At, TickState
    <3>2. \A u \in Tick \ {t} : tick'[u] = tick[u]
      BY <1>1, <2>2 DEF Fire, Read, Send, Go
    <3>3. QED
      BY <2>1, <3>1, <3>2, StreakKept
  <2>3. CASE ~(Fire(t) \/ Read(t) \/ Send(t))
    <3>1. /\ Busy(t)
          /\ \/ Onward(t) /\ tick[t].next \in DOMAIN Repositories /\ UNCHANGED <<ticking, alive>>
             \/ tick' = [tick EXCEPT ![t] = Idle]
      BY <1>2, <2>3 DEF Skip, More, ReadFails, NothingToSend, DeliveryFails, Finish, At, Busy,
                        RuntimeInv, TickInv
    <3>2. tick'[t].alerts = {} /\ \A u \in Tick \ {t} : tick'[u] = tick[u]
      BY <3>1, TickLeaves
    <3>3. QED
      BY <2>1, <3>2, StreakKept
  <2>4. QED
    BY <2>2, <2>3
<1>3. ASSUME NEW r \in Repository, NEW kind \in Possible, SustainedPasses(r, kind)
      PROVE  StreakInv'
  <2>1. /\ UNCHANGED <<tick, alive, alerted, unsaved>> /\ states' = Aged(states, r, kind)
        /\ file' = IF file = None THEN None ELSE Aged(file, r, kind)
    BY <1>3 DEF SustainedPasses, history
  <2>2. \A alerts : AllMarked(states, alerts) => AllMarked(states', alerts)
    BY <1>1, <2>1, AgedMarked
  <2>3. \A alerts : file # None /\ AllMarked(file, alerts) => AllMarked(file', alerts)
    BY <1>1, <2>1, AgedMarked
  <2>4. file' # None => file # None
    BY <2>1
  <2>5. CASE unsaved
    BY <2>1, <2>5 DEF StreakInv
  <2>6. CASE ~unsaved
    <3>1. /\ alive => AllMarked(states, alerted)
          /\ file # None => AllMarked(file, alerted)
          /\ \A t \in Tick : /\ tick[t].alerts \cap alerted = {}
                             /\ AllMarked(states, tick[t].alerts)
                             /\ tick[t].at \in {"dispatching", "delivering"} /\ file # None =>
                                  AllMarked(file, tick[t].alerts)
      BY <2>6 DEF StreakInv
    <3>2. /\ alive' => AllMarked(states', alerted')
          /\ file' # None => AllMarked(file', alerted')
      BY <2>1, <2>2, <2>3, <2>4, <3>1
    <3>3. ASSUME NEW t \in Tick
          PROVE  /\ tick'[t].alerts \cap alerted' = {}
                 /\ AllMarked(states', tick'[t].alerts)
                 /\ tick'[t].at \in {"dispatching", "delivering"} /\ file' # None =>
                      AllMarked(file', tick'[t].alerts)
      BY <2>1, <2>2, <2>3, <2>4, <3>1
    <3>4. QED
      BY <3>2, <3>3 DEF StreakInv, AllMarked, Marked
  <2>7. QED
    BY <2>5, <2>6
<1>4. CASE Crash
  <2>1. /\ ~alive' /\ UNCHANGED <<file, alerted, unsaved>>
        /\ \A t \in Tick : tick'[t].at = "idle" /\ tick'[t].alerts = {}
    BY <1>4 DEF Crash, history, Idle
  <2>2. QED
    BY <2>1 DEF StreakInv, AllMarked, Marked
<1>5. CASE RestartRuntime
  <2>1. /\ ~alive /\ file # None /\ states' = file
        /\ UNCHANGED <<tick, file, alerted, unsaved>>
    BY <1>5 DEF RestartRuntime, history
  <2>2. \A t \in Tick : tick[t].at = "idle" /\ tick[t].alerts = {}
    BY <2>1 DEF RuntimeInv, TickInv, Busy
  <2>3. QED
    BY <2>1, <2>2 DEF StreakInv, AllMarked, Marked
<1>6. CASE UNCHANGED <<tick, states, file, alerted, unsaved, alive>>
  BY <1>6, StreakKept
<1>7. QED
  <2>1. \/ \E t \in Tick : \/ Fire(t) \/ Skip(t) \/ Read(t) \/ ReadFails(t) \/ NothingToSend(t)
                         \/ Send(t) \/ DeliveryFails(t) \/ Finish(t)
                         \/ Reconcile(t) \/ Truncate(t) \/ Fill(t) \/ PersistFails(t) \/ Deliver(t)
        \/ \E r \in Repository, kind \in Possible : SustainedPasses(r, kind)
        \/ Crash \/ RestartRuntime
        \/ UNCHANGED <<tick, states, file, alerted, unsaved, alive>>
    BY DEF RuntimeNext, Step, PauseMonitoring, ResumeMonitoring, SetMaintenanceMode,
        SetRepositoryMonitoringEnabled, Control, Change, HourPasses, CooldownPasses,
        IntervalPasses, runtimeVars, history
  <2>2. QED
    BY <1>2, <1>3, <1>4, <1>5, <1>6, <2>1, StreakSteps

\* The user is told of a streak once for each trigger, also over a restart, as
\* long as the store could be written.
THEOREM StreakIsToldOnce == RuntimeSpec => ToldOncePerStreak
<1>1. RuntimeInit => StreakInv
  BY DEF RuntimeInit, StreakInv, AllMarked, Idle
<1>2. RuntimeInv /\ StreakInv /\ [RuntimeNext]_runtimeVars =>
        /\ (RuntimeInv /\ StreakInv)'
        /\ [\A t \in Tick : Deliver(t) => unsaved \/ tick[t].alerts \cap alerted = {}]_runtimeVars
  <2>1. StreakInv => \A t \in Tick : unsaved \/ tick[t].alerts \cap alerted = {}
    BY DEF StreakInv
  <2>2. QED
    BY <2>1, RuntimeInvNext, StreakInvNext
<1>3. QED
  BY <1>1, <1>2, RuntimeInvInit, PTL DEF RuntimeSpec, ToldOncePerStreak
=============================================================================
