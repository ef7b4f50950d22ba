------------------------- MODULE FailureStateProofs -------------------------
(***************************************************************************)
(* FailureState, for any number of calls, task types, failed writes and    *)
(* crashes: its types, that no update of failure-state.json is lost unless *)
(* a write ended half way, and that the counts rebuilt from the log are    *)
(* those on disk as long as calls do not overlap. The invariant adds to    *)
(* NoLostUpdate that a call in its read-modify-write cycle is the head of  *)
(* the queue and still holds the current counts, that a file which is      *)
(* whole is current even while the process is down, and that a torn one    *)
(* is being written or was cut off, which the next start relies on.        *)
(***************************************************************************)
EXTENDS FailureState, WellFoundedInduction, TLAPS

-----------------------------------------------------------------------------
(* What the rebuild computes from a log.                                   *)

\* A set of naturals that is not empty has a least element: what the recursive
\* functions of the model compute is proved by the least counterexample.
LEMMA LeastNatural ==
    ASSUME NEW T, T \subseteq Nat, T # {}
    PROVE  \E n \in T : \A m \in T : n <= m
  <1> DEFINE R == {p \in Nat \X Nat : p[1] < p[2]}
  <1>1. IsWellFoundedOn(R, Nat)
    BY NatLessThanWellFounded DEF OpToRel
  <1> HIDE DEF R
  <1>2. PICK n \in T : \A m \in T : ~ (<<m, n>> \in R)
    BY <1>1, WFMin
  <1>3. ASSUME NEW m \in T PROVE n <= m
    <2>1. m \in Nat /\ n \in Nat
      OBVIOUS
    <2>2. <<m, n>> \notin R
      BY <1>2
    <2> QED BY <2>1, <2>2 DEF R
  <1> QED BY <1>3

\* f holds the counts after each prefix of the first k events.
CountsAfter(f, events, k) ==
    f = [n \in 0..k |-> IF n = 0 THEN Zero ELSE ReplayEvent(f[n - 1], events[n])]

LEMMA CountsExist ==
    ASSUME NEW events, NEW k \in Nat
    PROVE  \E f : CountsAfter(f, events, k)
  <1> DEFINE Bad == {n \in Nat : ~ \E f : CountsAfter(f, events, n)}
  <1> SUFFICES ASSUME Bad # {} PROVE FALSE
    OBVIOUS
  <1>1. PICK n \in Bad : \A m \in Bad : n <= m
    BY LeastNatural
  <1>2. n # 0
    <2> DEFINE z == [m \in 0..0 |-> Zero]
    <2>1. CountsAfter(z, events, 0)
      BY DEF CountsAfter
    <2> QED BY <2>1
  <1>3. PICK f : CountsAfter(f, events, n - 1)
    <2>1. n - 1 \in Nat /\ n - 1 \notin Bad
      BY <1>1, <1>2
    <2> QED BY <2>1
  <1> DEFINE g == [m \in 0..n |-> IF m = n THEN ReplayEvent(f[n - 1], events[n]) ELSE f[m]]
  <1>4. CountsAfter(g, events, n)
    <2> SUFFICES ASSUME NEW m \in 0..n
                 PROVE  g[m] = IF m = 0 THEN Zero ELSE ReplayEvent(g[m - 1], events[m])
      BY DEF CountsAfter
    <2>1. CASE m = n
      BY <1>2, <2>1
    <2>2. CASE m # n
      <3>1. m \in 0..(n - 1) /\ (m # 0 => m - 1 \in 0..n /\ m - 1 # n)
        BY <2>2
      <3>2. f[m] = IF m = 0 THEN Zero ELSE ReplayEvent(f[m - 1], events[m])
        BY <1>3, <3>1 DEF CountsAfter
      <3> QED BY <2>2, <3>1, <3>2
    <2> QED BY <2>1, <2>2
  <1> QED BY <1>1, <1>4

CommonPrefix(s, t, k) == \A n \in 1..k : s[n] = t[n]

\* They are the same for two logs with a common prefix.
LEMMA CountsAgree ==
    ASSUME NEW s, NEW t, NEW f, NEW g, NEW j \in Nat, NEW k \in Nat, j <= k,
           CountsAfter(f, s, j), CountsAfter(g, t, k), CommonPrefix(s, t, j)
    PROVE  f[j] = g[j]
  <1> DEFINE Bad == {n \in 0..j : f[n] # g[n]}
  <1> SUFFICES ASSUME Bad # {} PROVE FALSE
    OBVIOUS
  <1>0. Bad \subseteq Nat
    OBVIOUS
  <1>1. PICK n \in Bad : \A m \in Bad : n <= m
    <2> HIDE DEF Bad
    <2> QED BY <1>0, LeastNatural
  <1>2. n \in 0..j /\ n \in 0..k
    OBVIOUS
  <1>3. f[n] = (IF n = 0 THEN Zero ELSE ReplayEvent(f[n - 1], s[n]))
    BY <1>2 DEF CountsAfter
  <1>4. g[n] = (IF n = 0 THEN Zero ELSE ReplayEvent(g[n - 1], t[n]))
    BY <1>2 DEF CountsAfter
  <1>5. n # 0
    BY <1>3, <1>4
  <1>6. f[n - 1] = g[n - 1]
    BY <1>1, <1>5
  <1>7. s[n] = t[n]
    BY <1>5 DEF CommonPrefix
  <1> QED BY <1>3, <1>4, <1>6, <1>7

LEMMA ReplayIs ==
    ASSUME NEW events, Len(events) \in Nat
    PROVE  \E f : CountsAfter(f, events, Len(events)) /\ Replay(events) = f[Len(events)]
  BY CountsExist DEF Replay, CountsAfter

LEMMA ReplayEmpty == Replay(<<>>) = Zero
  <1>1. PICK f : CountsAfter(f, <<>>, 0) /\ Replay(<<>>) = f[0]
    BY ReplayIs
  <1> QED BY <1>1 DEF CountsAfter

\* One more event is one more step of the rebuild.
LEMMA ReplayAppend ==
    ASSUME NEW E, NEW s \in Seq(E), NEW e \in E
    PROVE  Replay(Append(s, e)) = ReplayEvent(Replay(s), e)
  <1> DEFINE t == Append(s, e)
             k == Len(s)
  <1>1. k \in Nat /\ Len(t) = k + 1 /\ t[k + 1] = e /\ CommonPrefix(s, t, k)
    BY DEF CommonPrefix
  <1>2. PICK f : CountsAfter(f, s, k) /\ Replay(s) = f[k]
    BY <1>1, ReplayIs
  <1> HIDE DEF t
  <1>3. PICK g : CountsAfter(g, t, Len(t)) /\ Replay(t) = g[Len(t)]
    BY <1>1, ReplayIs
  <1>4. f[k] = g[k]
    <2> HIDE DEF k
    <2>1. CountsAfter(g, t, k + 1) /\ k + 1 \in Nat /\ k <= k + 1
      BY <1>1, <1>3
    <2> QED BY <1>1, <1>2, <2>1, CountsAgree
  <1>5. g[k + 1] = ReplayEvent(g[k], t[k + 1])
    BY <1>1, <1>3 DEF CountsAfter
  <1> QED BY <1>1, <1>2, <1>3, <1>4, <1>5 DEF t

\* What events.jsonl can hold.
Stored == {Event(o) : o \in Op} \union {Torn}

LEMMA StoredEvents ==
    /\ \A o \in Op : Event(o) \in Stored /\ (o.kind # "error" => Event(o) = o)
    /\ Torn \in Stored
  BY DEF Stored, Event

\* An update counts what the rebuild reads from its event.
LEMMA ReplayIsApply ==
    ASSUME NEW counts, NEW o \in Op, o.kind # "error"
    PROVE  ReplayEvent(counts, Event(o)) = Apply(counts, o)
  BY FailureStateAssumption
  DEF ReplayEvent, Apply, Event, Op, Outcomes, Clears, Others

LEMMA ReplayEventCounts ==
    ASSUME NEW counts \in Counts, NEW e \in Stored
    PROVE  ReplayEvent(counts, e) \in Counts
  <1>1. CASE e = Torn
    BY <1>1 DEF Torn, ReplayEvent
  <1>2. ASSUME NEW o \in Op, e = Event(o)
        PROVE  ReplayEvent(counts, e) \in Counts
    BY <1>2 DEF ReplayEvent, Event, Op, Outcomes, Clears, Others, Counts, Zero
  <1> QED BY <1>1, <1>2 DEF Stored

LEMMA ReplayCounts ==
    ASSUME NEW s \in Seq(Stored)
    PROVE  Replay(s) \in Counts
  <1> DEFINE k == Len(s)
  <1>1. k \in Nat /\ \A n \in 1..k : s[n] \in Stored
    OBVIOUS
  <1>2. PICK f : CountsAfter(f, s, k) /\ Replay(s) = f[k]
    BY <1>1, ReplayIs
  <1> HIDE DEF k
  <1> DEFINE Bad == {n \in 0..k : f[n] \notin Counts}
  <1> SUFFICES ASSUME Bad # {} PROVE FALSE
    BY <1>1, <1>2
  <1>3. Bad \subseteq Nat
    BY <1>1
  <1>4. PICK n \in Bad : \A m \in Bad : n <= m
    <2> HIDE DEF Bad
    <2> QED BY <1>3, LeastNatural
  <1>5. f[n] = IF n = 0 THEN Zero ELSE ReplayEvent(f[n - 1], s[n])
    BY <1>1, <1>2 DEF CountsAfter
  <1>6. CASE n = 0
    BY <1>5, <1>6 DEF Counts, Zero
  <1>7. CASE n # 0
    <2>1. f[n - 1] \in Counts /\ s[n] \in Stored
      BY <1>1, <1>4, <1>7
    <2> QED BY <1>5, <1>7, <2>1, ReplayEventCounts
  <1> QED BY <1>6, <1>7

-----------------------------------------------------------------------------
(* Who holds the queue, and what the file reads as.                        *)

Places == {"idle", "append", "queued", "write", "writing"}

Shapes ==
    /\ queue \in Seq(Call)
    /\ pc \in [Call -> Places]
    /\ DOMAIN buf = Call
    /\ disk.file # "whole" => disk.counts = Zero
    /\ \A c \in Call : pc[c] = "writing" => disk.file = "torn"
    /\ disk.file \in {"missing", "torn", "whole"}
    /\ cutOff \in BOOLEAN

HolderIsCurrent ==
    \A c \in Call :
      pc[c] \in {"write", "writing"} => HasQueue(c) /\ (~cutOff => buf[c] = ledger)

\* A torn file is one of a write in progress, or of one that was cut off.
FileIsCurrent ==
    /\ disk.file = "whole" /\ ~cutOff => disk.counts = ledger
    /\ mode = "up" /\ Writing = {} /\ ~cutOff => disk.counts = ledger
    /\ mode # "up" => \A c \in Call : pc[c] = "idle"
    /\ disk.file = "missing" => mode # "up" /\ log = <<>> /\ ledger = Zero
    /\ disk.file = "torn" => cutOff \/ Writing # {}

IInv == Shapes /\ HolderIsCurrent /\ FileIsCurrent

LEMMA InitHolds == Init => IInv
  <1> SUFFICES ASSUME Init PROVE IInv
    OBVIOUS
  <1>1. disk.file = "missing" /\ disk.counts = Zero /\ \A c \in Call : pc[c] = "idle"
    BY DEF Init, Broken
  <1>b. cutOff \in BOOLEAN
    BY ZenonT(20) DEF Init
  <1>d. queue = <<>> /\ pc = [c \in Call |-> "idle"] /\ DOMAIN buf = Call
    BY DEF Init
  <1>2. Shapes /\ HolderIsCurrent
    BY <1>1, <1>b, <1>d DEF Shapes, HolderIsCurrent, Places
  <1>3. FileIsCurrent
    BY <1>1 DEF Init, FileIsCurrent
  <1> QED BY <1>2, <1>3 DEF IInv

\* A call that takes its place in the queue does not change the head.
LEMMA EnqueueKeepsHolder ==
    ASSUME queue \in Seq(Call), NEW c \in Call, NEW d \in Call,
           HasQueue(d), queue' = Append(queue, c)
    PROVE  HasQueue(d)'
  BY DEF HasQueue

LEMMA StartKeeps ==
    ASSUME IInv, NEW c \in Call, NEW o \in Op, Start(c, o)
    PROVE  IInv'
  <1>1. Shapes'
    <2>1. \E q \in Places \ {"writing"} : pc' = [pc EXCEPT ![c] = q]
      BY DEF Places, Start, Enqueue, Goto
    <2>2. queue' \in Seq(Call)
      BY DEF IInv, Shapes, Start, Enqueue
    <2> QED BY <2>1, <2>2 DEF IInv, Shapes, Start
  <1>2. HolderIsCurrent'
    <2>1. CASE o \in Clears
      BY <2>1, EnqueueKeepsHolder DEF IInv, Shapes, HolderIsCurrent, Start, Enqueue, Goto
    <2>2. CASE o \notin Clears
      BY <2>2 DEF IInv, Shapes, HolderIsCurrent, HasQueue, Start, Goto
    <2> QED BY <2>1, <2>2
  <1>3. FileIsCurrent'
    BY DEF IInv, Shapes, FileIsCurrent, Writing, Start, Enqueue, Goto
  <1> QED BY <1>1, <1>2, <1>3 DEF IInv

LEMMA AppendEventKeeps ==
    ASSUME IInv, NEW c \in Call, AppendEvent(c)
    PROVE  IInv'
  <1>1. Shapes'
    <2>1. \E q \in Places \ {"writing"} : pc' = [pc EXCEPT ![c] = q]
      BY DEF Places, AppendEvent, Enqueue, Goto
    <2>2. queue' \in Seq(Call)
      BY DEF IInv, Shapes, AppendEvent, Enqueue
    <2> QED BY <2>1, <2>2 DEF IInv, Shapes, AppendEvent
  <1>2. HolderIsCurrent'
    <2>1. CASE op[c] \in Outcomes
      BY <2>1, EnqueueKeepsHolder DEF IInv, Shapes, HolderIsCurrent, AppendEvent, Enqueue, Goto
    <2>2. CASE op[c] \notin Outcomes
      BY <2>2 DEF IInv, Shapes, HolderIsCurrent, HasQueue, AppendEvent, Goto
    <2> QED BY <2>1, <2>2
  <1>3. FileIsCurrent'
    BY DEF IInv, Shapes, FileIsCurrent, Writing, AppendEvent, Enqueue, Goto
  <1> QED BY <1>1, <1>2, <1>3 DEF IInv

\* Nobody else is in the cycle of the head of the queue.
LEMMA OnlyHolder ==
    ASSUME IInv, NEW c \in Call, HasQueue(c),
           NEW d \in Call, pc[d] \in {"write", "writing"}
    PROVE  d = c
  BY DEF IInv, HolderIsCurrent, HasQueue

LEMMA ReadKeeps ==
    ASSUME IInv, NEW c \in Call, Read(c)
    PROVE  IInv'
  <1>1. Shapes' BY DEF IInv, Shapes, Places, Read, Goto
  <1>2. ~cutOff => Contents = ledger
    BY OnlyHolder DEF IInv, Shapes, FileIsCurrent, Writing, Read, Contents
  <1>3. HolderIsCurrent'
    BY <1>2, OnlyHolder DEF IInv, Shapes, HolderIsCurrent, HasQueue, Read, Goto
  <1>4. FileIsCurrent'
    BY DEF IInv, Shapes, FileIsCurrent, Writing, Read, Goto
  <1> QED BY <1>1, <1>3, <1>4 DEF IInv

LEMMA TruncateKeeps ==
    ASSUME IInv, NEW c \in Call, Truncate(c)
    PROVE  IInv'
  <1>1. Shapes' BY DEF IInv, Shapes, Places, Truncate, Goto, Broken
  <1>2. HolderIsCurrent'
    BY DEF IInv, Shapes, HolderIsCurrent, HasQueue, Truncate, Goto
  <1>3. FileIsCurrent'
    BY DEF IInv, Shapes, FileIsCurrent, Writing, Truncate, Goto, Broken
  <1> QED BY <1>1, <1>2, <1>3 DEF IInv

LEMMA FillKeeps ==
    ASSUME IInv, NEW c \in Call, Fill(c)
    PROVE  IInv'
  <1>1. HasQueue(c) /\ (~cutOff => buf[c] = ledger) /\ UNCHANGED cutOff
    BY DEF IInv, HolderIsCurrent, Fill
  <1>2. Shapes'
    <2>1. \A d \in Call : pc'[d] # "writing"
      BY <1>1, OnlyHolder DEF IInv, Shapes, Fill, Goto
    <2> QED BY <1>1, <2>1 DEF IInv, Shapes, Places, HasQueue, Fill, Goto, Whole
  <1>3. \A d \in Call : pc'[d] \notin {"write", "writing"}
    BY <1>1, OnlyHolder DEF IInv, Shapes, Fill, Goto
  <1>4. HolderIsCurrent'
    BY <1>3 DEF HolderIsCurrent
  <1>5. (~cutOff => disk'.counts = ledger') /\ disk'.file = "whole"
    BY <1>1 DEF Fill, Whole
  <1>6. mode = "up"
    BY DEF IInv, FileIsCurrent, Fill
  <1>7. FileIsCurrent'
    BY <1>1, <1>5, <1>6 DEF FileIsCurrent, Fill
  <1> QED BY <1>2, <1>4, <1>7 DEF IInv

\* The append of a call that is not in the cycle fails, or the holder's write.
LEMMA FailsKeeps ==
    ASSUME IInv, NEW c \in Call, Fails(c)
    PROVE  IInv'
  <1>0. /\ \E q \in Places : q = "idle" /\ pc' = [pc EXCEPT ![c] = q]
        /\ UNCHANGED <<mode, disk, op, buf, ledger>>
    BY DEF Places, Fails, Goto
  <1>1. CASE AppendFails(c)
    <2>1. Shapes' /\ HolderIsCurrent'
      BY <1>0, <1>1 DEF IInv, Shapes, HolderIsCurrent, HasQueue, AppendFails
    <2>2. Writing' = Writing /\ mode = "up"
      BY <1>0, <1>1 DEF IInv, Shapes, FileIsCurrent, Writing, AppendFails
    <2>3. FileIsCurrent'
      BY <1>0, <1>1, <2>2 DEF IInv, Shapes, FileIsCurrent, AppendFails
    <2> QED BY <2>1, <2>3 DEF IInv
  <1>2. CASE WriteFails(c)
    <2>1. HasQueue(c) /\ mode = "up" /\ pc[c] \in {"write", "writing"}
      BY <1>2 DEF IInv, HolderIsCurrent, FileIsCurrent, WriteFails
    <2>2. \A d \in Call : pc'[d] \notin {"write", "writing"}
      BY <1>0, <2>1, OnlyHolder DEF IInv, Shapes
    <2>3. queue' \in Seq(Call)
      BY <1>2, <2>1 DEF IInv, Shapes, WriteFails, ReleaseOnError, HasQueue
    <2>4. cutOff' \in BOOLEAN /\ (~cutOff' => ~cutOff /\ pc[c] = "write")
      BY <1>2, <2>1 DEF WriteFails, Writing
    <2>5. Shapes' /\ HolderIsCurrent'
      BY <1>0, <2>2, <2>3, <2>4 DEF IInv, Shapes, HolderIsCurrent
    <2>6. ~cutOff' => Writing = {}
      BY <2>1, <2>4, OnlyHolder DEF Writing
    <2>7. FileIsCurrent'
      BY <1>0, <2>1, <2>4, <2>6 DEF IInv, FileIsCurrent
    <2> QED BY <2>5, <2>7 DEF IInv
  <1> QED BY <1>1, <1>2 DEF Fails

LEMMA CrashKeeps ==
    ASSUME IInv, Crash
    PROVE  IInv'
  <1>1. mode' # "up" /\ mode = "up" /\ \A c \in Call : pc'[c] = "idle"
    BY DEF Crash
  <1>2. UNCHANGED <<disk, buf, ledger>> /\ cutOff' = (cutOff \/ Writing # {})
    BY DEF Crash
  <1>3. Shapes' /\ HolderIsCurrent'
    BY <1>1, <1>2 DEF IInv, Shapes, Places, HolderIsCurrent, Crash
  <1>4. FileIsCurrent'
    BY <1>1, <1>2 DEF IInv, Shapes, FileIsCurrent
  <1> QED BY <1>3, <1>4 DEF IInv

LEMMA RestartKeeps ==
    ASSUME IInv, Restart
    PROVE  IInv'
  <1>1. \A c \in Call : pc'[c] = "idle"
    BY DEF IInv, FileIsCurrent, Restart
  <1>2. Shapes' BY <1>1 DEF IInv, Shapes, Restart, Whole
  <1>3. HolderIsCurrent' BY <1>1 DEF HolderIsCurrent
  <1>4. Writing = {} /\ Writing' = {}
    BY <1>1 DEF IInv, FileIsCurrent, Writing, Restart
  <1>5. ~cutOff /\ disk.file # "whole" => Replay(log) = ledger
    BY <1>4, ReplayEmpty DEF IInv, Shapes, FileIsCurrent
  <1>6. FileIsCurrent' BY <1>1, <1>4, <1>5 DEF IInv, Shapes, FileIsCurrent, Restart, Whole
  <1> QED BY <1>2, <1>3, <1>6 DEF IInv

LEMMA NextKeeps == IInv /\ [Next]_vars => IInv'
  <1> SUFFICES ASSUME IInv, [Next]_vars PROVE IInv'
    OBVIOUS
  <1>1. CASE UNCHANGED vars
    BY <1>1 DEF IInv, Shapes, HolderIsCurrent, HasQueue, FileIsCurrent, Writing, vars
  <1>2. CASE Look
    BY <1>2 DEF IInv, Shapes, HolderIsCurrent, HasQueue, FileIsCurrent, Writing, Look
  <1>3. ASSUME NEW c \in Call, (\E o \in Op : Start(c, o)) \/ Progress(c) \/ Fails(c)
        PROVE  IInv'
    BY <1>3, StartKeeps, AppendEventKeeps, ReadKeeps, TruncateKeeps, FillKeeps, FailsKeeps
       DEF Progress
  <1> QED BY <1>1, <1>2, <1>3, CrashKeeps, RestartKeeps DEF Next

\* As long as no write has ended half way, the counts on disk are the updates
\* made so far in the order of the queue: none is lost to another call, to an
\* error before the file is touched, or to a crash between two writes.
THEOREM UpdatesAreKept == Spec => []NoLostUpdate
  <1>1. IInv => NoLostUpdate
    BY DEF IInv, FileIsCurrent, NoLostUpdate, Contents
  <1> QED BY <1>1, InitHolds, NextKeeps, PTL DEF Spec
-----------------------------------------------------------------------------
(* The types, and the queue without repetitions.                           *)

LEMMA InQueue ==
    ASSUME NEW q \in Seq(Call)
    PROVE  ToSet(q) = {q[i] : i \in 1..Len(q)}
  BY DEF ToSet

\* A call that joins the queue was not in it.
LEMMA Joins ==
    ASSUME NEW q \in Seq(Call), IsInjective(q), NEW c \in Call, c \notin ToSet(q)
    PROVE  /\ Append(q, c) \in Seq(Call) /\ IsInjective(Append(q, c))
           /\ ToSet(Append(q, c)) = ToSet(q) \union {c}
  <1> DEFINE r == Append(q, c)
  <1>1. /\ r \in Seq(Call) /\ Len(r) = Len(q) + 1 /\ Len(q) \in Nat
        /\ r[Len(q) + 1] = c /\ \A i \in 1..Len(q) : r[i] = q[i]
    OBVIOUS
  <1> HIDE DEF r
  <1>2. \A i \in 1..Len(q) : q[i] \in ToSet(q)
    BY DEF ToSet
  <1>3. IsInjective(r)
    <2>1. DOMAIN r = 1..Len(r) /\ DOMAIN q = 1..Len(q)
      BY <1>1
    <2>2. \A i, j \in 1..Len(q) : q[i] = q[j] => i = j
      BY <2>1 DEF IsInjective
    <2>3. \A i, j \in 1..Len(r) : r[i] = r[j] => i = j
      BY <1>1, <1>2, <2>2
    <2> QED BY <2>1, <2>3 DEF IsInjective
  <1>4. ToSet(r) = ToSet(q) \union {c}
    BY <1>1, InQueue
  <1> QED BY <1>1, <1>3, <1>4 DEF r

\* The head leaves it, and nobody else.
LEMMA Leaves ==
    ASSUME NEW q \in Seq(Call), IsInjective(q), q # <<>>
    PROVE  /\ Tail(q) \in Seq(Call) /\ IsInjective(Tail(q))
           /\ ToSet(Tail(q)) = ToSet(q) \ {Head(q)}
  <1> DEFINE r == Tail(q)
  <1>1. /\ r \in Seq(Call) /\ Len(r) = Len(q) - 1 /\ Len(q) \in Nat \ {0}
        /\ Head(q) = q[1] /\ \A i \in 1..Len(r) : r[i] = q[i + 1]
    OBVIOUS
  <1> HIDE DEF r
  <1>2. IsInjective(r)
    <2>1. DOMAIN r = 1..Len(r) /\ DOMAIN q = 1..Len(q)
      BY <1>1
    <2>2. ASSUME NEW i \in 1..Len(r), NEW j \in 1..Len(r), r[i] = r[j] PROVE i = j
      <3>1. i + 1 \in DOMAIN q /\ j + 1 \in DOMAIN q /\ q[i + 1] = q[j + 1]
        BY <1>1, <2>1, <2>2
      <3>2. i + 1 = j + 1
        BY <3>1 DEF IsInjective
      <3> QED BY <1>1, <3>2
    <2> QED BY <2>1, <2>2 DEF IsInjective
  <1>3. ToSet(q) = {q[i] : i \in 1..Len(q)} /\ ToSet(r) = {r[i] : i \in 1..Len(r)}
    BY <1>1, InQueue
  <1>4. ASSUME NEW x \in ToSet(r) PROVE x \in ToSet(q) \ {Head(q)}
    <2>1. PICK i \in 1..Len(r) : x = q[i + 1]
      BY <1>1, <1>3, <1>4
    <2>2. i + 1 \in 1..Len(q) /\ i + 1 # 1
      BY <1>1
    <2> QED BY <1>1, <1>3, <2>1, <2>2 DEF IsInjective
  <1>5. ASSUME NEW x \in ToSet(q), x # Head(q) PROVE x \in ToSet(r)
    <2>1. PICK i \in 1..Len(q) : x = q[i]
      BY <1>3
    <2>2. i - 1 \in 1..Len(r) /\ r[i - 1] = q[i]
      BY <1>1, <1>5, <2>1
    <2> QED BY <1>3, <2>1, <2>2
  <1> QED BY <1>1, <1>2, <1>4, <1>5 DEF r

QueueOK ==
    /\ queue \in Seq(Call)
    /\ IsInjective(queue)
    /\ ToSet(queue) = {c \in Call : pc[c] \in {"queued", "write", "writing"}}

LEMMA ApplyCounts ==
    ASSUME NEW counts \in Counts, NEW o \in Op
    PROVE  Apply(counts, o) \in Counts
  BY DEF Apply, Counts, Zero, Op, Outcomes, Clears, Others

LEMMA Files ==
    /\ Broken("missing") \in File /\ Broken("torn") \in File
    /\ \A counts \in Counts : Whole(counts) \in File
    /\ \A d \in File : d.counts \in Counts
  BY DEF Broken, Whole, File, Counts, Zero

TInv == TypeOK /\ IInv

LEMMA InitTypes == Init => TypeOK
  <1> SUFFICES ASSUME Init PROVE TypeOK
    OBVIOUS
  <1>1. \E o : o \in Others
    <2>1. [kind |-> "other", key |-> NoKey] \in Others
      BY DEF Others
    <2> QED BY <2>1
  <1>2. (CHOOSE o \in Others : TRUE) \in Op
    BY <1>1 DEF Op
  <1>3. IsInjective(<<>>) /\ ToSet(<<>>) = {}
    BY DEF IsInjective, ToSet
  <1>4. <<>> \in Seq(Call) /\ <<>> \in Seq({Event(o) : o \in Op} \union {Torn})
    OBVIOUS
  <1>5. Zero \in Counts
    BY DEF Zero, Counts
  <1>6. QueueOK
    BY <1>3, <1>4 DEF Init, QueueOK
  <1>7. op \in [Call -> Op] /\ buf \in [Call -> Counts]
    BY <1>2, <1>5 DEF Init
  <1>8. serial \in BOOLEAN /\ cutOff \in BOOLEAN
    BY ZenonT(20) DEF Init
  <1>9. pc \in [Call -> {"idle", "append", "queued", "write", "writing"}]
        /\ mode \in {"up", "down", "failed"} /\ seen \subseteq Key /\ faults \in 0..MaxFaults
    BY FailureStateAssumption DEF Init
  <1>10. log \in Seq({Event(o) : o \in Op} \union {Torn}) /\ ledger \in Counts /\ disk \in File
    BY <1>4, <1>5, Files DEF Init
  <1> QED BY <1>6, <1>7, <1>8, <1>9, <1>10 DEF TypeOK, QueueOK

LEMMA NextTypes == TInv /\ [Next]_vars => TypeOK'
  <1> SUFFICES ASSUME TInv, [Next]_vars PROVE TypeOK'
    OBVIOUS
  <1>t. TypeOK /\ QueueOK
    BY DEF TInv, TypeOK, QueueOK
  <1>1. ASSUME NEW c \in Call, NEW o \in Op, Start(c, o)
        PROVE  TypeOK'
    <2>1. CASE o \in Clears
      <3>1. c \notin ToSet(queue)
        BY <1>t, <1>1 DEF TypeOK, Start
      <3>2. queue' \in Seq(Call) /\ IsInjective(queue') /\ ToSet(queue') = ToSet(queue) \union {c}
        BY <1>t, <1>1, <2>1, <3>1, Joins DEF QueueOK, Start, Enqueue
      <3> QED BY <1>t, <1>1, <2>1, <3>2 DEF TypeOK, Start, Enqueue, Goto
    <2>2. CASE o \notin Clears
      BY <1>t, <1>1, <2>2 DEF TypeOK, Start, Goto
    <2> QED BY <2>1, <2>2
  <1>2. ASSUME NEW c \in Call, AppendEvent(c)
        PROVE  TypeOK'
    <2>1. log' \in Seq({Event(o) : o \in Op} \union {Torn})
      <3>1. Event(op[c]) \in {Event(o) : o \in Op} \union {Torn}
        BY <1>t DEF TypeOK
      <3>2. log \in Seq({Event(o) : o \in Op} \union {Torn})
        BY <1>t DEF TypeOK
      <3>3. log' = Append(log, Event(op[c]))
        BY <1>2 DEF AppendEvent
      <3> QED BY <3>1, <3>2, <3>3
    <2>2. CASE op[c] \in Outcomes
      <3>1. c \notin ToSet(queue)
        BY <1>t, <1>2 DEF TypeOK, AppendEvent
      <3>2. queue' \in Seq(Call) /\ IsInjective(queue') /\ ToSet(queue') = ToSet(queue) \union {c}
        BY <1>t, <1>2, <2>2, <3>1, Joins DEF QueueOK, AppendEvent, Enqueue
      <3> QED BY <1>t, <1>2, <2>1, <2>2, <3>2 DEF TypeOK, AppendEvent, Enqueue, Goto
    <2>3. CASE op[c] \notin Outcomes
      BY <1>t, <1>2, <2>1, <2>3 DEF TypeOK, AppendEvent, Goto
    <2> QED BY <2>2, <2>3
  <1>3. ASSUME NEW c \in Call, Read(c)
        PROVE  TypeOK'
    BY <1>t, <1>3, Files DEF TypeOK, Read, Contents, Goto
  <1>4. ASSUME NEW c \in Call, Truncate(c)
        PROVE  TypeOK'
    BY <1>t, <1>4, Files DEF TypeOK, Truncate, Goto
  <1>5. ASSUME NEW c \in Call, Fill(c)
        PROVE  TypeOK'
    <2>1. HasQueue(c)
      BY <1>5 DEF TInv, IInv, HolderIsCurrent, Fill
    <2>2. queue' \in Seq(Call) /\ IsInjective(queue') /\ ToSet(queue') = ToSet(queue) \ {c}
      BY <1>t, <1>5, <2>1, Leaves DEF QueueOK, Fill, HasQueue
    <2>3. disk' \in File /\ ledger' \in Counts
      BY <1>t, <1>5, ApplyCounts, Files DEF TypeOK, Fill
    <2> QED BY <1>t, <1>5, <2>2, <2>3 DEF TypeOK, Fill, Goto
  <1>6. ASSUME NEW c \in Call, Fails(c)
        PROVE  TypeOK'
    <2>1. faults' \in 0..MaxFaults
      BY <1>t, <1>6, FailureStateAssumption DEF TypeOK, Fails
    <2>2. CASE AppendFails(c)
      <3>1. log' \in Seq({Event(o) : o \in Op} \union {Torn})
        <4>1. log \in Seq({Event(o) : o \in Op} \union {Torn})
          BY <1>t DEF TypeOK
        <4>2. log' = log \/ log' = Append(log, Torn)
          BY <2>2 DEF AppendFails
        <4> QED BY <4>1, <4>2
      <3> QED BY <1>t, <1>6, <2>1, <2>2, <3>1 DEF TypeOK, Fails, AppendFails, Goto
    <2>3. CASE WriteFails(c)
      <3>1. HasQueue(c)
        BY <2>3 DEF TInv, IInv, HolderIsCurrent, WriteFails
      <3>2. queue' \in Seq(Call) /\ IsInjective(queue') /\ ToSet(queue') = ToSet(queue) \ {c}
        BY <1>t, <2>3, <3>1, Leaves DEF QueueOK, WriteFails, ReleaseOnError, HasQueue
      <3>3. cutOff' \in BOOLEAN
        BY <1>t, <2>3 DEF TypeOK, WriteFails
      <3> QED BY <1>t, <1>6, <2>1, <2>3, <3>2, <3>3 DEF TypeOK, Fails, WriteFails, Goto
    <2> QED BY <1>6, <2>2, <2>3 DEF Fails
  <1>7. CASE Look
    BY <1>t, <1>7 DEF TypeOK, Look, Blocked
  <1>8. CASE Crash
    <2>1. log' \in Seq({Event(o) : o \in Op} \union {Torn})
      <3>1. log \in Seq({Event(o) : o \in Op} \union {Torn})
        BY <1>t DEF TypeOK
      <3>2. log' = log \/ \E c \in Call : log' \in {Append(log, Event(op[c])), Append(log, Torn)}
        BY <1>8 DEF Crash
      <3>3. \A c \in Call : Event(op[c]) \in {Event(o) : o \in Op} \union {Torn}
        BY <1>t DEF TypeOK
      <3> QED BY <3>1, <3>2, <3>3
    <2>2. IsInjective(<<>>) /\ ToSet(<<>>) = {} /\ <<>> \in Seq(Call)
      BY DEF IsInjective, ToSet
    <2>3. faults' \in 0..MaxFaults
      BY <1>t, <1>8, FailureStateAssumption DEF TypeOK, Crash
    <2> QED BY <1>t, <1>8, <2>1, <2>2, <2>3 DEF TypeOK, Crash
  <1>9. CASE Restart
    <2>1. Replay(log) \in Counts
      BY <1>t, ReplayCounts DEF TypeOK, Stored
    <2> QED BY <1>t, <1>9, <2>1, Files DEF TypeOK, Restart
  <1>10. CASE UNCHANGED vars
    BY <1>t, <1>10 DEF TypeOK, vars
  <1> QED BY <1>1, <1>2, <1>3, <1>4, <1>5, <1>6, <1>7, <1>8, <1>9, <1>10 DEF Next, Progress

LEMMA SpecTInv == Spec => []TInv
  <1>1. Init => TInv
    BY InitTypes, InitHolds DEF TInv
  <1>2. TInv /\ [Next]_vars => TInv'
    BY NextTypes, NextKeeps DEF TInv
  <1> QED BY <1>1, <1>2, PTL DEF Spec

\* The queue holds each call that waits for it once and nobody else, and the
\* counts, on disk or in flight, are naturals.
THEOREM TypeCorrect == Spec => []TypeOK
  <1>1. TInv => TypeOK
    BY DEF TInv
  <1> QED BY <1>1, SpecTInv, PTL

-----------------------------------------------------------------------------
(* The rebuild agrees with the counts as long as calls take turns: a lone  *)
(* call that is half way has made one of its two updates, and the log and  *)
(* the counts differ by exactly that.                                      *)

Alone == serial => \A c, d \in Call : Busy(c) /\ Busy(d) => c = d

\* The event is in the log and not yet counted.
LogAhead(c) == pc[c] \in {"queued", "write", "writing"} /\ op[c] \in Outcomes

\* The clear is counted and not yet in the log.
CountsAhead(c) == pc[c] = "append" /\ op[c] \in Clears

Undisturbed ==
    serial /\ faults = 0 /\ \A i \in 1..Len(log) : log[i].kind # "error"

LoneCall ==
    Undisturbed =>
      /\ \A c \in Call : LogAhead(c) => Replay(log) = Apply(ledger, op[c])
      /\ \A c \in Call : CountsAhead(c) => ledger = Apply(Replay(log), op[c])
      /\ (\A c \in Call : ~LogAhead(c) /\ ~CountsAhead(c)) => Replay(log) = ledger

SInv == TInv /\ Alone /\ LoneCall

LEMMA InitSerial == Init => Alone /\ LoneCall
  BY ReplayEmpty
  DEF Init, Alone, Busy, LoneCall, LogAhead, CountsAhead

LEMMA NextAlone == SInv /\ [Next]_vars => Alone'
  <1> SUFFICES ASSUME SInv, [Next]_vars PROVE Alone'
    OBVIOUS
  <1>t. pc \in [Call -> {"idle", "append", "queued", "write", "writing"}]
    BY DEF SInv, TInv, TypeOK
  <1>1. ASSUME NEW c \in Call, NEW o \in Op, Start(c, o)
        PROVE  Alone'
    <2>1. serial' => \A d \in Call \ {c} : ~Busy(d)'
      BY <1>t, <1>1 DEF Start, Enqueue, Goto, Busy
    <2> QED BY <2>1 DEF Alone
  <1>2. ASSUME serial' = serial, \A d \in Call : Busy(d)' => Busy(d)
        PROVE  Alone'
    BY <1>2 DEF SInv, Alone
  <1>3. ASSUME NEW c \in Call, Progress(c) \/ Fails(c)
        PROVE  Alone'
    <2>1. \E q : pc' = [pc EXCEPT ![c] = q] /\ Busy(c) /\ serial' = serial
      BY <1>3 DEF Progress, AppendEvent, Enqueue, Read, Truncate, Fill, Fails, AppendFails,
                  WriteFails, Goto, Busy
    <2>2. \A d \in Call : Busy(d)' => Busy(d)
      BY <1>t, <2>1 DEF Busy
    <2> QED BY <2>1, <2>2, <1>2
  <1>4. CASE Look \/ Crash \/ Restart \/ UNCHANGED vars
    BY <1>2, <1>4 DEF Look, Crash, Restart, vars, Busy
  <1> QED BY <1>1, <1>3, <1>4 DEF Next

\* While calls take turns nobody but the one that moves is half way.
LEMMA OthersIdle ==
    ASSUME SInv, serial, NEW c \in Call, Busy(c), NEW d \in Call, d # c
    PROVE  pc[d] = "idle" /\ ~LogAhead(d) /\ ~CountsAhead(d)
  BY DEF SInv, Alone, Busy, LogAhead, CountsAhead

LEMMA NextLone == SInv /\ [Next]_vars => LoneCall'
  <1> SUFFICES ASSUME SInv, [Next]_vars, Undisturbed' PROVE LoneCall'
    BY DEF LoneCall
  <1>t. TypeOK /\ log \in Seq(Stored)
    BY DEF SInv, TInv, TypeOK, Stored
  <1>1. ASSUME NEW c \in Call, NEW o \in Op, Start(c, o)
        PROVE  LoneCall'
    <2>1. Undisturbed /\ \A d \in Call : ~Busy(d)
      BY <1>1 DEF Undisturbed, Start
    <2>2. Replay(log) = ledger
      BY <2>1 DEF SInv, LoneCall, LogAhead, CountsAhead, Busy
    <2>3. \A d \in Call : ~LogAhead(d)' /\ ~CountsAhead(d)'
      <3>1. pc' = [pc EXCEPT ![c] = IF o \in Clears THEN "queued" ELSE "append"]
            /\ op' = [op EXCEPT ![c] = o]
        BY <1>1 DEF Start, Enqueue, Goto
      <3>2. \A d \in Call \ {c} : pc'[d] = "idle"
        BY <1>t, <2>1, <3>1 DEF TypeOK, Busy
      <3>3. o \in Clears => o \notin Outcomes
        BY DEF Clears, Outcomes
      <3>4. pc'[c] = (IF o \in Clears THEN "queued" ELSE "append") /\ op'[c] = o
        BY <1>t, <3>1 DEF TypeOK
      <3> QED BY <3>2, <3>3, <3>4 DEF LogAhead, CountsAhead
    <2> QED BY <1>1, <2>2, <2>3 DEF LoneCall, Start
  <1>2. ASSUME NEW c \in Call, AppendEvent(c)
        PROVE  LoneCall'
    <2>1. log' = Append(log, Event(op[c])) /\ Event(op[c]) \in Stored /\ op[c] \in Op
      BY <1>t, <1>2, StoredEvents DEF TypeOK, AppendEvent
    <2>2. Undisturbed /\ op[c].kind # "error"
      <3>1. Len(log') = Len(log) + 1 /\ log'[Len(log) + 1] = Event(op[c]) /\ Len(log) \in Nat
        BY <1>t, <2>1
      <3>2. \A i \in 1..Len(log) : log'[i] = log[i]
        BY <1>t, <2>1
      <3>3. Event(op[c]).kind # "error"
        BY <3>1 DEF Undisturbed
      <3>4. op[c].kind # "error"
        BY <3>3, <1>t DEF Event, TypeOK, Op, Outcomes, Clears, Others
      <3>5. \A i \in 1..Len(log) : log[i].kind # "error"
        BY <3>1, <3>2 DEF Undisturbed
      <3> QED BY <1>2, <3>4, <3>5 DEF Undisturbed, AppendEvent
    <2>3. Replay(log') = Apply(Replay(log), op[c])
      BY <1>t, <2>1, <2>2, ReplayAppend, ReplayIsApply
    <2>4. Busy(c) /\ \A d \in Call \ {c} : pc[d] = "idle" /\ ~LogAhead(d) /\ ~CountsAhead(d)
      BY <1>2, <2>2, OthersIdle DEF AppendEvent, Busy, Undisturbed
    <2>5. ~LogAhead(c)
      BY <1>2 DEF AppendEvent, LogAhead
    <2>6. \A d \in Call \ {c} : pc'[d] = "idle"
      BY <1>t, <1>2, <2>4 DEF TypeOK, AppendEvent, Enqueue, Goto
    <2>7. pc'[c] = (IF op[c] \in Outcomes THEN "queued" ELSE "idle") /\ op' = op
      BY <1>t, <1>2 DEF TypeOK, AppendEvent, Enqueue, Goto
    <2>8. CASE op[c] \in Outcomes
      <3>1. ~CountsAhead(c)
        BY <2>8 DEF CountsAhead, Outcomes, Clears
      <3>2. Replay(log) = ledger
        BY <2>2, <2>4, <2>5, <3>1 DEF SInv, LoneCall
      <3>3. LogAhead(c)' /\ \A d \in Call \ {c} : ~LogAhead(d)'
        BY <2>6, <2>7, <2>8 DEF LogAhead
      <3>4. \A d \in Call : ~CountsAhead(d)'
        BY <2>6, <2>7, <2>8 DEF CountsAhead
      <3> QED BY <1>2, <2>3, <2>7, <3>2, <3>3, <3>4 DEF LoneCall, AppendEvent
    <2>9. CASE op[c] \in Clears
      <3>1. CountsAhead(c) /\ op[c] \notin Outcomes
        BY <1>2, <2>9 DEF AppendEvent, CountsAhead, Clears, Outcomes
      <3>2. Replay(log') = ledger
        BY <2>2, <2>3, <3>1 DEF SInv, LoneCall
      <3>3. \A d \in Call : ~LogAhead(d)' /\ ~CountsAhead(d)'
        BY <2>6, <2>7, <3>1 DEF LogAhead, CountsAhead
      <3> QED BY <1>2, <3>2, <3>3 DEF LoneCall, AppendEvent
    <2>10. CASE op[c] \in Others
      <3>1. ~CountsAhead(c) /\ op[c] \notin Outcomes /\ op[c] \notin Clears
        BY <2>10 DEF CountsAhead, Clears, Outcomes, Others
      <3>2. Replay(log) = ledger
        BY <2>2, <2>4, <2>5, <3>1 DEF SInv, LoneCall
      <3>3. Apply(Replay(log), op[c]) = Replay(log)
        BY <2>10 DEF Apply, Others
      <3>4. \A d \in Call : ~LogAhead(d)' /\ ~CountsAhead(d)'
        BY <2>6, <2>7, <3>1 DEF LogAhead, CountsAhead
      <3> QED BY <1>2, <2>3, <3>2, <3>3, <3>4 DEF LoneCall, AppendEvent
    <2> QED BY <2>1, <2>8, <2>9, <2>10 DEF Op
  <1>3. ASSUME NEW c \in Call, Read(c) \/ Truncate(c)
        PROVE  LoneCall'
    <2>1. Undisturbed /\ Busy(c)
      BY <1>3 DEF Undisturbed, Read, Truncate, Busy
    <2>2. \A d \in Call : LogAhead(d)' <=> LogAhead(d)
      BY <1>t, <1>3 DEF TypeOK, LogAhead, Read, Truncate, Goto
    <2>3. \A d \in Call : CountsAhead(d)' <=> CountsAhead(d)
      BY <1>t, <1>3 DEF TypeOK, CountsAhead, Read, Truncate, Goto
    <2> QED BY <1>3, <2>1, <2>2, <2>3 DEF SInv, LoneCall, Read, Truncate
  <1>4. ASSUME NEW c \in Call, Fill(c)
        PROVE  LoneCall'
    <2>1. Undisturbed /\ Busy(c)
      BY <1>4 DEF Undisturbed, Fill, Busy
    <2>2. \A d \in Call \ {c} : pc[d] = "idle" /\ ~LogAhead(d) /\ ~CountsAhead(d)
      BY <2>1, OthersIdle DEF Undisturbed
    <2>3. ~CountsAhead(c)
      BY <1>4 DEF Fill, CountsAhead
    <2>4. \A d \in Call \ {c} : pc'[d] = "idle"
      BY <1>t, <1>4, <2>2 DEF TypeOK, Fill, Goto
    <2>5. /\ pc'[c] = (IF op[c] \in Clears THEN "append" ELSE "idle")
          /\ op' = op /\ log' = log /\ ledger' = Apply(ledger, op[c])
      BY <1>t, <1>4 DEF TypeOK, Fill, Goto
    <2>6. \A d \in Call : ~LogAhead(d)'
      BY <2>4, <2>5 DEF LogAhead
    <2>7. CASE op[c] \in Clears
      <3>1. ~LogAhead(c)
        BY <2>7 DEF LogAhead, Clears, Outcomes
      <3>2. Replay(log) = ledger
        BY <2>1, <2>2, <2>3, <3>1 DEF SInv, LoneCall
      <3>3. CountsAhead(c)' /\ \A d \in Call \ {c} : ~CountsAhead(d)'
        BY <2>4, <2>5, <2>7 DEF CountsAhead
      <3> QED BY <2>5, <2>6, <3>2, <3>3 DEF LoneCall
    <2>8. CASE op[c] \notin Clears
      <3>1. \A d \in Call : ~CountsAhead(d)'
        BY <2>4, <2>5, <2>8 DEF CountsAhead
      <3>2. Replay(log) = Apply(ledger, op[c])
        <4>1. CASE op[c] \in Outcomes
          BY <1>4, <2>1, <4>1 DEF SInv, LoneCall, LogAhead, Fill
        <4>2. CASE op[c] \in Others
          <5>1. Replay(log) = ledger
            BY <2>1, <2>2, <2>3, <4>2 DEF SInv, LoneCall, LogAhead, Outcomes, Others
          <5> QED BY <4>2, <5>1 DEF Apply, Others
        <4> QED BY <1>t, <2>8, <4>1, <4>2 DEF TypeOK, Op
      <3> QED BY <2>5, <2>6, <3>1, <3>2 DEF LoneCall
    <2> QED BY <2>7, <2>8
  <1>5. ASSUME NEW c \in Call, Fails(c)
        PROVE  LoneCall'
    BY <1>t, <1>5, FailureStateAssumption DEF TypeOK, Fails, Undisturbed
  <1>6. CASE Look
    BY <1>6 DEF SInv, LoneCall, LogAhead, CountsAhead, Undisturbed, Look
  <1>7. CASE Crash
    BY <1>t, <1>7, FailureStateAssumption DEF TypeOK, Crash, Undisturbed
  <1>8. CASE Restart
    <2>1. Undisturbed /\ UNCHANGED <<pc, op, log>>
      BY <1>8 DEF Undisturbed, Restart
    <2>2. \A d \in Call : ~LogAhead(d) /\ ~CountsAhead(d)
      BY <1>8 DEF SInv, TInv, IInv, FileIsCurrent, LogAhead, CountsAhead, Restart
    <2>3. Replay(log) = ledger
      BY <2>1, <2>2 DEF SInv, LoneCall
    <2>4. ledger' = ledger
      BY <1>8, <2>3 DEF Restart
    <2> QED BY <2>1, <2>2, <2>3, <2>4 DEF LoneCall, LogAhead, CountsAhead
  <1>9. CASE UNCHANGED vars
    BY <1>9 DEF SInv, LoneCall, LogAhead, CountsAhead, Undisturbed, vars
  <1> QED BY <1>1, <1>2, <1>3, <1>4, <1>5, <1>6, <1>7, <1>8, <1>9 DEF Next, Progress

\* As long as calls do not overlap and nothing fails, a rebuild of the counts
\* from events.jsonl finds what the updates made them.
THEOREM RebuildAgreesWhenSerial == Spec => []SerialReplayAgrees
  <1>1. Init => SInv
    BY InitTypes, InitHolds, InitSerial DEF SInv, TInv
  <1>2. SInv /\ [Next]_vars => SInv'
    BY NextTypes, NextKeeps, NextAlone, NextLone DEF SInv, TInv
  <1>3. SInv => SerialReplayAgrees
    BY DEF SInv, LoneCall, Undisturbed, LogAhead, CountsAhead, Busy, SerialReplayAgrees,
           ReplayAgrees, Replayable
  <1> QED BY <1>1, <1>2, <1>3, PTL DEF Spec
=============================================================================
