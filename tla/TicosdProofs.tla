----------------------------- MODULE TicosdProofs -----------------------------
(***************************************************************************)
(* Properties of the threads of Ticosd, and their types, for every refresh *)
(* interval, width of int, queue and number of signals.                    *)
(*                                                                         *)
(* That a sleep is never longer than the refresh interval, and what the    *)
(* clock was set back by, needs to know that the interval is at most       *)
(* Refresh from the head of the loop on, and that override_interval is a   *)
(* number, whatever overflow made of it.  That a request is slept on only  *)
(* if it came where nothing remembers it has to be traced back from        *)
(* sleep() to the last look at the queue: every SIGUSR1 open after that    *)
(* came after it, and no sleep has begun since.  That the back-off doubles *)
(* is about two failures: the interval after one was computed at the one   *)
(* before.                                                                 *)
(***************************************************************************)
EXTENDS Ticosd, TLAPS, WellFoundedInduction

\* The interval from the head of the loop to the decision to sleep.
IntervalBounded ==
  main \in {"process", "posting", "rest"} => interval <= Refresh

\* From the last look at the queue to the end of the sleep, the open requests
\* are those that came too late, and before sleep() none has been slept on.
MissedBeforeSleep ==
  /\ main = "presleep" /\ terminate => asked.term = "presleep"
  /\ main = "sleeping" /\ terminate /\ ~handler => asked.term = "presleep"
  /\ main \in {"posting", "rest", "presleep", "sleeping"}
       => asked.usr1 \in {"no", "posting", "rest", "presleep"}
  /\ main \in {"posting", "rest", "presleep"} => naps = 0
  /\ naps \in 0 .. 1

\* What the two properties need to know of the variables' types.
SleepTypes ==
  /\ override_interval \in Int /\ interval \in Int /\ spent \in Int /\ nap \in Int
  /\ asked \in [term : Places \cup {"no"}, usr1 : Places \cup {"no"}]
  /\ main \in Places

\* The inductive invariant.
SleepInv == SleepTypes /\ IntervalBounded /\ NapBounded /\ MissedBeforeSleep

\* override_interval stays an int when it overflows.
LEMMA WrapIsInt == \A x \in Int : WrapInt(x) \in Int
<1> SUFFICES ASSUME NEW x \in Int PROVE WrapInt(x) \in Int
  OBVIOUS
<1>1. /\ x + IntHalf \in Int
      /\ 2 * IntHalf \in Nat /\ 2 * IntHalf > 0
      /\ IntHalf \in Int
  BY WidthAssumption
<1>2. (x + IntHalf) % (2 * IntHalf) \in Int
  <2> DEFINE n == x + IntHalf
             d == 2 * IntHalf
  <2>1. n \in Int /\ d \in Nat /\ d > 0
    BY <1>1
  <2> HIDE DEF n, d
  <2>2. n % d \in Int
    BY <2>1
  <2> QED BY <2>2 DEF n, d
<1> QED BY <1>1, <1>2 DEF WrapInt

\* The time a pass seems to take is a number, whatever is done to the clock.
LEMMA ElapsedIsInt == Elapsed \subseteq Int
<1> SUFFICES ASSUME NEW x \in Elapsed PROVE x \in Int
  OBVIOUS
<1>1. CASE x \in Spent
  <2>1. x \in Nat
    BY <1>1, TimesAssumption
  <2> QED BY <2>1
<1>2. CASE x \in {-s : s \in SetBack}
  <2>1. PICK s \in SetBack : x = -s
    BY <1>2
  <2>2. s \in Nat
    BY TimesAssumption
  <2> QED BY <2>1, <2>2
<1> QED BY <1>1, <1>2 DEF Elapsed

\* The invariant holds when the daemon starts.
LEMMA SleepInit == Init => SleepInv
BY TimesAssumption
DEF Init, Places, SleepInv, SleepTypes, IntervalBounded, NapBounded, MissedBeforeSleep

\* The steps of the main thread keep the invariant.
LEMMA MainKeeps == SleepInv /\ MainThread => SleepInv'
<1> SUFFICES ASSUME SleepInv, MainThread PROVE SleepInv'
  OBVIOUS
<1> USE TimesAssumption DEF SleepInv, loopVars, Places, Look
<1>1. SleepTypes'
  <2>1. CASE PostFailed
    <3>1. NETWORK_FAILURE_BACKOFF_MULTIPLIER * override_interval \in Int
      BY DEF SleepTypes, NETWORK_FAILURE_BACKOFF_MULTIPLIER
    <3>2. override_interval' \in Int
      BY <2>1, <3>1, WrapIsInt DEF PostFailed
    <3>3. interval' \in Int /\ spent' \in Int /\ nap' \in Int
      BY <2>1, ElapsedIsInt DEF PostFailed, MIN, SleepTypes
    <3> QED BY <2>1, <3>2, <3>3 DEF PostFailed, SleepTypes
  <2>2. CASE DecideToSleep
    BY <2>2 DEF DecideToSleep, SleepTypes
  <2>3. CASE QueueEmpty
    BY <2>3, ElapsedIsInt DEF QueueEmpty, SleepTypes
  <2>4. CASE CheckTerminate
    BY <2>4 DEF CheckTerminate, SleepTypes
  <2>5. CASE StartThread \/ ReadHead \/ PostDone \/ Sleep \/ WakeUp \/ Exit
    BY <2>5 DEF StartThread, ReadHead, PostDone, Sleep, WakeUp, Exit, SleepTypes
  <2> QED BY <2>1, <2>2, <2>3, <2>4, <2>5 DEF MainThread
<1>2. IntervalBounded'
  <2>1. CASE PostFailed
    BY <2>1 DEF PostFailed, MIN, SleepTypes, IntervalBounded
  <2>2. CASE DecideToSleep
    BY <2>2 DEF DecideToSleep, IntervalBounded
  <2>3. CASE QueueEmpty
    BY <2>3 DEF QueueEmpty, IntervalBounded
  <2>4. CASE CheckTerminate
    BY <2>4 DEF CheckTerminate, IntervalBounded
  <2>5. CASE StartThread \/ ReadHead \/ PostDone \/ Sleep \/ WakeUp \/ Exit
    BY <2>5 DEF StartThread, ReadHead, PostDone, Sleep, WakeUp, Exit, IntervalBounded
  <2> QED BY <2>1, <2>2, <2>3, <2>4, <2>5 DEF MainThread
<1>3. NapBounded'
  <2>1. CASE DecideToSleep
    BY <2>1 DEF DecideToSleep, SleepTypes, IntervalBounded, NapBounded
  <2>2. CASE StartThread \/ CheckTerminate \/ ReadHead \/ PostDone \/ QueueEmpty \/ PostFailed
    BY <2>2 DEF StartThread, CheckTerminate, ReadHead, PostDone, QueueEmpty, PostFailed,
                NapBounded
  <2>3. CASE Sleep \/ WakeUp \/ Exit
    BY <2>3 DEF Sleep, WakeUp, Exit, NapBounded
  <2> QED BY <2>1, <2>2, <2>3 DEF MainThread
<1>4. MissedBeforeSleep'
  <2>1. CASE DecideToSleep
    BY <2>1 DEF DecideToSleep, MissedBeforeSleep
  <2>2. CASE ReadHead \/ QueueEmpty
    <3>1. asked'.usr1 = "no" /\ naps' = 0 /\ main' \in {"posting", "rest"}
      BY <2>2 DEF ReadHead, QueueEmpty, SleepTypes
    <3> QED BY <3>1 DEF MissedBeforeSleep
  <2>3. CASE StartThread \/ CheckTerminate \/ PostDone \/ PostFailed
    BY <2>3 DEF StartThread, CheckTerminate, PostDone, PostFailed, MissedBeforeSleep
  <2>4. CASE Sleep \/ WakeUp \/ Exit
    BY <2>4 DEF Sleep, WakeUp, Exit, MissedBeforeSleep
  <2> QED BY <2>1, <2>2, <2>3, <2>4 DEF MainThread
<1> QED BY <1>1, <1>2, <1>3, <1>4

\* Signals keep the invariant.
LEMMA SignalsKeep == SleepInv /\ (SigUsr1 \/ SigTerm \/ ShutdownSocket) => SleepInv'
<1> SUFFICES ASSUME SleepInv, SigUsr1 \/ SigTerm \/ ShutdownSocket PROVE SleepInv'
  OBVIOUS
<1> USE DEF SleepInv, SigUsr1, SigTerm, ShutdownSocket, loopVars, Places
<1>1. SleepTypes'
  BY DEF SleepTypes
<1>2. IntervalBounded'
  BY DEF IntervalBounded
<1>3. NapBounded'
  BY DEF NapBounded
<1>4. MissedBeforeSleep'
  <2>1. CASE SigUsr1
    BY <2>1 DEF MissedBeforeSleep
  <2>2. CASE SigTerm
    BY <2>2 DEF MissedBeforeSleep
  <2>3. CASE ShutdownSocket
    BY <2>3 DEF MissedBeforeSleep
  <2> QED BY <2>1, <2>2, <2>3
<1> QED BY <1>1, <1>2, <1>3, <1>4

\* The IPC thread and its clients touch nothing the invariant is about.
LEMMA OthersKeep == SleepInv /\ (IpcThread \/ ticosd_ipc_sendmsg \/ UNCHANGED vars) => SleepInv'
<1>1. ASSUME IpcThread \/ ticosd_ipc_sendmsg \/ UNCHANGED vars
      PROVE  UNCHANGED <<main, override_interval, interval, spent, nap, terminate, handler,
                         asked, naps>>
  BY <1>1 DEF IpcThread, CreateSocket, BindSocket, TestTerminate, Receive, HandleMessage,
              IpcStep, ticosd_ipc_sendmsg, vars, loopVars
<1> QED BY <1>1 DEF SleepInv, SleepTypes, IntervalBounded, NapBounded, MissedBeforeSleep

\* Every step of the daemon keeps the invariant.
LEMMA SleepStep == SleepInv /\ [Next]_vars => SleepInv'
BY MainKeeps, SignalsKeep, OthersKeep DEF Next

-----------------------------------------------------------------------------
\* A message is posted only while it is in the queue: the IPC thread adds
\* messages and only the main thread takes them out.
PostingQueued == main = "posting" => queued > 0

\* TypeOK is not inductive alone: PostDone takes a message out of the queue.
TypeInv == TypeOK /\ PostingQueued

\* A pass failed once more, counted up to the bound.
LEMMA CountIsNat == \A n \in Nat : MIN(n + 1, MaxFails) \in Nat
BY BoundsAssumption DEF MIN

\* The types hold when the daemon starts.
LEMMA TypeInit == Init => TypeInv
<1> SUFFICES ASSUME Init PROVE TypeInv
  OBVIOUS
<1> USE TimesAssumption, BoundsAssumption
<1>1. /\ FirstBackoff \in Int /\ Refresh \in Int /\ 0 \in Nat /\ 0 \in Int
      /\ 0 \in 0 .. MaxMailbox
  OBVIOUS
<1>2. TypeOK
  BY <1>1 DEF Init, TypeOK, Places
<1>3. PostingQueued
  BY DEF Init, PostingQueued
<1> QED BY <1>2, <1>3 DEF TypeInv

\* The steps of the main thread keep the types.
LEMMA TypeMain == TypeInv /\ MainThread => TypeInv'
<1> SUFFICES ASSUME TypeInv, MainThread PROVE TypeInv'
  OBVIOUS
<1> USE DEF TypeInv, loopVars, Places, Look
<1>1. CASE StartThread
  BY <1>1 DEF StartThread, TypeOK, PostingQueued
<1>2. CASE CheckTerminate
  BY <1>2, TimesAssumption DEF CheckTerminate, TypeOK, PostingQueued
<1>3. CASE ReadHead
  BY <1>3 DEF ReadHead, TypeOK, PostingQueued
<1>4. CASE PostDone
  BY <1>4, BoundsAssumption DEF PostDone, TypeOK, PostingQueued
<1>5. CASE QueueEmpty
  <2>1. override_interval' \in Int /\ fails' \in Nat /\ spent' \in Int
    BY <1>5, TimesAssumption, ElapsedIsInt DEF QueueEmpty
  <2>2. TypeOK'
    <3>1. main' \in Places /\ main \in Places
      BY <1>5 DEF QueueEmpty, TypeOK
    <3>2. asked' \in [term : Places \cup {"no"}, usr1 : Places \cup {"no"}] /\ naps' \in Nat
      BY <1>5 DEF QueueEmpty, TypeOK
    <3>3. failed' \in BOOLEAN
      BY <1>5, Zenon DEF QueueEmpty, TypeOK
    <3> HIDE DEF Places, Look
    <3> QED BY <1>5, <2>1, <3>1, <3>2, <3>3, Zenon DEF QueueEmpty, TypeOK
  <2> QED BY <1>5, <2>2 DEF QueueEmpty, PostingQueued
<1>6. CASE PostFailed
  <2>1. NETWORK_FAILURE_BACKOFF_MULTIPLIER * override_interval \in Int
    BY DEF TypeOK, NETWORK_FAILURE_BACKOFF_MULTIPLIER
  <2>2. override_interval' \in Int
    BY <1>6, <2>1, WrapIsInt DEF PostFailed
  <2>3. interval' \in Int
    BY <1>6, TimesAssumption DEF PostFailed, MIN, TypeOK
  <2>4. fails' \in Nat /\ spent' \in Int
    BY <1>6, CountIsNat, ElapsedIsInt DEF PostFailed, TypeOK
  <2>5. TypeOK'
    <3>1. main' \in Places /\ main \in Places
      BY <1>6 DEF PostFailed, TypeOK
    <3>2. asked' \in [term : Places \cup {"no"}, usr1 : Places \cup {"no"}] /\ naps' \in Nat
      BY <1>6 DEF PostFailed, TypeOK
    <3>3. failed' \in BOOLEAN
      BY <1>6, Zenon DEF PostFailed, TypeOK
    <3> HIDE DEF Places, Look
    <3> QED BY <1>6, <2>2, <2>3, <2>4, <3>1, <3>2, <3>3, Zenon DEF PostFailed, TypeOK
  <2> QED BY <1>6, <2>5 DEF PostFailed, PostingQueued
<1>7. CASE DecideToSleep
  BY <1>7 DEF DecideToSleep, TypeOK, PostingQueued
<1>8. CASE Sleep
  BY <1>8 DEF Sleep, TypeOK, PostingQueued
<1>9. CASE WakeUp
  BY <1>9 DEF WakeUp, TypeOK, PostingQueued
<1>10. CASE Exit
  BY <1>10 DEF Exit, TypeOK, PostingQueued
<1> QED BY <1>1, <1>2, <1>3, <1>4, <1>5, <1>6, <1>7, <1>8, <1>9, <1>10 DEF MainThread

\* Signals keep the types.
LEMMA TypeSignals == TypeInv /\ (SigUsr1 \/ SigTerm \/ ShutdownSocket) => TypeInv'
<1> SUFFICES ASSUME TypeInv, SigUsr1 \/ SigTerm \/ ShutdownSocket PROVE TypeInv'
  OBVIOUS
<1> USE DEF TypeInv, loopVars, Places, Look
<1>1. CASE SigUsr1
  <2>1. signals' \in Nat
    BY <1>1 DEF SigUsr1, TypeOK
  <2>2. asked' \in [term : Places \cup {"no"}, usr1 : Places \cup {"no"}]
    BY <1>1 DEF SigUsr1, TypeOK
  <2>3. main' \in {"check", main}
    BY <1>1 DEF SigUsr1
  <2>4. TypeOK'
    BY <1>1, <2>1, <2>2, <2>3 DEF SigUsr1, TypeOK, Places
  <2> QED BY <1>1, <2>3, <2>4 DEF SigUsr1, PostingQueued
<1>2. CASE SigTerm
  BY <1>2 DEF SigTerm, TypeOK, PostingQueued
<1>3. CASE ShutdownSocket
  <2>1. shut' \in BOOLEAN
    BY <1>3, Zenon DEF ShutdownSocket
  <2>2. main' \in Places /\ (main' = "posting" => main = "posting")
    BY <1>3 DEF ShutdownSocket, TypeOK
  <2> HIDE DEF Places
  <2>3. TypeOK'
    BY <1>3, <2>1, <2>2 DEF ShutdownSocket, TypeOK
  <2> QED BY <1>3, <2>2, <2>3 DEF ShutdownSocket, PostingQueued
<1> QED BY <1>1, <1>2, <1>3

\* The IPC thread and its clients keep the types.
LEMMA TypeOthers == TypeInv /\ (IpcThread \/ ticosd_ipc_sendmsg \/ UNCHANGED vars) => TypeInv'
<1> SUFFICES ASSUME TypeInv, IpcThread \/ ticosd_ipc_sendmsg \/ UNCHANGED vars PROVE TypeInv'
  OBVIOUS
<1> USE BoundsAssumption DEF TypeInv, loopVars, IpcStep
<1>1. CASE CreateSocket \/ BindSocket
  BY <1>1 DEF CreateSocket, BindSocket, TypeOK, PostingQueued
<1>2. CASE TestTerminate
  BY <1>2 DEF TestTerminate, TypeOK, PostingQueued
<1>3. CASE Receive
  BY <1>3 DEF Receive, TypeOK, PostingQueued
<1>4. CASE HandleMessage
  BY <1>4 DEF HandleMessage, TypeOK, PostingQueued
<1>5. CASE ticosd_ipc_sendmsg
  BY <1>5 DEF ticosd_ipc_sendmsg, TypeOK, PostingQueued
<1>6. CASE UNCHANGED vars
  BY <1>6 DEF vars, TypeOK, PostingQueued
<1> QED BY <1>1, <1>2, <1>3, <1>4, <1>5, <1>6 DEF IpcThread

\* The variables have their types, for every width of int and whatever is
\* done to the clock: override_interval stays a number when it overflows,
\* the sleep is never negative, and prv_ticosd_process_tx_queue never
\* completes a read of an empty queue.
THEOREM TypeCorrect == Spec => []TypeOK
<1>1. TypeInv /\ [Next]_vars => TypeInv'
  BY TypeMain, TypeSignals, TypeOthers DEF Next
<1>2. TypeInv => TypeOK
  BY DEF TypeInv
<1> QED BY <1>1, <1>2, TypeInit, PTL DEF Spec

-----------------------------------------------------------------------------
(* The back-off *)

Less == {ss \in Nat \X Nat : ss[1] < ss[2]}

\* A nonempty set of naturals has a least element.
LEMMA LeastNatural ==
  ASSUME NEW T, T \subseteq Nat, T # {}
  PROVE  \E x \in T : \A y \in T : x <= y
<1>1. OpToRel(<, Nat) = Less
  BY Zenon DEF OpToRel, Less
<1>2. PICK x \in T : \A y \in T : ~ (<<y, x>> \in Less)
  BY <1>1, NatLessThanWellFounded, WFMin
<1>3. ASSUME NEW y \in T PROVE x <= y
  <2>1. y < x => <<y, x>> \in Less
    BY DEF Less
  <2> QED BY <1>2, <2>1
<1> QED BY <1>3

\* Doubled is a function that satisfies its own recursive equation.
LEMMA DoubledEquation ==
  Doubled = [n \in 0 .. MaxFails |-> IF n = 0 THEN FirstBackoff ELSE 2 * Doubled[n - 1]]
<1> DEFINE R(f, n) == IF n = 0 THEN FirstBackoff ELSE 2 * f[n - 1]
           Solved(m) == \E f : f = [n \in 0 .. m |-> R(f, n)]
           T == {m \in Nat : ~Solved(m)}
<1>1. Doubled = CHOOSE f : f = [n \in 0 .. MaxFails |-> R(f, n)]
  BY DEF Doubled
<1>2. ASSUME T # {} PROVE FALSE
  <2>1. PICK m \in T : \A j \in T : m <= j
    BY <1>2, LeastNatural
  <2>2. m # 0
    <3>1. Solved(0)
      <4> DEFINE f == [n \in 0 .. 0 |-> FirstBackoff]
      <4>1. f = [n \in 0 .. 0 |-> R(f, n)]
        OBVIOUS
      <4> QED BY <4>1
    <3> QED BY <3>1
  <2>3. Solved(m - 1)
    <3> HIDE DEF Solved
    <3>1. m - 1 \in Nat /\ ~(m <= m - 1)
      BY <2>2
    <3> QED BY <2>1, <3>1
  <2>4. PICK g : g = [n \in 0 .. m - 1 |-> R(g, n)]
    BY <2>3
  <2> DEFINE f == [n \in 0 .. m |-> IF n = m THEN 2 * g[m - 1] ELSE g[n]]
  <2>5. ASSUME NEW n \in 0 .. m PROVE f[n] = R(f, n)
    <3>1. CASE n = m
      <4>1. m - 1 \in 0 .. m /\ m - 1 # m
        BY <2>2
      <4> QED BY <2>2, <3>1, <4>1
    <3>2. CASE n # m
      <4>1. n \in 0 .. m - 1 /\ (n # 0 => n - 1 \in 0 .. m /\ n - 1 # m)
        BY <3>2
      <4>2. g[n] = R(g, n)
        BY <2>4, <4>1
      <4> QED BY <3>2, <4>1, <4>2
    <3> QED BY <3>1, <3>2
  <2>6. f = [n \in 0 .. m |-> R(f, n)]
    BY <2>5
  <2> QED BY <2>1, <2>6
<1>3. \E f : f = [n \in 0 .. MaxFails |-> R(f, n)]
  <2>1. Solved(MaxFails)
    <3> HIDE DEF Solved
    <3>1. ~Solved(MaxFails) => MaxFails \in T
      BY BoundsAssumption
    <3> QED BY <1>2, <3>1
  <2> QED BY <2>1
<1> HIDE DEF R
<1>4. Doubled = [n \in 0 .. MaxFails |-> R(Doubled, n)]
  BY <1>1, <1>3
<1> QED BY <1>4 DEF R

\* The back-offs are positive numbers, each twice the one before.
LEMMA DoubledIs ==
  /\ Doubled[0] = FirstBackoff
  /\ \A n \in 0 .. MaxFails : Doubled[n] \in Nat
  /\ \A n \in 0 .. MaxFails - 1 : Doubled[n + 1] = 2 * Doubled[n]
<1>1. \A n \in 0 .. MaxFails : Doubled[n] = IF n = 0 THEN FirstBackoff ELSE 2 * Doubled[n - 1]
  BY DoubledEquation
<1>2. Doubled[0] = FirstBackoff
  BY <1>1, BoundsAssumption
<1>3. \A n \in 0 .. MaxFails - 1 : Doubled[n + 1] = 2 * Doubled[n]
  <2> SUFFICES ASSUME NEW n \in 0 .. MaxFails - 1 PROVE Doubled[n + 1] = 2 * Doubled[n]
    OBVIOUS
  <2>1. n + 1 \in 0 .. MaxFails /\ n + 1 # 0 /\ (n + 1) - 1 = n
    BY BoundsAssumption
  <2> QED BY <1>1, <2>1
<1> DEFINE T == {n \in Nat : n <= MaxFails /\ ~(Doubled[n] \in Nat)}
<1>4. ASSUME T # {} PROVE FALSE
  <2>1. PICK n \in T : \A j \in T : n <= j
    BY <1>4, LeastNatural
  <2>2. n # 0
    BY <1>2, <2>1, TimesAssumption
  <2>3. n - 1 \in Nat /\ n - 1 <= MaxFails /\ ~(n <= n - 1) /\ n \in 0 .. MaxFails
    BY <2>1, <2>2, BoundsAssumption
  <2>4. Doubled[n - 1] \in Nat
    BY <2>1, <2>3
  <2>5. Doubled[n] = 2 * Doubled[n - 1]
    BY <1>1, <2>2, <2>3
  <2> QED BY <2>1, <2>4, <2>5
<1>5. \A n \in 0 .. MaxFails : Doubled[n] \in Nat
  BY <1>4
<1> QED BY <1>2, <1>3, <1>5

\* As long as it fits in an int, override_interval is the back-off to come.
OverrideDoubles ==
  fails < MaxFails /\ Doubled[fails] < IntHalf => override_interval = Doubled[fails]

\* A failed pass has been counted.
FailsCounted ==
  /\ fails \in Nat /\ fails <= MaxFails
  /\ failed /\ fails < MaxFails => fails >= 1

\* BackoffDoubles speaks of the back-off before; with the one to come, which
\* PostFailed computes from it, it is inductive.
BackoffInv == FailsCounted /\ OverrideDoubles /\ BackoffDoubles

\* Twice a number is computed without overflow if it fits.
LEMMA WrapFits ==
  ASSUME NEW x \in Nat, x < IntHalf
  PROVE  WrapInt(x) = x
<1>1. (x + IntHalf) % (2 * IntHalf) = x + IntHalf
  BY WidthAssumption
<1> QED BY <1>1, WidthAssumption DEF WrapInt

\* The steps that compute the back-off keep the invariant.
LEMMA BackoffFailed == BackoffInv /\ PostFailed => BackoffInv'
<1> SUFFICES ASSUME BackoffInv, PostFailed PROVE BackoffInv'
  OBVIOUS
<1>1. /\ main' = "rest" /\ failed' = TRUE
      /\ interval' = MIN(override_interval, Refresh)
      /\ override_interval' = WrapInt(2 * override_interval)
      /\ fails' = IF fails + 1 <= MaxFails THEN fails + 1 ELSE MaxFails
  BY DEF PostFailed, NETWORK_FAILURE_BACKOFF_MULTIPLIER, MIN
<1>2. fails \in Nat /\ fails <= MaxFails /\ MaxFails \in Nat
  BY BoundsAssumption DEF BackoffInv, FailsCounted
<1>3. FailsCounted'
  BY <1>1, <1>2 DEF FailsCounted
<1>4. ASSUME fails' < MaxFails
      PROVE  /\ fails' = fails + 1 /\ fails < MaxFails /\ fails' - 1 = fails
             /\ Doubled[fails] \in Nat /\ Doubled[fails'] = 2 * Doubled[fails]
  <2>1. fails' = fails + 1 /\ fails < MaxFails /\ fails' - 1 = fails
    BY <1>1, <1>2, <1>4
  <2>2. fails \in 0 .. MaxFails /\ fails \in 0 .. MaxFails - 1
    BY <1>2, <2>1
  <2> QED BY <2>1, <2>2, DoubledIs
<1>5. ASSUME fails' < MaxFails, Doubled[fails] < IntHalf
      PROVE  override_interval = Doubled[fails]
  BY <1>4, <1>5 DEF BackoffInv, OverrideDoubles
<1>6. OverrideDoubles'
  <2> SUFFICES ASSUME fails' < MaxFails, Doubled[fails'] < IntHalf
               PROVE  override_interval' = Doubled[fails']
    BY DEF OverrideDoubles, Doubled
  <2>1. Doubled[fails] < IntHalf /\ 2 * Doubled[fails] \in Nat
    BY <1>4, WidthAssumption
  <2> QED BY <1>1, <1>4, <1>5, <2>1, WrapFits
<1>7. BackoffDoubles'
  <2> SUFFICES ASSUME fails' < MaxFails, Doubled[fails' - 1] < IntHalf
               PROVE  interval' = MIN(Doubled[fails' - 1], Refresh)
    BY DEF BackoffDoubles, Doubled
  <2> QED BY <1>1, <1>4, <1>5
<1> QED BY <1>3, <1>6, <1>7 DEF BackoffInv

\* Every step keeps the invariant.
LEMMA BackoffStep == BackoffInv /\ [Next]_vars => BackoffInv'
<1> SUFFICES ASSUME BackoffInv, [Next]_vars PROVE BackoffInv'
  OBVIOUS
<1>1. CASE PostFailed
  BY <1>1, BackoffFailed
<1>2. CASE QueueEmpty
  <2>1. fails' = 0 /\ failed' = FALSE /\ override_interval' = FirstBackoff
    BY <1>2 DEF QueueEmpty
  <2>2. FailsCounted'
    BY <2>1, BoundsAssumption DEF FailsCounted
  <2>3. OverrideDoubles'
    BY <2>1, DoubledIs DEF OverrideDoubles
  <2>4. BackoffDoubles'
    BY <2>1 DEF BackoffDoubles
  <2> QED BY <2>2, <2>3, <2>4 DEF BackoffInv
<1>3. ASSUME /\ UNCHANGED <<override_interval, fails, failed>>
             /\ main' = "rest" => main = "rest" /\ interval' = interval
      PROVE  BackoffInv'
  <2>1. FailsCounted' /\ OverrideDoubles'
    BY <1>3 DEF BackoffInv, FailsCounted, OverrideDoubles
  <2>2. BackoffDoubles'
    BY <1>3 DEF BackoffInv, BackoffDoubles
  <2> QED BY <2>1, <2>2 DEF BackoffInv
<1>4. CASE StartThread \/ CheckTerminate \/ ReadHead \/ PostDone
  BY <1>3, <1>4 DEF StartThread, CheckTerminate, ReadHead, PostDone, loopVars
<1>5. CASE DecideToSleep \/ Sleep \/ WakeUp \/ Exit
  BY <1>3, <1>5 DEF DecideToSleep, Sleep, WakeUp, Exit, loopVars
<1>6. CASE SigUsr1 \/ SigTerm \/ ShutdownSocket
  BY <1>3, <1>6 DEF SigUsr1, SigTerm, ShutdownSocket, loopVars
<1>7. CASE IpcThread \/ ticosd_ipc_sendmsg
  BY <1>3, <1>7 DEF IpcThread, IpcStep, CreateSocket, BindSocket, TestTerminate, Receive,
                    HandleMessage, ticosd_ipc_sendmsg, loopVars
<1>8. CASE UNCHANGED vars
  BY <1>3, <1>8 DEF vars, loopVars
<1> QED BY <1>1, <1>2, <1>4, <1>5, <1>6, <1>7, <1>8 DEF Next, MainThread

\* For every first back-off, refresh interval and width of int: as long as
\* the doubled back-off fits in an int, prv_ticosd_process_loop waits the first
\* back-off, then twice that, and so on up to the refresh interval, and a pass
\* that empties the queue starts it again.
THEOREM BacksOff == Spec => []BackoffDoubles
<1>1. Init => BackoffInv
  <2> SUFFICES ASSUME Init PROVE BackoffInv
    OBVIOUS
  <2>1. fails = 0 /\ failed = FALSE /\ override_interval = FirstBackoff
    BY DEF Init
  <2> QED BY <2>1, DoubledIs, BoundsAssumption
          DEF BackoffInv, FailsCounted, OverrideDoubles, BackoffDoubles
<1>2. BackoffInv => BackoffDoubles
  BY DEF BackoffInv
<1> QED BY <1>1, <1>2, BackoffStep, PTL DEF Spec

-----------------------------------------------------------------------------
\* However long the network has been failing, the main thread sleeps between
\* 1 second and the refresh interval, never longer unless the clock was set
\* back meanwhile: overflow of override_interval cannot make
\* prv_ticosd_process_loop oversleep.
THEOREM NeverOversleeps == Spec => []NapBounded
<1>1. SleepInv => NapBounded
  BY DEF SleepInv
<1> QED BY <1>1, SleepInit, SleepStep, PTL DEF Spec

\* For every timing of the signals: the main thread sleeps on a SIGTERM only if
\* it came between the test of terminate and sleep(), and on a SIGUSR1 only if
\* it came after the last look at the queue; every other SIGUSR1 is followed by
\* a look at the queue before the next sleep(), and none waits for two sleeps
\* (prv_ticosd_sig_handler, prv_ticosd_process_loop).
THEOREM SignalsKeepAwake == Spec => []AwakeUnlessMissed
<1>1. SleepInv => AwakeUnlessMissed
  BY DEF SleepInv, MissedBeforeSleep, AwakeUnlessMissed
<1> QED BY <1>1, SleepInit, SleepStep, PTL DEF Spec
=============================================================================
