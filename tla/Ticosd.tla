-------------------------------- MODULE Ticosd --------------------------------
(***************************************************************************)
(* The two threads of ticosd and its signals (src/ticosd.c, util/ipc.c).   *)
(* The main thread empties the transmit queue and sleeps until the next    *)
(* refresh, or for a back-off time after a network failure.  The IPC       *)
(* thread receives datagrams from ticosctl, collectd and the core handler  *)
(* and lets the plugins queue messages.  SIGUSR1 asks for the queue to be  *)
(* emptied now; SIGTERM, SIGHUP and SIGINT end the daemon.  Signal handlers *)
(* run on the main thread.                                                 *)
(*                                                                         *)
(* The queue is a number of messages here (TxQueue has its detail), and    *)
(* the outcome of a post is any that src/network.c distinguishes.          *)
(***************************************************************************)
EXTENDS Integers

CONSTANTS
  FirstBackoff,   \* NETWORK_FAILURE_FIRST_BACKOFF_SECONDS
  Refresh,        \* refresh_interval_seconds
  IntHalf,        \* an int is from -IntHalf up to, not including, IntHalf
  Spent,          \* how long, in seconds, a pass over the queue may take
  SetBack,        \* how far the wall clock may be set back during a pass
  MaxQueued,      \* bound on the messages in the queue
  MaxMailbox,     \* datagrams that fit in the socket's receive buffer
  MaxFails,       \* consecutive failed passes are counted up to here
  MaxSignals      \* bound on the number of SIGUSR1

ASSUME TimesAssumption ==
  /\ FirstBackoff \in Nat /\ FirstBackoff >= 1
  /\ Refresh \in Nat /\ Refresh >= 1
  /\ Spent \subseteq Nat /\ SetBack \subseteq Nat
ASSUME WidthAssumption == IntHalf \in Nat /\ IntHalf >= 1
ASSUME BoundsAssumption ==
  /\ MaxQueued \in Nat /\ MaxMailbox \in Nat /\ MaxFails \in Nat /\ MaxSignals \in Nat

NETWORK_FAILURE_BACKOFF_MULTIPLIER == 2

VARIABLES
  main,                \* where the main thread is
  override_interval, interval, spent, nap, failed,    \* its local variables
  terminate,           \* handle->terminate
  handler,             \* the SIGTERM handler is between its two statements
  ipc,                 \* where the IPC thread is
  shut,                \* the IPC socket is shut down for reading
  mailbox,             \* datagrams in the IPC socket
  queued,              \* messages in the transmit queue
  enabled,             \* enable_data_collection
  fails, signals,      \* consecutive failed passes; SIGUSR1s so far
  \* history: where the main thread was when a SIGTERM, and the last SIGUSR1
  \* that no look at the queue has followed, came ("no": there is none); and
  \* the calls of sleep() since that SIGUSR1
  asked, naps

loopVars == <<override_interval, interval, spent, nap, failed, fails>>
vars == <<main, loopVars, terminate, handler, ipc, shut, mailbox, queued, enabled,
          signals, asked, naps>>

\* The int that two's complement makes of x.  Overflow of a signed int is
\* undefined in C; the doubling compiles to a shift or an addition, which wrap.
WrapInt(x) == ((x + IntHalf) % (2 * IntHalf)) - IntHalf

\* The difference of the two gettimeofday() around a pass.
Elapsed == Spent \cup {-s : s \in SetBack}

MIN(a, b) == IF a <= b THEN a ELSE b

Init ==
  /\ main = "load"
  /\ override_interval = FirstBackoff
  /\ interval = Refresh /\ spent = 0 /\ nap = 0 /\ failed = FALSE /\ fails = 0
  /\ terminate = FALSE /\ handler = FALSE
  /\ ipc = "none" /\ shut = FALSE /\ mailbox = 0
  /\ queued \in 0 .. MaxQueued     \* what the previous run left in the file
  /\ enabled \in BOOLEAN
  /\ signals = 0
  /\ asked = [term |-> "no", usr1 |-> "no"] /\ naps = 0

-----------------------------------------------------------------------------
(* The main thread.  It does not run while it is in the signal handler. *)

\* ticosd_main: the plugins are loaded, now the IPC thread is created.
StartThread ==
  /\ main = "load" /\ ~handler
  /\ main' = "check"
  /\ ipc' = "start"
  /\ UNCHANGED <<loopVars, terminate, handler, shut, mailbox, queued, enabled,
                 signals, asked, naps>>

\* Mutated form: the queue is looked at only when the refresh is due.
CheckTerminate_OnlyWhenDue ==
  /\ main = "check" /\ ~handler
  /\ main' \in IF terminate THEN {"join"} ELSE {"process", "rest"}
  /\ interval' = Refresh
  /\ UNCHANGED <<override_interval, spent, nap, failed, fails, terminate, handler, ipc,
                 shut, mailbox, queued, enabled, signals, asked, naps>>

\* The head of the loop.
CheckTerminate ==
  /\ main = "check" /\ ~handler
  /\ main' = IF terminate THEN "join" ELSE "process"
  /\ interval' = Refresh
  /\ UNCHANGED <<override_interval, spent, nap, failed, fails, terminate, handler, ipc,
                 shut, mailbox, queued, enabled, signals, asked, naps>>

\* The main thread looks at the queue: no SIGUSR1 waits for that any more.
Look == asked' = [asked EXCEPT !.usr1 = "no"] /\ naps' = 0

\* prv_ticosd_process_tx_queue asks for the head of the queue and gets one.
ReadHead ==
  /\ main = "process" /\ ~handler
  /\ enabled /\ queued > 0
  /\ main' = "posting"
  /\ Look
  /\ UNCHANGED <<loopVars, terminate, handler, ipc, shut, mailbox, queued, enabled,
                 signals>>

\* The post succeeded or is never to be retried; on to the next message.
PostDone ==
  /\ main = "posting" /\ ~handler
  /\ main' = "process"
  /\ queued' = queued - 1
  /\ UNCHANGED <<loopVars, terminate, handler, ipc, shut, mailbox, enabled, signals,
                 asked, naps>>

\* Mutated form: the back-off starts again only in the next run.
QueueEmpty_NoReset ==
  /\ main = "process" /\ ~handler
  /\ ~enabled \/ queued = 0
  /\ main' = "rest"
  /\ failed' = FALSE /\ fails' = 0
  /\ spent' \in Elapsed
  /\ Look
  /\ UNCHANGED <<override_interval, interval, nap, terminate, handler, ipc, shut, mailbox,
                 queued, enabled, signals>>

\* prv_ticosd_process_tx_queue returns true: the back-off starts again.
QueueEmpty ==
  /\ main = "process" /\ ~handler
  /\ ~enabled \/ queued = 0
  /\ main' = "rest"
  /\ override_interval' = FirstBackoff
  /\ failed' = FALSE /\ fails' = 0
  /\ spent' \in Elapsed
  /\ Look
  /\ UNCHANGED <<interval, nap, terminate, handler, ipc, shut, mailbox, queued, enabled,
                 signals>>

\* Mutated form: the back-off is not limited to the refresh interval.
PostFailed_NoMin ==
  /\ main = "posting" /\ ~handler
  /\ main' = "rest"
  /\ interval' = override_interval
  /\ override_interval' = WrapInt(NETWORK_FAILURE_BACKOFF_MULTIPLIER * override_interval)
  /\ failed' = TRUE /\ fails' = MIN(fails + 1, MaxFails)
  /\ spent' \in Elapsed
  /\ UNCHANGED <<nap, terminate, handler, ipc, shut, mailbox, queued, enabled, signals,
                 asked, naps>>

\* The post is to be retried: prv_ticosd_process_tx_queue returns false.
PostFailed ==
  /\ main = "posting" /\ ~handler
  /\ main' = "rest"
  /\ interval' = MIN(override_interval, Refresh)
  /\ override_interval' = WrapInt(NETWORK_FAILURE_BACKOFF_MULTIPLIER * override_interval)
  /\ failed' = TRUE /\ fails' = MIN(fails + 1, MaxFails)
  /\ spent' \in Elapsed
  /\ UNCHANGED <<nap, terminate, handler, ipc, shut, mailbox, queued, enabled, signals,
                 asked, naps>>

\* Mutated form: the time the pass took is not compared with the interval.
DecideToSleep_NoElapsed ==
  /\ main = "rest" /\ ~handler
  /\ main' = IF ~terminate THEN "presleep" ELSE "check"
  /\ nap' = IF ~terminate THEN interval - spent ELSE nap
  /\ UNCHANGED <<override_interval, interval, spent, failed, fails, terminate, handler, ipc,
                 shut, mailbox, queued, enabled, signals, asked, naps>>

\* The test before the sleep, and the time to sleep.
DecideToSleep ==
  LET sleeps == ~terminate /\ interval > spent
  IN  /\ main = "rest" /\ ~handler
      /\ main' = IF sleeps THEN "presleep" ELSE "check"
      /\ nap' = IF sleeps THEN interval - spent ELSE nap
      /\ UNCHANGED <<override_interval, interval, spent, failed, fails, terminate, handler,
                     ipc, shut, mailbox, queued, enabled, signals, asked, naps>>

\* sleep() is entered; a signal that came before does not cut it short.
Sleep ==
  /\ main = "presleep" /\ ~handler
  /\ main' = "sleeping"
  /\ naps' = IF asked.usr1 = "no" THEN naps ELSE naps + 1
  /\ UNCHANGED <<loopVars, terminate, handler, ipc, shut, mailbox, queued, enabled,
                 signals, asked>>

\* The time is over.
WakeUp ==
  /\ main = "sleeping" /\ ~handler
  /\ main' = "check"
  /\ UNCHANGED <<loopVars, terminate, handler, ipc, shut, mailbox, queued, enabled,
                 signals, asked, naps>>

\* pthread_join returns; plugins, network and queue are destroyed.
Exit ==
  /\ main = "join" /\ ~handler
  /\ ipc = "closed"
  /\ main' = "exited"
  /\ UNCHANGED <<loopVars, terminate, handler, ipc, shut, mailbox, queued, enabled,
                 signals, asked, naps>>

-----------------------------------------------------------------------------
(* Signals, taken by the main thread *)

\* ticosd_send_flush_queue_signal of ticosctl, and prv_ticosd_sig_handler.
SigUsr1 ==
  /\ main # "exited" /\ ~handler
  /\ signals < MaxSignals
  /\ signals' = signals + 1
  /\ main' = IF main = "sleeping" THEN "check" ELSE main
  /\ asked' = [asked EXCEPT !.usr1 = main]
  /\ UNCHANGED <<loopVars, terminate, handler, ipc, shut, mailbox, queued, enabled, naps>>

\* prv_ticosd_sig_handler for SIGTERM: its first statement ...
SigTerm ==
  /\ main # "exited" /\ ~handler
  /\ ~terminate
  /\ terminate' = TRUE
  /\ handler' = TRUE
  /\ asked' = [asked EXCEPT !.term = main]
  /\ UNCHANGED <<main, loopVars, ipc, shut, mailbox, queued, enabled, signals, naps>>

\* Mutated form: the handler only sets terminate.
ShutdownSocket_Forgotten ==
  /\ handler
  /\ handler' = FALSE
  /\ main' = IF main = "sleeping" THEN "check" ELSE main
  /\ UNCHANGED <<loopVars, terminate, ipc, shut, mailbox, queued, enabled, signals,
                 asked, naps>>

\* ... and its second, which has no effect if there is no socket.
ShutdownSocket ==
  /\ handler
  /\ handler' = FALSE
  /\ shut' = (shut \/ ipc \in {"bind", "test", "recv", "handle"})
  /\ main' = IF main = "sleeping" THEN "check" ELSE main
  /\ UNCHANGED <<loopVars, terminate, ipc, mailbox, queued, enabled, signals, asked, naps>>

-----------------------------------------------------------------------------
(* The IPC thread, prv_ipc_process_thread *)

IpcStep == UNCHANGED <<main, loopVars, terminate, handler, enabled, signals, asked, naps>>

CreateSocket ==
  /\ ipc = "start"
  /\ ipc' \in {"bind", "closed"}     \* closed: socket() failed
  /\ IpcStep /\ UNCHANGED <<shut, mailbox, queued>>

BindSocket ==
  /\ ipc = "bind"
  /\ ipc' \in {"test", "closed"}     \* closed: unlink() or bind() failed
  /\ IpcStep /\ UNCHANGED <<shut, mailbox, queued>>

\* The head of the loop; at its end the socket is closed and removed.
TestTerminate ==
  /\ ipc = "test"
  /\ ipc' = IF terminate THEN "closed" ELSE "recv"
  /\ mailbox' = IF terminate THEN 0 ELSE mailbox
  /\ IpcStep /\ UNCHANGED <<shut, queued>>

\* recvmsg returns a datagram, or nothing once the socket is shut down.
Receive ==
  /\ ipc = "recv"
  /\ \/ mailbox > 0 /\ ipc' = "handle" /\ mailbox' = mailbox - 1
     \/ mailbox = 0 /\ shut /\ ipc' = "test" /\ UNCHANGED mailbox
  /\ IpcStep /\ UNCHANGED <<shut, queued>>

\* ticosd_plugins_process_ipc: the plugin queues a message with ticosd_txdata,
\* which does nothing if data collection is disabled, or rejects the datagram.
HandleMessage ==
  /\ ipc = "handle"
  /\ ipc' = "test"
  /\ \/ enabled /\ queued < MaxQueued /\ queued' = queued + 1
     \/ UNCHANGED queued
  /\ IpcStep /\ UNCHANGED <<shut, mailbox>>

\* ticosd_ipc_sendmsg in another process, when the socket takes the datagram.
ticosd_ipc_sendmsg ==
  /\ ipc \in {"test", "recv", "handle"}
  /\ ~shut
  /\ mailbox < MaxMailbox
  /\ mailbox' = mailbox + 1
  /\ UNCHANGED <<main, loopVars, terminate, handler, ipc, shut, queued, enabled, signals,
                 asked, naps>>

-----------------------------------------------------------------------------
MainThread ==
  \/ StartThread \/ CheckTerminate \/ ReadHead \/ PostDone \/ QueueEmpty \/ PostFailed
  \/ DecideToSleep \/ Sleep \/ WakeUp \/ Exit
IpcThread == CreateSocket \/ BindSocket \/ TestTerminate \/ Receive \/ HandleMessage

Next ==
  \/ MainThread
  \/ IpcThread
  \/ SigUsr1 \/ SigTerm \/ ShutdownSocket
  \/ ticosd_ipc_sendmsg

\* Both threads run, the handler finishes, sleep() ends and curl returns, with
\* whatever outcome.
Fairness == WF_vars(MainThread) /\ WF_vars(IpcThread) /\ WF_vars(ShutdownSocket)

Spec == Init /\ [][Next]_vars /\ Fairness

-----------------------------------------------------------------------------
Places == {"load", "check", "process", "posting", "rest", "presleep", "sleeping",
           "join", "exited"}

\* The types of the variables.
TypeOK ==
  /\ main \in Places
  /\ ipc \in {"none", "start", "bind", "test", "recv", "handle", "closed"}
  /\ override_interval \in Int /\ interval \in Int /\ spent \in Int /\ nap \in Nat
  /\ terminate \in BOOLEAN /\ handler \in BOOLEAN /\ shut \in BOOLEAN
  /\ failed \in BOOLEAN /\ enabled \in BOOLEAN
  /\ mailbox \in 0 .. MaxMailbox /\ queued \in 0 .. MaxQueued
  /\ fails \in Nat /\ signals \in Nat
  /\ asked \in [term : Places \cup {"no"}, usr1 : Places \cup {"no"}] /\ naps \in Nat

\* The main thread never sleeps longer than the refresh interval, however long
\* the network has been failing and even after override_interval has
\* overflowed, unless the clock was set back during the pass: then by no more
\* than the clock was (prv_ticosd_process_loop: "back off up to the entire
\* update interval").
NapBounded ==
  main \in {"presleep", "sleeping"} =>
    nap \in 1 .. Refresh + (IF spent < 0 THEN -spent ELSE 0)

\* The first back-off, doubled n times.
Doubled[n \in 0 .. MaxFails] == IF n = 0 THEN FirstBackoff ELSE 2 * Doubled[n - 1]

\* After the n-th failed pass in a row the interval is the first back-off
\* doubled n - 1 times, but at most the refresh interval, as long as that
\* number fits in an int; and a success in between starts it again.
BackoffDoubles ==
  /\ main = "rest" /\ failed
  /\ fails < MaxFails /\ Doubled[fails - 1] < IntHalf
  => interval = MIN(Doubled[fails - 1], Refresh)

\* After a failed pass the daemon pauses before it tries again, unless the
\* pass itself took long (prv_ticosd_process_loop: "call failed, back off").
\* The code does not have this property: override_interval overflows.
PausesAfterFailure == main = "rest" /\ failed => interval >= 1

\* The daemon sleeps on a request only if it came where nothing remembers it.
\* A SIGTERM is remembered by handle->terminate, so only one that comes between
\* the test of terminate and sleep() is slept on.  A SIGUSR1 leaves nothing
\* behind but the end of a sleep(): one that comes after the last look at the
\* queue, during a post that fails or at any point from there to sleep(), the
\* test of terminate included, is slept on, although it is sent "to immediately
\* process the queue".  One that comes at any other time is followed by a look
\* at the queue before the next sleep(), and no SIGUSR1 waits for two sleeps.
AwakeUnlessMissed ==
  /\ main = "sleeping" /\ ~handler /\ terminate => asked.term = "presleep"
  /\ main = "sleeping" /\ asked.usr1 # "no" => asked.usr1 \in {"posting", "rest", "presleep"}
  /\ naps <= 1

\* Told to end, the daemon ends: the IPC thread gets out of recvmsg whatever
\* point of its start-up or of its loop the signal found it at, so that
\* pthread_join returns.
Ends == terminate ~> main = "exited"
=============================================================================
