----------------------------- MODULE CoreHandler -----------------------------
(***************************************************************************)
(* How a core dump reaches ticosd.  The kernel starts ticos-core-handler   *)
(* for a process that crashes and writes the core dump into a pipe, the    *)
(* handler's stdin.  The handler sends the pipe to ticosd in a datagram,   *)
(* with retries, and waits for an answer with a timeout; ticosd's IPC      *)
(* thread (ticosd.c) gives the datagram to the coredump plugin, which      *)
(* reads the head of the stream and takes the memory from /proc/<pid>/mem. *)
(* ticosctl write-attributes uses the same socket.                         *)
(*                                                                         *)
(* The crashed process is there as long as the kernel has not written all, *)
(* and the kernel waits while the pipe is full and somebody has its other  *)
(* end.  Nobody says who that is to be: the handler that waits for an      *)
(* answer which ticosd never sends, the datagram in the socket, or ticosd. *)
(***************************************************************************)
EXTENDS Naturals, Sequences

CONSTANTS
  Pids,          \* numbers of processes, which are used again
  Ctls,          \* ticosctl write-attributes
  MaxDumps,      \* bound on the crashes
  MaxUses,       \* bound on the processes with the same number
  Small,         \* numbers of the processes whose core dumps are short
  HeadSize,      \* length of the part of a core dump that ticosd reads
  PipeSize,      \* room of a pipe
  QueueLen,      \* datagrams that a socket holds
  tx_retry_count,
  MaxEnds,       \* bound on the ends of ticosd
  MaxFaults      \* bound on other events: signals, SIGKILL, calls that fail

Dumps == 1 .. MaxDumps
NoDump == 0

ASSUME BoundsAssumption ==
  /\ \A n \in {MaxDumps, MaxEnds, MaxFaults, tx_retry_count} : n \in Nat
  /\ \A n \in {MaxUses, PipeSize, QueueLen, HeadSize} : n \in Nat \ {0}
  /\ Pids # {} /\ Small \subseteq Pids

\* The datagrams.
Core(d) == [plugin |-> "CORE", of |-> d]
Attributes(c) == [plugin |-> "ATTRIBUTES", of |-> c]
Nothing == [plugin |-> "", of |-> NoDump]
Messages == {Core(d) : d \in Dumps} \cup {Attributes(c) : c \in Ctls}

VARIABLES
  process,         \* per number: "running", "dumping" or "gone", and how often used
  \* per core dump: its process, what the kernel has still to write, what is
  \* in the pipe
  dump,
  dumped,          \* number of core dumps so far
  handler, tries,  \* per core dump: where ticos-core-handler is, and its counter i
  ctl,             \* per ticosctl: where it is
  up,              \* whether ticosd has its socket
  socket,          \* datagrams waiting there
  ipc_rx_buffer,   \* the last datagram received
  \* the IPC thread: where it is, the plugin's file_stream, the process whose
  \* memory it has opened, and what it has read of the stream
  ipc, file_stream, mem, taken,
  \* history: how often each message was queued, core dumps ended by SIGKILL,
  \* how often recvmsg has failed
  queued, killed, failures,
  faults, ends

kernel == <<process, dump, dumped, killed>>
clients == <<handler, tries, ctl>>
thread == <<ipc_rx_buffer, ipc, file_stream, mem, taken>>
history == <<queued, failures, ends>>
vars == <<kernel, clients, up, socket, thread, history, faults>>

Init ==
  /\ process = [p \in Pids |-> [state |-> "running", use |-> 1]]
  /\ dump = [d \in Dumps |-> [pid |-> CHOOSE p \in Pids : TRUE, use |-> 0,
                              left |-> 0, pipe |-> 0]]
  /\ dumped = 0
  /\ handler = [d \in Dumps |-> "none"] /\ tries = [d \in Dumps |-> 0]
  /\ ctl = [c \in Ctls |-> "sending"]
  /\ up = FALSE /\ socket = <<>> /\ ipc_rx_buffer = Nothing
  /\ ipc = "recvmsg" /\ file_stream = NoDump /\ mem = 0 /\ taken = 0
  /\ queued = [m \in Messages |-> 0] /\ killed = {} /\ failures = 0
  /\ faults = 0 /\ ends = 0

Fault == faults < MaxFaults /\ faults' = faults + 1

\* A core dump just fits into the pipe once ticosd has read its part, or not.
Size(p) == HeadSize + PipeSize + (IF p \in Small THEN 0 ELSE 1)

InSocket(m) == \E i \in 1 .. Len(socket) : socket[i] = m

\* Whether somebody has the reading end of the pipe.
HasReader(d) ==
  \/ handler[d] \in {"sending", "shut", "waiting", "untimed"}
  \/ InSocket(Core(d))
  \/ file_stream = d

\* The process that is dumped still exists.
Dumping(d) == process[dump[d].pid] = [state |-> "dumping", use |-> dump[d].use]

-----------------------------------------------------------------------------
(* The kernel *)

Crash(p) ==
  /\ process[p].state = "running" /\ dumped < MaxDumps
  /\ dumped' = dumped + 1
  /\ process' = [process EXCEPT ![p].state = "dumping"]
  /\ dump' = [dump EXCEPT ![dumped'] =
                [pid |-> p, use |-> process[p].use, left |-> Size(p), pipe |-> 0]]
  /\ handler' = [handler EXCEPT ![dumped'] = "sending"]
  /\ UNCHANGED <<killed, tries, ctl, up, socket, thread, history, faults>>

\* A part of the core dump goes into the pipe, or, if nobody could read it or
\* nothing is left, the dump ends and with it the process.
Dump(d) ==
  /\ d <= dumped /\ Dumping(d)
  /\ \/ /\ HasReader(d) /\ dump[d].left > 0 /\ dump[d].pipe < PipeSize
        /\ dump' = [dump EXCEPT ![d].left = @ - 1, ![d].pipe = @ + 1]
        /\ UNCHANGED process
     \/ /\ ~HasReader(d) \/ dump[d].left = 0
        /\ process' = [process EXCEPT ![dump[d].pid].state = "gone"]
        /\ dump' = [dump EXCEPT ![d].left = 0, ![d].pipe = IF HasReader(d) THEN @ ELSE 0]
  /\ UNCHANGED <<dumped, killed, clients, up, socket, thread, history, faults>>

\* SIGKILL ends the dump early.
Kill(d) ==
  /\ d <= dumped /\ Dumping(d) /\ Fault
  /\ process' = [process EXCEPT ![dump[d].pid].state = "gone"]
  /\ dump' = [dump EXCEPT ![d].left = 0]
  /\ killed' = killed \cup {d}
  /\ UNCHANGED <<dumped, clients, up, socket, thread, history>>

\* A new process gets the number.
Fork(p) ==
  /\ process[p].state = "gone" /\ process[p].use < MaxUses
  /\ process' = [process EXCEPT ![p] = [state |-> "running", use |-> @.use + 1]]
  /\ UNCHANGED <<dump, dumped, killed, clients, up, socket, thread, history, faults>>

-----------------------------------------------------------------------------
(* ticos-core-handler and ticosctl *)

\* Mutated form: i++ instead of ++i.
sendmsg_PostIncrement(d) ==
  /\ handler[d] = "sending" /\ ~up
  /\ tries' = [tries EXCEPT ![d] = @ + 1]
  /\ handler' = [handler EXCEPT ![d] = IF tries[d] > tx_retry_count THEN "exited" ELSE @]
  /\ UNCHANGED <<kernel, ctl, up, socket, thread, history, faults>>

\* The loop around sendmsg.  It blocks while the socket is full.
sendmsg(d) ==
  /\ \/ /\ handler[d] = "sending" /\ up /\ Len(socket) < QueueLen
        /\ socket' = Append(socket, Core(d))
        /\ handler' = [handler EXCEPT ![d] = "waiting"]
        /\ tries' = [tries EXCEPT ![d] = 0]
     \/ /\ handler[d] = "shut" \/ (handler[d] = "sending" /\ ~up)
        /\ \/ /\ tries[d] + 1 > tx_retry_count
              /\ handler' = [handler EXCEPT ![d] = "exited"]
              /\ tries' = [tries EXCEPT ![d] = 0]
           \/ /\ tries[d] + 1 <= tx_retry_count
              /\ tries' = [tries EXCEPT ![d] = @ + 1] /\ UNCHANGED handler
        /\ UNCHANGED socket
  /\ UNCHANGED <<kernel, ctl, up, thread, history, faults>>

\* Mutated form: recv has no timeout.
recv_NoTimeout(d) ==
  /\ handler[d] = "waiting" /\ FALSE
  /\ UNCHANGED vars

\* recv.  ticosd sends no answer, so that it always ends with the timeout, if
\* it has one.
recv(d) ==
  /\ handler[d] = "waiting"
  /\ handler' = [handler EXCEPT ![d] = "exited"]
  /\ UNCHANGED <<kernel, tries, ctl, up, socket, thread, history, faults>>

\* The timeout cannot be set: the handler only says so, and waits without one.
SetsockoptFails(d) ==
  /\ handler[d] = "waiting" /\ Fault
  /\ handler' = [handler EXCEPT ![d] = "untimed"]
  /\ UNCHANGED <<kernel, tries, ctl, up, socket, thread, history>>

\* SIGTERM, SIGHUP or SIGINT for the handler: it shuts its socket down, which
\* ends recv, and lets every later sendmsg fail.
prv_sig_handler(d) ==
  /\ handler[d] \in {"sending", "waiting", "untimed"} /\ Fault
  /\ handler' = [handler EXCEPT ![d] = IF @ = "sending" THEN "shut" ELSE "exited"]
  /\ UNCHANGED <<kernel, tries, ctl, up, socket, thread, history>>

\* The handler cannot create or bind its socket, or SIGKILL.
HandlerFails(d) ==
  /\ handler[d] \in {"sending", "waiting", "untimed"} /\ Fault
  /\ handler' = [handler EXCEPT ![d] = "exited"]
  /\ UNCHANGED <<kernel, tries, ctl, up, socket, thread, history>>

\* The one sendto of ticosctl write-attributes.
prv_cmd_write_attributes(c) ==
  /\ ctl[c] = "sending"
  /\ \/ /\ up /\ Len(socket) < QueueLen
        /\ socket' = Append(socket, Attributes(c))
        /\ ctl' = [ctl EXCEPT ![c] = "sent"]
     \/ /\ ~up
        /\ ctl' = [ctl EXCEPT ![c] = "failed"]
        /\ UNCHANGED socket
  /\ UNCHANGED <<kernel, handler, tries, up, thread, history, faults>>

-----------------------------------------------------------------------------
(* ticosd: the IPC thread and the plugins *)

Bind ==
  /\ ~up
  /\ up' = TRUE
  /\ UNCHANGED <<kernel, clients, socket, thread, history, faults>>

\* Back to recvmsg; the plugin has closed the descriptor.
Return == ipc' = "recvmsg" /\ file_stream' = NoDump /\ mem' = 0 /\ taken' = 0

\* prv_msg_handler of the attributes plugin: they are queued, or data collection
\* is disabled, there is no memory or ticosd_txdata fails.
AttributesHandler(m) == Return /\ queued' \in {queued, [queued EXCEPT ![m] = @ + 1]}

\* /proc/<pid>/mem is that of the process which has the number now.
ticos_init_core_elf_transformer_procfs_handler(p) ==
  process[p].state # "gone" /\ mem' = process[p].use

\* prv_msg_handler of the coredump plugin, up to the opening of the memory by
\* number: there is no descriptor, data collection is disabled, the rate or the
\* disk limit is reached, or there is no such process; or the conversion begins.
prv_msg_handler(d, fd) ==
  \/ Return
  \/ /\ fd # NoDump
     /\ ticos_init_core_elf_transformer_procfs_handler(dump[d].pid)
     /\ ipc' = "transform" /\ file_stream' = fd
     /\ UNCHANGED taken

\* Which plugin a datagram is for, if any.
ticosd_plugins_process_ipc(m, fd) ==
  \/ m = Nothing /\ Return /\ UNCHANGED queued
  \/ m.plugin = "ATTRIBUTES" /\ AttributesHandler(m)
  \/ m.plugin = "CORE" /\ prv_msg_handler(m.of, fd) /\ UNCHANGED queued

\* recvmsg gives a datagram and, for a core dump, a descriptor for the pipe,
\* unless none is free.
Receive ==
  LET m == Head(socket)
  IN  /\ up /\ ipc = "recvmsg" /\ socket # <<>>
      /\ ipc_rx_buffer' = m
      /\ socket' = Tail(socket)
      /\ \/ /\ ticosd_plugins_process_ipc(m, IF m.plugin = "CORE" THEN m.of ELSE NoDump)
            /\ UNCHANGED faults
         \/ /\ m.plugin = "CORE" /\ Fault
            /\ ticosd_plugins_process_ipc(m, NoDump)
      /\ UNCHANGED <<kernel, clients, up, failures, ends>>

\* Mutated form: the control buffer is not cleared for each recvmsg.
ReceiveFails_StaleControl ==
  /\ up /\ ipc = "recvmsg" /\ Fault
  /\ failures' = failures + 1
  /\ ticosd_plugins_process_ipc(ipc_rx_buffer,
       IF ipc_rx_buffer.plugin = "CORE" THEN ipc_rx_buffer.of ELSE NoDump)
  /\ UNCHANGED <<kernel, clients, up, socket, ipc_rx_buffer, ends>>

\* recvmsg fails.  Its -1 is a large size_t, and what is in the buffer is
\* processed again, but without a descriptor: the control buffer is new.
ReceiveFails ==
  /\ up /\ ipc = "recvmsg" /\ Fault
  /\ failures' = failures + 1
  /\ ticosd_plugins_process_ipc(ipc_rx_buffer, NoDump)
  /\ UNCHANGED <<kernel, clients, up, socket, ipc_rx_buffer, ends>>

\* Mutated form: the stream is read to its end, not only its head.
ReadStream_Whole ==
  LET d == file_stream
  IN  /\ ipc = "transform"
      /\ \/ /\ dump[d].pipe > 0
            /\ dump' = [dump EXCEPT ![d].pipe = @ - 1]
            /\ taken' = IF taken < HeadSize THEN taken + 1 ELSE taken
            /\ UNCHANGED <<ipc, file_stream, mem>>
         \/ /\ dump[d].pipe = 0 /\ ~Dumping(d)
            /\ ipc' = "copy" /\ UNCHANGED <<dump, file_stream, mem, taken>>
      /\ UNCHANGED <<process, dumped, killed, clients, up, socket, ipc_rx_buffer, history, faults>>

\* The reader takes the headers and the notes from the pipe.  The stream may
\* end early: a header that is cut off is an error, a note only a warning.
ReadStream ==
  LET d == file_stream
  IN  /\ ipc = "transform"
      /\ \/ /\ dump[d].pipe > 0
            /\ dump' = [dump EXCEPT ![d].pipe = @ - 1]
            /\ taken' = taken + 1
            /\ ipc' = IF taken' = HeadSize THEN "copy" ELSE ipc
            /\ UNCHANGED <<file_stream, mem>>
         \/ /\ dump[d].pipe = 0 /\ ~Dumping(d)
            /\ UNCHANGED dump
            /\ \/ Return
               \/ ipc' = "copy" /\ UNCHANGED <<file_stream, mem, taken>>
      /\ UNCHANGED <<process, dumped, killed, clients, up, socket, ipc_rx_buffer, history, faults>>

\* The rest of prv_msg_handler: the memory is copied and the file queued, or
\* one of them fails and the file is removed.
CopyMemory ==
  /\ ipc = "copy"
  /\ queued' \in {queued, [queued EXCEPT ![ipc_rx_buffer] = @ + 1]}
  /\ Return
  /\ UNCHANGED <<kernel, clients, up, socket, ipc_rx_buffer, failures, ends, faults>>

\* prv_fio_write takes a failure after an interrupt for another interrupt and
\* tries again, for ever (CoreElf has the loop).
WriteLoops ==
  /\ ipc = "copy" /\ Fault
  /\ ipc' = "stuck"
  /\ UNCHANGED <<kernel, clients, up, socket, ipc_rx_buffer, file_stream, mem, taken, history>>

\* ticosd ends or dies: its socket and its descriptors are closed, and what was
\* in them is gone.
TicosdEnds ==
  /\ up /\ ends < MaxEnds
  /\ ends' = ends + 1
  /\ up' = FALSE /\ socket' = <<>>
  /\ Return
  /\ ipc_rx_buffer' = Nothing
  /\ UNCHANGED <<kernel, clients, queued, failures, faults>>

-----------------------------------------------------------------------------
IpcThread == Receive \/ ReadStream \/ CopyMemory

Next ==
  \/ \E p \in Pids : Crash(p) \/ Fork(p)
  \/ \E d \in Dumps : \/ Dump(d) \/ Kill(d) \/ sendmsg(d) \/ recv(d)
                      \/ SetsockoptFails(d) \/ prv_sig_handler(d) \/ HandlerFails(d)
  \/ \E c \in Ctls : prv_cmd_write_attributes(c)
  \/ IpcThread \/ ReceiveFails \/ WriteLoops \/ Bind \/ TicosdEnds

\* Processes and threads run.  That ticosd is started again is not assumed.
Spec ==
  /\ Init /\ [][Next]_vars
  /\ \A d \in Dumps : WF_vars(Dump(d)) /\ WF_vars(sendmsg(d)) /\ WF_vars(recv(d))
  /\ \A c \in Ctls : WF_vars(prv_cmd_write_attributes(c))
  /\ WF_vars(IpcThread)

-----------------------------------------------------------------------------
Processes == [state : {"running", "dumping", "gone"}, use : 1 .. MaxUses]
CoreDumps == [pid : Pids, use : 0 .. MaxUses, left : Nat, pipe : 0 .. PipeSize]

\* The types of the variables; no pipe holds more than it has room for.
TypeOK ==
  /\ process \in [Pids -> Processes] /\ dump \in [Dumps -> CoreDumps]
  /\ dumped \in 0 .. MaxDumps /\ killed \subseteq Dumps
  /\ handler \in [Dumps -> {"none", "sending", "shut", "waiting", "untimed", "exited"}]
  /\ tries \in [Dumps -> 0 .. tx_retry_count]
  /\ ctl \in [Ctls -> {"sending", "sent", "failed"}]
  /\ up \in BOOLEAN /\ socket \in Seq(Messages) /\ Len(socket) <= QueueLen
  /\ ipc_rx_buffer \in Messages \cup {Nothing}
  /\ ipc \in {"recvmsg", "transform", "copy", "stuck"}
  /\ file_stream \in Dumps \cup {NoDump} /\ mem \in 0 .. MaxUses
  /\ taken \in 0 .. HeadSize
  /\ queued \in [Messages -> Nat] /\ failures \in Nat
  /\ faults \in 0 .. MaxFaults /\ ends \in 0 .. MaxEnds

\* The memory that is copied into a core file is that of the process that
\* crashed, which is still there: not of another process that has got its
\* number, and not gone.  This takes that the core dump is longer than what
\* ticosd has read and the pipe holds, and that nobody killed the process:
\* ticosd must keep the pipe and must not read on (prv_msg_handler).
MemoryIsOfCrashed ==
  LET d == file_stream
  IN  ipc = "copy" =>
        \/ Dumping(d) /\ mem = dump[d].use
        \/ Size(dump[d].pid) <= HeadSize + PipeSize
        \/ d \in killed

\* However the daemon ends, descriptors run out or recvmsg fails, no core dump
\* is queued twice, and attributes only once more for every recvmsg that failed.
QueuedOnce ==
  /\ \A d \in Dumps : queued[Core(d)] <= 1
  /\ \A c \in Ctls : queued[Attributes(c)] <= 1 + failures

\* Nobody waits for ever: a process that crashes is let go, its handler ends,
\* and so does ticosctl, although ticosd does not answer, may be gone or busy,
\* and the pipe or the socket may be full.  There are two ways to wait for
\* ever: a handler that could not set its timeout waits until somebody signals
\* it, and everybody while ticosd loops in prv_fio_write.  These are excused
\* only as long as they last: dumped never goes back, so that the first part
\* requires the same again once ticosd has ended.
EverybodyLeaves ==
  /\ \A d \in Dumps :
       (d <= dumped) ~> \/ ~Dumping(d) /\ handler[d] = "exited"
                        \/ handler[d] = "untimed"
                        \/ ipc = "stuck"
  /\ \A c \in Ctls : []<>(ctl[c] # "sending" \/ ipc = "stuck")

=============================================================================
