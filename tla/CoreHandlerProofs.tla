-------------------------- MODULE CoreHandlerProofs --------------------------
(***************************************************************************)
(* Two properties of CoreHandler for any number of processes, core dumps,  *)
(* clients and faults, and any sizes of pipe, socket and head.             *)
(*                                                                         *)
(* Both rest on where a datagram can be: it is with its sender, in the     *)
(* socket, or with the IPC thread, never in two of these places, and it    *)
(* was not queued before (MailInv).  For the memory this is followed by an *)
(* account of the bytes: as long as the pipe of a core dump has been with  *)
(* somebody all the time, what the kernel has still to write, what is in   *)
(* the pipe and what the thread has read make up the whole dump (PipeInv). *)
(* Of a dump that is long enough something is then left to write, so the   *)
(* kernel cannot let go of the process, and its number is still its own    *)
(* (KernelInv).                                                            *)
(***************************************************************************)
EXTENDS CoreHandler, TLAPS

\* The handler has not sent its datagram.
Ahead(d) == handler[d] \in {"none", "sending", "shut"}

\* Somebody has had the pipe since the crash, and will still read it.
Held(d) ==
  handler[d] \in {"sending", "shut"} \/ InSocket(Core(d)) \/ file_stream = d

\* No datagram is twice in the socket.
Single == \A i, j \in 1 .. Len(socket) : socket[i] = socket[j] => i = j

\* The IPC thread's local variables, and what it is working on.
ThreadInv ==
  /\ ipc = "recvmsg" => file_stream = NoDump /\ taken = 0
  /\ ipc = "transform" => taken < HeadSize
  /\ ipc # "recvmsg" => /\ file_stream \in Dumps
                        /\ ipc_rx_buffer = Core(file_stream)
                        /\ queued[Core(file_stream)] = 0

\* A core dump, and the attributes of a ticosctl, that are not sent or not
\* received are not in another place and have not been queued.
CoreMail ==
  \A d \in Dumps :
    /\ Ahead(d) => ~InSocket(Core(d))
    /\ Ahead(d) \/ InSocket(Core(d)) => queued[Core(d)] = 0 /\ ipc_rx_buffer # Core(d)
    /\ queued[Core(d)] <= 1
CtlMail ==
  \A c \in Ctls :
    /\ ctl[c] = "sending" => ~InSocket(Attributes(c))
    /\ ctl[c] = "sending" \/ InSocket(Attributes(c)) =>
         queued[Attributes(c)] = 0 /\ ipc_rx_buffer # Attributes(c)
    /\ queued[Attributes(c)] <= 1 + failures
MailInv == Single /\ CoreMail /\ CtlMail

\* Each core dump is of a process of its own.
KernelInv ==
  /\ \A d \in Dumps : d > dumped => dump[d].use = 0 /\ handler[d] = "none"
  /\ \A d \in Dumps : d <= dumped =>
       /\ dump[d].use > 0 /\ handler[d] # "none"
       /\ dump[d].use <= process[dump[d].pid].use
       /\ process[dump[d].pid].state = "running" => dump[d].use < process[dump[d].pid].use
  /\ \A d, e \in Dumps :
       d <= dumped /\ e <= dumped /\ dump[d].pid = dump[e].pid /\ dump[d].use = dump[e].use =>
         d = e

\* The account of the bytes of a core dump that does not fit into the pipe.
Account(d) ==
  Held(d) /\ dump[d].pid \notin Small /\ d \notin killed =>
    /\ Dumping(d)
    /\ dump[d].left + dump[d].pipe + (IF file_stream = d THEN taken ELSE 0)
         = HeadSize + PipeSize + 1
    /\ file_stream = d => mem = dump[d].use
PipeInv == \A d \in Dumps : Account(d)

\* The inductive invariant.
HandlerInv == TypeOK /\ ThreadInv /\ MailInv /\ KernelInv /\ PipeInv

-----------------------------------------------------------------------------
\* The numbers of core dumps, and the bounds.
LEMMA Numbers ==
  /\ \A d \in Dumps : d \in Nat /\ d > 0 /\ d # NoDump /\ d <= MaxDumps
  /\ \A n \in 1 .. MaxDumps : n \in Dumps
  /\ NoDump = 0
  /\ MaxDumps \in Nat /\ MaxEnds \in Nat /\ MaxFaults \in Nat /\ tx_retry_count \in Nat
  /\ MaxUses \in Nat /\ MaxUses > 0 /\ PipeSize \in Nat /\ PipeSize > 0
  /\ QueueLen \in Nat /\ QueueLen > 0 /\ HeadSize \in Nat /\ HeadSize > 0
<1>1. /\ MaxDumps \in Nat /\ MaxEnds \in Nat /\ MaxFaults \in Nat /\ tx_retry_count \in Nat
      /\ MaxUses \in Nat /\ MaxUses > 0 /\ PipeSize \in Nat /\ PipeSize > 0
      /\ QueueLen \in Nat /\ QueueLen > 0 /\ HeadSize \in Nat /\ HeadSize > 0
  BY BoundsAssumption
<1> QED BY <1>1 DEF Dumps, NoDump

\* A datagram says what it is and whose.
LEMMA Datagrams ==
  /\ \A d \in Dumps : Core(d) \in Messages
  /\ \A c \in Ctls : Attributes(c) \in Messages
  /\ \A d, e \in Dumps : Core(d) = Core(e) => d = e
  /\ \A c, b \in Ctls : Attributes(c) = Attributes(b) => c = b
  /\ \A d \in Dumps, c \in Ctls : Core(d) # Attributes(c)
  /\ Nothing \notin Messages
<1>1. \A d : Core(d).plugin = "CORE" /\ Core(d).of = d
  BY DEF Core
<1>2. \A c : Attributes(c).plugin = "ATTRIBUTES" /\ Attributes(c).of = c
  BY DEF Attributes
<1>3. Nothing.plugin = ""
  BY DEF Nothing
<1>4. "CORE" # "ATTRIBUTES" /\ "" # "CORE" /\ "" # "ATTRIBUTES"
  OBVIOUS
<1>5. Nothing \notin Messages
  BY <1>1, <1>2, <1>3, <1>4, Zenon DEF Messages
<1>6. \A d \in Dumps, c \in Ctls : Core(d) # Attributes(c)
  BY <1>1, <1>2, <1>4, Zenon
<1>7. (\A d \in Dumps : Core(d) \in Messages) /\ (\A c \in Ctls : Attributes(c) \in Messages)
  BY Zenon DEF Messages
<1>8. /\ \A d, e \in Dumps : Core(d) = Core(e) => d = e
      /\ \A c, b \in Ctls : Attributes(c) = Attributes(b) => c = b
  BY <1>1, <1>2
<1> QED BY <1>5, <1>6, <1>7, <1>8

\* What a datagram for a plugin is.
LEMMA Addressed ==
  /\ \A m \in Messages : m.plugin = "CORE" => m.of \in Dumps /\ m = Core(m.of)
  /\ \A m \in Messages : m.plugin = "ATTRIBUTES" => m.of \in Ctls /\ m = Attributes(m.of)
  /\ \A d : Core(d).plugin = "CORE" /\ Core(d).of = d
  /\ Nothing.plugin = ""
<1>1. \A d : Core(d).plugin = "CORE" /\ Core(d).of = d
  BY DEF Core
<1>2. \A c : Attributes(c).plugin = "ATTRIBUTES" /\ Attributes(c).of = c
  BY DEF Attributes
<1>3. Nothing.plugin = ""
  BY DEF Nothing
<1>4. "CORE" # "ATTRIBUTES"
  OBVIOUS
<1> QED BY <1>1, <1>2, <1>3, <1>4, Zenon DEF Messages

\* The socket with one datagram more.
LEMMA SocketAppend ==
  ASSUME socket \in Seq(Messages), NEW m \in Messages, socket' = Append(socket, m)
  PROVE  /\ socket' \in Seq(Messages) /\ Len(socket') = Len(socket) + 1
         /\ \A x : InSocket(x)' <=> InSocket(x) \/ x = m
         /\ Single /\ ~InSocket(m) => Single'
<1>1. /\ socket' \in Seq(Messages) /\ Len(socket') = Len(socket) + 1
      /\ Len(socket) \in Nat
      /\ socket'[Len(socket) + 1] = m
      /\ \A i \in 1 .. Len(socket) : socket'[i] = socket[i]
  OBVIOUS
<1>2. \A x : InSocket(x)' <=> InSocket(x) \/ x = m
  BY <1>1 DEF InSocket
<1>3. Single /\ ~InSocket(m) => Single'
  BY <1>1 DEF InSocket, Single
<1> QED BY <1>1, <1>2, <1>3

\* The socket with the first datagram taken out.
LEMMA SocketTail ==
  ASSUME socket \in Seq(Messages), socket # <<>>, Single, socket' = Tail(socket)
  PROVE  /\ socket' \in Seq(Messages) /\ Len(socket') <= Len(socket)
         /\ Head(socket) \in Messages /\ InSocket(Head(socket))
         /\ \A x : InSocket(x)' <=> InSocket(x) /\ x # Head(socket)
         /\ Single'
<1>1. /\ socket' \in Seq(Messages) /\ Len(socket') = Len(socket) - 1
      /\ Len(socket) \in Nat \ {0}
      /\ Head(socket) = socket[1] /\ Head(socket) \in Messages
      /\ \A i \in 1 .. Len(socket) - 1 : socket'[i] = socket[i + 1]
  OBVIOUS
<1>2. InSocket(Head(socket))
  BY <1>1 DEF InSocket
<1>3. \A x : InSocket(x)' <=> InSocket(x) /\ x # Head(socket)
  <2> SUFFICES ASSUME NEW x
               PROVE  InSocket(x)' <=> InSocket(x) /\ x # Head(socket)
    OBVIOUS
  <2>1. ASSUME InSocket(x)' PROVE InSocket(x) /\ x # Head(socket)
    <3>1. PICK i \in 1 .. Len(socket') : socket'[i] = x
      BY <2>1 DEF InSocket
    <3>2. i + 1 \in 1 .. Len(socket) /\ socket[i + 1] = x
      BY <1>1, <3>1
    <3>3. x # socket[1]
      BY <1>1, <3>2 DEF Single
    <3> QED BY <1>1, <3>2, <3>3 DEF InSocket
  <2>2. ASSUME InSocket(x), x # Head(socket) PROVE InSocket(x)'
    <3>1. PICK i \in 1 .. Len(socket) : socket[i] = x
      BY <2>2 DEF InSocket
    <3>2. i # 1
      BY <1>1, <2>2, <3>1
    <3>3. i - 1 \in 1 .. Len(socket') /\ socket'[i - 1] = x
      BY <1>1, <3>1, <3>2
    <3> QED BY <3>3 DEF InSocket
  <2> QED BY <2>1, <2>2
<1>4. Single'
  BY <1>1 DEF Single
<1> QED BY <1>1, <1>2, <1>3, <1>4

\* The invariant holds at the start.
LEMMA HandlerInit == Init => HandlerInv
<1> SUFFICES ASSUME Init PROVE HandlerInv
  OBVIOUS
<1>1. \A x : ~InSocket(x)
  BY DEF Init, InSocket
<1> DEFINE first == CHOOSE p \in Pids : TRUE
<1>7. first \in Pids
  BY BoundsAssumption
<1>8. dump = [d \in Dumps |-> [pid |-> first, use |-> 0, left |-> 0, pipe |-> 0]]
  BY Zenon DEF Init
<1> HIDE DEF first
<1>9. /\ process = [p \in Pids |-> [state |-> "running", use |-> 1]]
      /\ dumped = 0 /\ handler = [d \in Dumps |-> "none"] /\ tries = [d \in Dumps |-> 0]
      /\ ctl = [c \in Ctls |-> "sending"] /\ up = FALSE /\ socket = <<>>
      /\ ipc_rx_buffer = Nothing /\ ipc = "recvmsg" /\ file_stream = NoDump
      /\ mem = 0 /\ taken = 0 /\ queued = [m \in Messages |-> 0] /\ killed = {}
      /\ failures = 0 /\ faults = 0 /\ ends = 0
  BY Zenon DEF Init
<1>2. TypeOK
  <2>1. socket \in Seq(Messages) /\ Len(socket) = 0
    BY <1>9
  <2>2. /\ dumped \in 0 .. MaxDumps /\ Len(socket) <= QueueLen /\ mem \in 0 .. MaxUses
        /\ taken \in 0 .. HeadSize /\ failures \in Nat
        /\ faults \in 0 .. MaxFaults /\ ends \in 0 .. MaxEnds
        /\ tries \in [Dumps -> 0 .. tx_retry_count]
    BY <1>9, <2>1, Numbers
  <2>3. process \in [Pids -> Processes] /\ dump \in [Dumps -> CoreDumps]
    BY <1>7, <1>8, <1>9, Numbers DEF Processes, CoreDumps
  <2>4. queued \in [Messages -> Nat]
    BY <1>9
  <2> QED BY <1>9, <2>1, <2>2, <2>3, <2>4 DEF TypeOK
<1>3. ThreadInv
  BY <1>9 DEF ThreadInv
<1>4. MailInv
  <2>1. Single
    BY <1>9 DEF Single
  <2>2. \A m \in Messages : queued[m] = 0 /\ ipc_rx_buffer # m
    BY <1>9, Datagrams
  <2>3. CoreMail
    <3> SUFFICES ASSUME NEW d \in Dumps
                 PROVE  ~InSocket(Core(d)) /\ queued[Core(d)] = 0 /\ ipc_rx_buffer # Core(d)
      BY DEF CoreMail
    <3> QED BY <1>1, <2>2, Datagrams
  <2>4. CtlMail
    <3> SUFFICES ASSUME NEW c \in Ctls
                 PROVE  /\ ~InSocket(Attributes(c)) /\ queued[Attributes(c)] = 0
                        /\ ipc_rx_buffer # Attributes(c)
      BY <1>9 DEF CtlMail
    <3> QED BY <1>1, <2>2, Datagrams
  <2> QED BY <2>1, <2>3, <2>4 DEF MailInv
<1>5. KernelInv
  BY <1>8, <1>9, Numbers DEF KernelInv
<1>6. PipeInv
  BY <1>1, <1>9, Numbers DEF PipeInv, Account, Held
<1> QED BY <1>2, <1>3, <1>4, <1>5, <1>6 DEF HandlerInv

-----------------------------------------------------------------------------
\* What the plugins do with a datagram: they return, having queued it at most,
\* and only if it is one of attributes, or the coredump plugin starts a
\* conversion, which takes a descriptor.
LEMMA Dispatch ==
  ASSUME TypeOK, ThreadInv, ipc = "recvmsg", NEW m \in Messages \cup {Nothing}, NEW fd,
         ticosd_plugins_process_ipc(m, fd)
  PROVE  \/ /\ ipc' = "recvmsg" /\ file_stream' = NoDump /\ mem' = 0 /\ taken' = 0
            /\ \/ queued' = queued
               \/ \E c \in Ctls : /\ m = Attributes(c)
                                  /\ queued' = [queued EXCEPT ![Attributes(c)] = @ + 1]
         \/ \E d \in Dumps :
              /\ m = Core(d) /\ fd # NoDump
              /\ process[dump[d].pid].state # "gone" /\ mem' = process[dump[d].pid].use
              /\ ipc' = "transform" /\ file_stream' = fd /\ taken' = 0
              /\ queued' = queued
<1>1. CASE m = Nothing /\ Return /\ UNCHANGED queued
  BY <1>1 DEF Return
<1>2. CASE m.plugin = "ATTRIBUTES" /\ AttributesHandler(m)
  <2>1. m \in Messages
    BY <1>2, Addressed
  <2>2. m.of \in Ctls /\ m = Attributes(m.of)
    BY <1>2, <2>1, Addressed
  <2>3. queued' \in {queued, [queued EXCEPT ![Attributes(m.of)] = @ + 1]}
    BY <1>2, <2>2, Zenon DEF AttributesHandler
  <2>4. Return
    BY <1>2 DEF AttributesHandler
  <2> QED BY <2>2, <2>3, <2>4 DEF Return
<1>3. CASE m.plugin = "CORE" /\ prv_msg_handler(m.of, fd) /\ UNCHANGED queued
  <2>1. m \in Messages
    BY <1>3, Addressed
  <2>2. m.of \in Dumps /\ m = Core(m.of)
    BY <1>3, <2>1, Addressed
  <2>3. CASE Return
    BY <1>3, <2>3 DEF Return
  <2>4. CASE /\ fd # NoDump
             /\ ticos_init_core_elf_transformer_procfs_handler(dump[m.of].pid)
             /\ ipc' = "transform" /\ file_stream' = fd
             /\ UNCHANGED taken
    <3>1. taken = 0
      BY DEF ThreadInv
    <3> QED BY <1>3, <2>2, <2>4, <3>1 DEF ticos_init_core_elf_transformer_procfs_handler
  <2> QED BY <1>3, <2>3, <2>4 DEF prv_msg_handler
<1> QED BY <1>1, <1>2, <1>3 DEF ticosd_plugins_process_ipc

\* The datagram that was received.
LEMMA Received ==
  ASSUME HandlerInv, Receive
  PROVE  /\ ipc = "recvmsg" /\ socket # <<>> /\ ipc_rx_buffer' = Head(socket)
         /\ socket' = Tail(socket) /\ faults' \in {faults, faults + 1}
         /\ faults' \in 0 .. MaxFaults
         /\ UNCHANGED <<kernel, clients, up, failures, ends>>
         /\ \/ /\ ipc' = "recvmsg" /\ file_stream' = NoDump /\ mem' = 0 /\ taken' = 0
               /\ \/ queued' = queued
                  \/ \E c \in Ctls : /\ Head(socket) = Attributes(c)
                                     /\ queued' = [queued EXCEPT ![Attributes(c)] = @ + 1]
            \/ \E d \in Dumps :
                 /\ Head(socket) = Core(d)
                 /\ process[dump[d].pid].state # "gone" /\ mem' = process[dump[d].pid].use
                 /\ ipc' = "transform" /\ file_stream' = d /\ taken' = 0
                 /\ queued' = queued
<1> DEFINE m == Head(socket)
<1>1. m \in Messages
  BY DEF HandlerInv, TypeOK, Receive
<1>2. PICK fd : /\ ticosd_plugins_process_ipc(m, fd)
                /\ fd \in {NoDump} \cup (IF m.plugin = "CORE" THEN {m.of} ELSE {})
                /\ faults' \in {faults, faults + 1} /\ faults' \in 0 .. MaxFaults
  <2>1. CASE /\ ticosd_plugins_process_ipc(m, IF m.plugin = "CORE" THEN m.of ELSE NoDump)
             /\ UNCHANGED faults
    <3>1. faults \in 0 .. MaxFaults
      BY DEF HandlerInv, TypeOK
    <3>2. CASE m.plugin = "CORE"
      BY <2>1, <3>1, <3>2
    <3>3. CASE m.plugin # "CORE"
      BY <2>1, <3>1, <3>3
    <3> QED BY <3>2, <3>3
  <2>2. CASE m.plugin = "CORE" /\ Fault /\ ticosd_plugins_process_ipc(m, NoDump)
    <3>1. faults' = faults + 1 /\ faults' \in 0 .. MaxFaults
      BY <2>2, Numbers DEF Fault, HandlerInv, TypeOK
    <3> QED BY <2>2, <3>1
  <2> QED BY <2>1, <2>2 DEF Receive
<1> HIDE DEF m
<1>3. ipc = "recvmsg" /\ TypeOK /\ ThreadInv
  BY DEF Receive, HandlerInv
<1>4. \A d \in Dumps : m = Core(d) /\ fd # NoDump => fd = d
  BY <1>2, Addressed
<1>5. \/ /\ ipc' = "recvmsg" /\ file_stream' = NoDump /\ mem' = 0 /\ taken' = 0
         /\ \/ queued' = queued
            \/ \E c \in Ctls : /\ m = Attributes(c)
                               /\ queued' = [queued EXCEPT ![Attributes(c)] = @ + 1]
      \/ \E d \in Dumps :
           /\ m = Core(d) /\ fd # NoDump
           /\ process[dump[d].pid].state # "gone" /\ mem' = process[dump[d].pid].use
           /\ ipc' = "transform" /\ file_stream' = fd /\ taken' = 0
           /\ queued' = queued
  BY <1>1, <1>2, <1>3, Dispatch
<1> QED BY <1>2, <1>4, <1>5, Zenon DEF Receive, m

\* A failing recvmsg only lets the thread queue the last attributes again.
LEMMA NotReceived ==
  ASSUME HandlerInv, ReceiveFails
  PROVE  /\ ipc = "recvmsg" /\ faults' \in 0 .. MaxFaults /\ failures' = failures + 1
         /\ UNCHANGED <<kernel, clients, up, socket, ipc_rx_buffer, ends>>
         /\ ipc' = "recvmsg" /\ file_stream' = NoDump /\ mem' = 0 /\ taken' = 0
         /\ \/ queued' = queued
            \/ \E c \in Ctls : /\ ipc_rx_buffer = Attributes(c)
                               /\ queued' = [queued EXCEPT ![Attributes(c)] = @ + 1]
<1>1. TypeOK /\ ThreadInv /\ ipc = "recvmsg" /\ ipc_rx_buffer \in Messages \cup {Nothing}
  BY DEF HandlerInv, TypeOK, ReceiveFails
<1>2. faults' = faults + 1 /\ faults' \in 0 .. MaxFaults
  BY Numbers DEF ReceiveFails, Fault, HandlerInv, TypeOK
<1>3. ticosd_plugins_process_ipc(ipc_rx_buffer, NoDump)
  BY DEF ReceiveFails
<1>4. /\ ipc' = "recvmsg" /\ file_stream' = NoDump /\ mem' = 0 /\ taken' = 0
      /\ \/ queued' = queued
         \/ \E c \in Ctls : /\ ipc_rx_buffer = Attributes(c)
                            /\ queued' = [queued EXCEPT ![Attributes(c)] = @ + 1]
  BY <1>1, <1>3, Dispatch
<1>5. /\ failures' = failures + 1
      /\ UNCHANGED <<kernel, clients, up, socket, ipc_rx_buffer, ends>>
  BY DEF ReceiveFails
<1> QED BY <1>1, <1>2, <1>4, <1>5

-----------------------------------------------------------------------------
\* The parts of the types that the kernel's steps need.
LEMMA Types ==
  ASSUME TypeOK
  PROVE  /\ process \in [Pids -> Processes] /\ dump \in [Dumps -> CoreDumps]
         /\ handler \in [Dumps -> {"none", "sending", "shut", "waiting", "untimed", "exited"}]
         /\ dumped \in 0 .. MaxDumps /\ dumped \in Nat
         /\ \A p \in Pids : process[p].use \in 1 .. MaxUses /\ process[p].use \in Nat
         /\ \A d \in Dumps :
              /\ dump[d].pid \in Pids /\ dump[d].use \in Nat /\ dump[d].use \in 0 .. MaxUses
              /\ dump[d].left \in Nat /\ dump[d].pipe \in Nat /\ dump[d].pipe <= PipeSize
<1>1. /\ process \in [Pids -> Processes] /\ dump \in [Dumps -> CoreDumps]
      /\ handler \in [Dumps -> {"none", "sending", "shut", "waiting", "untimed", "exited"}]
      /\ dumped \in 0 .. MaxDumps
  BY DEF TypeOK
<1>2. \A p \in Pids : process[p] \in Processes
  BY <1>1
<1>3. \A d \in Dumps : dump[d] \in CoreDumps
  BY <1>1
<1> QED BY <1>1, <1>2, <1>3, Numbers DEF Processes, CoreDumps

\* A process gets another state.
LEMMA ProcessUpdate ==
  ASSUME process \in [Pids -> Processes], NEW p \in Pids,
         NEW x \in {"running", "dumping", "gone"},
         process' = [process EXCEPT ![p].state = x]
  PROVE  /\ process' \in [Pids -> Processes]
         /\ process'[p] = [state |-> x, use |-> process[p].use]
         /\ \A q \in Pids : q # p => process'[q] = process[q]
BY Numbers DEF Processes

\* A core dump goes on.
LEMMA DumpUpdate ==
  ASSUME dump \in [Dumps -> CoreDumps], NEW d \in Dumps,
         NEW l \in Nat, NEW q \in 0 .. PipeSize,
         dump' = [dump EXCEPT ![d].left = l, ![d].pipe = q]
  PROVE  /\ dump' \in [Dumps -> CoreDumps]
         /\ \A e \in Dumps : /\ dump'[e].pid = dump[e].pid /\ dump'[e].use = dump[e].use
                             /\ e # d => dump'[e] = dump[e]
         /\ dump'[d].left = l /\ dump'[d].pipe = q
BY Numbers DEF CoreDumps

\* A new core dump, of a process that was running.
LEMMA CrashEffect ==
  ASSUME TypeOK, NEW p \in Pids, Crash(p)
  PROVE  /\ dumped' = dumped + 1 /\ dumped' \in Dumps /\ dumped' \in 0 .. MaxDumps
         /\ process[p].state = "running"
         /\ process' \in [Pids -> Processes]
         /\ process'[p] = [state |-> "dumping", use |-> process[p].use]
         /\ \A q \in Pids : q # p => process'[q] = process[q]
         /\ dump' \in [Dumps -> CoreDumps]
         /\ dump'[dumped'].pid = p /\ dump'[dumped'].use = process[p].use
         /\ dump'[dumped'].left = Size(p) /\ dump'[dumped'].pipe = 0
         /\ \A e \in Dumps : e # dumped' => dump'[e] = dump[e]
         /\ handler' \in [Dumps -> {"none", "sending", "shut", "waiting", "untimed", "exited"}]
         /\ handler'[dumped'] = "sending"
         /\ \A e \in Dumps : e # dumped' => handler'[e] = handler[e]
<1>0. /\ process \in [Pids -> Processes] /\ dump \in [Dumps -> CoreDumps]
      /\ handler \in [Dumps -> {"none", "sending", "shut", "waiting", "untimed", "exited"}]
      /\ dumped \in 0 .. MaxDumps /\ process[p].use \in 1 .. MaxUses
  BY Types
<1>1. dumped' = dumped + 1 /\ dumped' \in Dumps /\ dumped' \in 0 .. MaxDumps
  BY <1>0, Numbers DEF Crash
<1>2. /\ process[p].state = "running"
      /\ process' = [process EXCEPT ![p].state = "dumping"]
      /\ dump' = [dump EXCEPT ![dumped'] =
                   [pid |-> p, use |-> process[p].use, left |-> Size(p), pipe |-> 0]]
      /\ handler' = [handler EXCEPT ![dumped'] = "sending"]
  BY DEF Crash
<1>3. Size(p) \in Nat
  BY Numbers DEF Size
<1>4. /\ process' \in [Pids -> Processes]
      /\ process'[p] = [state |-> "dumping", use |-> process[p].use]
      /\ \A q \in Pids : q # p => process'[q] = process[q]
  BY <1>0, <1>2, ProcessUpdate
<1>5. [pid |-> p, use |-> process[p].use, left |-> Size(p), pipe |-> 0] \in CoreDumps
  BY <1>0, <1>3, Numbers DEF CoreDumps
<1>6. /\ dump' \in [Dumps -> CoreDumps]
      /\ dump'[dumped'] = [pid |-> p, use |-> process[p].use, left |-> Size(p), pipe |-> 0]
      /\ \A e \in Dumps : e # dumped' => dump'[e] = dump[e]
  BY <1>0, <1>1, <1>2, <1>5
<1>7. /\ handler' \in [Dumps -> {"none", "sending", "shut", "waiting", "untimed", "exited"}]
      /\ handler'[dumped'] = "sending"
      /\ \A e \in Dumps : e # dumped' => handler'[e] = handler[e]
  BY <1>0, <1>1, <1>2
<1> QED BY <1>1, <1>2, <1>4, <1>6, <1>7

\* What the kernel does for a core dump: it goes on, or the process is gone.
LEMMA DumpEffect ==
  ASSUME TypeOK, NEW d \in Dumps, Dump(d)
  PROVE  /\ process' \in [Pids -> Processes] /\ dump' \in [Dumps -> CoreDumps]
         /\ Dumping(d) /\ d <= dumped
         /\ \A e \in Dumps : /\ dump'[e].pid = dump[e].pid /\ dump'[e].use = dump[e].use
                             /\ e # d => dump'[e] = dump[e]
         /\ \/ /\ process' = process
               /\ dump'[d].left = dump[d].left - 1 /\ dump'[d].pipe = dump[d].pipe + 1
            \/ /\ ~HasReader(d) \/ dump[d].left = 0
               /\ process'[dump[d].pid] = [state |-> "gone", use |-> dump[d].use]
               /\ \A q \in Pids : q # dump[d].pid => process'[q] = process[q]
<1>0. /\ process \in [Pids -> Processes] /\ dump \in [Dumps -> CoreDumps]
      /\ dump[d].pid \in Pids /\ dump[d].left \in Nat /\ dump[d].pipe \in 0 .. PipeSize
  BY Types, Numbers
<1>1. Dumping(d) /\ d <= dumped
  BY DEF Dump
<1>2. CASE /\ HasReader(d) /\ dump[d].left > 0 /\ dump[d].pipe < PipeSize
           /\ dump' = [dump EXCEPT ![d].left = @ - 1, ![d].pipe = @ + 1]
           /\ UNCHANGED process
  <2>1. dump[d].left - 1 \in Nat /\ dump[d].pipe + 1 \in 0 .. PipeSize
    BY <1>0, <1>2, Numbers
  <2>2. PICK l \in Nat, q \in 0 .. PipeSize : l = dump[d].left - 1 /\ q = dump[d].pipe + 1
    BY <2>1
  <2>3. dump' = [dump EXCEPT ![d].left = l, ![d].pipe = q]
    BY <1>0, <1>2, <2>2 DEF CoreDumps
  <2>4. /\ dump' \in [Dumps -> CoreDumps]
        /\ \A e \in Dumps : /\ dump'[e].pid = dump[e].pid /\ dump'[e].use = dump[e].use
                            /\ e # d => dump'[e] = dump[e]
        /\ dump'[d].left = l /\ dump'[d].pipe = q
    BY <1>0, <2>3, Numbers DEF CoreDumps
  <2> QED BY <1>0, <1>1, <1>2, <2>2, <2>4
<1>3. CASE /\ ~HasReader(d) \/ dump[d].left = 0
           /\ process' = [process EXCEPT ![dump[d].pid].state = "gone"]
           /\ dump' = [dump EXCEPT ![d].left = 0, ![d].pipe = IF HasReader(d) THEN @ ELSE 0]
  <2>1. PICK n \in 0 .. PipeSize : dump' = [dump EXCEPT ![d].left = 0, ![d].pipe = n]
    <3>1. CASE HasReader(d)
      <4>1. dump' = [dump EXCEPT ![d].left = 0, ![d].pipe = dump[d].pipe]
        BY <1>0, <1>3, <3>1 DEF CoreDumps
      <4> QED BY <1>0, <4>1
    <3>2. CASE ~HasReader(d)
      <4>1. dump' = [dump EXCEPT ![d].left = 0, ![d].pipe = 0]
        BY <1>0, <1>3, <3>2 DEF CoreDumps
      <4>2. 0 \in 0 .. PipeSize
        BY Numbers
      <4> QED BY <4>1, <4>2, Zenon
    <3> QED BY <3>1, <3>2
  <2>2. process[dump[d].pid].use = dump[d].use
    BY <1>1 DEF Dumping
  <2>3. /\ dump' \in [Dumps -> CoreDumps]
        /\ \A e \in Dumps : /\ dump'[e].pid = dump[e].pid /\ dump'[e].use = dump[e].use
                            /\ e # d => dump'[e] = dump[e]
    BY <1>0, <2>1, DumpUpdate
  <2>4. /\ process' \in [Pids -> Processes]
        /\ process'[dump[d].pid] = [state |-> "gone", use |-> dump[d].use]
        /\ \A q \in Pids : q # dump[d].pid => process'[q] = process[q]
    BY <1>0, <1>3, <2>2, ProcessUpdate
  <2> QED BY <1>1, <1>3, <2>3, <2>4
<1> QED BY <1>2, <1>3 DEF Dump

\* A killed process is gone before its core dump is written.
LEMMA KillEffect ==
  ASSUME TypeOK, NEW d \in Dumps, Kill(d)
  PROVE  /\ process' \in [Pids -> Processes] /\ dump' \in [Dumps -> CoreDumps]
         /\ Dumping(d) /\ d <= dumped /\ killed' = killed \cup {d}
         /\ \A e \in Dumps : /\ dump'[e].pid = dump[e].pid /\ dump'[e].use = dump[e].use
                             /\ e # d => dump'[e] = dump[e]
         /\ process'[dump[d].pid] = [state |-> "gone", use |-> dump[d].use]
         /\ \A q \in Pids : q # dump[d].pid => process'[q] = process[q]
<1>0. /\ process \in [Pids -> Processes] /\ dump \in [Dumps -> CoreDumps]
      /\ dump[d].pid \in Pids /\ dump[d].pipe \in 0 .. PipeSize
  BY Types, Numbers
<1>1. /\ Dumping(d) /\ d <= dumped /\ killed' = killed \cup {d}
      /\ process' = [process EXCEPT ![dump[d].pid].state = "gone"]
      /\ dump' = [dump EXCEPT ![d].left = 0]
  BY DEF Kill
<1>2. dump' = [dump EXCEPT ![d].left = 0, ![d].pipe = dump[d].pipe]
  BY <1>0, <1>1 DEF CoreDumps
<1>3. process[dump[d].pid].use = dump[d].use
  BY <1>1 DEF Dumping
<1>4. /\ dump' \in [Dumps -> CoreDumps]
      /\ \A e \in Dumps : /\ dump'[e].pid = dump[e].pid /\ dump'[e].use = dump[e].use
                          /\ e # d => dump'[e] = dump[e]
  BY <1>0, <1>2, DumpUpdate
<1>5. /\ process' \in [Pids -> Processes]
      /\ process'[dump[d].pid] = [state |-> "gone", use |-> dump[d].use]
      /\ \A q \in Pids : q # dump[d].pid => process'[q] = process[q]
  BY <1>0, <1>1, <1>3, ProcessUpdate
<1> QED BY <1>1, <1>4, <1>5

\* A number is used again.
LEMMA ForkEffect ==
  ASSUME TypeOK, NEW p \in Pids, Fork(p)
  PROVE  /\ process' \in [Pids -> Processes]
         /\ process[p].state = "gone"
         /\ process'[p] = [state |-> "running", use |-> process[p].use + 1]
         /\ \A q \in Pids : q # p => process'[q] = process[q]
<1>0. process \in [Pids -> Processes] /\ process[p].use \in 1 .. MaxUses
  BY Types
<1>1. /\ process[p].state = "gone" /\ process[p].use < MaxUses
      /\ process' = [process EXCEPT ![p] = [state |-> "running", use |-> process[p].use + 1]]
  BY DEF Fork
<1>2. [state |-> "running", use |-> process[p].use + 1] \in Processes
  BY <1>0, <1>1, Numbers DEF Processes
<1> QED BY <1>0, <1>1, <1>2

\* The IPC thread takes something from the pipe, or finds that the dump has ended.
LEMMA ReadEffect ==
  ASSUME TypeOK, ThreadInv, ReadStream
  PROVE  /\ file_stream \in Dumps /\ ipc = "transform"
         /\ dump' \in [Dumps -> CoreDumps]
         /\ \A e \in Dumps : /\ dump'[e].pid = dump[e].pid /\ dump'[e].use = dump[e].use
                             /\ e # file_stream => dump'[e] = dump[e]
         /\ \/ /\ dump'[file_stream].left = dump[file_stream].left
               /\ dump'[file_stream].pipe = dump[file_stream].pipe - 1
               /\ taken' = taken + 1 /\ taken' \in 0 .. HeadSize
               /\ ipc' = IF taken' = HeadSize THEN "copy" ELSE ipc
               /\ UNCHANGED <<file_stream, mem>>
            \/ Return /\ UNCHANGED dump
            \/ ipc' = "copy" /\ UNCHANGED <<dump, file_stream, mem, taken>>
<1>0. file_stream \in Dumps /\ ipc = "transform" /\ taken < HeadSize /\ taken \in Nat
  BY Numbers DEF ReadStream, ThreadInv, TypeOK
<1>d. PICK d \in Dumps : d = file_stream
  BY <1>0
<1>1. /\ dump \in [Dumps -> CoreDumps] /\ dump[d].left \in Nat /\ dump[d].pipe \in 0 .. PipeSize
  BY <1>0, Types, Numbers
<1>2. CASE /\ dump[d].pipe > 0
           /\ dump' = [dump EXCEPT ![d].pipe = @ - 1]
           /\ taken' = taken + 1
           /\ ipc' = IF taken' = HeadSize THEN "copy" ELSE ipc
           /\ UNCHANGED <<file_stream, mem>>
  <2>1. PICK l \in Nat, q \in 0 .. PipeSize : l = dump[d].left /\ q = dump[d].pipe - 1
    BY <1>1, <1>2, Numbers
  <2>2. dump' = [dump EXCEPT ![d].left = l, ![d].pipe = q]
    BY <1>0, <1>1, <1>2, <2>1 DEF CoreDumps
  <2>3. taken' \in 0 .. HeadSize
    BY <1>0, <1>2, Numbers
  <2>4. /\ dump' \in [Dumps -> CoreDumps]
        /\ \A e \in Dumps : /\ dump'[e].pid = dump[e].pid /\ dump'[e].use = dump[e].use
                            /\ e # d => dump'[e] = dump[e]
        /\ dump'[d].left = l /\ dump'[d].pipe = q
    BY <1>1, <2>2, Numbers DEF CoreDumps
  <2> QED BY <1>d, <1>0, <1>2, <2>1, <2>3, <2>4
<1>3. CASE /\ UNCHANGED dump
           /\ Return \/ (ipc' = "copy" /\ UNCHANGED <<file_stream, mem, taken>>)
  BY <1>d, <1>0, <1>1, <1>3
<1> QED BY <1>d, <1>2, <1>3 DEF ReadStream

-----------------------------------------------------------------------------
\* Every step keeps the types.
LEMMA TypeStep == HandlerInv /\ Next => TypeOK'
<1> SUFFICES ASSUME HandlerInv, Next PROVE TypeOK'
  OBVIOUS
<1>0. TypeOK /\ ThreadInv /\ MailInv
  BY DEF HandlerInv
<1>f. Fault => faults' \in 0 .. MaxFaults
  BY <1>0, Numbers DEF Fault, TypeOK
<1> USE Numbers
<1>1. ASSUME NEW p \in Pids, Crash(p) PROVE TypeOK'
  <2>1. /\ dumped' \in 0 .. MaxDumps /\ process' \in [Pids -> Processes]
        /\ dump' \in [Dumps -> CoreDumps]
        /\ handler' \in [Dumps -> {"none", "sending", "shut", "waiting", "untimed", "exited"}]
    BY <1>0, <1>1, CrashEffect
  <2> QED BY <1>0, <1>1, <2>1 DEF Crash, TypeOK, thread, history
<1>2. ASSUME NEW p \in Pids, Fork(p) PROVE TypeOK'
  <2>1. process' \in [Pids -> Processes]
    BY <1>0, <1>2, ForkEffect
  <2> QED BY <1>0, <1>2, <2>1 DEF Fork, TypeOK, clients, thread, history
<1>3. ASSUME NEW d \in Dumps, Dump(d) PROVE TypeOK'
  <2>1. process' \in [Pids -> Processes] /\ dump' \in [Dumps -> CoreDumps]
    BY <1>0, <1>3, DumpEffect
  <2> QED BY <1>0, <1>3, <2>1 DEF Dump, TypeOK, clients, thread, history
<1>4. ASSUME NEW d \in Dumps, Kill(d) PROVE TypeOK'
  <2>1. process' \in [Pids -> Processes] /\ dump' \in [Dumps -> CoreDumps]
    BY <1>0, <1>4, KillEffect
  <2> QED BY <1>0, <1>f, <1>4, <2>1 DEF Kill, TypeOK, clients, thread, history
<1>5. ASSUME NEW d \in Dumps, sendmsg(d) PROVE TypeOK'
  <2>1. tries' \in [Dumps -> 0 .. tx_retry_count]
    <3>1. /\ tries \in [Dumps -> 0 .. tx_retry_count]
          /\ \/ tries' = [tries EXCEPT ![d] = 0]
             \/ tries[d] + 1 <= tx_retry_count /\ tries' = [tries EXCEPT ![d] = @ + 1]
      BY <1>0, <1>5 DEF sendmsg, TypeOK
    <3>2. tries[d] \in Nat
      BY <3>1
    <3> QED BY <3>1, <3>2
  <2>2. handler' \in [Dumps -> {"none", "sending", "shut", "waiting", "untimed", "exited"}]
    BY <1>0, <1>5 DEF sendmsg, TypeOK
  <2>3. socket' \in Seq(Messages) /\ Len(socket') <= QueueLen
    <3>1. CASE Len(socket) < QueueLen /\ socket' = Append(socket, Core(d))
      <4>1. socket \in Seq(Messages) /\ Core(d) \in Messages
        BY <1>0, Datagrams DEF TypeOK
      <4> QED BY <3>1, <4>1
    <3>2. CASE UNCHANGED socket
      BY <1>0, <3>2 DEF TypeOK
    <3> QED BY <1>5, <3>1, <3>2 DEF sendmsg
  <2> QED BY <1>0, <1>5, <2>1, <2>2, <2>3 DEF sendmsg, TypeOK, kernel, thread, history
<1>6. ASSUME NEW d \in Dumps, recv(d) PROVE TypeOK'
  <2>1. handler' \in [Dumps -> {"none", "sending", "shut", "waiting", "untimed", "exited"}]
    BY <1>0, <1>6 DEF recv, TypeOK
  <2> QED BY <1>0, <1>6, <2>1 DEF recv, TypeOK, kernel, thread, history
<1>7. ASSUME NEW d \in Dumps, SetsockoptFails(d) \/ prv_sig_handler(d) \/ HandlerFails(d)
      PROVE  TypeOK'
  <2>1. handler' \in [Dumps -> {"none", "sending", "shut", "waiting", "untimed", "exited"}]
    BY <1>0, <1>7 DEF SetsockoptFails, prv_sig_handler, HandlerFails, TypeOK
  <2> QED BY <1>0, <1>f, <1>7, <2>1
          DEF SetsockoptFails, prv_sig_handler, HandlerFails, TypeOK, kernel, thread, history
<1>8. ASSUME NEW c \in Ctls, prv_cmd_write_attributes(c) PROVE TypeOK'
  <2>1. ctl' \in [Ctls -> {"sending", "sent", "failed"}]
    BY <1>0, <1>8 DEF prv_cmd_write_attributes, TypeOK
  <2>2. socket' \in Seq(Messages) /\ Len(socket') <= QueueLen
    <3>1. CASE Len(socket) < QueueLen /\ socket' = Append(socket, Attributes(c))
      <4>1. socket \in Seq(Messages) /\ Attributes(c) \in Messages
        BY <1>0, Datagrams DEF TypeOK
      <4> QED BY <3>1, <4>1
    <3>2. CASE UNCHANGED socket
      BY <1>0, <3>2 DEF TypeOK
    <3> QED BY <1>8, <3>1, <3>2 DEF prv_cmd_write_attributes
  <2> QED BY <1>0, <1>8, <2>1, <2>2 DEF prv_cmd_write_attributes, TypeOK, kernel, thread, history
<1>q. ASSUME NEW m \in Messages, queued' = [queued EXCEPT ![m] = @ + 1]
      PROVE  queued' \in [Messages -> Nat]
  BY <1>0, <1>q DEF TypeOK
<1>9. ASSUME Receive PROVE TypeOK'
  <2>1. socket' \in Seq(Messages) /\ Len(socket') <= Len(socket) /\ Head(socket) \in Messages
    BY <1>0, <1>9, Received, SocketTail DEF TypeOK, MailInv
  <2>2. Len(socket) \in Nat /\ Len(socket) <= QueueLen /\ Len(socket') \in Nat
    BY <1>0, <2>1 DEF TypeOK
  <2>3. \/ queued' = queued
        \/ \E c \in Ctls : queued' = [queued EXCEPT ![Attributes(c)] = @ + 1]
    BY <1>9, Received
  <2>4. queued' \in [Messages -> Nat]
    BY <1>0, <1>q, <2>3, Datagrams DEF TypeOK
  <2>5. file_stream' \in Dumps \cup {NoDump} /\ ipc' \in {"recvmsg", "transform", "copy", "stuck"}
    BY <1>9, Received
  <2>6. taken' = 0 /\ (mem' = 0 \/ \E d \in Dumps : mem' = process[dump[d].pid].use)
    BY <1>9, Received
  <2>7. mem' \in 0 .. MaxUses /\ taken' \in 0 .. HeadSize
    BY <1>0, <2>6, Types
  <2>8. /\ faults' \in 0 .. MaxFaults /\ ipc_rx_buffer' \in Messages
        /\ UNCHANGED <<kernel, clients, up, failures, ends>>
    BY <1>9, <2>1, Received
  <2>9. /\ up' = up /\ ends' = ends /\ process' = process /\ dump' = dump /\ dumped' = dumped
        /\ killed' = killed /\ handler' = handler /\ tries' = tries /\ ctl' = ctl
        /\ failures' = failures
    BY <2>8 DEF kernel, clients
  <2>10. Len(socket') <= QueueLen
    BY <2>1, <2>2
  <2> QED BY <1>0, <2>1, <2>4, <2>5, <2>7, <2>8, <2>9, <2>10 DEF TypeOK
<1>10. ASSUME ReceiveFails PROVE TypeOK'
  <2>1. \/ queued' = queued
        \/ \E c \in Ctls : queued' = [queued EXCEPT ![Attributes(c)] = @ + 1]
    BY <1>10, NotReceived
  <2>2. queued' \in [Messages -> Nat]
    BY <1>0, <1>q, <2>1, Datagrams DEF TypeOK
  <2>3. /\ faults' \in 0 .. MaxFaults /\ failures' = failures + 1
        /\ UNCHANGED <<kernel, clients, up, socket, ipc_rx_buffer, ends>>
        /\ ipc' = "recvmsg" /\ file_stream' = NoDump /\ mem' = 0 /\ taken' = 0
    BY <1>10, NotReceived
  <2>4. mem' \in 0 .. MaxUses /\ taken' \in 0 .. HeadSize
    BY <2>3
  <2>5. failures' \in Nat
    BY <1>0, <2>3 DEF TypeOK
  <2> QED BY <1>0, <2>2, <2>3, <2>4, <2>5 DEF TypeOK, kernel, clients
<1>r. Return => /\ ipc' \in {"recvmsg", "transform", "copy", "stuck"} /\ file_stream' \in Dumps \cup {NoDump}
                /\ mem' \in 0 .. MaxUses /\ taken' \in 0 .. HeadSize
  BY DEF Return
<1>11. ASSUME ReadStream PROVE TypeOK'
  <2>1. dump' \in [Dumps -> CoreDumps] /\ file_stream \in Dumps /\ ipc = "transform"
    BY <1>0, <1>11, ReadEffect
  <2>2. \/ /\ taken' \in 0 .. HeadSize /\ ipc' \in {"transform", "copy"}
           /\ UNCHANGED <<file_stream, mem>>
        \/ Return
    BY <1>0, <1>11, ReadEffect DEF TypeOK
  <2>3. /\ ipc' \in {"recvmsg", "transform", "copy", "stuck"} /\ file_stream' \in Dumps \cup {NoDump}
        /\ mem' \in 0 .. MaxUses /\ taken' \in 0 .. HeadSize
    BY <1>0, <1>r, <2>2 DEF TypeOK
  <2> QED BY <1>0, <1>11, <2>1, <2>3 DEF ReadStream, TypeOK, clients, history
<1>12. ASSUME CopyMemory PROVE TypeOK'
  <2>1. ipc_rx_buffer \in Messages
    BY <1>0, <1>12, Datagrams DEF CopyMemory, ThreadInv
  <2>2. queued' \in [Messages -> Nat]
    BY <1>0, <1>12, <1>q, <2>1 DEF CopyMemory, TypeOK
  <2> QED BY <1>0, <1>r, <1>12, <2>2 DEF CopyMemory, TypeOK, kernel, clients
<1>13. ASSUME Bind PROVE TypeOK'
  BY <1>0, <1>13 DEF Bind, TypeOK, kernel, clients, thread, history
<1>14. ASSUME TicosdEnds PROVE TypeOK'
  <2>1. socket' \in Seq(Messages) /\ Len(socket') = 0
    BY <1>14 DEF TicosdEnds
  <2>2. ends' \in 0 .. MaxEnds
    BY <1>0, <1>14 DEF TicosdEnds, TypeOK
  <2>3. Len(socket') <= QueueLen
    BY <2>1
  <2> QED BY <1>0, <1>r, <1>14, <2>1, <2>2, <2>3 DEF TicosdEnds, TypeOK, kernel, clients
<1>15. ASSUME WriteLoops PROVE TypeOK'
  BY <1>0, <1>f, <1>15 DEF WriteLoops, TypeOK, kernel, clients, history
<1> QED BY <1>1, <1>2, <1>3, <1>4, <1>5, <1>6, <1>7, <1>8, <1>9, <1>10, <1>11, <1>12, <1>13, <1>14,
           <1>15
        DEF Next, IpcThread

-----------------------------------------------------------------------------
\* Every step keeps what the IPC thread's variables say.
LEMMA ThreadStep == HandlerInv /\ Next => ThreadInv'
<1> SUFFICES ASSUME HandlerInv, Next PROVE ThreadInv'
  OBVIOUS
<1>0. TypeOK /\ ThreadInv /\ MailInv
  BY DEF HandlerInv
<1>1. ASSUME UNCHANGED <<thread, queued>> PROVE ThreadInv'
  BY <1>0, <1>1 DEF ThreadInv, thread
<1>2. ASSUME Return PROVE ThreadInv'
  BY <1>2 DEF ThreadInv, Return
<1>3. ASSUME Receive PROVE ThreadInv'
  <2>1. CASE ipc' = "recvmsg" /\ file_stream' = NoDump /\ taken' = 0
    BY <2>1 DEF ThreadInv
  <2>2. ASSUME NEW d \in Dumps, Head(socket) = Core(d), ipc' = "transform", file_stream' = d,
               taken' = 0, queued' = queued
        PROVE  ThreadInv'
    <3>1. InSocket(Core(d)) /\ ipc_rx_buffer' = Core(d)
      BY <1>0, <1>3, <2>2, Received, SocketTail DEF TypeOK, MailInv
    <3>2. queued[Core(d)] = 0
      BY <1>0, <3>1 DEF MailInv, CoreMail
    <3> QED BY <2>2, <3>1, <3>2, Numbers DEF ThreadInv
  <2> QED BY <1>3, <2>1, <2>2, Received
<1>4. ASSUME ReadStream PROVE ThreadInv'
  <2>1. CASE Return
    BY <1>2, <2>1
  <2>2. CASE /\ taken' = taken + 1 /\ taken' \in 0 .. HeadSize
             /\ ipc' = IF taken' = HeadSize THEN "copy" ELSE ipc
             /\ UNCHANGED <<file_stream, mem>>
    <3>1. ipc = "transform" /\ UNCHANGED <<ipc_rx_buffer, queued>>
      BY <1>4 DEF ReadStream, history
    <3> QED BY <1>0, <2>2, <3>1, Numbers DEF ThreadInv
  <2>3. CASE ipc' = "copy" /\ UNCHANGED <<file_stream, taken>>
    <3>1. ipc = "transform" /\ UNCHANGED <<ipc_rx_buffer, queued>>
      BY <1>4 DEF ReadStream, history
    <3> QED BY <1>0, <2>3, <3>1 DEF ThreadInv
  <2> QED BY <1>0, <1>4, <2>1, <2>2, <2>3, ReadEffect
<1>5. ASSUME ReceiveFails PROVE ThreadInv'
  BY <1>5, NotReceived DEF ThreadInv
<1>6. ASSUME CopyMemory \/ TicosdEnds PROVE ThreadInv'
  BY <1>2, <1>6 DEF CopyMemory, TicosdEnds
<1>7. ASSUME NEW p \in Pids, Crash(p) \/ Fork(p) PROVE ThreadInv'
  BY <1>1, <1>7 DEF Crash, Fork, history
<1>8. ASSUME NEW d \in Dumps, \/ Dump(d) \/ Kill(d) \/ sendmsg(d) \/ recv(d)
                              \/ SetsockoptFails(d) \/ prv_sig_handler(d) \/ HandlerFails(d)
      PROVE  ThreadInv'
  BY <1>1, <1>8 DEF Dump, Kill, sendmsg, recv, SetsockoptFails, prv_sig_handler, HandlerFails, history
<1>9. ASSUME NEW c \in Ctls, prv_cmd_write_attributes(c) PROVE ThreadInv'
  BY <1>1, <1>9 DEF prv_cmd_write_attributes, history
<1>10. ASSUME Bind PROVE ThreadInv'
  BY <1>1, <1>10 DEF Bind, history
<1>11. ASSUME WriteLoops PROVE ThreadInv'
  BY <1>0, <1>11 DEF WriteLoops, ThreadInv, history
<1> QED BY <1>3, <1>4, <1>5, <1>6, <1>7, <1>8, <1>9, <1>10, <1>11 DEF Next, IpcThread

\* Steps that send, receive and queue nothing keep the mail as it is.
LEMMA QuietMail ==
  ASSUME TypeOK, MailInv, UNCHANGED <<socket, ipc_rx_buffer, queued, failures>>,
         \A d \in Dumps : Ahead(d)' => Ahead(d),
         \A c \in Ctls : ctl'[c] = "sending" => ctl[c] = "sending"
  PROVE  MailInv'
<1>1. \A x : InSocket(x)' <=> InSocket(x)
  BY DEF InSocket
<1>2. Single'
  BY DEF MailInv, Single
<1>3. CoreMail'
  BY <1>1 DEF MailInv, CoreMail
<1>4. CtlMail'
  <2> SUFFICES ASSUME NEW c \in Ctls
               PROVE  /\ ctl'[c] = "sending" => ~InSocket(Attributes(c))
                      /\ ctl'[c] = "sending" \/ InSocket(Attributes(c)) =>
                           queued[Attributes(c)] = 0 /\ ipc_rx_buffer # Attributes(c)
                      /\ queued[Attributes(c)] <= 1 + failures'
    BY <1>1 DEF CtlMail
  <2> QED BY DEF MailInv, CtlMail
<1> QED BY <1>2, <1>3, <1>4 DEF MailInv

\* Every step keeps each datagram in one place.
LEMMA MailStep == HandlerInv /\ Next => MailInv'
<1> SUFFICES ASSUME HandlerInv, Next PROVE MailInv'
  OBVIOUS
<1>0. TypeOK /\ ThreadInv /\ MailInv /\ KernelInv
  BY DEF HandlerInv
<1>t. /\ handler \in [Dumps -> {"none", "sending", "shut", "waiting", "untimed", "exited"}]
      /\ ctl \in [Ctls -> {"sending", "sent", "failed"}]
      /\ socket \in Seq(Messages) /\ failures \in Nat
      /\ queued \in [Messages -> Nat]
  BY <1>0, Numbers DEF TypeOK
<1>1. ASSUME NEW p \in Pids, Crash(p) PROVE MailInv'
  <2>1. \A d \in Dumps : Ahead(d)' => Ahead(d)
    <3>1. dumped' \in Dumps /\ dumped' > dumped
      <4>1. dumped' \in Dumps /\ dumped' = dumped + 1
        BY <1>0, <1>1, CrashEffect
      <4>2. dumped \in Nat
        BY <1>0, Types
      <4> QED BY <4>1, <4>2
    <3>2. handler[dumped'] = "none"
      BY <1>0, <3>1 DEF KernelInv
    <3> QED BY <1>0, <1>1, <3>1, <3>2, CrashEffect DEF Ahead
  <2> QED BY <1>0, <1>1, <2>1, QuietMail DEF Crash, thread, history
<1>2. ASSUME \/ \E p \in Pids : Fork(p)
             \/ \E d \in Dumps : Dump(d) \/ Kill(d)
             \/ Bind \/ ReadStream \/ WriteLoops
      PROVE  MailInv'
  <2>1. UNCHANGED <<socket, ipc_rx_buffer, queued, failures, handler, ctl>>
    BY <1>2 DEF Fork, Dump, Kill, Bind, ReadStream, WriteLoops, clients, thread, history
  <2>2. \A d \in Dumps : Ahead(d)' => Ahead(d)
    BY <2>1 DEF Ahead
  <2> QED BY <1>0, <2>1, <2>2, QuietMail
<1>3. ASSUME NEW d \in Dumps, \/ recv(d) \/ SetsockoptFails(d)
                              \/ prv_sig_handler(d) \/ HandlerFails(d)
                              \/ sendmsg(d) /\ UNCHANGED socket
      PROVE  MailInv'
  <2>1. UNCHANGED <<ipc_rx_buffer, queued, failures, ctl, socket>>
    BY <1>3 DEF recv, SetsockoptFails, prv_sig_handler, HandlerFails, sendmsg, thread, history
  <2>2. \A e \in Dumps : Ahead(e)' => Ahead(e)
    <3>1. \/ handler' = [handler EXCEPT ![d] = "exited"]
          \/ handler' = [handler EXCEPT ![d] = "untimed"]
          \/ handler[d] = "sending" /\ handler' = [handler EXCEPT ![d] = "shut"]
          \/ UNCHANGED handler
          \/ socket' = Append(socket, Core(d))
      BY <1>3, <1>t DEF recv, SetsockoptFails, prv_sig_handler, HandlerFails, sendmsg
    <3>2. socket' # Append(socket, Core(d))
      <4>1. Len(Append(socket, Core(d))) = Len(socket) + 1 /\ Len(socket) \in Nat
        BY <1>t, Datagrams
      <4>2. Len(socket') = Len(socket)
        BY <2>1
      <4> QED BY <4>1, <4>2
    <3> QED BY <1>t, <3>1, <3>2 DEF Ahead
  <2> QED BY <1>0, <2>1, <2>2, QuietMail
<1>4. ASSUME NEW d \in Dumps, sendmsg(d), socket' = Append(socket, Core(d)),
             handler[d] = "sending", handler' = [handler EXCEPT ![d] = "waiting"]
      PROVE  MailInv'
  <2>1. UNCHANGED <<ipc_rx_buffer, queued, ctl, failures>>
    BY <1>4 DEF sendmsg, thread, history
  <2>2. ~InSocket(Core(d)) /\ queued[Core(d)] = 0 /\ ipc_rx_buffer # Core(d)
    BY <1>0, <1>4 DEF MailInv, CoreMail, Ahead
  <2>3. (\A x : InSocket(x)' <=> InSocket(x) \/ x = Core(d)) /\ Single'
    BY <1>0, <1>t, <1>4, <2>2, SocketAppend, Datagrams DEF MailInv
  <2>4. ~Ahead(d)' /\ \A e \in Dumps : e # d => (Ahead(e)' <=> Ahead(e))
    BY <1>t, <1>4 DEF Ahead
  <2>5. CoreMail'
    <3> SUFFICES ASSUME NEW e \in Dumps
                 PROVE  /\ Ahead(e)' => ~InSocket(Core(e))'
                        /\ Ahead(e)' \/ InSocket(Core(e))' =>
                             queued[Core(e)] = 0 /\ ipc_rx_buffer # Core(e)
                        /\ queued[Core(e)] <= 1
      BY <2>1 DEF CoreMail
    <3>1. CASE e = d
      BY <2>2, <2>4, <3>1
    <3>2. CASE e # d
      <4>1. InSocket(Core(e))' <=> InSocket(Core(e))
        BY <2>3, <3>2, Datagrams
      <4> QED BY <1>0, <2>4, <3>2, <4>1 DEF MailInv, CoreMail
    <3> QED BY <3>1, <3>2
  <2>6. CtlMail'
    <3>1. \A c \in Ctls : InSocket(Attributes(c))' <=> InSocket(Attributes(c))
      BY <2>3, Datagrams
    <3> QED BY <1>0, <2>1, <3>1 DEF MailInv, CtlMail
  <2> QED BY <2>3, <2>5, <2>6 DEF MailInv
<1>5. ASSUME NEW c \in Ctls, prv_cmd_write_attributes(c) PROVE MailInv'
  <2>1. UNCHANGED <<ipc_rx_buffer, queued, handler, failures>>
    BY <1>5 DEF prv_cmd_write_attributes, thread, history
  <2>2. CASE UNCHANGED socket /\ ctl' = [ctl EXCEPT ![c] = "failed"]
    <3>1. \A d \in Dumps : Ahead(d)' => Ahead(d)
      BY <2>1 DEF Ahead
    <3>2. \A b \in Ctls : ctl'[b] = "sending" => ctl[b] = "sending"
      BY <1>t, <2>2
    <3> QED BY <1>0, <2>1, <2>2, <3>1, <3>2, QuietMail
  <2>3. CASE socket' = Append(socket, Attributes(c)) /\ ctl' = [ctl EXCEPT ![c] = "sent"]
    <3>1. /\ ~InSocket(Attributes(c)) /\ queued[Attributes(c)] = 0
          /\ ipc_rx_buffer # Attributes(c)
      BY <1>0, <1>5 DEF prv_cmd_write_attributes, MailInv, CtlMail
    <3>2. (\A x : InSocket(x)' <=> InSocket(x) \/ x = Attributes(c)) /\ Single'
      BY <1>0, <1>t, <2>3, <3>1, SocketAppend, Datagrams DEF MailInv
    <3>3. CoreMail'
      <4>1. \A d \in Dumps : (InSocket(Core(d))' <=> InSocket(Core(d))) /\ (Ahead(d)' <=> Ahead(d))
        BY <2>1, <3>2, Datagrams DEF Ahead
      <4> QED BY <1>0, <2>1, <4>1 DEF MailInv, CoreMail
    <3>4. CtlMail'
      <4> SUFFICES ASSUME NEW b \in Ctls
                   PROVE  /\ ctl'[b] = "sending" => ~InSocket(Attributes(b))'
                          /\ ctl'[b] = "sending" \/ InSocket(Attributes(b))' =>
                               queued[Attributes(b)] = 0 /\ ipc_rx_buffer # Attributes(b)
                          /\ queued[Attributes(b)] <= 1 + failures
        BY <2>1 DEF CtlMail
      <4>1. CASE b = c
        BY <1>t, <2>3, <3>1, <4>1
      <4>2. CASE b # c
        <5>1. (InSocket(Attributes(b))' <=> InSocket(Attributes(b))) /\ ctl'[b] = ctl[b]
          BY <1>t, <2>3, <3>2, <4>2, Datagrams
        <5> QED BY <1>0, <5>1 DEF MailInv, CtlMail
      <4> QED BY <4>1, <4>2
    <3> QED BY <3>2, <3>3, <3>4 DEF MailInv
  <2> QED BY <1>5, <2>2, <2>3 DEF prv_cmd_write_attributes
<1>6. ASSUME Receive PROVE MailInv'
  <2> DEFINE m == Head(socket)
  <2>1. /\ ipc_rx_buffer' = m
        /\ UNCHANGED <<handler, ctl, failures>>
        /\ \/ queued' = queued
           \/ \E c \in Ctls : m = Attributes(c) /\ queued' = [queued EXCEPT ![Attributes(c)] = @ + 1]
    BY <1>6, Received DEF clients
  <2>2. /\ m \in Messages /\ InSocket(m) /\ Single'
        /\ \A x : InSocket(x)' <=> InSocket(x) /\ x # m
    BY <1>0, <1>t, <1>6, Received, SocketTail DEF MailInv
  <2> HIDE DEF m
  <2>3. CoreMail'
    <3> SUFFICES ASSUME NEW d \in Dumps
                 PROVE  /\ Ahead(d)' => ~InSocket(Core(d))'
                        /\ Ahead(d)' \/ InSocket(Core(d))' =>
                             queued'[Core(d)] = 0 /\ ipc_rx_buffer' # Core(d)
                        /\ queued'[Core(d)] <= 1
      BY DEF CoreMail
    <3>1. queued'[Core(d)] = queued[Core(d)]
      BY <1>t, <2>1, Datagrams
    <3>2. Ahead(d)' <=> Ahead(d)
      BY <2>1 DEF Ahead
    <3>3. Ahead(d) => Core(d) # m
      BY <1>0, <2>2 DEF MailInv, CoreMail
    <3> QED BY <1>0, <2>1, <2>2, <3>1, <3>2, <3>3 DEF MailInv, CoreMail
  <2>4. CtlMail'
    <3> SUFFICES ASSUME NEW c \in Ctls
                 PROVE  /\ ctl[c] = "sending" => ~InSocket(Attributes(c))'
                        /\ ctl[c] = "sending" \/ InSocket(Attributes(c))' =>
                             queued'[Attributes(c)] = 0 /\ m # Attributes(c)
                        /\ queued'[Attributes(c)] <= 1 + failures'
      BY <2>1 DEF CtlMail
    <3>1. Attributes(c) \in Messages /\ queued[Attributes(c)] \in Nat
      BY <1>t, Datagrams
    <3>2. CASE Attributes(c) = m
      <4>1. queued[Attributes(c)] = 0 /\ ctl[c] # "sending"
        BY <1>0, <2>2, <3>2 DEF MailInv, CtlMail
      <4>2. queued'[Attributes(c)] \in {0, 1}
        BY <1>t, <2>1, <3>1, <3>2, <4>1
      <4> QED BY <1>t, <2>1, <2>2, <3>2, <4>1, <4>2
    <3>3. CASE Attributes(c) # m
      <4>1. queued'[Attributes(c)] = queued[Attributes(c)]
        BY <1>t, <2>1, <3>1, <3>3
      <4> QED BY <1>0, <1>t, <2>1, <2>2, <3>1, <3>3, <4>1 DEF MailInv, CtlMail
    <3> QED BY <3>2, <3>3
  <2> QED BY <2>2, <2>3, <2>4 DEF MailInv
<1>7. ASSUME ReceiveFails PROVE MailInv'
  <2>1. /\ failures' = failures + 1 /\ UNCHANGED <<handler, ctl, socket, ipc_rx_buffer>>
        /\ \/ queued' = queued
           \/ \E c \in Ctls : /\ ipc_rx_buffer = Attributes(c)
                              /\ queued' = [queued EXCEPT ![Attributes(c)] = @ + 1]
    BY <1>7, NotReceived DEF clients
  <2>2. \A x : InSocket(x)' <=> InSocket(x)
    BY <2>1 DEF InSocket
  <2>3. CoreMail'
    <3>1. \A d \in Dumps : (Ahead(d)' <=> Ahead(d)) /\ queued'[Core(d)] = queued[Core(d)]
      BY <1>t, <2>1, Datagrams DEF Ahead
    <3> QED BY <1>0, <2>1, <2>2, <3>1 DEF MailInv, CoreMail
  <2>4. CtlMail'
    <3> SUFFICES ASSUME NEW c \in Ctls
                 PROVE  /\ ctl[c] = "sending" => ~InSocket(Attributes(c))
                        /\ ctl[c] = "sending" \/ InSocket(Attributes(c)) =>
                             queued'[Attributes(c)] = 0 /\ ipc_rx_buffer # Attributes(c)
                        /\ queued'[Attributes(c)] <= 1 + failures'
      BY <2>1, <2>2 DEF CtlMail
    <3>1. Attributes(c) \in Messages /\ queued[Attributes(c)] \in Nat
      BY <1>t, Datagrams
    <3>2. CASE Attributes(c) = ipc_rx_buffer
      <4>1. queued'[Attributes(c)] \in {queued[Attributes(c)], queued[Attributes(c)] + 1}
        BY <1>t, <2>1, <3>1, <3>2
      <4> QED BY <1>0, <1>t, <2>1, <3>1, <3>2, <4>1 DEF MailInv, CtlMail
    <3>3. CASE Attributes(c) # ipc_rx_buffer
      <4>1. queued'[Attributes(c)] = queued[Attributes(c)]
        BY <1>t, <2>1, <3>1, <3>3
      <4> QED BY <1>0, <1>t, <2>1, <3>1, <4>1 DEF MailInv, CtlMail
    <3> QED BY <3>2, <3>3
  <2>5. Single'
    BY <1>0, <2>1 DEF MailInv, Single
  <2> QED BY <2>3, <2>4, <2>5 DEF MailInv
<1>8. ASSUME CopyMemory PROVE MailInv'
  <2>1. PICK d \in Dumps : ipc_rx_buffer = Core(d) /\ queued[Core(d)] = 0
    BY <1>0, <1>8 DEF CopyMemory, ThreadInv
  <2>2. /\ UNCHANGED <<handler, ctl, socket, ipc_rx_buffer, failures>>
        /\ queued' = queued \/ queued' = [queued EXCEPT ![Core(d)] = @ + 1]
    BY <1>8, <2>1 DEF CopyMemory, clients
  <2>3. \A x : InSocket(x)' <=> InSocket(x)
    BY <2>2 DEF InSocket
  <2>4. CoreMail'
    <3> SUFFICES ASSUME NEW e \in Dumps
                 PROVE  /\ Ahead(e) => ~InSocket(Core(e))
                        /\ Ahead(e) \/ InSocket(Core(e)) =>
                             queued'[Core(e)] = 0 /\ ipc_rx_buffer # Core(e)
                        /\ queued'[Core(e)] <= 1
      BY <2>2, <2>3 DEF CoreMail, Ahead
    <3>1. CASE e = d
      <4>1. queued'[Core(d)] \in {0, 1}
        BY <1>t, <2>1, <2>2, Datagrams
      <4> QED BY <1>0, <2>1, <3>1, <4>1 DEF MailInv, CoreMail
    <3>2. CASE e # d
      <4>1. queued'[Core(e)] = queued[Core(e)]
        BY <1>t, <2>2, <3>2, Datagrams
      <4> QED BY <1>0, <4>1 DEF MailInv, CoreMail
    <3> QED BY <3>1, <3>2
  <2>5. CtlMail'
    <3>1. \A c \in Ctls : queued'[Attributes(c)] = queued[Attributes(c)]
      BY <1>t, <2>2, Datagrams
    <3> QED BY <1>0, <2>2, <2>3, <3>1 DEF MailInv, CtlMail
  <2>6. Single'
    BY <1>0, <2>2 DEF MailInv, Single
  <2> QED BY <2>4, <2>5, <2>6 DEF MailInv
<1>9. ASSUME TicosdEnds PROVE MailInv'
  <2>1. /\ socket' = <<>> /\ ipc_rx_buffer' = Nothing
        /\ UNCHANGED <<handler, ctl, queued, failures>>
    BY <1>9 DEF TicosdEnds, clients
  <2>2. (\A x : ~InSocket(x)') /\ Single'
    BY <2>1 DEF InSocket, Single
  <2>3. CoreMail'
    <3>1. \A d \in Dumps : ipc_rx_buffer' # Core(d) /\ (Ahead(d)' <=> Ahead(d))
      BY <2>1, Datagrams DEF Ahead
    <3> QED BY <1>0, <2>1, <2>2, <3>1 DEF MailInv, CoreMail
  <2>4. CtlMail'
    <3>1. \A c \in Ctls : ipc_rx_buffer' # Attributes(c)
      BY <2>1, Datagrams
    <3> QED BY <1>0, <2>1, <2>2, <3>1 DEF MailInv, CtlMail
  <2> QED BY <2>2, <2>3, <2>4 DEF MailInv
<1>10. ASSUME NEW d \in Dumps, sendmsg(d) PROVE MailInv'
  BY <1>3, <1>4, <1>10 DEF sendmsg
<1> QED BY <1>1, <1>2, <1>3, <1>5, <1>6, <1>7, <1>8, <1>9, <1>10 DEF Next, IpcThread

-----------------------------------------------------------------------------
\* Every step keeps the processes of different core dumps apart.
LEMMA KernelStep == HandlerInv /\ Next => KernelInv'
<1> SUFFICES ASSUME HandlerInv, Next PROVE KernelInv'
  OBVIOUS
<1>0. TypeOK /\ ThreadInv /\ KernelInv
  BY DEF HandlerInv
<1>1. /\ \A p \in Pids : process[p].use \in Nat /\ process[p].use > 0
      /\ \A d \in Dumps : dump[d].pid \in Pids /\ dump[d].use \in Nat
      /\ dumped \in Nat
      /\ handler \in [Dumps -> {"none", "sending", "shut", "waiting", "untimed", "exited"}]
  BY <1>0, Types
<1>q. ASSUME \A d \in Dumps : /\ dump'[d].pid = dump[d].pid /\ dump'[d].use = dump[d].use
                              /\ handler'[d] = "none" <=> handler[d] = "none",
             dumped' = dumped,
             \A p \in Pids : \/ process'[p] = process[p]
                             \/ process'[p].state # "running" /\ process'[p].use = process[p].use
                             \/ process'[p].use = process[p].use + 1
      PROVE  KernelInv'
  <2>1. \A d \in Dumps : d > dumped => dump'[d].use = 0 /\ handler'[d] = "none"
    BY <1>0, <1>q DEF KernelInv
  <2>2. ASSUME NEW d \in Dumps, d <= dumped
        PROVE  /\ dump'[d].use > 0 /\ handler'[d] # "none"
               /\ dump'[d].use <= process'[dump'[d].pid].use
               /\ process'[dump'[d].pid].state = "running" =>
                    dump'[d].use < process'[dump'[d].pid].use
    <3>1. PICK p \in Pids : p = dump[d].pid
      BY <1>1
    <3>2. /\ dump[d].use > 0 /\ handler[d] # "none" /\ dump[d].use <= process[p].use
          /\ process[p].state = "running" => dump[d].use < process[p].use
      BY <1>0, <2>2, <3>1 DEF KernelInv
    <3>3. dump'[d].pid = p /\ dump'[d].use = dump[d].use /\ handler'[d] # "none"
      BY <1>q, <3>1, <3>2
    <3>4. /\ dump[d].use <= process'[p].use
          /\ process'[p].state = "running" => dump[d].use < process'[p].use
      BY <1>q, <1>1, <3>2
    <3> QED BY <3>2, <3>3, <3>4
  <2>3. \A d, e \in Dumps :
          /\ d <= dumped /\ e <= dumped
          /\ dump'[d].pid = dump'[e].pid /\ dump'[d].use = dump'[e].use
          => d = e
    BY <1>0, <1>q DEF KernelInv
  <2> QED BY <1>q, <2>1, <2>2, <2>3 DEF KernelInv
<1>2. ASSUME NEW p \in Pids, Crash(p) PROVE KernelInv'
  <2>n. PICK n \in Dumps : n = dumped'
    BY <1>0, <1>2, CrashEffect
  <2>1. /\ n = dumped + 1 /\ process[p].state = "running"
        /\ process'[p] = [state |-> "dumping", use |-> process[p].use]
        /\ \A q \in Pids : q # p => process'[q] = process[q]
        /\ dump'[n].pid = p /\ dump'[n].use = process[p].use
        /\ \A e \in Dumps : e # n => dump'[e] = dump[e] /\ handler'[e] = handler[e]
        /\ handler'[n] = "sending"
    BY <1>0, <1>2, <2>n, CrashEffect
  <2>2. process'[p].use = process[p].use /\ process'[p].state = "dumping"
    BY <2>1
  <2>3. \A e \in Dumps : (e > n => e > dumped /\ e # n) /\ (e <= n => e = n \/ (e <= dumped /\ e # n))
    BY <1>1, <2>1, Numbers
  <2>4. \A e \in Dumps : e > n => dump'[e].use = 0 /\ handler'[e] = "none"
    BY <1>0, <2>1, <2>3 DEF KernelInv
  <2>5. ASSUME NEW d \in Dumps, d <= n
        PROVE  /\ dump'[d].use > 0 /\ handler'[d] # "none"
               /\ dump'[d].use <= process'[dump'[d].pid].use
               /\ process'[dump'[d].pid].state = "running" =>
                    dump'[d].use < process'[dump'[d].pid].use
    <3>1. CASE d = n
      BY <1>1, <2>1, <2>2, <3>1
    <3>2. CASE d <= dumped /\ d # n
      <4>1. /\ dump[d].use > 0 /\ handler[d] # "none" /\ dump[d].use <= process[dump[d].pid].use
            /\ process[dump[d].pid].state = "running" => dump[d].use < process[dump[d].pid].use
        BY <1>0, <3>2 DEF KernelInv
      <4>2. dump'[d] = dump[d] /\ handler'[d] = handler[d]
        BY <2>1, <3>2
      <4>3. CASE dump[d].pid = p
        BY <2>2, <4>1, <4>2, <4>3
      <4>4. CASE dump[d].pid # p
        BY <1>1, <2>1, <4>1, <4>2, <4>4
      <4> QED BY <4>3, <4>4
    <3> QED BY <2>3, <2>5, <3>1, <3>2
  <2>6. ASSUME NEW d \in Dumps, d <= dumped
        PROVE  dump'[d].pid # p \/ dump'[d].use # process[p].use
    <3>1. d # n
      BY <1>1, <2>1, <2>6, Numbers
    <3>2. dump[d].pid = p => dump[d].use < process[p].use
      BY <1>0, <2>1, <2>6 DEF KernelInv
    <3>3. dump'[d] = dump[d]
      BY <2>1, <3>1
    <3>4. dump[d].use \in Nat /\ process[p].use \in Nat
      BY <1>1
    <3>5. dump[d].use < process[p].use => dump[d].use # process[p].use
      BY <3>4
    <3> QED BY <3>2, <3>3, <3>5
  <2>7. ASSUME NEW d \in Dumps, NEW e \in Dumps, d <= n, e <= n,
               dump'[d].pid = dump'[e].pid, dump'[d].use = dump'[e].use
        PROVE  d = e
    <3>1. CASE d = n /\ e # n
      BY <2>1, <2>3, <2>6, <2>7, <3>1
    <3>2. CASE d # n /\ e = n
      BY <2>1, <2>3, <2>6, <2>7, <3>2
    <3>3. CASE d # n /\ e # n
      <4>1. d <= dumped /\ e <= dumped /\ dump'[d] = dump[d] /\ dump'[e] = dump[e]
        BY <2>1, <2>3, <2>7, <3>3
      <4> QED BY <1>0, <2>7, <4>1 DEF KernelInv
    <3> QED BY <3>1, <3>2, <3>3
  <2> QED BY <2>n, <2>4, <2>5, <2>7 DEF KernelInv
<1>3. ASSUME NEW p \in Pids, Fork(p) PROVE KernelInv'
  <2>1. process'[p] = [state |-> "running", use |-> process[p].use + 1]
        /\ \A q \in Pids : q # p => process'[q] = process[q]
    BY <1>0, <1>3, ForkEffect
  <2>2. process'[p].use = process[p].use + 1
    BY <2>1
  <2>3. UNCHANGED <<dump, dumped, handler>>
    BY <1>3 DEF Fork, clients
  <2> QED BY <1>q, <2>1, <2>2, <2>3
<1>4. ASSUME NEW d \in Dumps, Dump(d) \/ Kill(d) PROVE KernelInv'
  <2>1. /\ \A e \in Dumps : dump'[e].pid = dump[e].pid /\ dump'[e].use = dump[e].use
        /\ Dumping(d)
        /\ \/ process' = process
           \/ /\ process'[dump[d].pid] = [state |-> "gone", use |-> dump[d].use]
              /\ \A q \in Pids : q # dump[d].pid => process'[q] = process[q]
    BY <1>0, <1>4, DumpEffect, KillEffect
  <2>2. process[dump[d].pid].use = dump[d].use
    BY <2>1 DEF Dumping
  <2>3. \A p \in Pids : \/ process'[p] = process[p]
                        \/ process'[p].state # "running" /\ process'[p].use = process[p].use
    BY <2>1, <2>2
  <2>4. UNCHANGED <<dumped, handler>>
    BY <1>4 DEF Dump, Kill, clients
  <2> QED BY <1>q, <2>1, <2>3, <2>4
<1>5. ASSUME NEW d \in Dumps,
             \/ sendmsg(d) \/ recv(d) \/ SetsockoptFails(d)
             \/ prv_sig_handler(d) \/ HandlerFails(d)
      PROVE  KernelInv'
  <2>1. UNCHANGED <<dump, dumped, process>>
    BY <1>5 DEF sendmsg, recv, SetsockoptFails, prv_sig_handler, HandlerFails, kernel
  <2>2. /\ handler[d] # "none"
        /\ \/ UNCHANGED handler
           \/ \E x \in {"shut", "waiting", "untimed", "exited"} :
                handler' = [handler EXCEPT ![d] = x]
    BY <1>1, <1>5 DEF sendmsg, recv, SetsockoptFails, prv_sig_handler, HandlerFails
  <2>3. \A e \in Dumps : handler'[e] = "none" <=> handler[e] = "none"
    BY <1>1, <2>2
  <2> QED BY <1>q, <2>1, <2>3
<1>6. ASSUME UNCHANGED <<kernel, handler>> PROVE KernelInv'
  BY <1>q, <1>6 DEF kernel
<1>7. ASSUME ReadStream PROVE KernelInv'
  <2>1. \A e \in Dumps : dump'[e].pid = dump[e].pid /\ dump'[e].use = dump[e].use
    BY <1>0, <1>7, ReadEffect
  <2>2. UNCHANGED <<process, dumped, handler>>
    BY <1>7 DEF ReadStream, clients
  <2> QED BY <1>q, <2>1, <2>2
<1>8. ASSUME \/ \E c \in Ctls : prv_cmd_write_attributes(c)
             \/ Receive \/ ReceiveFails \/ CopyMemory \/ WriteLoops \/ Bind \/ TicosdEnds
      PROVE  KernelInv'
  BY <1>6, <1>8 DEF prv_cmd_write_attributes, Receive, ReceiveFails, CopyMemory, WriteLoops, Bind,
                    TicosdEnds, clients
<1> QED BY <1>2, <1>3, <1>4, <1>5, <1>7, <1>8 DEF Next, IpcThread

-----------------------------------------------------------------------------
\* A core dump that nothing happened to keeps its account.
LEMMA AccountKept ==
  ASSUME NEW d \in Dumps, Account(d), Held(d)' => Held(d),
         dump'[d] = dump[d], process'[dump[d].pid] = process[dump[d].pid],
         d \in killed => d \in killed',
         file_stream' = d <=> file_stream = d,
         file_stream = d => UNCHANGED <<taken, mem>>
  PROVE  Account(d)'
<1> SUFFICES ASSUME Held(d)', dump[d].pid \notin Small, d \notin killed
             PROVE  /\ Dumping(d)'
                    /\ dump[d].left + dump[d].pipe + (IF file_stream' = d THEN taken' ELSE 0)
                         = HeadSize + PipeSize + 1
                    /\ file_stream' = d => mem' = dump[d].use
  BY DEF Account
<1>1. /\ Dumping(d)
      /\ dump[d].left + dump[d].pipe + (IF file_stream = d THEN taken ELSE 0)
           = HeadSize + PipeSize + 1
      /\ file_stream = d => mem = dump[d].use
  BY DEF Account
<1>2. Dumping(d)'
  BY <1>1 DEF Dumping
<1>3. (IF file_stream' = d THEN taken' ELSE 0) = (IF file_stream = d THEN taken ELSE 0)
  BY <1>1
<1> QED BY <1>1, <1>2, <1>3

\* Only one core dump is of a process that exists.
LEMMA OneDumping ==
  ASSUME KernelInv, NEW d \in Dumps, NEW e \in Dumps, d <= dumped, e <= dumped,
         Dumping(d), Dumping(e), dump[d].pid = dump[e].pid
  PROVE  d = e
BY DEF KernelInv, Dumping

\* Whoever holds a core dump holds one that has begun.
LEMMA HeldBegun ==
  ASSUME HandlerInv, NEW d \in Dumps, Held(d)
  PROVE  d <= dumped
<1>1. CASE handler[d] # "none"
  BY <1>1, Numbers, Types DEF HandlerInv, KernelInv
<1>2. CASE handler[d] = "none"
  <2>1. ~InSocket(Core(d)) /\ ipc_rx_buffer # Core(d)
    BY <1>2 DEF HandlerInv, MailInv, CoreMail, Ahead
  <2>2. file_stream # d
    BY <2>1, Numbers DEF HandlerInv, ThreadInv, TypeOK
  <2> QED BY <1>2, <2>1, <2>2 DEF Held
<1> QED BY <1>1, <1>2

\* Every step keeps the accounts.
LEMMA PipeStep == HandlerInv /\ Next => PipeInv'
<1> SUFFICES ASSUME HandlerInv, Next, NEW d \in Dumps PROVE Account(d)'
  BY DEF PipeInv
<1>0. TypeOK /\ ThreadInv /\ MailInv /\ KernelInv /\ Account(d)
  BY DEF HandlerInv, PipeInv
<1>1. /\ \A e \in Dumps : dump[e].pid \in Pids /\ dump[e].left \in Nat /\ dump[e].pipe \in Nat
      /\ dump[d].pipe <= PipeSize
      /\ handler \in [Dumps -> {"none", "sending", "shut", "waiting", "untimed", "exited"}]
      /\ taken \in Nat /\ taken <= HeadSize /\ socket \in Seq(Messages)
  BY <1>0, Types, Numbers DEF TypeOK
<1>2. ASSUME NEW p \in Pids, Crash(p) PROVE Account(d)'
  <2>n. PICK n \in Dumps : n = dumped'
    BY <1>0, <1>2, CrashEffect
  <2>1. /\ n = dumped + 1 /\ process[p].state = "running"
        /\ process'[p] = [state |-> "dumping", use |-> process[p].use]
        /\ \A q \in Pids : q # p => process'[q] = process[q]
        /\ dump'[n].pid = p /\ dump'[n].use = process[p].use
        /\ dump'[n].left = Size(p) /\ dump'[n].pipe = 0
        /\ \A e \in Dumps : e # n => dump'[e] = dump[e] /\ handler'[e] = handler[e]
    BY <1>0, <1>2, <2>n, CrashEffect
  <2>2. UNCHANGED <<killed, socket, thread>>
    BY <1>2 DEF Crash
  <2>3. UNCHANGED <<file_stream, taken, mem>> /\ \A x : InSocket(x)' <=> InSocket(x)
    BY <2>2 DEF thread, InSocket
  <2>4. dumped \in Nat
    BY <1>0, Types
  <2>5. CASE d = n
    <3>1. ~Held(d)
      BY <2>1, <2>4, <2>5, HeldBegun
    <3>2. file_stream' # d
      BY <2>3, <3>1 DEF Held
    <3>3. p \notin Small => Size(p) = HeadSize + PipeSize + 1
      BY DEF Size
    <3>4. Dumping(d)'
      BY <2>1, <2>5 DEF Dumping
    <3>5. Size(p) \in Nat
      BY Numbers DEF Size
    <3> QED BY <2>1, <2>5, <3>2, <3>3, <3>4, <3>5 DEF Account
  <2>6. CASE d # n
    <3>1. Held(d)' => Held(d)
      BY <2>1, <2>3, <2>6 DEF Held
    <3>2. dump'[d] = dump[d]
      BY <2>1, <2>6
    <3>3. CASE dump[d].pid = p
      <4>1. ~Dumping(d)
        BY <2>1, <3>3 DEF Dumping
      <4>2. ~(Held(d) /\ dump[d].pid \notin Small /\ d \notin killed)
        BY <1>0, <4>1 DEF Account
      <4> QED BY <2>2, <3>1, <3>2, <4>2 DEF Account
    <3>4. CASE dump[d].pid # p
      <4>1. process'[dump[d].pid] = process[dump[d].pid]
        BY <1>1, <2>1, <3>4
      <4> QED BY <1>0, <2>2, <2>3, <3>1, <3>2, <4>1, AccountKept
    <3> QED BY <3>3, <3>4
  <2> QED BY <2>5, <2>6
<1>3. ASSUME NEW p \in Pids, Fork(p) PROVE Account(d)'
  <2>1. /\ process[p].state = "gone"
        /\ \A q \in Pids : q # p => process'[q] = process[q]
    BY <1>0, <1>3, ForkEffect
  <2>2. UNCHANGED <<killed, socket, thread, handler, dump>>
    BY <1>3 DEF Fork, clients
  <2>3. UNCHANGED <<file_stream, taken, mem>> /\ \A x : InSocket(x)' <=> InSocket(x)
    BY <2>2 DEF thread, InSocket
  <2>4. Held(d)' => Held(d)
    BY <2>2, <2>3 DEF Held
  <2>5. CASE dump[d].pid = p
    <3>1. ~Dumping(d)
      BY <2>1, <2>5 DEF Dumping
    <3>2. ~(Held(d) /\ dump[d].pid \notin Small /\ d \notin killed)
      BY <1>0, <3>1 DEF Account
    <3> QED BY <2>2, <2>4, <3>2 DEF Account
  <2>6. CASE dump[d].pid # p
    <3>1. process'[dump[d].pid] = process[dump[d].pid]
      BY <1>1, <2>1, <2>6
    <3> QED BY <1>0, <2>2, <2>3, <2>4, <3>1, AccountKept
  <2> QED BY <2>5, <2>6
<1>4. ASSUME NEW e \in Dumps, Dump(e) \/ Kill(e) PROVE Account(d)'
  <2>1. /\ Dumping(e) /\ e <= dumped
        /\ dump'[d].pid = dump[d].pid /\ dump'[d].use = dump[d].use
        /\ e # d => dump'[d] = dump[d]
        /\ \/ /\ process' = process
              /\ dump'[e].left = dump[e].left - 1 /\ dump'[e].pipe = dump[e].pipe + 1
           \/ /\ \/ ~HasReader(e) \/ dump[e].left = 0
                 \/ killed' = killed \cup {e}
              /\ \A q \in Pids : q # dump[e].pid => process'[q] = process[q]
    BY <1>0, <1>4, DumpEffect, KillEffect
  <2>2. UNCHANGED <<socket, thread, handler>> /\ killed \subseteq killed'
    BY <1>4 DEF Dump, Kill, clients
  <2>3. UNCHANGED <<file_stream, taken, mem>> /\ \A x : InSocket(x)' <=> InSocket(x)
    BY <2>2 DEF thread, InSocket
  <2>4. Held(d)' <=> Held(d)
    BY <2>2, <2>3 DEF Held
  <2> SUFFICES ASSUME Held(d), dump[d].pid \notin Small, d \notin killed'
               PROVE  Account(d)'
    BY <2>1, <2>4 DEF Account
  <2>5. /\ Dumping(d)
        /\ dump[d].left + dump[d].pipe + (IF file_stream = d THEN taken ELSE 0)
             = HeadSize + PipeSize + 1
        /\ file_stream = d => mem = dump[d].use
    BY <1>0, <2>2 DEF Account
  <2>6. d <= dumped
    BY HeldBegun
  <2>7. CASE e # d
    <3>1. dump[d].pid # dump[e].pid
      BY <1>0, <2>1, <2>5, <2>6, <2>7, OneDumping
    <3>2. process'[dump[d].pid] = process[dump[d].pid]
      BY <1>1, <2>1, <3>1
    <3> QED BY <1>0, <2>1, <2>2, <2>3, <2>4, <2>7, <3>2, AccountKept
  <2>8. CASE e = d
    <3>1. HasReader(d)
      BY DEF Held, HasReader
    <3>2. dump[d].left # 0
      BY <1>1, <2>5, Numbers
    <3>3. /\ process' = process
          /\ dump'[d].left = dump[d].left - 1 /\ dump'[d].pipe = dump[d].pipe + 1
      BY <2>1, <2>8, <3>1, <3>2
    <3>4. Dumping(d)'
      BY <2>1, <2>5, <3>3 DEF Dumping
    <3>5. dump'[d].left + dump'[d].pipe = dump[d].left + dump[d].pipe
      <4>1. \A a, b \in Nat : (a - 1) + (b + 1) = a + b
        OBVIOUS
      <4>2. dump[d].left \in Nat /\ dump[d].pipe \in Nat
        BY <1>1
      <4>3. (dump[d].left - 1) + (dump[d].pipe + 1) = dump[d].left + dump[d].pipe
        BY <4>1, <4>2
      <4> QED BY <3>3, <4>3, Zenon
    <3> QED BY <2>1, <2>3, <2>5, <3>4, <3>5 DEF Account
  <2> QED BY <2>7, <2>8
<1>k. ASSUME UNCHANGED <<kernel>>, Held(d)' => Held(d), file_stream' = d <=> file_stream = d,
             file_stream = d => UNCHANGED <<taken, mem>>
      PROVE  Account(d)'
  BY <1>0, <1>k, AccountKept DEF kernel
<1>x. ASSUME UNCHANGED kernel, ~Held(d)'
      PROVE  Account(d)'
  BY <1>x DEF Account
<1>5. ASSUME NEW e \in Dumps, sendmsg(e) PROVE Account(d)'
  <2>1. UNCHANGED <<kernel, file_stream, taken, mem>>
    BY <1>5 DEF sendmsg, thread
  <2>2. CASE /\ handler[e] = "sending" /\ socket' = Append(socket, Core(e))
             /\ handler' = [handler EXCEPT ![e] = "waiting"]
    <3>1. \A x : InSocket(x)' <=> InSocket(x) \/ x = Core(e)
      BY <1>1, <2>2, SocketAppend, Datagrams
    <3>2. Held(d)' => Held(d)
      BY <1>1, <2>1, <2>2, <3>1, Datagrams DEF Held
    <3> QED BY <1>k, <2>1, <3>2
  <2>3. CASE /\ UNCHANGED socket
             /\ UNCHANGED handler \/ handler' = [handler EXCEPT ![e] = "exited"]
    <3>1. \A x : InSocket(x)' <=> InSocket(x)
      BY <2>3 DEF InSocket
    <3>2. Held(d)' => Held(d)
      BY <1>1, <2>1, <2>3, <3>1 DEF Held
    <3> QED BY <1>k, <2>1, <3>2
  <2> QED BY <1>5, <2>2, <2>3 DEF sendmsg
<1>6. ASSUME NEW e \in Dumps, \/ recv(e) \/ SetsockoptFails(e)
                              \/ prv_sig_handler(e) \/ HandlerFails(e)
      PROVE  Account(d)'
  <2>1. UNCHANGED <<kernel, file_stream, taken, mem, socket>>
    BY <1>6 DEF recv, SetsockoptFails, prv_sig_handler, HandlerFails, thread
  <2>2. \A x : InSocket(x)' <=> InSocket(x)
    BY <2>1 DEF InSocket
  <2>3. handler'[d] \in {"sending", "shut"} => handler[d] \in {"sending", "shut"}
    BY <1>1, <1>6 DEF recv, SetsockoptFails, prv_sig_handler, HandlerFails
  <2>4. Held(d)' => Held(d)
    BY <2>1, <2>2, <2>3 DEF Held
  <2> QED BY <1>k, <2>1, <2>4
<1>7. ASSUME NEW c \in Ctls, prv_cmd_write_attributes(c) PROVE Account(d)'
  <2>1. UNCHANGED <<kernel, file_stream, taken, mem, handler>>
    BY <1>7 DEF prv_cmd_write_attributes, thread
  <2>2. InSocket(Core(d))' <=> InSocket(Core(d))
    <3>1. CASE socket' = Append(socket, Attributes(c))
      <4>1. \A x : InSocket(x)' <=> InSocket(x) \/ x = Attributes(c)
        BY <1>1, <3>1, SocketAppend, Datagrams
      <4> QED BY <4>1, Datagrams
    <3>2. CASE UNCHANGED socket
      BY <3>2 DEF InSocket
    <3> QED BY <1>7, <3>1, <3>2 DEF prv_cmd_write_attributes
  <2>3. Held(d)' => Held(d)
    BY <2>1, <2>2 DEF Held
  <2> QED BY <1>k, <2>1, <2>3
<1>8. ASSUME Receive PROVE Account(d)'
  <2>1. /\ InSocket(Head(socket))
        /\ \A x : InSocket(x)' <=> InSocket(x) /\ x # Head(socket)
    BY <1>0, <1>1, <1>8, Received, SocketTail DEF MailInv
  <2>2. UNCHANGED <<kernel, handler>> /\ ipc = "recvmsg" /\ file_stream = NoDump
    BY <1>0, <1>8, Received DEF clients, ThreadInv
  <2>3. CASE file_stream' # d
    <3>1. Held(d)' => Held(d)
      BY <2>1, <2>2, <2>3 DEF Held
    <3> QED BY <1>k, <2>2, <2>3, <3>1, Numbers
  <2>4. CASE file_stream' = d
    <3>1. /\ Head(socket) = Core(d) /\ mem' = process[dump[d].pid].use /\ taken' = 0
      BY <1>8, <2>4, Received, Numbers
    <3>2. Held(d) /\ file_stream # d
      BY <2>1, <2>2, <3>1, Numbers DEF Held
    <3>3. UNCHANGED <<process, dump, killed>>
      BY <2>2 DEF kernel
    <3> SUFFICES ASSUME dump[d].pid \notin Small, d \notin killed
                 PROVE  Account(d)'
      BY <3>3 DEF Account
    <3>4. /\ Dumping(d) /\ dump[d].left + dump[d].pipe + 0 = HeadSize + PipeSize + 1
      BY <1>0, <3>2 DEF Account
    <3>5. mem' = dump[d].use
      BY <3>1, <3>4 DEF Dumping
    <3>6. Dumping(d)'
      BY <3>3, <3>4 DEF Dumping
    <3> QED BY <2>4, <3>1, <3>3, <3>4, <3>5, <3>6 DEF Account
  <2> QED BY <2>3, <2>4
<1>r. ASSUME UNCHANGED <<kernel, handler>>, Return, InSocket(Core(d))' => InSocket(Core(d))
      PROVE  Account(d)'
  <2>1. file_stream' # d
    BY <1>r, Numbers DEF Return
  <2>2. CASE file_stream = d
    <3>1. ipc_rx_buffer = Core(d)
      BY <1>0, <2>2, Numbers DEF ThreadInv, TypeOK
    <3>2. ~Ahead(d) /\ ~InSocket(Core(d))
      BY <1>0, <3>1 DEF MailInv, CoreMail
    <3>3. ~Held(d)'
      BY <1>r, <2>1, <3>2 DEF Held, Ahead
    <3> QED BY <1>x, <1>r, <3>3
  <2>3. CASE file_stream # d
    <3>1. Held(d)' => Held(d)
      BY <1>r, <2>1 DEF Held
    <3> QED BY <1>k, <1>r, <2>1, <2>3, <3>1
  <2> QED BY <2>2, <2>3
<1>9. ASSUME ReceiveFails PROVE Account(d)'
  <2>1. /\ UNCHANGED <<kernel, handler, socket>> /\ file_stream' = NoDump
        /\ ipc = "recvmsg"
    BY <1>9, NotReceived DEF clients
  <2>2. file_stream = NoDump
    BY <1>0, <2>1 DEF ThreadInv
  <2>3. Held(d)' => Held(d)
    BY <2>1, <2>2 DEF Held, InSocket
  <2> QED BY <1>k, <2>1, <2>2, <2>3, Numbers
<1>10. ASSUME ReadStream PROVE Account(d)'
  <2>1. UNCHANGED <<process, dumped, killed, handler, socket>>
    BY <1>10 DEF ReadStream, clients
  <2>2. \A x : InSocket(x)' <=> InSocket(x)
    BY <2>1 DEF InSocket
  <2>3. CASE Return /\ UNCHANGED dump
    BY <1>r, <2>1, <2>2, <2>3 DEF kernel
  <2>4. CASE /\ dump'[file_stream].left = dump[file_stream].left
             /\ dump'[file_stream].pipe = dump[file_stream].pipe - 1
             /\ taken' = taken + 1
             /\ UNCHANGED <<file_stream, mem>>
    <3>1. Held(d)' <=> Held(d)
      BY <2>1, <2>2, <2>4 DEF Held
    <3>2. /\ dump'[d].pid = dump[d].pid /\ dump'[d].use = dump[d].use
          /\ d # file_stream => dump'[d] = dump[d]
      BY <1>0, <1>10, ReadEffect
    <3>3. CASE d # file_stream
      BY <1>0, <2>1, <2>4, <3>1, <3>2, <3>3, AccountKept
    <3>4. CASE d = file_stream
      <4> SUFFICES ASSUME Held(d), dump[d].pid \notin Small, d \notin killed
                   PROVE  Account(d)'
        BY <2>1, <3>1, <3>2 DEF Account
      <4>1. /\ Dumping(d) /\ dump[d].left + dump[d].pipe + taken = HeadSize + PipeSize + 1
            /\ mem = dump[d].use
        BY <1>0, <3>4 DEF Account
      <4>2. Dumping(d)'
        BY <2>1, <3>2, <4>1 DEF Dumping
      <4>3. dump'[d].left + dump'[d].pipe + taken' = HeadSize + PipeSize + 1
        <5>1. \A a, b, t \in Nat : a + (b - 1) + (t + 1) = a + b + t
          OBVIOUS
        <5>2. dump[d].left \in Nat /\ dump[d].pipe \in Nat /\ taken \in Nat
          BY <1>1
        <5>3. dump[d].left + (dump[d].pipe - 1) + (taken + 1)
                = dump[d].left + dump[d].pipe + taken
          BY <5>1, <5>2
        <5>4. /\ dump'[d].left = dump[d].left /\ dump'[d].pipe = dump[d].pipe - 1
              /\ taken' = taken + 1
          BY <2>4, <3>4, Zenon
        <5> QED BY <4>1, <5>3, <5>4, Zenon
      <4> QED BY <2>4, <3>2, <3>4, <4>1, <4>2, <4>3 DEF Account
    <3> QED BY <3>3, <3>4
  <2>5. CASE UNCHANGED <<dump, file_stream, mem, taken>>
    <3>1. Held(d)' => Held(d)
      BY <2>1, <2>2, <2>5 DEF Held
    <3> QED BY <1>k, <2>1, <2>5, <3>1 DEF kernel
  <2> QED BY <1>0, <1>10, <2>3, <2>4, <2>5, ReadEffect
<1>11. ASSUME CopyMemory PROVE Account(d)'
  <2>1. UNCHANGED <<kernel, handler, socket>> /\ Return
    BY <1>11 DEF CopyMemory, clients
  <2>2. InSocket(Core(d))' => InSocket(Core(d))
    BY <2>1 DEF InSocket
  <2> QED BY <1>r, <2>1, <2>2
<1>12. ASSUME TicosdEnds PROVE Account(d)'
  <2>1. UNCHANGED <<kernel, handler>> /\ Return /\ socket' = <<>>
    BY <1>12 DEF TicosdEnds, clients
  <2>2. InSocket(Core(d))' => InSocket(Core(d))
    BY <2>1 DEF InSocket
  <2> QED BY <1>r, <2>1, <2>2
<1>13. ASSUME Bind PROVE Account(d)'
  <2>1. UNCHANGED <<kernel, handler, socket, file_stream, taken, mem>>
    BY <1>13 DEF Bind, clients, thread
  <2>2. Held(d)' => Held(d)
    BY <2>1 DEF Held, InSocket
  <2> QED BY <1>k, <2>1, <2>2
<1>14. ASSUME WriteLoops PROVE Account(d)'
  <2>1. UNCHANGED <<kernel, handler, socket, file_stream, taken, mem>>
    BY <1>14 DEF WriteLoops, clients
  <2>2. Held(d)' => Held(d)
    BY <2>1 DEF Held, InSocket
  <2> QED BY <1>k, <2>1, <2>2
<1> QED BY <1>2, <1>3, <1>4, <1>5, <1>6, <1>7, <1>8, <1>9, <1>10, <1>11, <1>12, <1>13, <1>14
        DEF Next, IpcThread

-----------------------------------------------------------------------------
\* The invariant is kept by steps and by stuttering.
LEMMA HandlerStep == HandlerInv /\ [Next]_vars => HandlerInv'
<1>1. HandlerInv /\ Next => HandlerInv'
  BY TypeStep, ThreadStep, MailStep, KernelStep, PipeStep DEF HandlerInv
<1>2. HandlerInv /\ UNCHANGED vars => HandlerInv'
  BY DEF HandlerInv, TypeOK, ThreadInv, MailInv, Single, CoreMail, CtlMail, KernelInv, PipeInv,
         Account, Held, Ahead, Dumping, InSocket, vars, kernel, clients, thread, history
<1> QED BY <1>1, <1>2

\* The inductive invariant holds in every state.
LEMMA HandlerInvariant == Spec => []HandlerInv
<1>1. Init => HandlerInv
  BY HandlerInit
<1>2. HandlerInv /\ [Next]_vars => HandlerInv'
  BY HandlerStep
<1> QED BY <1>1, <1>2, PTL DEF Spec

\* Types are kept, and no pipe, socket or counter of the handler exceeds its
\* bound, for any sizes.
THEOREM HandlerTypes == Spec => []TypeOK
<1>1. HandlerInv => TypeOK
  BY DEF HandlerInv
<1> QED BY <1>1, HandlerInvariant, PTL

\* However processes crash and their numbers are used again, and whoever ends
\* when: the memory that prv_msg_handler copies is that of the process that
\* crashed, if its core dump does not fit into the pipe and nobody killed it.
THEOREM MemoryOfCrashed == Spec => []MemoryIsOfCrashed
<1>1. HandlerInv => MemoryIsOfCrashed
  <2> SUFFICES ASSUME HandlerInv, ipc = "copy"
               PROVE  \/ Dumping(file_stream) /\ mem = dump[file_stream].use
                      \/ Size(dump[file_stream].pid) <= HeadSize + PipeSize
                      \/ file_stream \in killed
    BY DEF MemoryIsOfCrashed
  <2>1. file_stream \in Dumps /\ Held(file_stream)
    BY DEF HandlerInv, ThreadInv, Held
  <2>2. Account(file_stream)
    BY <2>1 DEF HandlerInv, PipeInv
  <2>3. dump[file_stream].pid \in Small =>
          Size(dump[file_stream].pid) <= HeadSize + PipeSize
    BY Numbers DEF Size
  <2> QED BY <2>1, <2>2, <2>3 DEF Account
<1> QED BY <1>1, HandlerInvariant, PTL

\* No core dump is queued twice, and attributes only as often as recvmsg fails.
THEOREM MailQueuedOnce == Spec => []QueuedOnce
<1>1. HandlerInv => QueuedOnce
  BY DEF HandlerInv, MailInv, CoreMail, CtlMail, QueuedOnce
<1> QED BY <1>1, HandlerInvariant, PTL
=============================================================================
