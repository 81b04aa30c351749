------------------------------- MODULE TxQueue -------------------------------
(***************************************************************************)
(* The transmit queue of ticosd (src/queue.c): a ring buffer of 32-bit     *)
(* words, kept in a memory-mapped file so that it survives a restart.      *)
(* Writers are the plugins, which call ticosd_txdata from the IPC thread   *)
(* or at start-up; the one reader is ticosd_process_tx_queue on the main   *)
(* thread, which copies the head, posts it and then removes it.  Every     *)
(* operation runs under handle->lock and is one action here.  What lies    *)
(* between two actions is real: the reader posts to the network with the   *)
(* lock released.                                                          *)
(*                                                                         *)
(* A message is abstracted to the number of the write that stored it.  A   *)
(* word of the buffer says what it holds: a header, the k-th further word  *)
(* of a message, the end marker, or zero.  Words that are not a header are *)
(* never mistaken for one and an overwritten payload never keeps its CRC.  *)
(***************************************************************************)
EXTENDS Integers, Sequences

CONSTANTS
  Words,          \* handle->size / sizeof(uint32_t)
  PayloadBytes,   \* payload sizes that the writers use, in bytes
  Collection,     \* values enable_data_collection may have at a start
  MaxWrites,      \* bound on the number of messages written
  MaxRestarts     \* bound on the number of restarts

\* QUEUE_SIZE_MIN is one header and one word.
ASSUME WordsAssumption == Words \in Nat /\ Words >= 4
\* ticosd_queue_write refuses an empty payload.
ASSUME PayloadAssumption == \A bytes \in PayloadBytes : bytes \in Nat /\ bytes >= 1
ASSUME CollectionAssumption == Collection \subseteq BOOLEAN
ASSUME BoundsAssumption == MaxWrites \in Nat /\ MaxRestarts \in Nat

HEADER_LEN == 3

NoMsg == 0     \* no message: write numbers start at 1

VARIABLES
  \* sTicosdQueue
  buf, read_ptr, write_ptr, prev_ptr, can_complete_read,
  \* the message that ticosd_process_tx_queue copied and is posting
  payload,
  \* enable_data_collection as the running daemon read it
  enabled,
  \* counters
  written, restarts

handle == <<buf, read_ptr, write_ptr, prev_ptr, can_complete_read>>
vars == <<handle, payload, enabled, written, restarts>>

-----------------------------------------------------------------------------
(* Words of the buffer *)

Zero == [kind |-> "zero"]
END_POINTER == [kind |-> "end"]
Header(id, bytes, prev) ==
  [kind |-> "header", id |-> id, bytes |-> bytes, prev |-> prev, read |-> FALSE]
Body(id, k) == [kind |-> "body", id |-> id, offset |-> k]

Ptr == 0 .. Words - 1
Word == {Zero, END_POINTER}
        \cup [kind : {"header"}, id : 1 .. MaxWrites, bytes : PayloadBytes,
              prev : Ptr, read : BOOLEAN]
        \cup [kind : {"body"}, id : 1 .. MaxWrites, offset : 1 .. Words]

\* prv_bytes_to_words_round_up, with the header
MessageWords(bytes) == HEADER_LEN + (bytes + 3) \div 4

\* The words of the message headed at p are those its write stored.
Intact(b, p) ==
  /\ b[p].kind = "header"
  /\ p + MessageWords(b[p].bytes) <= Words
  /\ \A k \in 1 .. MessageWords(b[p].bytes) - 1 : b[p + k] = Body(b[p].id, k)

\* The bound is strict: a message whose last payload byte is the buffer's
\* last byte is out of bounds.
prv_is_msg_in_bounds(b, p) == 4 * (p + HEADER_LEN) + b[p].bytes < 4 * Words

\* Mutated form: the CRC is not compared.
prv_is_msg_valid_NoCrc(b, p) == b[p].kind = "header" /\ prv_is_msg_in_bounds(b, p)

prv_is_msg_valid(b, p) == Intact(b, p) /\ prv_is_msg_in_bounds(b, p)

prv_is_msg_read(b, p) == b[p].read

\* The code follows the size at p without validating it.  That p is a header
\* then, so that the 0 given to other words is never used, is HeadIsIntact.
payload_size_bytes(b, p) == IF b[p].kind = "header" THEN b[p].bytes ELSE 0

prv_get_next_message(b, p) ==
  LET next == p + MessageWords(payload_size_bytes(b, p))
  IN  IF next >= Words \/ b[next] = END_POINTER THEN 0 ELSE next

-----------------------------------------------------------------------------
(* Start-up *)

\* The positions that the forward scan visits from position p on: valid
\* messages, then the first invalid one, or 0 after wrapping around.
ScanFrom(b) ==
  LET scan[p \in Ptr] ==
        IF ~prv_is_msg_valid(b, p) THEN <<p>>
        ELSE LET next == prv_get_next_message(b, p)
             IN  <<p>> \o (IF next = 0 THEN <<0>> ELSE scan[next])
  IN  scan

\* The walk over prev_header that looks for unread messages before a wrap.
WalkBack(b) ==
  LET back[p \in {q \in Ptr : b[q].kind = "header"}] ==
        LET prev == b[p].prev
        IN  IF \/ prev = p
               \/ ~prv_is_msg_valid(b, prev)
               \/ prv_is_msg_read(b, prev)
            THEN p
            ELSE IF prev = 0 THEN 0 ELSE back[prev]
  IN  back

\* Mutated form: start-up stops at the scan and never walks back over a wrap.
prv_queue_find_read_write_ptr_NoWalk(b) ==
  LET scan == ScanFrom(b)[0]
      unread == {i \in 1 .. Len(scan) - 1 : ~prv_is_msg_read(b, scan[i])} \cup {Len(scan)}
  IN  [write |-> scan[Len(scan)],
       prev  |-> IF Len(scan) = 1 THEN 0 ELSE scan[Len(scan) - 1],
       read  |-> scan[CHOOSE i \in unread : \A j \in unread : i <= j]]

\* The pointers the queue starts with on a buffer b.
prv_queue_find_read_write_ptr(b) ==
  LET scan == ScanFrom(b)[0]
      \* the scan ends early where an unread block meets a read one
      ends == {i \in 2 .. Len(scan) - 1 : /\ prv_is_msg_read(b, scan[i])
                                          /\ ~prv_is_msg_read(b, scan[i - 1])}
              \cup {Len(scan)}
      end == CHOOSE i \in ends : \A j \in ends : i <= j
      unread == {i \in 1 .. end - 1 : ~prv_is_msg_read(b, scan[i])} \cup {end}
      first == scan[CHOOSE i \in unread : \A j \in unread : i <= j]
  IN  [write |-> scan[end],
       prev  |-> IF end = 1 THEN 0 ELSE scan[end - 1],
       read  |-> IF first = 0 /\ scan[end] # 0 THEN WalkBack(b)[0] ELSE first]

-----------------------------------------------------------------------------
Init ==
  /\ buf = [p \in Ptr |-> Zero]
  /\ read_ptr = 0 /\ write_ptr = 0 /\ prev_ptr = 0
  /\ can_complete_read = FALSE
  /\ payload = NoMsg
  /\ enabled = TRUE
  /\ written = 0 /\ restarts = 0

\* Where a message of n words goes: at the write pointer, or at the start
\* of the buffer once an end marker has been put at the write pointer.
Wraps(n) == write_ptr + n > Words
WriteAt(n) == IF Wraps(n) THEN 0 ELSE write_ptr
\* Mutated form: the end marker is forgotten when the write wraps.
MarkEnd_Forgotten(n) == buf
MarkEnd(n) == IF Wraps(n) THEN [buf EXCEPT ![write_ptr] = END_POINTER] ELSE buf

\* The first k words of the new message, stored over b.
Store(b, at, id, bytes, k) ==
  [p \in Ptr |-> IF p \in at .. at + k - 1
                 THEN IF p = at THEN Header(id, bytes, prev_ptr) ELSE Body(id, p - at)
                 ELSE b[p]]

\* Mutated form: the skip stops one message early.
SkipTo_OneShort(b, write_end) ==
  LET skip[p \in Ptr] ==
        LET next == prv_get_next_message(b, p)
        IN  IF next >= write_end \/ next = 0 THEN p ELSE skip[next]
  IN  skip

\* The read pointer moved forwards past the words a write takes.
SkipTo(b, write_end) ==
  LET skip[p \in Ptr] ==
        LET next == prv_get_next_message(b, p)
        IN  IF next >= write_end \/ next = 0 THEN next ELSE skip[next]
  IN  skip

\* Mutated form: next_write_ptr is not reduced modulo the buffer.
ticosd_queue_write_NoModulo(bytes) ==
  LET n == MessageWords(bytes)
      at == WriteAt(n)
  IN  /\ enabled /\ n <= Words /\ written < MaxWrites
      /\ buf' = Store(MarkEnd(n), at, written + 1, bytes, n)
      /\ read_ptr' = IF read_ptr = write_ptr THEN at ELSE read_ptr
      /\ prev_ptr' = at
      /\ write_ptr' = at + n
      /\ written' = written + 1
      /\ UNCHANGED <<can_complete_read, payload, enabled, restarts>>

\* ticosd_queue_write of one message by a plugin.  A payload too large for
\* the queue is refused and changes nothing.
ticosd_queue_write(bytes) ==
  LET n == MessageWords(bytes)
      at == WriteAt(n)
      write_end == at + n
      overtaken == read_ptr # write_ptr /\ read_ptr > at /\ read_ptr < write_end
  IN  /\ enabled
      /\ n <= Words
      /\ written < MaxWrites
      /\ buf' = Store(MarkEnd(n), at, written + 1, bytes, n)
      /\ read_ptr' = IF read_ptr = write_ptr THEN at
                     ELSE IF overtaken THEN SkipTo(MarkEnd(n), write_end)[read_ptr]
                     ELSE read_ptr
      /\ can_complete_read' = (can_complete_read /\ ~overtaken)
      /\ prev_ptr' = at
      /\ write_ptr' = write_end % Words
      /\ written' = written + 1
      /\ UNCHANGED <<payload, enabled, restarts>>

\* Mutated form: a full queue is taken for an empty one.
ReadHeadResult_FullIsEmpty ==
  IF read_ptr = write_ptr THEN NoMsg ELSE buf[read_ptr].id

\* The message ticosd_queue_read_head returns, or NoMsg.
ReadHeadResult ==
  IF /\ read_ptr = write_ptr
     /\ ~prv_is_msg_valid(buf, read_ptr) \/ prv_is_msg_read(buf, read_ptr)
  THEN NoMsg
  ELSE buf[read_ptr].id

\* ticosd_queue_read_head, called by ticosd_process_tx_queue.
ticosd_queue_read_head ==
  /\ enabled
  /\ payload = NoMsg
  /\ ReadHeadResult # NoMsg
  /\ payload' = ReadHeadResult
  /\ can_complete_read' = TRUE
  /\ UNCHANGED <<buf, read_ptr, write_ptr, prev_ptr, enabled, written, restarts>>

\* Mutated form: the message is marked as read and the pointer stays.
ticosd_queue_complete_read_Stays ==
  /\ payload # NoMsg
  /\ payload' = NoMsg
  /\ IF can_complete_read
     THEN buf' = [buf EXCEPT ![read_ptr].read = TRUE] /\ can_complete_read' = FALSE
     ELSE UNCHANGED <<buf, can_complete_read>>
  /\ UNCHANGED <<read_ptr, write_ptr, prev_ptr, enabled, written, restarts>>

\* The server took the message, or refused it for good: process_tx_queue
\* calls ticosd_queue_complete_read.
ticosd_queue_complete_read ==
  /\ payload # NoMsg
  /\ payload' = NoMsg
  /\ IF can_complete_read
     THEN /\ buf' = [buf EXCEPT ![read_ptr].read = TRUE]
          /\ read_ptr' = prv_get_next_message(buf, read_ptr)
          /\ can_complete_read' = FALSE
     ELSE UNCHANGED <<buf, read_ptr, can_complete_read>>
  /\ UNCHANGED <<write_ptr, prev_ptr, enabled, written, restarts>>

\* The post failed and is to be retried: the message stays at the head.
RetryLater ==
  /\ payload # NoMsg
  /\ payload' = NoMsg
  /\ UNCHANGED <<handle, enabled, written, restarts>>

\* ticosd_queue_init on the file as a previous run left it (b), then
\* ticosd_queue_reset if data collection is disabled.
Start(b, en) ==
  LET found == prv_queue_find_read_write_ptr(b)
  IN  /\ restarts < MaxRestarts
      /\ restarts' = restarts + 1
      /\ enabled' = en
      /\ payload' = NoMsg
      /\ can_complete_read' = FALSE
      /\ buf' = IF en THEN b ELSE [b EXCEPT ![0] = Zero, ![1] = Zero, ![2] = Zero]
      /\ read_ptr' = IF en THEN found.read ELSE 0
      /\ write_ptr' = IF en THEN found.write ELSE 0
      /\ prev_ptr' = IF en THEN found.prev ELSE 0

\* The daemon stops between two operations and starts again.
Restart(en) ==
  /\ Start(buf, en)
  /\ written' = written

\* The daemon dies inside ticosd_queue_write, when the end marker and the
\* first k words of the message are in the file.
CrashInWrite(bytes, k) ==
  LET n == MessageWords(bytes)
  IN  /\ enabled
      /\ n <= Words
      /\ written < MaxWrites
      /\ k < n
      /\ k = 0 => Wraps(n)
      /\ written' = written + 1
      /\ Start(Store(MarkEnd(n), WriteAt(n), written + 1, bytes, k), TRUE)

-----------------------------------------------------------------------------
\* The operations of one run of the daemon.
Operate ==
  \/ \E bytes \in PayloadBytes : ticosd_queue_write(bytes)
  \/ ticosd_queue_read_head
  \/ ticosd_queue_complete_read
  \/ RetryLater

Next ==
  \/ Operate
  \/ \E en \in Collection : Restart(en)
  \/ \E bytes \in PayloadBytes, k \in 0 .. Words - 1 : CrashInWrite(bytes, k)

\* One run of the daemon on a new queue file, and any number of runs.
RunSpec == Init /\ [][Operate]_vars
Spec == Init /\ [][Next]_vars

-----------------------------------------------------------------------------
\* Every variable has its type; in particular the three pointers of
\* sTicosdQueue always index the buffer.
TypeOK ==
  /\ buf \in [Ptr -> Word]
  /\ read_ptr \in Ptr /\ write_ptr \in Ptr /\ prev_ptr \in Ptr
  /\ can_complete_read \in BOOLEAN
  /\ payload \in 0 .. MaxWrites
  /\ enabled \in BOOLEAN
  /\ written \in 0 .. MaxWrites /\ restarts \in 0 .. MaxRestarts

\* Whenever ticosd_queue_read_head or ticosd_queue_complete_read uses the
\* header at read_ptr without validating it, that header heads a message all
\* of whose words are in the buffer as they were written: the memcpy of
\* read_head stays inside the buffer, and prv_get_next_message follows a size
\* that a writer stored (the comment on read_ptr: "never to garbage or
\* END_POINTER").
HeadIsIntact ==
  read_ptr # write_ptr \/ can_complete_read => Intact(buf, read_ptr)

\* A completed read marks as read the message that was posted, and no other
\* (the comment in ticosd_queue_write: "flag to avoid marking the wrong message
\* as sent").  The code does not have this property: a write that wraps to 0
\* where the head lies takes its place without moving read_ptr, and the strict
\* comparison that clears the flag does not count a head at the very position
\* written; one that finds the queue entirely full leaves the flag set too.
CompletesWhatWasSent ==
  [][ticosd_queue_complete_read /\ can_complete_read => buf[read_ptr].id = payload]_vars

-----------------------------------------------------------------------------
(* The strengthening that makes HeadIsIntact inductive in one run. *)

\* Whole messages fill the words from a up to e.
Tiled(b, a, e) ==
  \A p \in a .. e - 1 :
    \E s \in a .. p : /\ Intact(b, s)
                      /\ p < s + MessageWords(b[s].bytes)
                      /\ s + MessageWords(b[s].bytes) <= e

\* The messages written since the write pointer last wrapped fill the buffer
\* up to it.
WrittenIsTiled(b, w) == Tiled(b, 0, w)

\* Beyond the write pointer a header is left over from an earlier pass, and
\* whole messages follow it to the buffer's end or to that pass's end marker.
LeftoverIsTiled(b, w) ==
  \A s \in w .. Words - 1 :
    b[s].kind = "header" =>
      \E e \in s + 1 .. Words : /\ Tiled(b, s, e)
                                /\ e = Words \/ b[e] = END_POINTER

\* The read pointer is at a header whenever the code does not check it.
HeadIsHeader ==
  read_ptr # write_ptr \/ can_complete_read => buf[read_ptr].kind = "header"

\* The inductive invariant of one run.
RunInv ==
  /\ TypeOK
  /\ WrittenIsTiled(buf, write_ptr)
  /\ LeftoverIsTiled(buf, write_ptr)
  /\ HeadIsHeader
=============================================================================
