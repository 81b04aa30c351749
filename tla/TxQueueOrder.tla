----------------------------- MODULE TxQueueOrder -----------------------------
(***************************************************************************)
(* The order in which the transmit queue of TxQueue hands out messages,    *)
(* and whether it hands out each one.  Two history variables are added to  *)
(* TxQueue: the messages owed to the server, and the slips that have       *)
(* happened.  A slip is one of the situations, each named below, after     *)
(* which src/queue.c may lose, repeat or reorder messages.  As long as     *)
(* there is none, the ring buffer implements the FIFO of TxFifo.           *)
(***************************************************************************)
EXTENDS TxQueue

VARIABLES
  owed,     \* messages accepted and not yet completed, oldest first
  slips     \* the kinds of slip that have happened

allVars == <<vars, owed, slips>>

IsOwed(id) == \E i \in 1 .. Len(owed) : owed[i] = id

\* owed once a message has been dealt with
Without(id) ==
  IF IsOwed(id)
  THEN LET k == CHOOSE i \in 1 .. Len(owed) : owed[i] = id
       IN  SubSeq(owed, 1, k - 1) \o SubSeq(owed, k + 1, Len(owed))
  ELSE owed

\* Some word of the range holds part of a message that is still owed.
HoldsOwed(from, to) ==
  \E p \in from .. to - 1 :
    buf[p].kind \in {"header", "body"} /\ IsOwed(buf[p].id)

\* slips, and s if the condition holds
Slip(s, condition) == IF condition THEN {s} ELSE {}

\* A write takes words of a message that has not been sent: the queue is
\* full, or its free words are not where the write needs them.
Overwrites(bytes) ==
  LET n == MessageWords(bytes)
  IN  \/ HoldsOwed(WriteAt(n), WriteAt(n) + n)
      \/ Wraps(n) /\ HoldsOwed(write_ptr, write_ptr + 1)

\* A message ends with the last byte of the buffer, which
\* prv_is_msg_in_bounds takes for out of bounds.
EndsAtLastByte(b, p) == Intact(b, p) /\ ~prv_is_msg_in_bounds(b, p)

\* The reader stands before an end marker that the previous pass left where
\* the write pointer has now stopped: it wraps around without the writer.
StaleEndMet ==
  LET next == read_ptr + MessageWords(buf[read_ptr].bytes)
  IN  /\ can_complete_read
      /\ next < Words /\ next = write_ptr /\ buf[next] = END_POINTER

\* A start cannot tell the oldest message of a full queue, and does not see
\* an owed message that ends at the last byte.
FullAtStart == owed # <<>> /\ read_ptr = write_ptr
OwedEndsAtLastByte ==
  \E p \in Ptr : EndsAtLastByte(buf, p) /\ IsOwed(buf[p].id)

\* Where the message before the oldest unread one began, a newer unread
\* message begins now (always so if that was position 0).  The walk back
\* over prev_header goes on through it, down to 0, and the unread messages
\* before the wrap are forgotten.
WalksBackTooFar ==
  /\ write_ptr > 0 /\ read_ptr > write_ptr
  /\ LET prev == buf[read_ptr].prev
     IN  prev < write_ptr /\ buf[prev].kind = "header"

\* A crash tore the message being written at the start of the buffer, where
\* every scan starts, while others were owed.
TornAtZero(bytes, k) ==
  k > 0 /\ WriteAt(MessageWords(bytes)) = 0 /\ owed # <<>>

\* ticosd_queue_reset wipes one header and leaves other unread messages.
LeavesUnread(b) == \E p \in Ptr : Intact(b, p) /\ ~b[p].read

-----------------------------------------------------------------------------
OrderInit == Init /\ owed = <<>> /\ slips = {}

OrderWrite(bytes) ==
  /\ ticosd_queue_write(bytes)
  /\ owed' = Append(owed, written')
  /\ slips' = slips
       \cup Slip("overwrite", Overwrites(bytes))
       \cup Slip("last byte", read_ptr' = write_ptr' /\ EndsAtLastByte(buf', read_ptr'))

OrderReadHead == ticosd_queue_read_head /\ UNCHANGED <<owed, slips>>

OrderCompleteRead ==
  /\ ticosd_queue_complete_read
  /\ owed' = Without(payload)
  /\ slips' = slips \cup Slip("stale end", StaleEndMet)

OrderRetryLater == RetryLater /\ UNCHANGED <<owed, slips>>

OrderRestart(en) ==
  /\ Restart(en)
  /\ owed' = IF en THEN owed ELSE <<>>
  /\ slips' = slips
       \cup Slip("full at start", FullAtStart)
       \cup Slip("walk back", WalksBackTooFar)
       \cup Slip("last byte", OwedEndsAtLastByte)
       \cup Slip("reset", ~en /\ LeavesUnread(buf'))

OrderCrashInWrite(bytes, k) ==
  /\ CrashInWrite(bytes, k)
  /\ owed' = owed
  /\ slips' = slips
       \cup Slip("overwrite", Overwrites(bytes))
       \cup Slip("full at start", FullAtStart)
       \cup Slip("walk back", WalksBackTooFar)
       \cup Slip("last byte", OwedEndsAtLastByte)
       \cup Slip("torn", TornAtZero(bytes, k))

\* Behaviours are followed up to and including their first slip.
OrderNext ==
  /\ slips = {}
  /\ \/ \E bytes \in PayloadBytes : OrderWrite(bytes)
     \/ OrderReadHead
     \/ OrderCompleteRead
     \/ OrderRetryLater
     \/ \E en \in Collection : OrderRestart(en)
     \/ \E bytes \in PayloadBytes, k \in 0 .. Words - 1 : OrderCrashInWrite(bytes, k)

OrderSpec == OrderInit /\ [][OrderNext]_allVars

\* The reader comes back after every refresh interval (prv_ticosd_process_loop),
\* and a network that is asked again and again answers at last.
FairOrderSpec ==
  /\ OrderSpec
  /\ WF_allVars(OrderReadHead /\ slips = {})
  /\ SF_allVars(OrderCompleteRead /\ slips = {})

-----------------------------------------------------------------------------
Fifo == INSTANCE TxFifo WITH calm <- slips = {}

\* Until the first slip the ring buffer, with its wraps, restarts and torn
\* writes, implements the FIFO: the reader gets each message in the order of
\* the writes, none twice and none left out (queue.c as a whole).
FifoSpec == Fifo!Spec

\* ticosd_queue_read_head would return the oldest message still owed, or none
\* if none is (the comment on read_ptr: "Index to the oldest, unread message").
HeadIsOldest ==
  ReadHeadResult = IF owed = <<>> THEN NoMsg ELSE Head(owed)

\* Until the first slip the head is the oldest owed message: in particular
\* prv_queue_find_read_write_ptr finds after a restart, on either side of a
\* wrap, the message that the previous run was about to send.
HeadIsOldestUnlessSlip == slips = {} => HeadIsOldest

\* Until the first slip, restarts and torn writes included, the header that
\* ticosd_queue_read_head and ticosd_queue_complete_read follow without
\* validating it heads an undamaged message.
HeadIsIntactUnlessSlip == slips = {} => HeadIsIntact

\* A message that ticosd_queue_write accepted is sent or refused for good by
\* the server in the end, whatever restarts, retries and wraps come between,
\* unless there is a slip (the loop of prv_ticosd_process_tx_queue).
EventuallySent == owed # <<>> ~> slips # {} \/ owed = <<>>

\* A restart does not change which message is oldest: start-up walks
\* "backwards to see if there are more unread messages after the wrap-around".
\* The code does not have this property: the walk may pass them by.
RestartKeepsOldest == slips \subseteq {"walk back"} => HeadIsOldest
=============================================================================
