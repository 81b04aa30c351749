------------------------------- MODULE TxFifo --------------------------------
(***************************************************************************)
(* What the transmit queue promises its users: messages are handed to the  *)
(* reader one at a time, oldest first; a message stays at the head until   *)
(* the reader has dealt with it; and a restart of the daemon changes       *)
(* nothing.  Disabling data collection discards what is queued.            *)
(*                                                                         *)
(* The promise is conditional.  The ring buffer of src/queue.c is known to *)
(* overwrite unread messages when it is full, so the specification has a   *)
(* flag calm that it may give up in any step; afterwards it promises       *)
(* nothing.  TxQueueOrder says exactly what makes src/queue.c give it up.  *)
(***************************************************************************)
EXTENDS Integers, Sequences

CONSTANTS NoMsg     \* "no message", as a value of payload

VARIABLES
  owed,       \* the messages accepted and not yet dealt with, oldest first
  payload,    \* the message the reader holds, or NoMsg
  calm        \* the promise is still given

vars == <<owed, payload, calm>>

Init == owed = <<>> /\ payload = NoMsg /\ calm = TRUE

\* A writer adds a message.
Accept ==
  /\ Len(owed') = Len(owed) + 1
  /\ SubSeq(owed', 1, Len(owed)) = owed
  /\ payload' = payload

\* The reader takes a copy of the oldest message.
Take ==
  /\ payload = NoMsg
  /\ owed # <<>>
  /\ payload' = Head(owed)
  /\ owed' = owed

\* The reader has dealt with the message it holds, which is the oldest.
Finish ==
  /\ payload # NoMsg
  /\ owed # <<>> /\ payload = Head(owed)
  /\ owed' = Tail(owed)
  /\ payload' = NoMsg

\* The reader gives up for now, or the daemon restarts: nothing is lost.
Forget == payload' = NoMsg /\ owed' = owed

\* The daemon starts with data collection disabled.
Discard == payload' = NoMsg /\ owed' = <<>>

Promised == Accept \/ Take \/ Finish \/ Forget \/ Discard

Next == calm' => calm /\ Promised

Spec == Init /\ [][Next]_vars
=============================================================================
