----------------------------- MODULE RateLimiter ------------------------------
(***************************************************************************)
(* The rate limiter of src/util/rate_limiter.c, as the coredump plugin     *)
(* uses it: at most count events in any duration seconds.  The times of    *)
(* the last count accepted events are kept in handle->history, newest      *)
(* first, and rewritten to a file after each accepted event so that a      *)
(* restart of the daemon does not lift the limit.                          *)
(*                                                                         *)
(* The clock is the wall clock of gettimeofday: it may be stepped to any   *)
(* time.  Rewriting the file is not atomic: fopen(..., "w") empties it,    *)
(* and the times reach it only later.                                      *)
(***************************************************************************)
EXTENDS Integers, Sequences

CONSTANTS
  Count, Duration,   \* rate_limit_count and rate_limit_duration_seconds
  Times,             \* what the wall clock may read
  Cuts,              \* what a time may read as of which only the start is in the file
  MaxEvents,         \* bound on the number of accepted events
  MaxRestarts        \* bound on the number of restarts

\* A limiter exists only if neither setting is 0.
ASSUME LimitAssumption ==
  Count \in Nat /\ Count >= 1 /\ Duration \in Nat /\ Duration >= 1
ASSUME TimesAssumption == \A t \in Times \cup Cuts : t \in Nat
ASSUME BoundsAssumption == MaxEvents \in Nat /\ MaxRestarts \in Nat

VARIABLES
  now,        \* gettimeofday
  history,    \* handle->history: history[1] is the code's history[0]
  file,       \* the times in the history file; <<>> if empty or absent
  writing,    \* check_event has emptied the file and not yet closed it
  limiting,   \* there is a handle: init could open the file
  restarts,
  \* history variables: the times of all accepted events; whether the file
  \* could not be opened or written when it was last needed; whether a
  \* restart ever began without the full history
  accepted, unsaved, lapsed

vars == <<now, history, file, writing, limiting, restarts, accepted, unsaved, lapsed>>

Slots == 1 .. Count
Never == 0     \* calloc: a slot not yet used

Init ==
  /\ now \in Times
  /\ history = [i \in Slots |-> Never]
  /\ file = <<>>
  /\ writing = FALSE
  /\ limiting = TRUE
  /\ restarts = 0
  /\ accepted = <<>>
  /\ unsaved = FALSE
  /\ lapsed = FALSE

\* Time passes, or the clock is set.
Tick ==
  /\ now' \in Times
  /\ UNCHANGED <<history, file, writing, limiting, restarts, accepted, unsaved, lapsed>>

\* Mutated form: the window is one second short.
Limited_OffByOne == history[Count] + Duration - 1 > now

\* Too little time has passed since the oldest event in the history.
Limited == history[Count] + Duration > now

\* The history with the new event first, the oldest dropped.
Shuffled == [i \in Slots |-> IF i = 1 THEN now ELSE history[i - 1]]

\* ticosd_rate_limiter_check_event accepts an event (a rejected one changes
\* nothing).  The file is emptied, or it cannot be opened and stays as it is.
ticosd_rate_limiter_check_event ==
  /\ limiting /\ ~writing
  /\ Len(accepted) < MaxEvents
  /\ ~Limited
  /\ history' = Shuffled
  /\ accepted' = Append(accepted, now)
  /\ \/ writing' = TRUE /\ file' = <<>> /\ unsaved' = FALSE
     \/ UNCHANGED <<writing, file>> /\ unsaved' = TRUE
  /\ UNCHANGED <<now, limiting, restarts, lapsed>>

\* ... and without a handle every event.
AcceptUnlimited ==
  /\ ~limiting
  /\ Len(accepted) < MaxEvents
  /\ accepted' = Append(accepted, now)
  /\ UNCHANGED <<now, history, file, writing, limiting, restarts, unsaved, lapsed>>

\* Mutated form: the loop stops one slot early.
CloseFile_OneShort ==
  /\ writing
  /\ writing' = FALSE
  /\ file' = SubSeq(history, 1, Count - 1)
  /\ UNCHANGED <<now, history, limiting, restarts, accepted, unsaved, lapsed>>

\* What the file may hold if the writing of it is cut short.
Torn == {SubSeq(history, 1, k) : k \in 0 .. Count}
        \cup {Append(SubSeq(history, 1, k), t) : k \in 0 .. Count - 1, t \in Cuts}

\* ... and its end: all the times are in the file once it is closed, unless
\* the disk is full, which goes unnoticed.
CloseFile ==
  /\ writing
  /\ writing' = FALSE
  /\ \/ file' = history /\ UNCHANGED unsaved
     \/ file' \in Torn /\ unsaved' = TRUE
  /\ UNCHANGED <<now, history, limiting, restarts, accepted, lapsed>>

\* Mutated form: a slot that cannot be read becomes -1.
ReadFile_MinusOne(f) == [i \in Slots |-> IF i <= Len(f) THEN f[i] ELSE -1]

\* The times that ticosd_rate_limiter_init reads from a file: it stops at the
\* first one it cannot parse, and leaves the other slots as calloc made them.
ReadFile(f) == [i \in Slots |-> IF i <= Len(f) THEN f[i] ELSE Never]

\* The daemon stops or dies at any time and starts again.  If it was writing
\* the file, some of the times may be in it.  If ticosd_rate_limiter_init
\* cannot open a file that exists it returns no handle.
Restart ==
  /\ restarts < MaxRestarts
  /\ restarts' = restarts + 1
  /\ IF writing THEN file' \in Torn ELSE file' = file
  /\ \/ limiting' = TRUE /\ history' = ReadFile(file') /\ unsaved' = FALSE
        /\ lapsed' = (lapsed \/ history' # history)
     \/ limiting' = FALSE /\ history' = ReadFile(<<>>) /\ unsaved' = TRUE
        /\ lapsed' = TRUE
  /\ writing' = FALSE
  /\ UNCHANGED <<now, accepted>>

Next == Tick \/ ticosd_rate_limiter_check_event \/ AcceptUnlimited \/ CloseFile \/ Restart

Spec == Init /\ [][Next]_vars

-----------------------------------------------------------------------------
\* The types of the variables.
TypeOK ==
  /\ now \in Times
  /\ history \in [Slots -> Nat]
  /\ file \in Seq(Nat)
  /\ writing \in BOOLEAN /\ limiting \in BOOLEAN /\ unsaved \in BOOLEAN /\ lapsed \in BOOLEAN
  /\ restarts \in Nat
  /\ accepted \in Seq(Nat)

\* The limit: of any Count + 1 consecutive accepted events the last comes at
\* least Duration after the first, restarts included, unless a restart lost
\* part of the history (ticosd_rate_limiter_check_event).
WindowUnlessLapsed ==
  ~lapsed => \A i \in 1 .. Len(accepted) - Count :
               accepted[i + Count] >= accepted[i] + Duration

\* A restart loses nothing of the history, whatever the times in it, unless
\* it comes while the file is being rewritten or after the file could not be
\* opened or written: ticosd_rate_limiter_init reads back what check_event wrote.
SavedUnlessWriting == ~writing /\ ~unsaved => ReadFile(file) = history

-----------------------------------------------------------------------------
\* handle->history holds the times of the last Count accepted events, newest
\* first, restarts included, unless a restart lost some of them: what makes
\* WindowUnlessLapsed inductive (the shuffle in check_event).
HistoryIsRecent ==
  ~lapsed => \A i \in Slots :
    history[i] = IF i <= Len(accepted) THEN accepted[Len(accepted) + 1 - i] ELSE Never

\* There is a handle unless a restart could not open the file.
UnlimitedAfterLapse == ~limiting => lapsed

\* The inductive invariant.
LimiterInv ==
  /\ TypeOK /\ HistoryIsRecent /\ WindowUnlessLapsed /\ SavedUnlessWriting
  /\ UnlimitedAfterLapse
=============================================================================
