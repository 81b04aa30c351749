-------------------------- MODULE RateLimiterProofs ---------------------------
(***************************************************************************)
(* The limit of RateLimiter holds for every count, duration, clock and     *)
(* number of events and restarts.  The argument: the history is the times  *)
(* of the last Count events (HistoryIsRecent), so the check against its    *)
(* last slot compares the new event with the one Count events before it;   *)
(* and the file, when it is not being written, holds the history.          *)
(***************************************************************************)
EXTENDS RateLimiter, TLAPS

\* The invariant holds for a new limiter without a history file.
LEMMA LimiterInit == Init => LimiterInv
<1> SUFFICES ASSUME Init PROVE LimiterInv
  OBVIOUS
<1>1. TypeOK
  <2>1. history \in [Slots -> Nat] /\ restarts \in Nat
    BY DEF Init, Never
  <2>2. file \in Seq(Nat) /\ accepted \in Seq(Nat)
    BY DEF Init
  <2> QED BY <2>1, <2>2 DEF Init, TypeOK
<1>2. HistoryIsRecent
  BY DEF Init, HistoryIsRecent, Slots
<1>3. WindowUnlessLapsed
  BY LimitAssumption DEF Init, WindowUnlessLapsed
<1>4. SavedUnlessWriting
  BY DEF Init, SavedUnlessWriting, ReadFile, Slots
<1>5. UnlimitedAfterLapse
  BY DEF Init, UnlimitedAfterLapse
<1> QED BY <1>1, <1>2, <1>3, <1>4, <1>5 DEF LimiterInv

\* A file cut short holds times, if fewer or other ones.
LEMMA TornIsTimes ==
  ASSUME history \in [Slots -> Nat], NEW f \in Torn
  PROVE  f \in Seq(Nat)
<1>0. history \in Seq(Nat) /\ Len(history) = Count
  BY LimitAssumption DEF Slots
<1>1. \A k \in 0 .. Count : SubSeq(history, 1, k) \in Seq(Nat)
  BY <1>0, LimitAssumption
<1>2. CASE f \in {SubSeq(history, 1, k) : k \in 0 .. Count}
  BY <1>1, <1>2
<1>3. CASE f \in {Append(SubSeq(history, 1, k), t) : k \in 0 .. Count - 1, t \in Cuts}
  <2>1. PICK k \in 0 .. Count - 1, t \in Cuts : f = Append(SubSeq(history, 1, k), t)
    BY <1>3
  <2>2. SubSeq(history, 1, k) \in Seq(Nat) /\ t \in Nat
    BY <1>1, LimitAssumption, TimesAssumption
  <2> QED BY <2>1, <2>2
<1> QED BY <1>2, <1>3 DEF Torn

\* An accepted event comes Duration after the one Count events before it.
LEMMA CheckEventKeeps ==
  ASSUME LimiterInv, ticosd_rate_limiter_check_event
  PROVE  LimiterInv'
<1> USE LimitAssumption
<1>0. /\ now \in Nat /\ history \in [Slots -> Nat] /\ accepted \in Seq(Nat)
      /\ Len(accepted) \in Nat /\ Count \in Slots
  BY TimesAssumption DEF LimiterInv, TypeOK, Slots
<1>1. /\ history' = Shuffled /\ accepted' = Append(accepted, now)
      /\ now' = now /\ restarts' = restarts /\ lapsed' = lapsed
      /\ history[Count] + Duration <= now
  BY <1>0 DEF ticosd_rate_limiter_check_event, Limited
<1>2. /\ accepted' \in Seq(Nat) /\ Len(accepted') = Len(accepted) + 1
      /\ accepted'[Len(accepted) + 1] = now
      /\ \A i \in 1 .. Len(accepted) : accepted'[i] = accepted[i]
  BY <1>0, <1>1
<1>3. /\ history' \in [Slots -> Nat] /\ history'[1] = now
      /\ \A i \in Slots : i # 1 => i - 1 \in Slots /\ history'[i] = history[i - 1]
  BY <1>0, <1>1 DEF Shuffled, Slots
<1>4. TypeOK'
  <2>1. file' \in Seq(Nat)
    <3>1. file \in Seq(Nat) /\ <<>> \in Seq(Nat)
      BY DEF LimiterInv, TypeOK
    <3> QED BY <3>1 DEF ticosd_rate_limiter_check_event
  <2>2. writing' \in BOOLEAN /\ limiting' \in BOOLEAN /\ unsaved' \in BOOLEAN
    BY DEF LimiterInv, TypeOK, ticosd_rate_limiter_check_event
  <2> QED BY <1>1, <1>2, <1>3, <2>1, <2>2 DEF LimiterInv, TypeOK
<1>5. HistoryIsRecent'
  <2> SUFFICES ASSUME ~lapsed, NEW i \in Slots
               PROVE  history'[i] = IF i <= Len(accepted') THEN accepted'[Len(accepted') + 1 - i]
                                    ELSE Never
    BY <1>1 DEF HistoryIsRecent
  <2>1. CASE i = 1
    BY <1>0, <1>2, <1>3, <2>1
  <2>2. CASE i # 1
    <3>1. history[i - 1] = IF i - 1 <= Len(accepted) THEN accepted[Len(accepted) + 1 - (i - 1)]
                           ELSE Never
      BY <1>3, <2>2 DEF LimiterInv, HistoryIsRecent
    <3>2. CASE i - 1 <= Len(accepted)
      <4>1. /\ i <= Len(accepted')
            /\ Len(accepted') + 1 - i = Len(accepted) + 1 - (i - 1)
            /\ Len(accepted) + 1 - (i - 1) \in 1 .. Len(accepted)
        BY <1>0, <1>2, <2>2, <3>2 DEF Slots
      <4> QED BY <1>2, <1>3, <2>2, <3>1, <3>2, <4>1
    <3>3. CASE ~(i - 1 <= Len(accepted))
      BY <1>0, <1>2, <1>3, <2>2, <3>1, <3>3 DEF Slots
    <3> QED BY <3>2, <3>3
  <2> QED BY <2>1, <2>2
<1>6. WindowUnlessLapsed'
  <2> SUFFICES ASSUME ~lapsed, NEW i \in 1 .. Len(accepted') - Count
               PROVE  accepted'[i + Count] >= accepted'[i] + Duration
    BY <1>1 DEF WindowUnlessLapsed
  <2>1. CASE i + Count <= Len(accepted)
    <3>1. i \in 1 .. Len(accepted) - Count /\ i \in 1 .. Len(accepted)
          /\ i + Count \in 1 .. Len(accepted)
      BY <1>0, <1>2, <2>1
    <3>2. accepted[i + Count] >= accepted[i] + Duration
      BY <3>1 DEF LimiterInv, WindowUnlessLapsed
    <3> QED BY <1>2, <3>1, <3>2
  <2>2. CASE i + Count = Len(accepted) + 1
    <3>1. Count <= Len(accepted) /\ i = Len(accepted) + 1 - Count /\ i \in 1 .. Len(accepted)
      BY <1>0, <2>2
    <3>2. history[Count] = accepted[i]
      BY <1>0, <3>1 DEF LimiterInv, HistoryIsRecent
    <3>3. accepted[i] \in Nat
      BY <1>0, <3>1
    <3>4. accepted'[i] = accepted[i] /\ accepted'[i + Count] = now
      BY <1>2, <2>2, <3>1
    <3> QED BY <1>0, <1>1, <3>2, <3>3, <3>4
  <2>3. i + Count <= Len(accepted) \/ i + Count = Len(accepted) + 1
    <3>1. Len(accepted') = Len(accepted) + 1 /\ Len(accepted) \in Nat /\ i \in Int
      BY <1>0, <1>2
    <3>2. i + Count <= Len(accepted) + 1
      BY <3>1
    <3> QED BY <3>1, <3>2
  <2> QED BY <2>1, <2>2, <2>3
<1>7. SavedUnlessWriting'
  BY DEF ticosd_rate_limiter_check_event, SavedUnlessWriting
<1>8. UnlimitedAfterLapse'
  BY DEF ticosd_rate_limiter_check_event, LimiterInv, UnlimitedAfterLapse
<1> QED BY <1>4, <1>5, <1>6, <1>7, <1>8 DEF LimiterInv

\* Without a handle events are accepted after a lapse only.
LEMMA UnlimitedKeeps ==
  ASSUME LimiterInv, AcceptUnlimited
  PROVE  LimiterInv'
<1>1. /\ accepted' = Append(accepted, now) /\ ~limiting
      /\ UNCHANGED <<now, history, file, writing, limiting, restarts, unsaved, lapsed>>
  BY DEF AcceptUnlimited
<1>2. lapsed
  BY <1>1 DEF LimiterInv, UnlimitedAfterLapse
<1>3. accepted' \in Seq(Nat)
  BY <1>1, TimesAssumption DEF LimiterInv, TypeOK
<1>4. TypeOK'
  BY <1>1, <1>3 DEF LimiterInv, TypeOK
<1>5. HistoryIsRecent' /\ WindowUnlessLapsed' /\ UnlimitedAfterLapse'
  BY <1>1, <1>2 DEF HistoryIsRecent, WindowUnlessLapsed, UnlimitedAfterLapse
<1>6. SavedUnlessWriting'
  BY <1>1 DEF LimiterInv, SavedUnlessWriting, ReadFile
<1> QED BY <1>4, <1>5, <1>6 DEF LimiterInv

\* Closing the file saves the history, or leaves it torn.
LEMMA CloseFileKeeps ==
  ASSUME LimiterInv, CloseFile
  PROVE  LimiterInv'
<1> USE LimitAssumption
<1>1. /\ history' = history /\ writing' = FALSE
      /\ UNCHANGED <<now, limiting, restarts, accepted, lapsed>>
  BY DEF CloseFile
<1>2. history \in [Slots -> Nat] /\ history \in Seq(Nat) /\ Len(history) = Count
  BY DEF LimiterInv, TypeOK, Slots
<1>3. file' \in Seq(Nat)
  <2>1. CASE file' = history
    BY <1>2, <2>1
  <2>2. CASE file' \in Torn
    BY <1>2, <2>2, TornIsTimes
  <2> QED BY <2>1, <2>2 DEF CloseFile
<1>4. TypeOK'
  <2>1. unsaved' \in BOOLEAN
    BY DEF CloseFile, LimiterInv, TypeOK
  <2> QED BY <1>1, <1>3, <2>1 DEF LimiterInv, TypeOK
<1>5. HistoryIsRecent' /\ WindowUnlessLapsed' /\ UnlimitedAfterLapse'
  BY <1>1 DEF LimiterInv, HistoryIsRecent, WindowUnlessLapsed, UnlimitedAfterLapse
<1>6. file' = history => ReadFile(file') = history
  BY <1>2 DEF ReadFile, Slots
<1>7. file' = history \/ unsaved' = TRUE
  BY DEF CloseFile
<1>8. SavedUnlessWriting'
  BY <1>1, <1>6, <1>7 DEF SavedUnlessWriting
<1> QED BY <1>4, <1>5, <1>8 DEF LimiterInv

\* A restart reads back the history, or marks the lapse.
LEMMA RestartKeeps ==
  ASSUME LimiterInv, Restart
  PROVE  LimiterInv'
<1> USE LimitAssumption
<1>1. /\ writing' = FALSE /\ restarts' = restarts + 1
      /\ now' = now /\ accepted' = accepted
  BY DEF Restart
<1>2. \/ /\ limiting' = TRUE /\ history' = ReadFile(file') /\ unsaved' = FALSE
         /\ lapsed' = (lapsed \/ history' # history)
      \/ /\ limiting' = FALSE /\ history' = ReadFile(<<>>) /\ unsaved' = TRUE
         /\ lapsed' = TRUE
  BY DEF Restart
<1>3. file' \in Seq(Nat)
  <2>1. CASE writing
    BY <2>1, TornIsTimes DEF Restart, LimiterInv, TypeOK
  <2>2. CASE ~writing
    BY <2>2 DEF Restart, LimiterInv, TypeOK
  <2> QED BY <2>1, <2>2
<1>4. history' \in [Slots -> Nat]
  <2>1. \A f \in Seq(Nat) : ReadFile(f) \in [Slots -> Nat]
    BY DEF ReadFile, Slots, Never
  <2>2. <<>> \in Seq(Nat)
    OBVIOUS
  <2> QED BY <1>2, <1>3, <2>1, <2>2
<1>5. TypeOK'
  <2>1. /\ writing' \in BOOLEAN /\ limiting' \in BOOLEAN /\ unsaved' \in BOOLEAN
        /\ lapsed' \in BOOLEAN
    BY <1>1, <1>2
  <2>2. restarts' \in Nat /\ now' \in Times /\ accepted' \in Seq(Nat)
    BY <1>1 DEF LimiterInv, TypeOK
  <2> QED BY <1>3, <1>4, <2>1, <2>2 DEF TypeOK
<1>6. lapsed' \/ (~lapsed /\ history' = history /\ limiting')
  BY <1>2
<1>7. HistoryIsRecent' /\ WindowUnlessLapsed' /\ UnlimitedAfterLapse'
  BY <1>1, <1>6 DEF LimiterInv, HistoryIsRecent, WindowUnlessLapsed, UnlimitedAfterLapse
<1>8. SavedUnlessWriting'
  BY <1>1, <1>2 DEF SavedUnlessWriting
<1> QED BY <1>5, <1>7, <1>8 DEF LimiterInv

\* Every step keeps the invariant.
LEMMA LimiterStep == LimiterInv /\ [Next]_vars => LimiterInv'
<1> SUFFICES ASSUME LimiterInv, [Next]_vars PROVE LimiterInv'
  OBVIOUS
<1>1. CASE Tick
  BY <1>1 DEF Tick, LimiterInv, TypeOK, HistoryIsRecent, WindowUnlessLapsed,
              SavedUnlessWriting, ReadFile, UnlimitedAfterLapse
<1>2. CASE UNCHANGED vars
  BY <1>2 DEF vars, LimiterInv, TypeOK, HistoryIsRecent, WindowUnlessLapsed,
              SavedUnlessWriting, ReadFile, UnlimitedAfterLapse
<1> QED BY <1>1, <1>2, UnlimitedKeeps, CheckEventKeeps, CloseFileKeeps, RestartKeeps DEF Next

\* The variables have their types: the times that ticosd_rate_limiter_init
\* parses out of a file, cut short or not, are times, and there are always
\* Count of them in the history.
THEOREM TypeCorrect == Spec => []TypeOK
<1>1. LimiterInv => TypeOK
  BY DEF LimiterInv
<1> QED BY <1>1, LimiterInit, LimiterStep, PTL DEF Spec

\* For every count and duration, and whatever the clock does: of any
\* Count + 1 consecutive events that ticosd_rate_limiter_check_event accepts,
\* the last comes Duration after the first, unless a restart lost history.
THEOREM LimitHolds == Spec => []WindowUnlessLapsed
<1>1. LimiterInv => WindowUnlessLapsed
  BY DEF LimiterInv
<1> QED BY <1>1, LimiterInit, LimiterStep, PTL DEF Spec

\* The history file read by ticosd_rate_limiter_init is the history, except
\* while it is being rewritten or after it could not be opened.
THEOREM HistoryIsSaved == Spec => []SavedUnlessWriting
<1>1. LimiterInv => SavedUnlessWriting
  BY DEF LimiterInv
<1> QED BY <1>1, LimiterInit, LimiterStep, PTL DEF Spec
=============================================================================
