---------------------------- MODULE TxQueueProofs ----------------------------
(***************************************************************************)
(* The ring buffer of TxQueue, for every buffer size and every set of      *)
(* payload sizes.                                                          *)
(*                                                                         *)
(* The first part is about one run of the daemon: the pointers stay in the *)
(* buffer, and the header that the code follows without validating it      *)
(* heads a whole message.  HeadIsIntact is not inductive: where the read   *)
(* pointer goes next depends on every message ahead of it.  RunInv adds    *)
(* that the words below the write pointer are whole messages without gaps  *)
(* (WrittenIsTiled), and that from any header beyond it whole messages     *)
(* follow one another up to an end marker or to the end of the buffer      *)
(* (LeftoverIsTiled).  A write may cut into these leftovers; it then moves *)
(* the read pointer over the messages it cuts, and the invariant says      *)
(* where that walk ends.                                                   *)
(*                                                                         *)
(* The second part is about any number of runs, with crashes inside a      *)
(* write, until the first slip of TxQueueOrder: the queue implements the   *)
(* FIFO of TxFifo.  Its invariant Calm says where in the buffer the unread *)
(* messages are: between the pointers, or on both sides of the wrap, where *)
(* their numbers ascend, prev_header links each to the one before, and no  *)
(* old end marker lies between.  What start-up finds in such a buffer is   *)
(* what the run before had in its pointers.                                *)
(***************************************************************************)
EXTENDS TxQueueOrder, TLAPS, WellFoundedInduction, SequenceTheorems

-----------------------------------------------------------------------------
(* Least elements, for arguments by induction *)

Less == {ss \in Nat \X Nat : ss[1] < ss[2]}

\* The order of the naturals is well founded.
LEMMA LessIsWellFounded == IsWellFoundedOn(Less, Nat)
<1>1. OpToRel(<, Nat) = Less
  BY Zenon DEF OpToRel, Less
<1> QED BY <1>1, NatLessThanWellFounded

\* Smaller numbers precede larger ones in that order.
LEMMA LessIn ==
  ASSUME NEW x \in Nat, NEW y \in Nat, y < x
  PROVE  <<y, x>> \in Less
BY DEF Less

\* A nonempty set of naturals has a least element.
LEMMA LeastNatural ==
  ASSUME NEW T, T \subseteq Nat, T # {}
  PROVE  \E x \in T : \A y \in T : x <= y
<1>1. PICK x \in T : \A y \in T : ~ (<<y, x>> \in Less)
  BY WFMin, LessIsWellFounded
<1>2. ASSUME NEW y \in T PROVE x <= y
  <2>1. ~(y < x)
    BY <1>1, LessIn
  <2> QED BY <2>1
<1> QED BY <1>2

-----------------------------------------------------------------------------
(* Words and messages *)

\* The types of the fields of a header word.
LEMMA HeaderFields ==
  ASSUME NEW w \in Word, w.kind = "header"
  PROVE  /\ w.id \in 1 .. MaxWrites
         /\ w.bytes \in PayloadBytes /\ w.bytes \in Nat /\ w.bytes >= 1
         /\ w.prev \in Ptr
         /\ w.read \in BOOLEAN
<1>1. w \in [kind : {"header"}, id : 1 .. MaxWrites, bytes : PayloadBytes,
             prev : Ptr, read : BOOLEAN]
  BY DEF Word, Zero, END_POINTER
<1>2. w.read \in BOOLEAN
  BY <1>1, Zenon
<1>3. w.id \in 1 .. MaxWrites /\ w.bytes \in PayloadBytes /\ w.prev \in Ptr
  BY <1>1
<1>4. w.bytes \in Nat /\ w.bytes >= 1
  BY <1>3, PayloadAssumption
<1> QED BY <1>2, <1>3, <1>4

\* Setting the read flag of a header (ticosd_queue_complete_read) changes
\* nothing else of it.
LEMMA MarkedHeader ==
  ASSUME NEW w \in Word, w.kind = "header", NEW m, m = [w EXCEPT !.read = TRUE]
  PROVE  m \in Word /\ m.kind = "header" /\ m.id = w.id /\ m.bytes = w.bytes
<1> DEFINE H == [kind : {"header"}, id : 1 .. MaxWrites, bytes : PayloadBytes,
                 prev : Ptr, read : BOOLEAN]
<1>1. w \in H
  BY DEF Word, Zero, END_POINTER
<1>2. m \in H /\ m.kind = w.kind /\ m.id = w.id /\ m.bytes = w.bytes
  BY <1>1
<1> QED BY <1>2 DEF Word

\* A message takes at least the three words of its header.
LEMMA MessageWordsNat ==
  ASSUME NEW bytes \in Nat
  PROVE  MessageWords(bytes) \in Nat /\ MessageWords(bytes) >= 3
BY DEF MessageWords, HEADER_LEN

\* prv_get_next_message stays in the buffer, and goes forwards or to 0.
LEMMA NextMessage ==
  ASSUME NEW b \in [Ptr -> Word], NEW p \in Ptr
  PROVE  /\ prv_get_next_message(b, p) \in Ptr
         /\ prv_get_next_message(b, p) # 0 => prv_get_next_message(b, p) > p
<1>1. payload_size_bytes(b, p) \in Nat
  BY HeaderFields DEF payload_size_bytes
<1> DEFINE n == MessageWords(payload_size_bytes(b, p))
<1>2. n \in Nat /\ n >= 3
  BY <1>1, MessageWordsNat
<1> HIDE DEF n
<1>3. prv_get_next_message(b, p) =
        IF p + n >= Words \/ b[p + n] = END_POINTER THEN 0 ELSE p + n
  BY DEF prv_get_next_message, n
<1> QED BY <1>2, <1>3, WordsAssumption DEF Ptr

\* The loop of ticosd_queue_write that skips messages ends: SkipTo is a
\* function that satisfies its own recursive equation.
LEMMA SkipToEquation ==
  ASSUME NEW b \in [Ptr -> Word], NEW e
  PROVE  SkipTo(b, e) = [p \in Ptr |->
            LET next == prv_get_next_message(b, p)
            IN  IF next >= e \/ next = 0 THEN next ELSE SkipTo(b, e)[next]]
<1> DEFINE nx(p) == prv_get_next_message(b, p)
           R(f, p) == IF nx(p) >= e \/ nx(p) = 0 THEN nx(p) ELSE f[nx(p)]
           Solved(k) == \E f : f = [p \in Words - k .. Words - 1 |-> R(f, p)]
           T == {k \in Nat : k <= Words /\ ~Solved(k)}
<1>1. SkipTo(b, e) = CHOOSE f : f = [p \in Ptr |-> R(f, p)]
  BY DEF SkipTo
<1>2. ASSUME T # {} PROVE FALSE
  <2>1. PICK k \in T : \A j \in T : k <= j
    BY <1>2, LeastNatural
  <2>2. k # 0
    <3>1. Solved(0)
      <4> DEFINE f == [p \in Words - 0 .. Words - 1 |-> 0]
      <4>1. f = [p \in Words - 0 .. Words - 1 |-> R(f, p)]
        BY WordsAssumption
      <4> QED BY <4>1
    <3> QED BY <3>1
  <2>3. Solved(k - 1)
    <3>1. k - 1 \in Nat /\ k - 1 <= Words /\ ~(k <= k - 1)
      BY <2>2, WordsAssumption
    <3> QED BY <2>1, <3>1
  <2>4. PICK g : g = [p \in Words - (k - 1) .. Words - 1 |-> R(g, p)]
    BY <2>3
  <2> DEFINE D == Words - k .. Words - 1
             f == [p \in D |-> IF p = Words - k THEN R(g, p) ELSE g[p]]
  <2>5. ASSUME NEW p \in D PROVE f[p] = R(f, p)
    <3>1. p \in Ptr /\ k \in Nat /\ k <= Words
      BY WordsAssumption DEF Ptr
    <3>2. nx(p) \in Ptr /\ (nx(p) # 0 => nx(p) > p)
      BY <3>1, NextMessage
    <3> HIDE DEF nx
    <3>3. nx(p) # 0 => nx(p) \in D /\ nx(p) # Words - k
      BY <3>1, <3>2, WordsAssumption DEF Ptr
    <3>4. nx(p) # 0 => f[nx(p)] = g[nx(p)]
      BY <3>3
    <3>5. R(f, p) = R(g, p)
      BY <3>4
    <3>6. p # Words - k => p \in Words - (k - 1) .. Words - 1
      BY <3>1, WordsAssumption
    <3>7. p # Words - k => g[p] = R(g, p)
      BY <2>4, <3>6
    <3> QED BY <3>5, <3>7
  <2>6. f = [p \in D |-> R(f, p)]
    BY <2>5
  <2>7. Solved(k)
    BY <2>6
  <2> QED BY <2>7
<1>3. Solved(Words)
  <2> HIDE DEF Solved
  <2>1. ~Solved(Words) => Words \in T
    BY WordsAssumption
  <2> QED BY <1>2, <2>1
<1>4. \E f : f = [p \in Ptr |-> R(f, p)]
  <2>1. Words - Words .. Words - 1 = Ptr
    BY WordsAssumption DEF Ptr
  <2> QED BY <1>3, <2>1
<1> HIDE DEF R
<1>5. SkipTo(b, e) = [p \in Ptr |-> R(SkipTo(b, e), p)]
  BY <1>1, <1>4
<1> QED BY <1>5 DEF R
-----------------------------------------------------------------------------
(* Regions of the buffer filled by whole messages *)

End(b, s) == s + MessageWords(b[s].bytes)

\* An intact message ends inside the buffer, and only its first word is a
\* header.
LEMMA IntactEnd ==
  ASSUME NEW b \in [Ptr -> Word], NEW s \in Ptr, Intact(b, s)
  PROVE  /\ b[s].kind = "header"
         /\ End(b, s) \in Nat /\ End(b, s) >= s + 3 /\ End(b, s) <= Words
         /\ \A p \in s + 1 .. End(b, s) - 1 : b[p].kind = "body"
<1>1. b[s].kind = "header" /\ b[s] \in Word
  BY DEF Intact
<1>2. b[s].bytes \in Nat
  BY <1>1, HeaderFields
<1> DEFINE n == MessageWords(b[s].bytes)
<1>3. n \in Nat /\ n >= 3
  BY <1>2, MessageWordsNat
<1>4. s + n <= Words /\ \A k \in 1 .. n - 1 : b[s + k].kind = "body"
  <2>1. s + n <= Words /\ \A k \in 1 .. n - 1 : b[s + k] = Body(b[s].id, k)
    BY DEF Intact
  <2> HIDE DEF n
  <2>2. \A k \in 1 .. n - 1 : Body(b[s].id, k).kind = "body"
    BY DEF Body
  <2> QED BY <2>1, <2>2
<1> HIDE DEF n
<1>5. ASSUME NEW p \in s + 1 .. s + n - 1 PROVE b[p].kind = "body"
  <2>1. p - s \in 1 .. n - 1 /\ s + (p - s) = p
    BY <1>3 DEF Ptr
  <2> QED BY <1>4, <2>1
<1>6. End(b, s) = s + n
  BY DEF End, n
<1> QED BY <1>1, <1>3, <1>4, <1>5, <1>6 DEF Ptr

\* In a tiled region every word belongs to an intact message inside it.
LEMMA TiledPick ==
  ASSUME NEW b \in [Ptr -> Word], NEW a \in Nat, NEW e \in Nat, e <= Words,
         Tiled(b, a, e), NEW p \in a .. e - 1
  PROVE  \E s \in a .. p : /\ s \in Ptr /\ Intact(b, s)
                           /\ p < End(b, s) /\ End(b, s) <= e
BY WordsAssumption DEF Tiled, End, Ptr

\* In a tiled region a header is the start of a whole message; the region
\* from there on is tiled, and another message follows unless it ends there.
LEMMA TiledHeader ==
  ASSUME NEW b \in [Ptr -> Word], NEW a \in Nat, NEW e \in Nat, e <= Words,
         Tiled(b, a, e), NEW p \in a .. e - 1, b[p].kind = "header"
  PROVE  /\ Intact(b, p) /\ End(b, p) <= e
         /\ Tiled(b, p, e)
         /\ End(b, p) < e => b[End(b, p)].kind = "header"
<1> p \in Ptr
  BY WordsAssumption DEF Ptr
<1>0. ASSUME NEW s \in Ptr, Intact(b, s), s < p, p < End(b, s) PROVE FALSE
  <2>1. p \in s + 1 .. End(b, s) - 1
    BY <1>0, IntactEnd DEF Ptr
  <2>2. b[p].kind = "body"
    BY <1>0, <2>1, IntactEnd
  <2> QED BY <2>2
<1>1. Intact(b, p) /\ End(b, p) <= e
  <2>1. PICK s \in a .. p : /\ s \in Ptr /\ Intact(b, s)
                            /\ p < End(b, s) /\ End(b, s) <= e
    BY TiledPick
  <2>2. s = p
    BY <1>0, <2>1
  <2> QED BY <2>1, <2>2
<1>2. ASSUME NEW q \in p .. e - 1
      PROVE  \E s \in p .. q : Intact(b, s) /\ q < End(b, s) /\ End(b, s) <= e
  <2>1. PICK s \in a .. q : /\ s \in Ptr /\ Intact(b, s)
                            /\ q < End(b, s) /\ End(b, s) <= e
    BY TiledPick
  <2>2. End(b, s) \in Nat
    BY <2>1, IntactEnd
  <2>3. ~(s < p)
    BY <1>0, <2>1, <2>2
  <2>4. s \in p .. q
    BY <2>3
  <2> QED BY <2>1, <2>4
<1>3. Tiled(b, p, e)
  BY <1>2 DEF Tiled, End
<1>4. ASSUME End(b, p) < e PROVE b[End(b, p)].kind = "header"
  <2> DEFINE n == End(b, p)
  <2>1. n \in Nat /\ n > p /\ n \in a .. e - 1
    BY <1>1, <1>4, IntactEnd
  <2> HIDE DEF n
  <2>2. PICK s \in a .. n : /\ s \in Ptr /\ Intact(b, s)
                            /\ n < End(b, s) /\ End(b, s) <= e
    BY <2>1, TiledPick
  <2>3. End(b, s) \in Nat /\ b[s].kind = "header"
    BY <2>2, IntactEnd
  <2>4. ~(s < p)
    BY <1>0, <2>1, <2>2, <2>3
  <2>5. s # p
    BY <2>1, <2>2 DEF n
  <2>6. ~(p < s /\ s < n)
    <3>1. SUFFICES ASSUME p < s, s < n PROVE FALSE
      OBVIOUS
    <3>2. s \in p + 1 .. End(b, p) - 1
      BY <2>1, <3>1 DEF n
    <3>3. b[s].kind = "body"
      BY <1>1, <3>2, IntactEnd
    <3> QED BY <2>3, <3>3
  <2>7. s = n
    BY <2>1, <2>4, <2>5, <2>6
  <2> QED BY <2>3, <2>7 DEF n
<1> QED BY <1>1, <1>3, <1>4

\* A tiled region starts with a header.
LEMMA TiledStart ==
  ASSUME NEW b \in [Ptr -> Word], NEW a \in Nat, NEW e \in Nat, e <= Words,
         Tiled(b, a, e), a < e
  PROVE  b[a].kind = "header"
<1>1. PICK s \in a .. a : s \in Ptr /\ Intact(b, s)
  BY TiledPick
<1> QED BY <1>1 DEF Intact

\* Two tiled regions that meet make one.
LEMMA TiledJoin ==
  ASSUME NEW b \in [Ptr -> Word], NEW a \in Nat, NEW m \in Nat, NEW e \in Nat,
         a <= m, m <= e, e <= Words, Tiled(b, a, m), Tiled(b, m, e)
  PROVE  Tiled(b, a, e)
<1>1. ASSUME NEW p \in a .. e - 1
      PROVE  \E s \in a .. p : Intact(b, s) /\ p < End(b, s) /\ End(b, s) <= e
  <2>1. CASE p < m
    <3>0. p \in a .. m - 1 /\ m <= Words
      BY <2>1, WordsAssumption
    <3>1. PICK s \in a .. p : /\ s \in Ptr /\ Intact(b, s)
                              /\ p < End(b, s) /\ End(b, s) <= m
      BY <3>0, TiledPick
    <3>2. End(b, s) \in Nat
      BY <3>1, IntactEnd
    <3> QED BY <3>1, <3>2
  <2>2. CASE p >= m
    <3>1. PICK s \in m .. p : /\ s \in Ptr /\ Intact(b, s)
                              /\ p < End(b, s) /\ End(b, s) <= e
      BY <2>2, TiledPick
    <3> QED BY <3>1
  <2> QED BY <2>1, <2>2
<1> QED BY <1>1 DEF Tiled, End

\* c has the same messages as b at p: only a read flag may differ.
SameWord(b, c, p) ==
  IF b[p].kind = "header"
  THEN c[p].kind = "header" /\ c[p].id = b[p].id /\ c[p].bytes = b[p].bytes
  ELSE c[p] = b[p]

\* Changing only read flags, or only words outside it, keeps a region tiled.
LEMMA TiledFrame ==
  ASSUME NEW b \in [Ptr -> Word], NEW c \in [Ptr -> Word],
         NEW a \in Nat, NEW e \in Nat, e <= Words, Tiled(b, a, e),
         \A p \in a .. e - 1 : SameWord(b, c, p)
  PROVE  Tiled(c, a, e)
<1>1. ASSUME NEW s \in Ptr, s >= a, Intact(b, s), End(b, s) <= e
      PROVE  Intact(c, s) /\ End(c, s) = End(b, s)
  <2> DEFINE n == MessageWords(b[s].bytes)
  <2>1. b[s].kind = "header" /\ s + n <= Words
        /\ \A k \in 1 .. n - 1 : b[s + k] = Body(b[s].id, k)
    BY <1>1 DEF Intact
  <2>2. n \in Nat /\ n >= 3
    BY <2>1, HeaderFields, MessageWordsNat
  <2>3. s + n <= e
    BY <1>1 DEF End
  <2> HIDE DEF n
  <2>4. c[s].kind = "header" /\ c[s].id = b[s].id /\ c[s].bytes = b[s].bytes
    <3>1. s \in a .. e - 1
      BY <1>1, <2>2, <2>3 DEF Ptr
    <3> QED BY <2>1, <3>1 DEF SameWord
  <2>5. ASSUME NEW k \in 1 .. n - 1 PROVE c[s + k] = Body(b[s].id, k)
    <3>1. s + k \in a .. e - 1
      BY <1>1, <2>2, <2>3 DEF Ptr
    <3>2. b[s + k] = Body(b[s].id, k)
      BY <2>1
    <3>3. b[s + k].kind # "header"
      BY <3>2 DEF Body
    <3> QED BY <3>1, <3>2, <3>3 DEF SameWord
  <2>6. n = MessageWords(c[s].bytes)
    BY <2>4 DEF n
  <2> QED BY <2>1, <2>4, <2>5, <2>6 DEF Intact, End, n
<1>2. ASSUME NEW p \in a .. e - 1
      PROVE  \E s \in a .. p : Intact(c, s) /\ p < End(c, s) /\ End(c, s) <= e
  <2>1. PICK s \in a .. p : /\ s \in Ptr /\ Intact(b, s)
                            /\ p < End(b, s) /\ End(b, s) <= e
    BY TiledPick
  <2> QED BY <1>1, <2>1
<1> QED BY <1>2 DEF Tiled, End
-----------------------------------------------------------------------------
(* Following headers *)

\* prv_get_next_message from a header goes to the end of its message.
LEMMA NextOfHeader ==
  ASSUME NEW b \in [Ptr -> Word], NEW p \in Ptr, b[p].kind = "header"
  PROVE  prv_get_next_message(b, p) =
           IF End(b, p) >= Words \/ b[End(b, p)] = END_POINTER THEN 0 ELSE End(b, p)
BY DEF prv_get_next_message, payload_size_bytes, End

\* END_POINTER is never taken for a header.
LEMMA EndIsNoHeader ==
  ASSUME NEW w, w.kind = "header"
  PROVE  w # END_POINTER
BY DEF END_POINTER

\* Beyond the write pointer, the message after a message is a message.
LEMMA NextOfLeftover ==
  ASSUME NEW b \in [Ptr -> Word], NEW w \in Ptr, LeftoverIsTiled(b, w),
         NEW p \in Ptr, p >= w, b[p].kind = "header"
  PROVE  /\ Intact(b, p)
         /\ \/ prv_get_next_message(b, p) = 0
            \/ /\ prv_get_next_message(b, p) \in Ptr
               /\ prv_get_next_message(b, p) > p
               /\ b[prv_get_next_message(b, p)].kind = "header"
<1>1. p \in w .. Words - 1
  BY WordsAssumption DEF Ptr
<1>2. PICK e \in p + 1 .. Words : Tiled(b, p, e) /\ (e = Words \/ b[e] = END_POINTER)
  BY <1>1 DEF LeftoverIsTiled
<1>3. p \in p .. e - 1 /\ p \in Nat /\ e \in Nat /\ e <= Words
  BY WordsAssumption DEF Ptr
<1>4. /\ Intact(b, p) /\ End(b, p) <= e
      /\ End(b, p) < e => b[End(b, p)].kind = "header"
  BY <1>2, <1>3, TiledHeader
<1>5. End(b, p) \in Nat /\ End(b, p) > p
  BY <1>4, IntactEnd DEF Ptr
<1>6. CASE End(b, p) < e
  BY <1>3, <1>4, <1>5, <1>6, NextOfHeader, WordsAssumption DEF Ptr
<1>7. CASE End(b, p) = e
  BY <1>2, <1>4, <1>7, NextOfHeader, WordsAssumption DEF Ptr
<1> QED BY <1>3, <1>4, <1>5, <1>6, <1>7

\* Wherever a header is in the buffer, its message is whole, and the next
\* message is where the pointer will go, unless that is the write pointer.
LEMMA NextOfAny ==
  ASSUME NEW b \in [Ptr -> Word], NEW w \in Ptr,
         WrittenIsTiled(b, w), LeftoverIsTiled(b, w),
         NEW p \in Ptr, b[p].kind = "header"
  PROVE  /\ Intact(b, p)
         /\ prv_get_next_message(b, p) \in Ptr
         /\ prv_get_next_message(b, p) # w =>
              b[prv_get_next_message(b, p)].kind = "header"
<1>0. w # 0 => b[0].kind = "header"
  BY TiledStart, WordsAssumption DEF WrittenIsTiled, Ptr
<1>1. prv_get_next_message(b, p) \in Ptr
  BY NextMessage
<1>2. CASE p >= w
  BY <1>0, <1>1, <1>2, NextOfLeftover
<1>3. CASE p < w
  <2>1. p \in 0 .. w - 1 /\ 0 \in Nat /\ w \in Nat /\ w <= Words
    BY <1>3, WordsAssumption DEF Ptr
  <2>2. /\ Intact(b, p) /\ End(b, p) <= w
        /\ End(b, p) < w => b[End(b, p)].kind = "header"
    BY <2>1, TiledHeader DEF WrittenIsTiled
  <2>3. End(b, p) \in Nat
    BY <2>2, IntactEnd
  <2>4. prv_get_next_message(b, p) \in {0, End(b, p)}
    BY NextOfHeader
  <2>5. CASE End(b, p) < w
    BY <1>0, <1>1, <2>2, <2>4, <2>5
  <2>6. CASE End(b, p) = w
    BY <1>0, <1>1, <2>2, <2>4, <2>6
  <2> QED BY <2>1, <2>2, <2>3, <2>5, <2>6
<1> QED BY <1>2, <1>3 DEF Ptr

\* The loop of ticosd_queue_write that moves the read pointer out of the way
\* ends at a message beyond the new one, or at 0.
LEMMA SkipToHeader ==
  ASSUME NEW b \in [Ptr -> Word], NEW w \in Ptr, LeftoverIsTiled(b, w),
         NEW e \in Nat, NEW p0 \in Ptr, p0 >= w, b[p0].kind = "header"
  PROVE  /\ SkipTo(b, e)[p0] \in Ptr
         /\ \/ SkipTo(b, e)[p0] = 0
            \/ SkipTo(b, e)[p0] >= e /\ b[SkipTo(b, e)[p0]].kind = "header"
<1> DEFINE skip == SkipTo(b, e)
           nx(p) == prv_get_next_message(b, p)
           Good(q) == q \in Ptr /\ (q = 0 \/ (q >= e /\ b[q].kind = "header"))
           Bad(p) == p >= w /\ b[p].kind = "header" /\ ~Good(skip[p])
           T == {k \in Nat : \E p \in Ptr : k = Words - p /\ Bad(p)}
<1>1. \A p \in Ptr : skip[p] = IF nx(p) >= e \/ nx(p) = 0 THEN nx(p) ELSE skip[nx(p)]
  BY SkipToEquation
<1>2. \A p \in Ptr : p >= w /\ b[p].kind = "header" =>
        nx(p) = 0 \/ (nx(p) \in Ptr /\ nx(p) > p /\ b[nx(p)].kind = "header")
  BY NextOfLeftover
<1> HIDE DEF skip, nx
<1>3. ASSUME T # {} PROVE FALSE
  <2>1. PICK k \in T : \A j \in T : k <= j
    BY <1>3, LeastNatural
  <2>2. PICK p \in Ptr : k = Words - p /\ Bad(p)
    BY <2>1
  <2>3. nx(p) # 0 /\ nx(p) \in Ptr /\ nx(p) > p /\ b[nx(p)].kind = "header" /\ ~(nx(p) >= e)
    BY <1>1, <1>2, <2>2, WordsAssumption DEF Ptr
  <2>4. skip[p] = skip[nx(p)]
    BY <1>1, <2>3
  <2>5. Bad(nx(p))
    BY <2>2, <2>3, <2>4 DEF Ptr
  <2> HIDE DEF Bad
  <2>6. Words - nx(p) \in T
    BY <2>3, <2>5, WordsAssumption DEF Ptr
  <2>7. Words - nx(p) < k
    BY <2>2, <2>3, WordsAssumption DEF Ptr
  <2> QED BY <2>1, <2>6, <2>7
<1>4. Good(skip[p0])
  <2>1. Bad(p0) => Words - p0 \in T
    <3> HIDE DEF Bad
    <3> QED BY WordsAssumption DEF Ptr
  <2>2. ~Bad(p0)
    BY <1>3, <2>1
  <2> QED BY <2>2
<1> QED BY <1>4 DEF skip

-----------------------------------------------------------------------------
(* Storing a message *)

\* Storing a message, or part of one, keeps the type of the buffer.
LEMMA StoreType ==
  ASSUME NEW b \in [Ptr -> Word], NEW at \in Ptr, NEW id \in 1 .. MaxWrites,
         NEW bytes \in PayloadBytes, prev_ptr \in Ptr,
         NEW k \in Nat, at + k <= Words
  PROVE  Store(b, at, id, bytes, k) \in [Ptr -> Word]
<1>1. Header(id, bytes, prev_ptr) \in Word
  BY DEF Header, Word
<1>2. ASSUME NEW p \in Ptr, p \in at .. at + k - 1, p # at
      PROVE  Body(id, p - at) \in Word
  <2>1. p - at \in 1 .. Words
    BY <1>2, WordsAssumption DEF Ptr
  <2> HIDE DEF Ptr
  <2> QED BY <2>1 DEF Body, Word
<1> QED BY <1>1, <1>2 DEF Store

\* Storing a message changes only the words it takes.
LEMMA StoreKeeps ==
  ASSUME NEW b, NEW at \in Ptr, NEW id, NEW bytes, NEW k \in Nat,
         NEW p \in Ptr, p < at \/ p >= at + k
  PROVE  Store(b, at, id, bytes, k)[p] = b[p]
BY DEF Store, Ptr

\* The words of a stored message are tiled by that message.
LEMMA StoreTiled ==
  ASSUME NEW b \in [Ptr -> Word], NEW at \in Ptr, NEW id \in 1 .. MaxWrites,
         NEW bytes \in PayloadBytes, prev_ptr \in Ptr,
         at + MessageWords(bytes) <= Words
  PROVE  Tiled(Store(b, at, id, bytes, MessageWords(bytes)), at, at + MessageWords(bytes))
<1> DEFINE n == MessageWords(bytes)
           c == Store(b, at, id, bytes, n)
<1>1. n \in Nat /\ n >= 3
  BY PayloadAssumption, MessageWordsNat
<1>2. c[at] = Header(id, bytes, prev_ptr)
  BY <1>1 DEF Store, Ptr
<1>3. c[at].kind = "header" /\ c[at].bytes = bytes /\ c[at].id = id
  <2> HIDE DEF c
  <2> QED BY <1>2 DEF Header
<1>4. ASSUME NEW k \in 1 .. n - 1 PROVE c[at + k] = Body(id, k)
  <2> HIDE DEF n
  <2>1. at + k \in Ptr /\ at + k \in at .. at + n - 1 /\ at + k # at /\ (at + k) - at = k
    BY <1>1, WordsAssumption DEF Ptr, n
  <2> QED BY <2>1 DEF Store
<1> HIDE DEF c
<1>5. Intact(c, at)
  BY <1>3, <1>4 DEF Intact
<1> HIDE DEF n
<1>6. at + n \in Nat /\ at \in Nat
  BY <1>1 DEF Ptr
<1>7. at + MessageWords(c[at].bytes) = at + n
  BY <1>3 DEF n
<1> DEFINE e == at + n
<1> HIDE DEF e
<1>8. e \in Nat /\ at + MessageWords(c[at].bytes) = e
  BY <1>6, <1>7 DEF e
<1>9. ASSUME NEW p \in at .. e - 1
      PROVE  \E s \in at .. p : /\ Intact(c, s)
                                /\ p < s + MessageWords(c[s].bytes)
                                /\ s + MessageWords(c[s].bytes) <= e
  <2>1. at \in at .. p /\ p < e
    BY <1>6, <1>8
  <2> QED BY <1>5, <1>8, <2>1
<1>10. Tiled(c, at, e)
  BY <1>9 DEF Tiled
<1> QED BY <1>10 DEF n, c, e

\* A message stored at the write pointer extends the tiled part.
LEMMA StoreKeepsTiling ==
  ASSUME NEW b \in [Ptr -> Word], NEW at \in Ptr, NEW id \in 1 .. MaxWrites,
         NEW bytes \in PayloadBytes, prev_ptr \in Ptr,
         at + MessageWords(bytes) <= Words,
         WrittenIsTiled(b, at), LeftoverIsTiled(b, at)
  PROVE  LET c == Store(b, at, id, bytes, MessageWords(bytes))
             e == at + MessageWords(bytes)
         IN  /\ c \in [Ptr -> Word]
             /\ WrittenIsTiled(c, e)
             /\ LeftoverIsTiled(c, e)
<1> DEFINE n == MessageWords(bytes)
           c == Store(b, at, id, bytes, n)
           e == at + n
<1>1. n \in Nat /\ n >= 3 /\ e \in Nat /\ e > at /\ e <= Words
  <2>1. n \in Nat /\ n >= 3
    BY PayloadAssumption, MessageWordsNat
  <2> HIDE DEF n
  <2> QED BY <2>1 DEF Ptr, n
<1>2. c \in [Ptr -> Word]
  BY <1>1, StoreType
<1>3. Tiled(c, at, e)
  BY StoreTiled
<1>4. \A p \in Ptr : p < at \/ p >= e => c[p] = b[p]
  BY <1>1, StoreKeeps
<1>5. WrittenIsTiled(b, at) /\ LeftoverIsTiled(b, at) /\ at \in Nat /\ at <= Words
  BY WordsAssumption DEF Ptr
<1> HIDE DEF n, c, e
<1>6. Tiled(c, 0, at)
  <2>1. \A p \in 0 .. at - 1 : SameWord(b, c, p)
    BY <1>1, <1>4, WordsAssumption DEF SameWord, Ptr
  <2> QED BY <1>2, <1>5, <2>1, TiledFrame DEF WrittenIsTiled
<1>7. Tiled(c, 0, e)
  BY <1>1, <1>2, <1>3, <1>5, <1>6, TiledJoin
<1>8. ASSUME NEW s \in e .. Words - 1, c[s].kind = "header"
      PROVE  \E x \in s + 1 .. Words : Tiled(c, s, x) /\ (x = Words \/ c[x] = END_POINTER)
  <2>1. s \in Ptr /\ s \in at .. Words - 1 /\ c[s] = b[s] /\ s \in Nat
    BY <1>1, <1>4, WordsAssumption DEF Ptr
  <2>2. PICK x \in s + 1 .. Words : Tiled(b, s, x) /\ (x = Words \/ b[x] = END_POINTER)
    BY <1>5, <1>8, <2>1 DEF LeftoverIsTiled
  <2>3. x \in Nat /\ x <= Words /\ (x # Words => x \in Ptr /\ x >= e)
    BY <1>1, <2>1, WordsAssumption DEF Ptr
  <2>4. \A p \in s .. x - 1 : SameWord(b, c, p)
    BY <1>1, <1>4, <2>1, <2>3, WordsAssumption DEF SameWord, Ptr
  <2>5. Tiled(c, s, x)
    BY <1>2, <2>1, <2>2, <2>3, <2>4, TiledFrame
  <2>6. x = Words \/ c[x] = END_POINTER
    BY <1>4, <2>2, <2>3
  <2> QED BY <2>5, <2>6
<1>9. LeftoverIsTiled(c, e)
  BY <1>8 DEF LeftoverIsTiled
<1> QED BY <1>2, <1>7, <1>9 DEF WrittenIsTiled, n, c, e

\* When the messages fill the buffer the write pointer goes back to 0, and
\* all of them are left over from the pass that has ended.
LEMMA FullIsLeftover ==
  ASSUME NEW b \in [Ptr -> Word], Tiled(b, 0, Words)
  PROVE  WrittenIsTiled(b, 0) /\ LeftoverIsTiled(b, 0)
<1>1. ASSUME NEW s \in 0 .. Words - 1, b[s].kind = "header"
      PROVE  \E x \in s + 1 .. Words : Tiled(b, s, x) /\ (x = Words \/ b[x] = END_POINTER)
  <2>1. Tiled(b, s, Words)
    BY <1>1, TiledHeader, WordsAssumption
  <2>2. Words \in s + 1 .. Words
    BY WordsAssumption
  <2> QED BY <2>1, <2>2
<1>2. LeftoverIsTiled(b, 0)
  BY <1>1 DEF LeftoverIsTiled
<1>3. WrittenIsTiled(b, 0)
  BY DEF WrittenIsTiled, Tiled
<1> QED BY <1>2, <1>3

\* The end marker ends a pass in the same way.
LEMMA MarkIsLeftover ==
  ASSUME NEW b \in [Ptr -> Word], NEW w \in Ptr,
         WrittenIsTiled(b, w), LeftoverIsTiled(b, w)
  PROVE  LET c == [b EXCEPT ![w] = END_POINTER]
         IN  /\ c \in [Ptr -> Word]
             /\ WrittenIsTiled(c, 0) /\ LeftoverIsTiled(c, 0)
<1> DEFINE c == [b EXCEPT ![w] = END_POINTER]
<1>1. c \in [Ptr -> Word]
  BY DEF Word
<1>2. c[w] = END_POINTER /\ \A p \in Ptr : p # w => c[p] = b[p]
  OBVIOUS
<1>3. w \in Nat /\ w < Words
  BY WordsAssumption DEF Ptr
<1> HIDE DEF c
<1>4. ASSUME NEW s \in 0 .. Words - 1, c[s].kind = "header"
      PROVE  \E x \in s + 1 .. Words : Tiled(c, s, x) /\ (x = Words \/ c[x] = END_POINTER)
  <2>1. s # w /\ s \in Ptr /\ s \in Nat /\ c[s] = b[s]
    BY <1>2, <1>4, EndIsNoHeader DEF Ptr
  <2>2. CASE s < w
    <3>1. s \in 0 .. w - 1 /\ w <= Words /\ w \in s + 1 .. Words
      BY <1>3, <2>1, <2>2, WordsAssumption
    <3>2. Tiled(b, s, w)
      BY <1>3, <1>4, <2>1, <3>1, TiledHeader DEF WrittenIsTiled
    <3>3. \A p \in s .. w - 1 : SameWord(b, c, p)
      BY <1>2, <1>3, <2>1, WordsAssumption DEF SameWord, Ptr
    <3>4. Tiled(c, s, w)
      BY <1>1, <1>3, <2>1, <3>1, <3>2, <3>3, TiledFrame
    <3> QED BY <1>2, <3>1, <3>4
  <2>3. CASE s > w
    <3>1. s \in w .. Words - 1
      BY <1>3, <2>3
    <3>2. PICK x \in s + 1 .. Words : Tiled(b, s, x) /\ (x = Words \/ b[x] = END_POINTER)
      BY <1>4, <2>1, <3>1 DEF LeftoverIsTiled
    <3>3. x \in Nat /\ x <= Words /\ (x # Words => x \in Ptr /\ x # w)
      BY <1>3, <2>1, <2>3, WordsAssumption DEF Ptr
    <3>4. \A p \in s .. x - 1 : SameWord(b, c, p)
      BY <1>2, <1>3, <2>1, <2>3, <3>3, WordsAssumption DEF SameWord, Ptr
    <3>5. Tiled(c, s, x)
      BY <1>1, <2>1, <3>2, <3>3, <3>4, TiledFrame
    <3>6. x = Words \/ c[x] = END_POINTER
      BY <1>2, <3>2, <3>3
    <3> QED BY <3>5, <3>6
  <2> QED BY <1>3, <2>1, <2>2, <2>3
<1>5. LeftoverIsTiled(c, 0)
  BY <1>4 DEF LeftoverIsTiled
<1>6. WrittenIsTiled(c, 0)
  BY DEF WrittenIsTiled, Tiled
<1> QED BY <1>1, <1>5, <1>6 DEF c
-----------------------------------------------------------------------------
(* The inductive invariant of one run *)

\* The invariant holds on a new queue file.
LEMMA RunInvInit == Init => RunInv
<1> SUFFICES ASSUME Init PROVE RunInv
  OBVIOUS
<1>1. TypeOK
  <2>1. buf \in [Ptr -> Word]
    BY DEF Init, Word
  <2>2. 0 \in Ptr /\ 0 \in 0 .. MaxWrites /\ 0 \in 0 .. MaxRestarts
    BY WordsAssumption, BoundsAssumption DEF Ptr
  <2> QED BY <2>1, <2>2 DEF Init, TypeOK, NoMsg
<1>2. \A p \in Ptr : buf[p].kind = "zero"
  BY DEF Init, Zero
<1>3. LeftoverIsTiled(buf, write_ptr)
  BY <1>2 DEF Init, LeftoverIsTiled, Ptr
<1>4. WrittenIsTiled(buf, write_ptr)
  BY DEF Init, WrittenIsTiled, Tiled
<1>5. HeadIsHeader
  BY DEF Init, HeadIsHeader
<1> QED BY <1>1, <1>3, <1>4, <1>5 DEF RunInv

\* Where the write goes: after a wrap the marked buffer, with the write
\* pointer at 0, has the same shape.
LEMMA MarkEndKeepsTiling ==
  ASSUME RunInv, NEW n \in Nat, n <= Words
  PROVE  /\ MarkEnd(n) \in [Ptr -> Word]
         /\ WriteAt(n) \in Ptr /\ WriteAt(n) + n <= Words
         /\ WrittenIsTiled(MarkEnd(n), WriteAt(n))
         /\ LeftoverIsTiled(MarkEnd(n), WriteAt(n))
         /\ \A p \in Ptr : p # write_ptr => MarkEnd(n)[p] = buf[p]
<1>1. buf \in [Ptr -> Word] /\ write_ptr \in Ptr
  BY DEF RunInv, TypeOK
<1>2. CASE Wraps(n)
  <2>1. MarkEnd(n) = [buf EXCEPT ![write_ptr] = END_POINTER] /\ WriteAt(n) = 0
    BY <1>2 DEF MarkEnd, WriteAt
  <2>2. 0 \in Ptr /\ 0 + n <= Words
    BY WordsAssumption DEF Ptr
  <2>3. /\ MarkEnd(n) \in [Ptr -> Word]
        /\ WrittenIsTiled(MarkEnd(n), 0) /\ LeftoverIsTiled(MarkEnd(n), 0)
    <3>1. WrittenIsTiled(buf, write_ptr) /\ LeftoverIsTiled(buf, write_ptr)
      BY DEF RunInv
    <3>2. LET c == [buf EXCEPT ![write_ptr] = END_POINTER]
          IN  /\ c \in [Ptr -> Word]
              /\ WrittenIsTiled(c, 0) /\ LeftoverIsTiled(c, 0)
      BY <1>1, <3>1, MarkIsLeftover
    <3> QED BY <2>1, <3>2
  <2>4. \A p \in Ptr : p # write_ptr => MarkEnd(n)[p] = buf[p]
    BY <1>1, <2>1
  <2> QED BY <2>1, <2>2, <2>3, <2>4
<1>3. CASE ~Wraps(n)
  <2>1. MarkEnd(n) = buf /\ WriteAt(n) = write_ptr
    BY <1>3 DEF MarkEnd, WriteAt
  <2>2. write_ptr + n <= Words
    BY <1>1, <1>3, WordsAssumption DEF Wraps, Ptr
  <2> QED BY <1>1, <2>1, <2>2 DEF RunInv
<1> QED BY <1>2, <1>3

\* ticosd_queue_write keeps the invariant, whether it appends, wraps,
\* fills the buffer or overtakes the reader.
LEMMA WriteKeepsRunInv ==
  ASSUME RunInv, NEW bytes \in PayloadBytes, ticosd_queue_write(bytes)
  PROVE  RunInv'
<1> DEFINE n == MessageWords(bytes)
           at == WriteAt(n)
           e == at + n
           b == MarkEnd(n)
           overtaken == read_ptr # write_ptr /\ read_ptr > at /\ read_ptr < e
<1>0. /\ buf \in [Ptr -> Word] /\ read_ptr \in Ptr /\ write_ptr \in Ptr /\ prev_ptr \in Ptr
      /\ written \in 0 .. MaxWrites
  BY DEF RunInv, TypeOK
<1>1. n \in Nat /\ n >= 3 /\ n <= Words
  <2>1. n \in Nat /\ n >= 3
    BY PayloadAssumption, MessageWordsNat
  <2> QED BY <2>1 DEF ticosd_queue_write
<1>2. /\ b \in [Ptr -> Word] /\ at \in Ptr /\ e <= Words
      /\ WrittenIsTiled(b, at) /\ LeftoverIsTiled(b, at)
      /\ \A p \in Ptr : p # write_ptr => b[p] = buf[p]
  <2> HIDE DEF n
  <2> QED BY <1>1, MarkEndKeepsTiling
<1>3. /\ written < MaxWrites
      /\ buf' = Store(b, at, written + 1, bytes, n)
      /\ read_ptr' = IF read_ptr = write_ptr THEN at
                     ELSE IF overtaken THEN SkipTo(b, e)[read_ptr]
                     ELSE read_ptr
      /\ can_complete_read' = (can_complete_read /\ ~overtaken)
      /\ prev_ptr' = at
      /\ write_ptr' = e % Words
      /\ written' = written + 1
      /\ UNCHANGED <<payload, enabled, restarts>>
  BY DEF ticosd_queue_write
<1>4. written + 1 \in 1 .. MaxWrites
  BY <1>0, <1>3, BoundsAssumption
<1>5. /\ buf' \in [Ptr -> Word]
      /\ WrittenIsTiled(buf', e) /\ LeftoverIsTiled(buf', e)
  BY <1>0, <1>2, <1>3, <1>4, StoreKeepsTiling
<1>6. \A p \in Ptr : p < at \/ p >= e => buf'[p] = b[p]
  BY <1>1, <1>2, <1>3, StoreKeeps
<1> HIDE DEF n, at, e, b
<1>7. e \in Nat /\ e > at /\ e = at + n
  BY <1>1, <1>2 DEF Ptr, e
<1>8. buf'[at].kind = "header"
  <2>1. Tiled(buf', at, e)
    BY <1>0, <1>2, <1>3, <1>4, StoreTiled DEF n, e
  <2>2. at \in Nat
    BY <1>2 DEF Ptr
  <2> QED BY <1>2, <1>5, <1>7, <2>1, <2>2, TiledStart
<1>9. buf'[0].kind = "header"
  <2>1. Tiled(buf', 0, e) /\ 0 \in Nat /\ 0 < e
    BY <1>2, <1>5, <1>7 DEF WrittenIsTiled, Ptr
  <2> QED BY <1>2, <1>5, <1>7, <2>1, TiledStart
<1>10. write_ptr' \in Ptr /\ write_ptr' = (IF e = Words THEN 0 ELSE e)
  BY <1>2, <1>3, <1>7, WordsAssumption DEF Ptr
<1>11. WrittenIsTiled(buf', write_ptr') /\ LeftoverIsTiled(buf', write_ptr')
  <2>1. CASE e = Words
    BY <1>5, <1>10, <2>1, FullIsLeftover DEF WrittenIsTiled
  <2>2. CASE e # Words
    BY <1>5, <1>10, <2>2
  <2> QED BY <2>1, <2>2
<1>12. read_ptr' \in Ptr /\ buf'[read_ptr'].kind = "header"
  <2>1. CASE read_ptr = write_ptr
    BY <1>2, <1>3, <1>8, <2>1
  <2>2. ASSUME read_ptr # write_ptr
        PROVE  b[read_ptr].kind = "header"
    BY <1>0, <1>2, <2>2 DEF RunInv, HeadIsHeader
  <2>3. CASE read_ptr # write_ptr /\ overtaken
    <3>1. read_ptr' = SkipTo(b, e)[read_ptr] /\ read_ptr >= at
      BY <1>0, <1>2, <1>3, <2>3 DEF Ptr
    <3>2. /\ read_ptr' \in Ptr
          /\ read_ptr' = 0 \/ (read_ptr' >= e /\ b[read_ptr'].kind = "header")
      BY <1>0, <1>2, <1>7, <2>2, <2>3, <3>1, SkipToHeader
    <3> QED BY <1>6, <1>9, <3>2
  <2>4. CASE read_ptr # write_ptr /\ ~overtaken
    <3>1. read_ptr' = read_ptr /\ (read_ptr < at \/ read_ptr = at \/ read_ptr >= e)
      BY <1>0, <1>2, <1>3, <1>7, <2>4 DEF Ptr
    <3> QED BY <1>0, <1>6, <1>8, <2>2, <2>4, <3>1
  <2> QED BY <2>1, <2>3, <2>4
<1>13. TypeOK'
  <2>1. prev_ptr' \in Ptr /\ written' \in 0 .. MaxWrites
    BY <1>2, <1>3, <1>4
  <2>2. can_complete_read' \in BOOLEAN
    BY <1>3
  <2>3. /\ payload' \in 0 .. MaxWrites /\ enabled' \in BOOLEAN
        /\ restarts' \in 0 .. MaxRestarts
    BY <1>3 DEF RunInv, TypeOK
  <2> QED BY <1>5, <1>10, <1>12, <2>1, <2>2, <2>3 DEF TypeOK
<1>14. HeadIsHeader'
  BY <1>12 DEF HeadIsHeader
<1> QED BY <1>11, <1>13, <1>14 DEF RunInv

\* ticosd_queue_read_head keeps the invariant: the flag it sets is for an
\* intact head, also when the queue is entirely full.
LEMMA ReadHeadKeepsRunInv ==
  ASSUME RunInv, ticosd_queue_read_head
  PROVE  RunInv'
<1>1. /\ payload' = ReadHeadResult /\ ReadHeadResult # NoMsg
      /\ can_complete_read' = TRUE
      /\ UNCHANGED <<buf, read_ptr, write_ptr, prev_ptr, enabled, written, restarts>>
  BY DEF ticosd_queue_read_head
<1>2. buf \in [Ptr -> Word] /\ read_ptr \in Ptr
  BY DEF RunInv, TypeOK
<1>3. buf[read_ptr].kind = "header" /\ ReadHeadResult = buf[read_ptr].id
  <2>1. CASE read_ptr # write_ptr
    BY <2>1 DEF RunInv, HeadIsHeader, ReadHeadResult
  <2>2. CASE read_ptr = write_ptr
    BY <1>1, <2>2 DEF ReadHeadResult, prv_is_msg_valid, Intact
  <2> QED BY <2>1, <2>2
<1>4. payload' \in 0 .. MaxWrites
  <2>1. buf[read_ptr].id \in 1 .. MaxWrites
    BY <1>2, <1>3, HeaderFields
  <2> QED BY <1>1, <1>3, <2>1, BoundsAssumption
<1>5. TypeOK'
  BY <1>1, <1>4 DEF RunInv, TypeOK
<1>6. HeadIsHeader'
  BY <1>1, <1>3 DEF HeadIsHeader
<1>7. WrittenIsTiled(buf', write_ptr') /\ LeftoverIsTiled(buf', write_ptr')
  BY <1>1 DEF RunInv
<1> QED BY <1>5, <1>6, <1>7 DEF RunInv

\* ticosd_queue_complete_read keeps the invariant: the message after the
\* one it completes is intact, or the queue is empty.
LEMMA CompleteReadKeepsRunInv ==
  ASSUME RunInv, ticosd_queue_complete_read
  PROVE  RunInv'
<1>0. payload' \in 0 .. MaxWrites
  BY BoundsAssumption DEF ticosd_queue_complete_read, NoMsg
<1>1. CASE ~can_complete_read
  <2>1. UNCHANGED <<buf, read_ptr, can_complete_read, write_ptr, prev_ptr,
                    enabled, written, restarts>>
    BY <1>1 DEF ticosd_queue_complete_read
  <2>2. TypeOK'
    BY <1>0, <2>1 DEF RunInv, TypeOK
  <2> QED BY <2>1, <2>2 DEF RunInv, HeadIsHeader
<1>2. CASE can_complete_read
  <2>1. /\ buf' = [buf EXCEPT ![read_ptr].read = TRUE]
        /\ read_ptr' = prv_get_next_message(buf, read_ptr)
        /\ can_complete_read' = FALSE
        /\ UNCHANGED <<write_ptr, prev_ptr, enabled, written, restarts>>
    BY <1>2 DEF ticosd_queue_complete_read
  <2>2. /\ buf \in [Ptr -> Word] /\ read_ptr \in Ptr /\ write_ptr \in Ptr
        /\ write_ptr \in Nat /\ write_ptr <= Words
        /\ WrittenIsTiled(buf, write_ptr) /\ LeftoverIsTiled(buf, write_ptr)
    BY WordsAssumption DEF RunInv, TypeOK, Ptr
  <2>3. buf[read_ptr].kind = "header"
    BY <1>2 DEF RunInv, HeadIsHeader
  <2>4. /\ \A p \in Ptr : p # read_ptr => buf'[p] = buf[p]
        /\ buf'[read_ptr] = [buf[read_ptr] EXCEPT !.read = TRUE]
    BY <2>1, <2>2
  <2>5. buf' \in [Ptr -> Word] /\ \A p \in Ptr : SameWord(buf, buf', p)
    <3>1. buf[read_ptr] \in Word
      BY <2>2
    <3>3. /\ buf'[read_ptr] \in Word /\ buf'[read_ptr].kind = "header"
          /\ buf'[read_ptr].id = buf[read_ptr].id
          /\ buf'[read_ptr].bytes = buf[read_ptr].bytes
      BY <2>3, <2>4, <3>1, MarkedHeader
    <3>4. DOMAIN buf' = Ptr /\ \A p \in Ptr : buf'[p] \in Word
      BY <2>1, <2>2, <2>4, <3>3
    <3>5. buf' \in [Ptr -> Word]
      BY <2>1, <2>2, <3>4
    <3>6. SameWord(buf, buf', read_ptr)
      BY <2>3, <3>3 DEF SameWord
    <3>7. ASSUME NEW p \in Ptr, p # read_ptr PROVE SameWord(buf, buf', p)
      BY <2>4, <3>7 DEF SameWord
    <3> QED BY <3>5, <3>6, <3>7
  <2>6. WrittenIsTiled(buf', write_ptr')
    <3>1. \A p \in 0 .. write_ptr - 1 : SameWord(buf, buf', p)
      BY <2>2, <2>5, WordsAssumption DEF Ptr
    <3> QED BY <2>1, <2>2, <2>5, <3>1, TiledFrame DEF WrittenIsTiled
  <2>7. LeftoverIsTiled(buf', write_ptr')
    <3> SUFFICES ASSUME NEW s \in write_ptr .. Words - 1, buf'[s].kind = "header"
                 PROVE  \E x \in s + 1 .. Words : /\ Tiled(buf', s, x)
                                                  /\ x = Words \/ buf'[x] = END_POINTER
      BY <2>1 DEF LeftoverIsTiled
    <3>1. s \in Ptr /\ s \in Nat
      BY <2>2, WordsAssumption DEF Ptr
    <3>2. buf[s].kind = "header"
      BY <2>3, <2>4, <3>1
    <3>3. PICK x \in s + 1 .. Words : Tiled(buf, s, x) /\ (x = Words \/ buf[x] = END_POINTER)
      BY <2>2, <3>2 DEF LeftoverIsTiled
    <3>4. x \in Nat /\ x <= Words /\ (x # Words => x \in Ptr)
      BY <3>1, WordsAssumption DEF Ptr
    <3>5. \A p \in s .. x - 1 : SameWord(buf, buf', p)
      BY <2>5, <3>1, <3>4, WordsAssumption DEF Ptr
    <3>6. Tiled(buf', s, x)
      BY <2>2, <2>5, <3>1, <3>3, <3>4, <3>5, TiledFrame
    <3>7. x # Words => buf'[x] = END_POINTER
      BY <2>3, <2>4, <3>3, <3>4, EndIsNoHeader
    <3> QED BY <3>6, <3>7
  <2>8. read_ptr' \in Ptr /\ (read_ptr' # write_ptr => buf[read_ptr'].kind = "header")
    BY <2>1, <2>2, <2>3, NextOfAny
  <2>9. HeadIsHeader'
    BY <2>1, <2>5, <2>8 DEF HeadIsHeader, SameWord
  <2>10. TypeOK'
    BY <1>0, <2>1, <2>5, <2>8 DEF RunInv, TypeOK
  <2> QED BY <2>6, <2>7, <2>9, <2>10 DEF RunInv
<1> QED BY <1>1, <1>2

\* Every operation of one run keeps the invariant.
LEMMA RunInvStep == RunInv /\ [Operate]_vars => RunInv'
<1> SUFFICES ASSUME RunInv, [Operate]_vars PROVE RunInv'
  OBVIOUS
<1>1. CASE \E bytes \in PayloadBytes : ticosd_queue_write(bytes)
  BY <1>1, WriteKeepsRunInv
<1>2. CASE ticosd_queue_read_head
  BY <1>2, ReadHeadKeepsRunInv
<1>3. CASE ticosd_queue_complete_read
  BY <1>3, CompleteReadKeepsRunInv
<1>4. CASE RetryLater
  <2>1. UNCHANGED <<buf, read_ptr, write_ptr, prev_ptr, can_complete_read>>
        /\ UNCHANGED <<enabled, written, restarts>> /\ payload' = 0
    BY <1>4 DEF RetryLater, handle, NoMsg
  <2>2. TypeOK'
    BY <2>1, BoundsAssumption DEF RunInv, TypeOK
  <2> QED BY <2>1, <2>2 DEF RunInv, HeadIsHeader
<1>5. CASE UNCHANGED vars
  <2>1. UNCHANGED <<buf, read_ptr, write_ptr, prev_ptr, can_complete_read>>
        /\ UNCHANGED <<payload, enabled, written, restarts>>
    BY <1>5 DEF vars, handle
  <2> QED BY <2>1 DEF RunInv, HeadIsHeader, TypeOK
<1> QED BY <1>1, <1>2, <1>3, <1>4, <1>5 DEF Operate

\* The invariant implies what the reader relies on.
LEMMA RunInvHead == RunInv => HeadIsIntact
<1> SUFFICES ASSUME RunInv, read_ptr # write_ptr \/ can_complete_read
             PROVE  Intact(buf, read_ptr)
  BY DEF HeadIsIntact
<1>1. buf[read_ptr].kind = "header"
  BY DEF RunInv, HeadIsHeader
<1> QED BY <1>1, NextOfAny DEF RunInv, TypeOK

\* In one run of the daemon on a new queue file, for every queue size and
\* every choice of payload sizes, the pointers of sTicosdQueue stay inside
\* the buffer.
THEOREM RunTypeCorrect == RunSpec => []TypeOK
<1>1. RunInv => TypeOK
  BY DEF RunInv
<1> QED BY <1>1, RunInvInit, RunInvStep, PTL DEF RunSpec

\* In one run of the daemon on a new queue file, for every queue size and
\* every choice of payload sizes, read_head and complete_read only ever use
\* the header of a message that is in the buffer as it was written.
THEOREM RunHeadIsIntact == RunSpec => []HeadIsIntact
BY RunInvInit, RunInvStep, RunInvHead, PTL DEF RunSpec

\* The inductive invariant itself.
THEOREM RunInvariant == RunSpec => []RunInv
BY RunInvInit, RunInvStep, PTL DEF RunSpec

-----------------------------------------------------------------------------
(* The queue over restarts, until the first slip *)

\* The message at p is whole and has not been marked as sent.
Unread(b, p) == Intact(b, p) /\ ~prv_is_msg_read(b, p)

\* The message after the one at p begins at q, or will.
Follows(b, p, q) ==
  \/ End(b, p) = q
  \/ q = 0 /\ (End(b, p) = Words \/ b[End(b, p)] = END_POINTER)

\* The parameters: the buffer, read_ptr, write_ptr, prev_ptr, owed, written.
Types(b, r, w, v, ow, n) ==
  b \in [Ptr -> Word] /\ r \in Ptr /\ w \in Ptr /\ v \in Ptr /\ ow \in Seq(Nat) /\ n \in Nat

\* Each message has a number of its own, not above the number of writes.
Numbered(b, n) ==
  /\ \A p \in Ptr : b[p].kind \in {"header", "body"} => b[p].id <= n
  /\ \A p, q \in Ptr :
       b[p].kind = "header" /\ b[q].kind = "header" /\ b[p].id = b[q].id => p = q

\* prev_header goes backwards, except from the start of the buffer.
Backwards(b, w, v) ==
  /\ \A p \in Ptr : b[p].kind = "header" /\ p > 0 => b[p].prev < p
  /\ w > 0 => v < w

\* The unread messages are those that are owed.
Lists(ow, id) == \E i \in 1 .. Len(ow) : ow[i] = id
Listed(b, ow) ==
  /\ \A i, j \in 1 .. Len(ow) : i < j => ow[i] < ow[j]
  /\ \A p \in Ptr : Unread(b, p) => Lists(ow, b[p].id)
  /\ \A i \in 1 .. Len(ow) : \E p \in Ptr : Unread(b, p) /\ b[p].id = ow[i]

AllUnread(b, a, e) ==
  \A p \in a .. e - 1 : b[p].kind = "header" => ~prv_is_msg_read(b, p)
NoEnd(b, a, e) == \A p \in a .. e - 1 : b[p] # END_POINTER

\* The unread messages lie between the pointers.
Lower(b, r, w) ==
  /\ r < w /\ b[r].kind = "header" /\ AllUnread(b, r, w)
  /\ \A p \in Ptr : Unread(b, p) => p >= r /\ p < w

\* They fill the buffer from r up to t, where the last pass ended, and from the
\* start up to w.
Wrapped(b, r, w, t) ==
  /\ t \in Nat /\ w <= r /\ r < t /\ t <= Words
  /\ b[r].kind = "header"
  /\ Tiled(b, r, t)
  /\ t < Words => b[t] = END_POINTER
  /\ AllUnread(b, r, t) /\ AllUnread(b, 0, w)
  /\ \A p \in Ptr : Unread(b, p) => p < w \/ (p >= r /\ p < t)
  /\ NoEnd(b, w, r)
  /\ w = 0 => Tiled(b, 0, r)
  /\ w = r => prv_is_msg_in_bounds(b, r)

Placed(b, r, w, ow) ==
  /\ Tiled(b, 0, w)
  /\ ow = <<>> => r = w
  /\ ow # <<>> => Lower(b, r, w) \/ \E t \in Nat : Wrapped(b, r, w, t)

\* From r on around the buffer, the numbers of the unread messages ascend.
Earlier(r, p, q) == (p < q /\ (q < r \/ p >= r)) \/ (p >= r /\ q < r)
InOrder(b, r) ==
  \A p, q \in Ptr : Unread(b, p) /\ Unread(b, q) /\ Earlier(r, p, q) => b[p].id < b[q].id

\* prev_header of an unread message, but the first, is the one before it, and
\* prev_ptr is the last one.
Linked(b, r, w, v, ow) ==
  /\ \A s \in Ptr : Unread(b, s) /\ s # r => Unread(b, b[s].prev) /\ Follows(b, b[s].prev, s)
  /\ ow # <<>> => Unread(b, v) /\ Follows(b, v, w)

Calm(b, r, w, v, ow, n) ==
  /\ Types(b, r, w, v, ow, n)
  /\ Numbered(b, n) /\ Backwards(b, w, v) /\ Listed(b, ow)
  /\ Placed(b, r, w, ow) /\ InOrder(b, r) /\ Linked(b, r, w, v, ow)

\* The words of a message carry its number.
LEMMA OwnWords ==
  ASSUME NEW b \in [Ptr -> Word], NEW s \in Ptr, Intact(b, s), NEW p \in s .. End(b, s) - 1
  PROVE  p \in Ptr /\ b[p].kind \in {"header", "body"} /\ b[p].id = b[s].id
<1>1. /\ b[s].kind = "header" /\ End(b, s) \in Nat /\ End(b, s) <= Words
      /\ s \in Nat /\ Words \in Nat
  BY IntactEnd, WordsAssumption DEF Ptr
<1>2. p \in Ptr
  BY <1>1 DEF Ptr
<1>3. CASE p = s
  BY <1>1, <1>2, <1>3
<1>4. CASE p # s
  <2> DEFINE m == MessageWords(b[s].bytes)
  <2>1. m \in Nat
    BY <1>1, HeaderFields, MessageWordsNat
  <2>2. \A k \in 1 .. m - 1 : b[s + k] = Body(b[s].id, k)
    BY DEF Intact
  <2>3. End(b, s) = s + m
    BY DEF End
  <2> HIDE DEF m
  <2>4. p - s \in 1 .. m - 1 /\ s + (p - s) = p
    BY <1>1, <1>4, <2>1, <2>3
  <2>5. PICK k \in 1 .. m - 1 : b[p] = Body(b[s].id, k)
    BY <2>2, <2>4
  <2> QED BY <1>2, <2>5 DEF Body
<1> QED BY <1>3, <1>4

\* A message whose words are in c as in b is there as well.
LEMMA IntactFrame ==
  ASSUME NEW b \in [Ptr -> Word], NEW c \in [Ptr -> Word], NEW s \in Ptr, Intact(b, s),
         \A p \in s .. End(b, s) - 1 : c[p] = b[p]
  PROVE  Intact(c, s) /\ c[s] = b[s] /\ End(c, s) = End(b, s)
<1> DEFINE m == MessageWords(b[s].bytes)
<1>1. b[s].kind = "header" /\ s \in Nat
  BY DEF Intact, Ptr
<1>2. m \in Nat /\ m >= 3
  BY <1>1, HeaderFields, MessageWordsNat
<1>3. End(b, s) = s + m
  BY DEF End
<1>4. s + m <= Words /\ \A k \in 1 .. m - 1 : b[s + k] = Body(b[s].id, k)
  BY DEF Intact
<1> HIDE DEF m
<1>5. s \in s .. End(b, s) - 1 /\ \A k \in 1 .. m - 1 : s + k \in s .. End(b, s) - 1
  BY <1>1, <1>2, <1>3
<1>6. c[s] = b[s] /\ \A k \in 1 .. m - 1 : c[s + k] = Body(c[s].id, k)
  BY <1>4, <1>5
<1>7. MessageWords(c[s].bytes) = m
  BY <1>6 DEF m
<1> QED BY <1>1, <1>3, <1>4, <1>6, <1>7 DEF Intact, End

\* What is known of an unread message.
LEMMA UnreadIs ==
  ASSUME NEW b \in [Ptr -> Word], NEW s \in Ptr, Unread(b, s)
  PROVE  /\ Intact(b, s) /\ b[s].kind = "header"
         /\ s \in Nat /\ End(b, s) \in Nat /\ End(b, s) >= s + 3 /\ End(b, s) <= Words
         /\ b[s].id \in Nat /\ b[s].prev \in Ptr
<1>1. Intact(b, s)
  BY DEF Unread
<1>2. b[s].kind = "header" /\ End(b, s) \in Nat /\ End(b, s) >= s + 3 /\ End(b, s) <= Words
  BY <1>1, IntactEnd
<1>3. b[s].id \in Nat /\ b[s].prev \in Ptr
  BY <1>2, HeaderFields
<1>4. s \in Nat
  BY DEF Ptr
<1> QED BY <1>1, <1>2, <1>3, <1>4

\* No header lies inside a message.
LEMMA NoneInside ==
  ASSUME NEW b \in [Ptr -> Word], NEW s \in Ptr, Intact(b, s),
         NEW p \in Ptr, b[p].kind = "header", p > s
  PROVE  p >= End(b, s)
<1>1. End(b, s) \in Nat /\ \A q \in s + 1 .. End(b, s) - 1 : b[q].kind = "body"
  BY IntactEnd
<1>2. s \in Nat /\ p \in Nat
  BY DEF Ptr
<1>3. ~(p \in s + 1 .. End(b, s) - 1)
  BY <1>1
<1> QED BY <1>1, <1>2, <1>3

\* A tiled region is tiled up to any header in it,
LEMMA TiledPrefix ==
  ASSUME NEW b \in [Ptr -> Word], NEW a \in Nat, NEW e \in Nat, e <= Words, Tiled(b, a, e),
         NEW p \in a .. e - 1, b[p].kind = "header"
  PROVE  Tiled(b, a, p)
<1>0. p \in Ptr /\ p \in Nat
  BY WordsAssumption DEF Ptr
<1>1. ASSUME NEW q \in a .. p - 1
      PROVE  \E s \in a .. q : Intact(b, s) /\ q < End(b, s) /\ End(b, s) <= p
  <2>1. q \in a .. e - 1
    BY <1>0
  <2>2. PICK s \in a .. q : s \in Ptr /\ Intact(b, s) /\ q < End(b, s)
    BY <2>1, TiledPick
  <2>3. p > s
    BY <1>0, <2>2
  <2>4. End(b, s) <= p
    BY <1>0, <2>2, <2>3, NoneInside, IntactEnd
  <2> QED BY <2>2, <2>4
<1> QED BY <1>1 DEF Tiled, End

\* and holds no end marker.
LEMMA TiledNoEnd ==
  ASSUME NEW b \in [Ptr -> Word], NEW a \in Nat, NEW e \in Nat, e <= Words, Tiled(b, a, e)
  PROVE  NoEnd(b, a, e)
<1> SUFFICES ASSUME NEW p \in a .. e - 1 PROVE b[p] # END_POINTER
  BY DEF NoEnd
<1>1. PICK s \in a .. p : s \in Ptr /\ Intact(b, s) /\ p < End(b, s)
  BY TiledPick
<1>2. p \in s .. End(b, s) - 1
  BY <1>1, IntactEnd
<1>3. b[p].kind \in {"header", "body"}
  BY <1>1, <1>2, OwnWords
<1> QED BY <1>3 DEF END_POINTER

\* The headers of an unread region are unread messages.
LEMMA RegionUnread ==
  ASSUME NEW b \in [Ptr -> Word], NEW a \in Nat, NEW e \in Nat, e <= Words, Tiled(b, a, e),
         AllUnread(b, a, e), NEW p \in a .. e - 1, b[p].kind = "header"
  PROVE  p \in Ptr /\ Unread(b, p) /\ End(b, p) <= e /\ (End(b, p) < e => b[End(b, p)].kind = "header")
<1>1. Intact(b, p) /\ End(b, p) <= e /\ (End(b, p) < e => b[End(b, p)].kind = "header")
  BY TiledHeader
<1>2. p \in Ptr
  BY WordsAssumption DEF Ptr
<1>3. ~prv_is_msg_read(b, p)
  BY DEF AllUnread
<1> QED BY <1>1, <1>2, <1>3 DEF Unread

-----------------------------------------------------------------------------
(* Completing a read *)

\* The first unread message is at the read pointer, and is the oldest.
LEMMA CalmHead ==
  ASSUME NEW b, NEW r, NEW w, NEW v, NEW ow, NEW n, Calm(b, r, w, v, ow, n), ow # <<>>
  PROVE  /\ Len(ow) \in Nat /\ Len(ow) >= 1
         /\ Unread(b, r) /\ b[r].id = ow[1]
         /\ \A p \in Ptr : Unread(b, p) /\ p # r => Earlier(r, r, p)
<1>1. /\ b \in [Ptr -> Word] /\ r \in Ptr /\ w \in Ptr /\ ow \in Seq(Nat)
      /\ r \in Nat /\ w \in Nat /\ Words \in Nat /\ w < Words /\ r < Words
  BY WordsAssumption DEF Calm, Types, Ptr
<1>2. Len(ow) \in Nat /\ Len(ow) >= 1
  BY <1>1
<1>3. Unread(b, r) /\ \A p \in Ptr : Unread(b, p) /\ p # r => Earlier(r, r, p)
  <2>1. CASE Lower(b, r, w)
    <3>1. Unread(b, r)
      <4>1. Tiled(b, 0, w) /\ b[r].kind = "header" /\ r \in 0 .. w - 1
        BY <1>1, <2>1 DEF Calm, Placed, Lower
      <4>2. Intact(b, r)
        BY <1>1, <4>1, TiledHeader
      <4>3. r \in r .. w - 1
        BY <1>1, <4>1
      <4> QED BY <2>1, <4>1, <4>2, <4>3 DEF Lower, AllUnread, Unread
    <3>2. ASSUME NEW p \in Ptr, Unread(b, p), p # r PROVE Earlier(r, r, p)
      <4>1. p >= r /\ p \in Nat
        BY <2>1, <3>2 DEF Lower, Ptr
      <4> QED BY <1>1, <3>2, <4>1 DEF Earlier
    <3> QED BY <3>1, <3>2
  <2>2. ASSUME NEW t \in Nat, Wrapped(b, r, w, t) PROVE Unread(b, r) /\ \A p \in Ptr : Unread(b, p) /\ p # r => Earlier(r, r, p)
    <3>0. t <= Words /\ Tiled(b, r, t) /\ AllUnread(b, r, t) /\ b[r].kind = "header" /\ r \in r .. t - 1
      BY <1>1, <2>2 DEF Wrapped
    <3>1. Unread(b, r)
      BY <1>1, <3>0, RegionUnread
    <3>2. ASSUME NEW p \in Ptr, Unread(b, p), p # r PROVE Earlier(r, r, p)
      <4>1. (p < r \/ p >= r) /\ p \in Nat
        BY <1>1 DEF Ptr
      <4> QED BY <1>1, <3>2, <4>1 DEF Earlier
    <3> QED BY <3>1, <3>2
  <2> QED BY <2>1, <2>2 DEF Calm, Placed
<1>4. b[r].id = ow[1]
  <2>1. PICK p \in Ptr : Unread(b, p) /\ b[p].id = ow[1]
    BY <1>2 DEF Calm, Listed
  <2>2. PICK i \in 1 .. Len(ow) : ow[i] = b[r].id
    BY <1>1, <1>3 DEF Calm, Listed, Lists
  <2>3. b[r].id \in Nat /\ b[p].id \in Nat
    BY <1>1, <1>3, <2>1, UnreadIs
  <2>4. ow[1] <= ow[i]
    <3>1. i = 1 \/ ow[1] < ow[i]
      BY <1>2 DEF Calm, Listed
    <3> QED BY <2>1, <2>2, <2>3, <3>1
  <2>5. p # r => b[r].id < b[p].id
    BY <1>1, <1>3, <2>1 DEF Calm, InOrder
  <2> QED BY <2>1, <2>2, <2>3, <2>4, <2>5
<1> QED BY <1>2, <1>3, <1>4

\* c is b with the message at r marked as sent.
Sent(b, c, r) ==
  /\ c \in [Ptr -> Word]
  /\ \A p \in Ptr : p # r => c[p] = b[p]
  /\ c[r].kind = "header" /\ c[r].id = b[r].id /\ c[r].prev = b[r].prev
  /\ \A p \in Ptr : SameWord(b, c, p)
  /\ \A p \in Ptr : Unread(c, p) <=> Unread(b, p) /\ p # r
  /\ \A p \in Ptr : Unread(b, p) => End(c, p) = End(b, p)

\* That is what ticosd_queue_complete_read does to the buffer.
LEMMA MarkRead ==
  ASSUME NEW b \in [Ptr -> Word], NEW r \in Ptr, Unread(b, r)
  PROVE  Sent(b, [b EXCEPT ![r].read = TRUE], r)
<1> DEFINE c == [b EXCEPT ![r].read = TRUE]
<1>1. b[r] \in Word /\ b[r].kind = "header" /\ Intact(b, r)
  BY UnreadIs
<1>2. b[r] \in [kind : {"header"}, id : 1 .. MaxWrites, bytes : PayloadBytes,
                prev : Ptr, read : BOOLEAN]
  BY <1>1 DEF Word, Zero, END_POINTER
<1>3. c[r] = [b[r] EXCEPT !.read = TRUE] /\ \A p \in Ptr : p # r => c[p] = b[p]
  OBVIOUS
<1> HIDE DEF c
<1>4. /\ c[r] \in Word /\ c[r].kind = "header" /\ c[r].id = b[r].id /\ c[r].bytes = b[r].bytes
  BY <1>1, <1>3, MarkedHeader
<1>5. c[r].prev = b[r].prev /\ c[r].read = TRUE
  BY <1>2, <1>3
<1>6. c \in [Ptr -> Word]
  <2>1. DOMAIN c = Ptr /\ c = [p \in Ptr |-> c[p]]
    BY DEF c
  <2>2. \A p \in Ptr : c[p] \in Word
    BY <1>3, <1>4
  <2> QED BY <2>1, <2>2
<1>7. \A p \in Ptr : SameWord(b, c, p)
  BY <1>1, <1>3, <1>4 DEF SameWord
<1>8. ASSUME NEW p \in Ptr, p # r, Intact(b, p)
      PROVE  Intact(c, p) /\ End(c, p) = End(b, p)
  <2>1. \A q \in p .. End(b, p) - 1 : q \in Ptr /\ q # r
    <3> SUFFICES ASSUME NEW q \in p .. End(b, p) - 1 PROVE q \in Ptr /\ q # r
      OBVIOUS
    <3>1. q \in Ptr /\ p \in Nat /\ End(b, p) \in Nat
      BY <1>8, OwnWords, IntactEnd DEF Ptr
    <3>2. r > p => r >= End(b, p)
      BY <1>1, <1>8, NoneInside
    <3>3. q # r
      BY <1>8, <3>1, <3>2
    <3> QED BY <3>1, <3>3
  <2> QED BY <1>3, <1>6, <1>8, <2>1, IntactFrame
<1>9. ASSUME NEW p \in Ptr, p # r, Intact(c, p)
      PROVE  Intact(b, p)
  <2>1. \A q \in p .. End(c, p) - 1 : q \in Ptr /\ q # r
    <3> SUFFICES ASSUME NEW q \in p .. End(c, p) - 1 PROVE q \in Ptr /\ q # r
      OBVIOUS
    <3>0. q \in Ptr
      BY <1>6, <1>9, OwnWords
    <3>1. q \in Ptr /\ p \in Nat /\ End(c, p) \in Nat
      BY <1>6, <1>9, <3>0, IntactEnd DEF Ptr
    <3>2. r > p => r >= End(c, p)
      BY <1>4, <1>6, <1>9, NoneInside
    <3>3. q # r
      BY <1>9, <3>1, <3>2
    <3> QED BY <3>1, <3>3
  <2> QED BY <1>3, <1>6, <1>9, <2>1, IntactFrame
<1>10. ~Unread(c, r)
  BY <1>5 DEF Unread, prv_is_msg_read
<1>11. \A p \in Ptr : Unread(c, p) <=> Unread(b, p) /\ p # r
  BY <1>3, <1>8, <1>9, <1>10 DEF Unread, prv_is_msg_read
<1>12. End(c, r) = End(b, r)
  BY <1>4 DEF End
<1>13. \A p \in Ptr : Unread(b, p) => End(c, p) = End(b, p)
  BY <1>8, <1>12 DEF Unread
<1>14. Sent(b, c, r)
  BY <1>3, <1>4, <1>5, <1>6, <1>7, <1>11, <1>13 DEF Sent
<1> QED BY <1>14 DEF c

\* Where the read pointer goes when the first unread message is done.
LEMMA CompletePlaces ==
  ASSUME NEW b, NEW r, NEW w, NEW v, NEW ow, NEW n, Calm(b, r, w, v, ow, n), ow # <<>>,
         NEW c, Sent(b, c, r),
         ~(End(b, r) < Words /\ End(b, r) = w /\ b[w] = END_POINTER),
         NEW x, x = prv_get_next_message(b, r),
         NEW rest, rest = <<>> <=> (\A p \in Ptr : Unread(b, p) => p = r)
  PROVE  /\ Placed(c, x, w, rest)
         /\ \A p, q \in Ptr : Unread(c, p) /\ Unread(c, q) /\ Earlier(x, p, q) => Earlier(r, p, q)
         /\ \A s \in Ptr : Unread(c, s) /\ s # x => ~Follows(b, r, s)
         /\ rest # <<>> => ~Follows(b, r, w)
<1>1. /\ b \in [Ptr -> Word] /\ r \in Ptr /\ w \in Ptr
      /\ r \in Nat /\ w \in Nat /\ Words \in Nat /\ w < Words /\ r < Words /\ Words >= 1
  BY WordsAssumption DEF Calm, Types, Ptr
<1>2. /\ Unread(b, r) /\ Intact(b, r) /\ b[r].kind = "header"
      /\ End(b, r) \in Nat /\ End(b, r) >= r + 3 /\ End(b, r) <= Words
  BY <1>1, CalmHead, UnreadIs
<1>3. /\ c \in [Ptr -> Word]
      /\ \A p \in Ptr : p # r => c[p] = b[p]
      /\ c[r].kind = "header" /\ c[r].id = b[r].id /\ c[r].prev = b[r].prev
      /\ \A p \in Ptr : SameWord(b, c, p)
      /\ \A p \in Ptr : Unread(c, p) <=> Unread(b, p) /\ p # r
      /\ \A p \in Ptr : Unread(b, p) => End(c, p) = End(b, p)
  BY DEF Sent
<1>4. PICK e \in Nat : e = End(b, r) /\ e >= r + 3 /\ e <= Words
  BY <1>2
<1>5. x = IF e >= Words \/ b[e] = END_POINTER THEN 0 ELSE e
  BY <1>1, <1>2, <1>4, NextOfHeader
<1>6. \A p \in Ptr : b[p].kind = "header" /\ p > r => p >= e
  BY <1>1, <1>2, <1>4, NoneInside
<1>7. \A p \in Ptr : Unread(b, p) => b[p].kind = "header" /\ p \in Nat
  BY <1>1, UnreadIs
<1>0. \A p \in Ptr : p \in Nat /\ p < Words
  BY <1>1 DEF Ptr
<1>8. ASSUME NEW a \in Nat, NEW z \in Nat, z <= Words, Tiled(b, a, z) PROVE Tiled(c, a, z)
  <2>1. \A p \in a .. z - 1 : p \in Ptr
    BY <1>1, <1>8 DEF Ptr
  <2> QED BY <1>1, <1>3, <1>8, <2>1, TiledFrame
<1>9. ASSUME NEW a \in Nat, NEW z \in Nat, z <= Words, AllUnread(b, a, z), r < a \/ r >= z
      PROVE  AllUnread(c, a, z)
  <2>1. \A p \in a .. z - 1 : p \in Ptr /\ p # r
    BY <1>1, <1>9 DEF Ptr
  <2> QED BY <1>3, <1>9, <2>1 DEF AllUnread, prv_is_msg_read
<1>10. \A p \in Ptr : c[p] = END_POINTER <=> b[p] = END_POINTER
  BY <1>2, <1>3 DEF END_POINTER
<1>11. Tiled(c, 0, w)
  BY <1>1, <1>8 DEF Calm, Placed
<1>12. Follows(b, r, w) <=> e = w \/ (w = 0 /\ (e = Words \/ b[e] = END_POINTER))
  BY <1>4 DEF Follows
<1>13. \A s : Follows(b, r, s) <=> e = s \/ (s = 0 /\ (e = Words \/ b[e] = END_POINTER))
  BY <1>4 DEF Follows
<1>14. CASE Lower(b, r, w) /\ e < w
  <2>1. b[e].kind = "header" /\ e \in Ptr
    <3>1. Tiled(b, 0, w) /\ r \in 0 .. w - 1
      BY <1>1, <1>14 DEF Calm, Placed, Lower
    <3> QED BY <1>1, <1>2, <1>4, <1>14, <3>1, TiledHeader DEF Ptr
  <2>2. x = e
    BY <1>1, <1>5, <1>14, <2>1, EndIsNoHeader
  <2>3. \A p \in Ptr : Unread(c, p) => p >= e /\ p < w
    BY <1>1, <1>3, <1>4, <1>6, <1>7, <1>14 DEF Lower
  <2>4. Lower(c, e, w)
    <3>1. AllUnread(b, e, w)
      BY <1>1, <1>4, <1>14 DEF Lower, AllUnread
    <3>2. AllUnread(c, e, w)
      BY <1>1, <1>4, <1>9, <3>1
    <3>3. c[e].kind = "header"
      BY <1>3, <1>4, <2>1
    <3> QED BY <1>14, <2>3, <3>2, <3>3 DEF Lower
  <2>5. rest # <<>>
    <3>1. Unread(b, e)
      <4>1. Tiled(b, 0, w) /\ e \in 0 .. w - 1
        BY <1>1, <1>4, <1>14 DEF Calm, Placed
      <4>2. Intact(b, e)
        BY <1>1, <2>1, <4>1, TiledHeader
      <4>3. e \in r .. w - 1
        BY <1>1, <1>4, <1>14
      <4> QED BY <1>14, <2>1, <4>2, <4>3 DEF Lower, AllUnread, Unread
    <3> QED BY <1>1, <1>4, <2>1, <3>1
  <2>6. \A p, q \in Ptr : Unread(c, p) /\ Unread(c, q) /\ Earlier(x, p, q) => Earlier(r, p, q)
    BY <1>1, <1>3, <1>4, <1>7, <2>2, <2>3 DEF Earlier
  <2>7. b[e] # END_POINTER
    BY <2>1, EndIsNoHeader
  <2> QED BY <1>1, <1>4, <1>11, <1>13, <1>14, <2>2, <2>4, <2>5, <2>6, <2>7 DEF Placed
<1>15. CASE Lower(b, r, w) /\ e >= w
  <2>1. e = w
    <3>1. Tiled(b, 0, w) /\ r \in 0 .. w - 1
      BY <1>1, <1>15 DEF Calm, Placed, Lower
    <3> QED BY <1>1, <1>2, <1>4, <1>15, <3>1, TiledHeader
  <2>2. x = w /\ b[e] # END_POINTER
    BY <1>1, <1>4, <1>5, <2>1
  <2>3. \A p \in Ptr : ~Unread(c, p)
    BY <1>1, <1>3, <1>4, <1>6, <1>7, <1>15, <2>1 DEF Lower
  <2>4. rest = <<>>
    BY <1>3, <2>3
  <2> QED BY <1>1, <1>11, <2>2, <2>3, <2>4 DEF Placed
<1>16. ASSUME NEW t \in Nat, Wrapped(b, r, w, t), e < t
       PROVE  /\ Placed(c, x, w, rest)
              /\ \A p, q \in Ptr : Unread(c, p) /\ Unread(c, q) /\ Earlier(x, p, q) => Earlier(r, p, q)
              /\ \A s \in Ptr : Unread(c, s) /\ s # x => ~Follows(b, r, s)
              /\ rest # <<>> => ~Follows(b, r, w)
  <2>0. /\ w <= r /\ r < t /\ t <= Words /\ Tiled(b, r, t) /\ AllUnread(b, r, t)
        /\ AllUnread(b, 0, w) /\ NoEnd(b, w, r) /\ (w = 0 => Tiled(b, 0, r))
        /\ \A p \in Ptr : Unread(b, p) => p < w \/ (p >= r /\ p < t)
        /\ t < Words => b[t] = END_POINTER
    BY <1>16 DEF Wrapped
  <2>1. b[e].kind = "header" /\ e \in Ptr
    BY <1>1, <1>2, <1>4, <1>16, <2>0, TiledHeader DEF Ptr
  <2>2. x = e /\ b[e] # END_POINTER
    BY <1>1, <1>5, <1>16, <2>0, <2>1, EndIsNoHeader
  <2>3. \A p \in Ptr : Unread(c, p) => p < w \/ (p >= e /\ p < t)
    BY <1>1, <1>3, <1>4, <1>6, <1>7, <2>0
  <2>4. Tiled(b, e, t) /\ Tiled(b, r, e)
    <3>1. e \in r .. t - 1
      BY <1>1, <1>4, <1>16
    <3> QED BY <1>1, <2>0, <2>1, <3>1, TiledHeader, TiledPrefix
  <2>5. Wrapped(c, e, w, t)
    <3>1. AllUnread(b, e, t)
      BY <1>1, <1>4, <2>0 DEF AllUnread
    <3>2. AllUnread(c, e, t) /\ AllUnread(c, 0, w)
      BY <1>1, <1>4, <1>9, <2>0, <3>1
    <3>3. c[e].kind = "header"
      BY <1>3, <1>4, <2>1
    <3>4. NoEnd(c, w, e)
      <4> SUFFICES ASSUME NEW p \in w .. e - 1 PROVE c[p] # END_POINTER
        BY DEF NoEnd
      <4>1. p \in Ptr /\ (p \in w .. r - 1 \/ p \in r .. e - 1)
        BY <1>1, <1>4, <2>1 DEF Ptr
      <4>2. NoEnd(b, r, e)
        BY <1>1, <1>4, <2>4, TiledNoEnd
      <4> QED BY <1>10, <2>0, <4>1, <4>2 DEF NoEnd
    <3>5. w = 0 => Tiled(c, 0, e)
      <4>1. w = 0 => Tiled(b, 0, e)
        <5> SUFFICES ASSUME w = 0 PROVE Tiled(b, 0, e)
          OBVIOUS
        <5>1. r <= e /\ 0 <= r
          BY <1>1, <1>4
        <5> QED BY <1>1, <1>4, <2>0, <2>4, <5>1, TiledJoin
      <4> QED BY <1>4, <1>8, <4>1
    <3>6. Tiled(c, e, t) /\ (t < Words => c[t] = END_POINTER)
      <4>1. t < Words => t \in Ptr
        BY <1>1 DEF Ptr
      <4> QED BY <1>4, <1>8, <1>10, <2>0, <2>4, <4>1
    <3>7. w <= e /\ e < t /\ w # e
      BY <1>1, <1>4, <1>16, <2>0
    <3> QED BY <2>0, <2>3, <3>2, <3>3, <3>4, <3>5, <3>6, <3>7 DEF Wrapped
  <2>6. rest # <<>>
    <3>1. Unread(b, e)
      <4>1. e \in r .. t - 1
        BY <1>1, <1>4, <1>16
      <4> QED BY <1>1, <2>0, <2>1, <4>1, RegionUnread
    <3> QED BY <1>1, <1>4, <2>1, <3>1
  <2>7. \A p, q \in Ptr : Unread(c, p) /\ Unread(c, q) /\ Earlier(x, p, q) => Earlier(r, p, q)
    BY <1>1, <1>3, <1>4, <1>7, <2>0, <2>2, <2>3 DEF Earlier
  <2>8. e # w /\ e < Words
    BY <1>1, <1>4, <1>16, <2>0
  <2> QED BY <1>1, <1>11, <1>13, <2>2, <2>5, <2>6, <2>7, <2>8 DEF Placed
<1>17. ASSUME NEW t \in Nat, Wrapped(b, r, w, t), e >= t
       PROVE  /\ Placed(c, x, w, rest)
              /\ \A p, q \in Ptr : Unread(c, p) /\ Unread(c, q) /\ Earlier(x, p, q) => Earlier(r, p, q)
              /\ \A s \in Ptr : Unread(c, s) /\ s # x => ~Follows(b, r, s)
              /\ rest # <<>> => ~Follows(b, r, w)
  <2>0. /\ w <= r /\ r < t /\ t <= Words /\ Tiled(b, r, t) /\ AllUnread(b, 0, w)
        /\ \A p \in Ptr : Unread(b, p) => p < w \/ (p >= r /\ p < t)
        /\ t < Words => b[t] = END_POINTER
    BY <1>17 DEF Wrapped
  <2>1. e = t
    <3>1. r \in r .. t - 1
      BY <1>1, <2>0
    <3>2. e <= t
      BY <1>1, <1>2, <1>4, <2>0, <3>1, TiledHeader
    <3> QED BY <1>17, <3>2
  <2>2. x = 0
    BY <1>1, <1>5, <2>0, <2>1
  <2>3. \A p \in Ptr : Unread(c, p) => p < w
    BY <1>1, <1>3, <1>4, <1>6, <1>7, <2>0, <2>1
  <2>4. \A p, q \in Ptr : Unread(c, p) /\ Unread(c, q) /\ Earlier(x, p, q) => Earlier(r, p, q)
    BY <1>1, <1>7, <1>3, <2>0, <2>2, <2>3 DEF Earlier
  <2>5. \A s \in Ptr : Unread(c, s) /\ s # x => ~Follows(b, r, s)
    BY <1>1, <1>3, <1>4, <1>7, <1>13, <2>0, <2>2, <2>3
  <2>6. CASE w = 0
    <3>1. \A p \in Ptr : ~Unread(c, p)
      BY <1>3, <1>7, <2>3, <2>6
    <3>2. rest = <<>>
      BY <1>3, <3>1
    <3> QED BY <1>11, <2>2, <2>4, <2>5, <2>6, <3>2 DEF Placed
  <2>7. CASE w > 0
    <3>1. Tiled(b, 0, w) /\ 0 \in Ptr /\ 0 \in 0 .. w - 1
      BY <1>1, <2>7 DEF Calm, Placed, Ptr
    <3>2. b[0].kind = "header"
      BY <1>1, <2>7, <3>1, TiledStart
    <3>3. Unread(b, 0)
      BY <1>1, <2>0, <3>1, <3>2, RegionUnread
    <3>4. rest # <<>>
      BY <1>1, <2>0, <2>7, <3>1, <3>3
    <3>5. Lower(c, 0, w)
      <4>1. AllUnread(c, 0, w)
        BY <1>1, <1>9, <2>0
      <4>2. c[0].kind = "header"
        BY <1>3, <3>1, <3>2
      <4> QED BY <1>3, <1>7, <2>3, <2>7, <4>1, <4>2 DEF Lower
    <3>6. e # w
      BY <1>1, <1>4, <2>0
    <3> QED BY <1>1, <1>11, <1>12, <2>2, <2>4, <2>5, <2>7, <3>4, <3>5, <3>6 DEF Placed
  <2> QED BY <1>1, <2>6, <2>7
<1>18. Lower(b, r, w) \/ \E t \in Nat : Wrapped(b, r, w, t)
  BY DEF Calm, Placed
<1>19. CASE Lower(b, r, w)
  BY <1>1, <1>4, <1>14, <1>15, <1>19
<1>20. ASSUME NEW t \in Nat, Wrapped(b, r, w, t)
       PROVE  /\ Placed(c, x, w, rest)
              /\ \A p, q \in Ptr : Unread(c, p) /\ Unread(c, q) /\ Earlier(x, p, q) => Earlier(r, p, q)
              /\ \A s \in Ptr : Unread(c, s) /\ s # x => ~Follows(b, r, s)
              /\ rest # <<>> => ~Follows(b, r, w)
  <2>1. e < t \/ e >= t
    BY <1>4
  <2> QED BY <1>16, <1>17, <1>20, <2>1
<1> QED BY <1>18, <1>19, <1>20

\* Completing a read keeps the queue in order.
LEMMA CalmComplete ==
  ASSUME NEW b, NEW r, NEW w, NEW v, NEW ow, NEW n, Calm(b, r, w, v, ow, n), ow # <<>>,
         NEW c, Sent(b, c, r),
         ~(End(b, r) < Words /\ End(b, r) = w /\ b[w] = END_POINTER)
  PROVE  Calm(c, prv_get_next_message(b, r), w, v, Tail(ow), n)
<1> DEFINE x == prv_get_next_message(b, r)
           rest == Tail(ow)
<1>1. /\ b \in [Ptr -> Word] /\ r \in Ptr /\ w \in Ptr /\ v \in Ptr /\ ow \in Seq(Nat)
      /\ n \in Nat
  BY DEF Calm, Types
<1>2. /\ Len(ow) \in Nat /\ Len(ow) >= 1
      /\ Unread(b, r) /\ b[r].id = ow[1] /\ b[r].kind = "header"
  BY <1>1, CalmHead, UnreadIs
<1>3. /\ c \in [Ptr -> Word]
      /\ \A p \in Ptr : p # r => c[p] = b[p]
      /\ c[r].kind = "header" /\ c[r].id = b[r].id /\ c[r].prev = b[r].prev
      /\ \A p \in Ptr : Unread(c, p) <=> Unread(b, p) /\ p # r
      /\ \A p \in Ptr : Unread(b, p) => End(c, p) = End(b, p)
  BY DEF Sent
<1>4. /\ rest \in Seq(Nat) /\ Len(rest) = Len(ow) - 1
      /\ \A i \in 1 .. Len(rest) : rest[i] = ow[i + 1]
      /\ rest = <<>> <=> Len(rest) = 0
  <2>1. rest \in Seq(Nat) /\ Len(rest) = Len(ow) - 1
    BY <1>1, <1>2
  <2>2. \A i \in 1 .. Len(rest) : rest[i] = ow[i + 1]
    BY <1>1, <1>2
  <2> HIDE DEF rest
  <2>3. rest = <<>> <=> Len(rest) = 0
    BY <2>1, EmptySeq
  <2> QED BY <2>1, <2>2, <2>3
<1>5. x \in Ptr
  BY <1>1, NextMessage
<1> HIDE DEF rest, x
<1>6. \A p \in Ptr : Unread(b, p) => b[p].kind = "header" /\ b[p].id \in Nat /\ b[p].prev \in Ptr
  BY <1>1, UnreadIs
<1>7. Listed(c, rest)
  <2>1. \A i, j \in 1 .. Len(rest) : i < j => rest[i] < rest[j]
    <3> SUFFICES ASSUME NEW i \in 1 .. Len(rest), NEW j \in 1 .. Len(rest), i < j
                 PROVE  rest[i] < rest[j]
      OBVIOUS
    <3>1. i + 1 \in 1 .. Len(ow) /\ j + 1 \in 1 .. Len(ow) /\ i + 1 < j + 1
      BY <1>2, <1>4
    <3> QED BY <1>4, <3>1 DEF Calm, Listed
  <2>2. ASSUME NEW p \in Ptr, Unread(c, p) PROVE Lists(rest, c[p].id)
    <3>1. Unread(b, p) /\ p # r /\ c[p] = b[p]
      BY <1>3, <2>2
    <3>2. PICK i \in 1 .. Len(ow) : ow[i] = b[p].id
      BY <3>1 DEF Calm, Listed, Lists
    <3>3. i # 1
      BY <1>1, <1>2, <1>6, <3>1, <3>2 DEF Calm, Numbered
    <3>4. i - 1 \in 1 .. Len(rest) /\ (i - 1) + 1 = i
      BY <1>2, <1>4, <3>3
    <3> QED BY <1>4, <3>1, <3>2, <3>4 DEF Lists
  <2>3. ASSUME NEW i \in 1 .. Len(rest) PROVE \E p \in Ptr : Unread(c, p) /\ c[p].id = rest[i]
    <3>1. i + 1 \in 1 .. Len(ow) /\ 1 \in 1 .. Len(ow) /\ 1 < i + 1
      BY <1>2, <1>4
    <3>2. PICK p \in Ptr : Unread(b, p) /\ b[p].id = ow[i + 1]
      BY <3>1 DEF Calm, Listed
    <3>3. ow[1] < ow[i + 1]
      BY <3>1 DEF Calm, Listed
    <3>4. p # r
      BY <1>1, <1>2, <1>6, <3>2, <3>3
    <3> QED BY <1>3, <1>4, <3>2, <3>4
  <2> QED BY <2>1, <2>2, <2>3 DEF Listed
<1>8. rest = <<>> <=> (\A p \in Ptr : Unread(b, p) => p = r)
  <2>1. ASSUME NEW p \in Ptr, Unread(b, p), p # r PROVE rest # <<>>
    <3>1. PICK i \in 1 .. Len(rest) : rest[i] = c[p].id
      BY <1>3, <1>7, <2>1 DEF Listed, Lists
    <3> QED BY <1>4, <3>1
  <2>2. ASSUME rest # <<>> PROVE \E p \in Ptr : Unread(b, p) /\ p # r
    <3>1. 1 \in 1 .. Len(rest)
      BY <1>2, <1>4, <2>2
    <3>2. PICK p \in Ptr : Unread(c, p)
      BY <1>7, <3>1 DEF Listed
    <3> QED BY <1>3, <3>2
  <2> QED BY <2>1, <2>2
<1>9. /\ Placed(c, x, w, rest)
      /\ \A p, q \in Ptr : Unread(c, p) /\ Unread(c, q) /\ Earlier(x, p, q) => Earlier(r, p, q)
      /\ \A s \in Ptr : Unread(c, s) /\ s # x => ~Follows(b, r, s)
      /\ rest # <<>> => ~Follows(b, r, w)
  BY <1>8, CompletePlaces DEF x
<1>10. Numbered(c, n)
  <2>1. \A p \in Ptr : /\ c[p].kind = b[p].kind
                       /\ b[p].kind \in {"header", "body"} => c[p].id = b[p].id
    BY <1>2, <1>3
  <2> QED BY <2>1 DEF Calm, Numbered
<1>11. Backwards(c, w, v)
  <2>1. \A p \in Ptr : /\ c[p].kind = b[p].kind
                       /\ b[p].kind = "header" => c[p].prev = b[p].prev
    BY <1>2, <1>3
  <2> QED BY <2>1 DEF Calm, Backwards
<1>12. InOrder(c, x)
  <2> SUFFICES ASSUME NEW p \in Ptr, NEW q \in Ptr, Unread(c, p), Unread(c, q), Earlier(x, p, q)
               PROVE  c[p].id < c[q].id
    BY DEF InOrder
  <2>1. Earlier(r, p, q) /\ Unread(b, p) /\ Unread(b, q) /\ c[p] = b[p] /\ c[q] = b[q]
    BY <1>3, <1>9
  <2> QED BY <2>1 DEF Calm, InOrder
<1>13. ASSUME NEW p \in Ptr, NEW s, Unread(b, p), Follows(b, p, s)
       PROVE  Follows(c, p, s)
  <2>1. End(c, p) = End(b, p)
    BY <1>3, <1>13
  <2>2. End(b, p) \in Nat /\ End(b, p) <= Words
    BY <1>1, <1>13, UnreadIs
  <2>3. \A q \in Ptr : b[q] = END_POINTER => c[q] = END_POINTER
    BY <1>2, <1>3 DEF END_POINTER
  <2>4. End(b, p) = Words \/ End(b, p) \in Ptr
    BY <2>2, WordsAssumption DEF Ptr
  <2> QED BY <1>13, <2>1, <2>3, <2>4 DEF Follows
<1>14. Linked(c, x, w, v, rest)
  <2>1. ASSUME NEW s \in Ptr, Unread(c, s), s # x
        PROVE  Unread(c, c[s].prev) /\ Follows(c, c[s].prev, s)
    <3>1. Unread(b, s) /\ s # r /\ c[s] = b[s] /\ b[s].prev \in Ptr
      BY <1>3, <1>6, <2>1
    <3>2. Unread(b, b[s].prev) /\ Follows(b, b[s].prev, s)
      BY <3>1 DEF Calm, Linked
    <3>3. b[s].prev # r
      BY <1>9, <2>1, <3>2
    <3> QED BY <1>3, <1>13, <3>1, <3>2, <3>3
  <2>2. rest # <<>> => Unread(c, v) /\ Follows(c, v, w)
    <3>1. Unread(b, v) /\ Follows(b, v, w)
      BY DEF Calm, Linked
    <3> QED BY <1>1, <1>3, <1>9, <1>13, <3>1
  <2> QED BY <2>1, <2>2 DEF Linked
<1> QED BY <1>1, <1>3, <1>4, <1>5, <1>7, <1>9, <1>10, <1>11, <1>12, <1>14 DEF Calm, Types, rest, x

-----------------------------------------------------------------------------
(* Writing *)

\* c is b with message n + 1 of m words stored at the position at, after the
\* end marker at w if that is not where the write pointer was.
Stored(b, c, w, at, m, v, n) ==
  /\ c \in [Ptr -> Word]
  /\ at \in Ptr /\ m \in Nat /\ m >= 3 /\ at + m <= Words /\ (at = w \/ at = 0)
  /\ \A p \in Ptr : (p < at \/ p >= at + m) /\ (at = w \/ p # w) => c[p] = b[p]
  /\ at # w /\ w >= at + m => c[w] = END_POINTER
  /\ c[at].kind = "header" /\ c[at].id = n + 1 /\ c[at].prev = v
  /\ Unread(c, at) /\ End(c, at) = at + m
  /\ \A p \in Ptr : p >= at /\ p < at + m =>
       c[p].kind \in {"header", "body"} /\ c[p].id = n + 1 /\ (p # at => c[p].kind = "body")

\* The words that are written hold no unread message.
Free(b, w, at, m) ==
  \A s \in Ptr : Unread(b, s) => /\ End(b, s) <= at \/ s >= at + m
                                 /\ at # w => w < s \/ w >= End(b, s)

\* The write adds one unread message and leaves the others alone.
LEMMA StoredUnread ==
  ASSUME NEW b \in [Ptr -> Word], NEW c, NEW w \in Ptr, NEW at, NEW m, NEW v, NEW n \in Nat,
         Numbered(b, n), Stored(b, c, w, at, m, v, n), Free(b, w, at, m)
  PROVE  /\ \A s \in Ptr : Unread(c, s) <=> s = at \/ Unread(b, s)
         /\ \A s \in Ptr : Unread(b, s) => c[s] = b[s] /\ End(c, s) = End(b, s) /\ s # at
<1>1. /\ c \in [Ptr -> Word]
      /\ at \in Ptr /\ m \in Nat /\ m >= 3 /\ at + m <= Words /\ (at = w \/ at = 0)
      /\ \A p \in Ptr : (p < at \/ p >= at + m) /\ (at = w \/ p # w) => c[p] = b[p]
      /\ at # w /\ w >= at + m => c[w] = END_POINTER
      /\ Unread(c, at) /\ End(c, at) = at + m
      /\ \A p \in Ptr : p >= at /\ p < at + m =>
           c[p].kind \in {"header", "body"} /\ c[p].id = n + 1 /\ (p # at => c[p].kind = "body")
  BY DEF Stored
<1>2. w \in Nat /\ at \in Nat /\ Words \in Nat
  BY <1>1, WordsAssumption DEF Ptr
<1>0. (\A p \in Ptr : p \in Nat) /\ \A p \in Nat : p < Words => p \in Ptr
  BY <1>2 DEF Ptr
<1>3. ASSUME NEW s \in Ptr, Unread(b, s)
      PROVE  Intact(c, s) /\ c[s] = b[s] /\ End(c, s) = End(b, s) /\ s # at
  <2>1. /\ Intact(b, s) /\ s \in Nat /\ End(b, s) \in Nat /\ End(b, s) >= s + 3 /\ End(b, s) <= Words
    BY <1>3, UnreadIs
  <2>2. /\ End(b, s) <= at \/ s >= at + m
        /\ at # w => w < s \/ w >= End(b, s)
    BY <1>3 DEF Free
  <2>3. ASSUME NEW p \in s .. End(b, s) - 1 PROVE c[p] = b[p]
    <3>0. p \in Nat /\ p < Words
      BY <1>2, <2>1
    <3>1. p \in Ptr /\ (p < at \/ p >= at + m) /\ (at = w \/ p # w)
      BY <1>0, <1>1, <1>2, <2>1, <2>2, <3>0
    <3> QED BY <1>1, <3>1
  <2>4. s # at
    BY <1>1, <1>2, <2>1, <2>2
  <2> QED BY <1>1, <2>1, <2>3, <2>4, IntactFrame
<1>4. ASSUME NEW s \in Ptr, Intact(c, s), s # at
      PROVE  Intact(b, s) /\ b[s] = c[s]
  <2>1. s \in Nat /\ End(c, s) \in Nat /\ End(c, s) >= s + 3 /\ c[s].kind = "header"
    BY <1>0, <1>1, <1>4, IntactEnd
  <2>2. ~(s >= at /\ s < at + m)
    BY <1>1, <1>4, <2>1
  <2>3. at # w => ~(s = w)
    BY <1>1, <1>2, <2>1, <2>2, EndIsNoHeader
  <2>4. c[s] = b[s]
    BY <1>1, <1>2, <2>1, <2>2, <2>3
  <2>5. c[s].id <= n /\ c[s].id \in Nat
    <3>1. b[s].id <= n
      BY <2>1, <2>4 DEF Numbered
    <3>2. c[s].id \in 1 .. MaxWrites
      BY <1>1, <2>1, HeaderFields
    <3> QED BY <2>4, <3>1, <3>2, BoundsAssumption
  <2>6. ASSUME NEW p \in s .. End(c, s) - 1 PROVE b[p] = c[p]
    <3>1. p \in Ptr /\ c[p].kind \in {"header", "body"} /\ c[p].id = c[s].id
      BY <1>1, <1>4, OwnWords
    <3>2. ~(p >= at /\ p < at + m)
      BY <1>1, <2>5, <3>1
    <3>3. at # w => p # w
      BY <1>1, <1>2, <3>1, <3>2 DEF END_POINTER
    <3>4. p < at \/ p >= at + m
      BY <1>1, <1>2, <3>1, <3>2 DEF Ptr
    <3> QED BY <1>1, <3>1, <3>3, <3>4
  <2> QED BY <1>1, <1>4, <2>6, IntactFrame
<1>5. \A s \in Ptr : Unread(c, s) <=> s = at \/ Unread(b, s)
  BY <1>1, <1>3, <1>4 DEF Unread, prv_is_msg_read
<1> QED BY <1>3, <1>5

\* Unread regions that meet make one.
LEMMA UnreadJoin ==
  ASSUME NEW b, NEW a \in Nat, NEW m \in Nat, NEW e \in Nat,
         AllUnread(b, a, m), AllUnread(b, m, e)
  PROVE  AllUnread(b, a, e)
BY DEF AllUnread

\* A message fills its own words.
LEMMA MessageTiled ==
  ASSUME NEW b \in [Ptr -> Word], NEW s \in Ptr, Intact(b, s)
  PROVE  Tiled(b, s, End(b, s))
<1>1. s \in Nat /\ End(b, s) \in Nat
  BY IntactEnd DEF Ptr
<1>2. ASSUME NEW p \in s .. End(b, s) - 1
      PROVE  \E q \in s .. p : Intact(b, q) /\ p < End(b, q) /\ End(b, q) <= End(b, s)
  <2>1. s \in s .. p /\ p < End(b, s) /\ End(b, s) <= End(b, s)
    BY <1>1
  <2> QED BY <2>1
<1> QED BY <1>2 DEF Tiled, End

\* What holds of the words from a up to z in b holds in c.
Kept(b, c, a, z) ==
  /\ Tiled(b, a, z) => Tiled(c, a, z)
  /\ AllUnread(b, a, z) => AllUnread(c, a, z)
  /\ NoEnd(b, a, z) => NoEnd(c, a, z)

\* Words that are the same keep what holds of them.
LEMMA SameKeeps ==
  ASSUME NEW b \in [Ptr -> Word], NEW c \in [Ptr -> Word], NEW a \in Nat, NEW z \in Nat,
         z <= Words, \A p \in Ptr : p >= a /\ p < z => c[p] = b[p]
  PROVE  Kept(b, c, a, z)
<1>1. ASSUME NEW p \in a .. z - 1 PROVE p \in Ptr /\ c[p] = b[p]
  <2>1. p \in Ptr /\ p >= a /\ p < z
    BY WordsAssumption DEF Ptr
  <2> QED BY <2>1
<1>2. \A p \in a .. z - 1 : SameWord(b, c, p)
  BY <1>1 DEF SameWord
<1>3. Tiled(b, a, z) => Tiled(c, a, z)
  BY <1>2, TiledFrame
<1>4. AllUnread(b, a, z) => AllUnread(c, a, z)
  BY <1>1 DEF AllUnread, prv_is_msg_read
<1>5. NoEnd(b, a, z) => NoEnd(c, a, z)
  BY <1>1 DEF NoEnd
<1> QED BY <1>3, <1>4, <1>5 DEF Kept

\* What the write stores,
LEMMA StoredIs ==
  ASSUME NEW b \in [Ptr -> Word], NEW c, NEW w \in Ptr, NEW at, NEW m, NEW v, NEW n \in Nat,
         Stored(b, c, w, at, m, v, n)
  PROVE  Tiled(c, at, at + m) /\ AllUnread(c, at, at + m)
<1>1. /\ c \in [Ptr -> Word]
      /\ at \in Ptr /\ m \in Nat /\ m >= 3 /\ at + m <= Words
      /\ \A p \in Ptr : (p < at \/ p >= at + m) /\ (at = w \/ p # w) => c[p] = b[p]
      /\ Unread(c, at) /\ End(c, at) = at + m
      /\ \A p \in Ptr : p >= at /\ p < at + m =>
           c[p].kind \in {"header", "body"} /\ c[p].id = n + 1 /\ (p # at => c[p].kind = "body")
  BY DEF Stored
<1>2. w \in Nat /\ at \in Nat /\ Words \in Nat
  BY <1>1, WordsAssumption DEF Ptr
<1>3. (\A p \in Ptr : p \in Nat) /\ \A p \in Nat : p < Words => p \in Ptr
  BY <1>2 DEF Ptr
<1>4. Tiled(c, at, at + m)
  <2>1. Intact(c, at)
    BY <1>1 DEF Unread
  <2> QED BY <1>1, <2>1, MessageTiled
<1>5. AllUnread(c, at, at + m)
  <2> DEFINE e == at + m
  <2>1. e \in Nat /\ e <= Words
    BY <1>1, <1>2
  <2>2. \A p \in Ptr : p >= at /\ p < e /\ c[p].kind = "header" => p = at
    BY <1>1
  <2> HIDE DEF e
  <2>3. \A p \in at .. e - 1 : p \in Ptr /\ p >= at /\ p < e
    BY <1>2, <1>3, <2>1
  <2>4. ~prv_is_msg_read(c, at)
    BY <1>1 DEF Unread
  <2>5. AllUnread(c, at, e)
    BY <2>2, <2>3, <2>4 DEF AllUnread
  <2> QED BY <2>5 DEF e
<1> QED BY <1>4, <1>5

\* and what it leaves alone.
LEMMA StoredKeeps ==
  ASSUME NEW b \in [Ptr -> Word], NEW c, NEW w \in Ptr, NEW at, NEW m, NEW v, NEW n \in Nat,
         Stored(b, c, w, at, m, v, n), NEW a \in Nat, NEW z \in Nat,
         z <= Words, z <= at \/ a >= at + m, at = w \/ w < a \/ w >= z
  PROVE  Kept(b, c, a, z)
<1>1. /\ c \in [Ptr -> Word]
      /\ at \in Ptr /\ m \in Nat /\ at + m <= Words
      /\ \A p \in Ptr : (p < at \/ p >= at + m) /\ (at = w \/ p # w) => c[p] = b[p]
  BY DEF Stored
<1>2. w \in Nat /\ at \in Nat /\ Words \in Nat
  BY <1>1, WordsAssumption DEF Ptr
<1>3. \A p \in Ptr : p \in Nat
  BY DEF Ptr
<1>4. \A p \in Ptr : p >= a /\ p < z => c[p] = b[p]
  <2> SUFFICES ASSUME NEW p \in Ptr, p >= a, p < z PROVE c[p] = b[p]
    OBVIOUS
  <2>1. (p < at \/ p >= at + m) /\ (at = w \/ p # w)
    BY <1>1, <1>2, <1>3
  <2> QED BY <1>1, <2>1
<1> QED BY <1>1, <1>4, SameKeeps

\* In c the message at the position at comes after the unread messages of b,
\* with the read pointer x and the write pointer y.
ComesLast(b, c, r, v, ow, at, x, y) ==
  /\ Tiled(c, 0, y)
  /\ Lower(c, x, y) \/ \E t \in Nat : Wrapped(c, x, y, t)
  /\ \A p \in Ptr : Unread(b, p) => Earlier(x, p, at) /\ ~Earlier(x, at, p)
  /\ \A p, s \in Ptr :
       Unread(b, p) /\ Unread(b, s) /\ s # r /\ Follows(b, p, s) => Follows(c, p, s)
  /\ ow # <<>> => Follows(c, v, at)

\* It does if there are none.
LEMMA WriteFirst ==
  ASSUME NEW b \in [Ptr -> Word], NEW c, NEW w \in Ptr, NEW at, NEW m, NEW v, NEW n \in Nat,
         Stored(b, c, w, at, m, v, n), Tiled(b, 0, w), \A p \in Ptr : ~Unread(b, p),
         \A p \in Ptr : Unread(c, p) => p = at,
         NEW y, y = (IF at + m = Words THEN 0 ELSE at + m),
         at = y => prv_is_msg_in_bounds(c, at)
  PROVE  ComesLast(b, c, w, v, <<>>, at, at, y)
<1>1. /\ c \in [Ptr -> Word]
      /\ at \in Ptr /\ m \in Nat /\ m >= 3 /\ at + m <= Words /\ (at = w \/ at = 0)
      /\ c[at].kind = "header"
  BY DEF Stored
<1>2. w \in Nat /\ at \in Nat /\ Words \in Nat /\ w < Words
  BY <1>1, WordsAssumption DEF Ptr
<1>3. PICK e \in Nat : e = at + m /\ e <= Words /\ e > at
  BY <1>1, <1>2
<1>4. Tiled(c, at, e) /\ AllUnread(c, at, e)
  BY <1>3, StoredIs
<1>5. Tiled(c, 0, at)
  <2>1. CASE at = w
    <3>1. 0 \in Nat /\ w <= Words /\ w <= at
      BY <1>2, <2>1
    <3>2. Kept(b, c, 0, w)
      BY <1>2, <2>1, <3>1, StoredKeeps
    <3>3. Tiled(c, 0, w)
      BY <3>2 DEF Kept
    <3> QED BY <2>1, <3>3
  <2>2. CASE at = 0
    <3>1. Tiled(c, 0, 0)
      BY DEF Tiled
    <3> QED BY <2>2, <3>1
  <2> QED BY <1>1, <2>1, <2>2
<1>6. Tiled(c, 0, e)
  BY <1>1, <1>2, <1>3, <1>4, <1>5, TiledJoin
<1>7. CASE e < Words
  <2>1. y = e
    BY <1>2, <1>3, <1>7
  <2>2. Lower(c, at, e)
    BY <1>1, <1>2, <1>3, <1>4 DEF Lower
  <2> QED BY <1>6, <2>1, <2>2 DEF ComesLast
<1>8. CASE e = Words
  <2>1. y = 0
    BY <1>3, <1>8
  <2>2. NoEnd(c, 0, at)
    BY <1>1, <1>2, <1>5, TiledNoEnd
  <2>3. AllUnread(c, 0, 0) /\ Tiled(c, 0, 0)
    BY DEF AllUnread, Tiled
  <2>4. \A p \in Ptr : Unread(c, p) => p < 0 \/ (p >= at /\ p < Words)
    BY <1>2, <1>3
  <2>5. Wrapped(c, at, 0, Words)
    BY <1>1, <1>2, <1>3, <1>4, <1>5, <1>8, <2>1, <2>2, <2>3, <2>4 DEF Wrapped
  <2> QED BY <1>2, <2>1, <2>3, <2>5 DEF ComesLast
<1> QED BY <1>2, <1>3, <1>7, <1>8

\* What is known of the write if there are unread messages.
Writing(b, c, r, w, v, ow, n, at, m, y) ==
  /\ b \in [Ptr -> Word] /\ r \in Ptr /\ w \in Ptr /\ v \in Ptr /\ n \in Nat
  /\ ow # <<>>
  /\ Stored(b, c, w, at, m, v, n) /\ Free(b, w, at, m) /\ Tiled(b, 0, w)
  /\ \A p \in Ptr : Unread(c, p) <=> p = at \/ Unread(b, p)
  /\ \A p \in Ptr : Unread(b, p) => End(c, p) = End(b, p)
  /\ Unread(b, r) /\ Unread(b, v) /\ Follows(b, v, w)
  /\ y = (IF at + m = Words THEN 0 ELSE at + m)
  /\ r = y => prv_is_msg_in_bounds(c, r)

\* It does if they lie below the write pointer, whether the write wraps around
LEMMA WriteLower ==
  ASSUME NEW b, NEW c, NEW r, NEW w, NEW v, NEW ow, NEW n, NEW at, NEW m, NEW y,
         Writing(b, c, r, w, v, ow, n, at, m, y), Lower(b, r, w)
  PROVE  ComesLast(b, c, r, v, ow, at, r, y) /\ ~(r > at /\ r < at + m)
<1>0. /\ b \in [Ptr -> Word] /\ r \in Ptr /\ w \in Ptr /\ v \in Ptr /\ n \in Nat
      /\ Stored(b, c, w, at, m, v, n) /\ Free(b, w, at, m) /\ Tiled(b, 0, w)
      /\ \A p \in Ptr : Unread(c, p) <=> p = at \/ Unread(b, p)
      /\ \A p \in Ptr : Unread(b, p) => End(c, p) = End(b, p)
      /\ Unread(b, r) /\ Unread(b, v) /\ Follows(b, v, w)
      /\ y = (IF at + m = Words THEN 0 ELSE at + m)
      /\ r = y => prv_is_msg_in_bounds(c, r)
  BY DEF Writing
<1> USE <1>0
<1>1. /\ c \in [Ptr -> Word]
      /\ at \in Ptr /\ m \in Nat /\ m >= 3 /\ at + m <= Words /\ (at = w \/ at = 0)
      /\ c[at].kind = "header"
      /\ at # w /\ w >= at + m => c[w] = END_POINTER
  BY DEF Stored
<1>2. /\ w \in Nat /\ at \in Nat /\ r \in Nat /\ Words \in Nat /\ w < Words
      /\ \A p \in Ptr : p \in Nat
  BY <1>1, WordsAssumption DEF Ptr
<1>3. PICK e \in Nat : e = at + m /\ e <= Words /\ e > at
  BY <1>1, <1>2
<1>4. Tiled(c, at, e) /\ AllUnread(c, at, e)
  BY <1>3, StoredIs
<1>5. /\ r < w /\ b[r].kind = "header" /\ AllUnread(b, r, w)
      /\ \A p \in Ptr : Unread(b, p) => p >= r /\ p < w
  BY DEF Lower
<1>6. r \in 0 .. w - 1
  BY <1>2, <1>5
<1>7. Tiled(b, r, w) /\ Tiled(b, 0, r) /\ NoEnd(b, 0, w)
  BY <1>2, <1>5, <1>6, TiledHeader, TiledPrefix, TiledNoEnd
<1>8. ASSUME NEW p \in Ptr, Unread(b, p), NEW s \in Nat, s # 0, Follows(b, p, s)
      PROVE  Follows(c, p, s) /\ End(b, p) = s
  BY <1>8 DEF Follows
<1>9. \A p, s \in Ptr :
        Unread(b, p) /\ Unread(b, s) /\ s # r /\ Follows(b, p, s) => Follows(c, p, s)
  BY <1>2, <1>5, <1>8
<1>10. Follows(c, v, w) /\ End(b, v) = w /\ End(c, v) = w
  BY <1>2, <1>5, <1>8
<1>11. Unread(c, r) /\ c[r].kind = "header"
  <2>1. Unread(c, r)
    OBVIOUS
  <2> QED BY <1>1, <2>1, UnreadIs
<1>12. CASE at = w
  <2>1. Tiled(c, 0, w) /\ Tiled(c, r, w) /\ Tiled(c, 0, r) /\ AllUnread(c, r, w)
    <3>1. 0 \in Nat /\ w <= Words /\ w <= at /\ r <= Words /\ r <= at
      BY <1>2, <1>5, <1>12
    <3>2. Kept(b, c, 0, w)
      BY <1>2, <1>12, <3>1, StoredKeeps
    <3>3. Kept(b, c, r, w)
      BY <1>2, <1>12, <3>1, StoredKeeps
    <3>4. Kept(b, c, 0, r)
      BY <1>2, <1>12, <3>1, StoredKeeps
    <3> QED BY <1>5, <1>7, <3>2, <3>3, <3>4 DEF Kept
  <2>2. Tiled(c, 0, e) /\ Tiled(c, r, e) /\ AllUnread(c, r, e)
    BY <1>1, <1>2, <1>3, <1>4, <1>5, <1>12, <2>1, TiledJoin, UnreadJoin
  <2>3. \A p \in Ptr : Unread(c, p) => p >= r /\ p < e
    BY <1>2, <1>3, <1>5, <1>12
  <2>4. \A p \in Ptr : Unread(b, p) => Earlier(r, p, at) /\ ~Earlier(r, at, p)
    BY <1>2, <1>5, <1>12 DEF Earlier
  <2>5. CASE e < Words
    <3>1. y = e
      BY <1>2, <1>3, <2>5
    <3>2. Lower(c, r, e)
      BY <1>2, <1>3, <1>5, <1>11, <1>12, <2>2, <2>3 DEF Lower
    <3> QED BY <1>2, <1>5, <1>9, <1>10, <1>12, <2>2, <2>4, <3>1, <3>2 DEF ComesLast
  <2>6. CASE e = Words
    <3>1. y = 0
      BY <1>3, <2>6
    <3>2. NoEnd(c, 0, r)
      BY <1>1, <1>2, <1>5, <2>1, TiledNoEnd
    <3>3. AllUnread(c, 0, 0) /\ Tiled(c, 0, 0)
      BY DEF AllUnread, Tiled
    <3>4. \A p \in Ptr : Unread(c, p) => p < 0 \/ (p >= r /\ p < Words)
      BY <2>3, <2>6
    <3>5. Wrapped(c, r, 0, Words)
      BY <1>1, <1>2, <1>3, <1>5, <1>11, <2>1, <2>2, <2>6, <3>1, <3>2, <3>3, <3>4 DEF Wrapped
    <3> QED BY <1>2, <1>5, <1>9, <1>10, <1>12, <2>4, <3>1, <3>3, <3>5 DEF ComesLast
  <2> QED BY <1>2, <1>3, <2>5, <2>6
<1>13. CASE at # w
  <2>1. at = 0 /\ e <= r
    <3>1. End(b, r) \in Nat /\ End(b, r) >= r + 3
      BY UnreadIs
    <3>2. End(b, r) <= at \/ r >= at + m
      BY DEF Free
    <3> QED BY <1>1, <1>2, <1>3, <1>13, <3>1, <3>2
  <2>2. y = e /\ c[w] = END_POINTER
    BY <1>1, <1>2, <1>3, <1>5, <1>13, <2>1
  <2>3. Tiled(c, r, w) /\ AllUnread(c, r, w)
    <3>1. r >= at + m /\ w <= Words /\ w >= w
      BY <1>2, <1>3, <2>1
    <3>2. Kept(b, c, r, w)
      BY <1>2, <3>1, StoredKeeps
    <3> QED BY <1>5, <1>7, <3>2 DEF Kept
  <2>4. NoEnd(c, e, r)
    <3>1. NoEnd(b, e, r)
      BY <1>2, <1>3, <1>5, <1>7 DEF NoEnd
    <3>2. r <= Words /\ e >= at + m /\ w >= r
      BY <1>2, <1>3, <1>5
    <3>3. Kept(b, c, e, r)
      BY <1>2, <3>2, StoredKeeps
    <3> QED BY <3>1, <3>3 DEF Kept
  <2>5. \A p \in Ptr : Unread(c, p) => p < e \/ (p >= r /\ p < w)
    BY <1>2, <1>3, <1>5
  <2>6. Wrapped(c, r, e, w)
    BY <1>1, <1>2, <1>3, <1>4, <1>5, <1>11, <2>1, <2>2, <2>3, <2>4, <2>5 DEF Wrapped
  <2>7. \A p \in Ptr : Unread(b, p) => Earlier(r, p, at) /\ ~Earlier(r, at, p)
    BY <1>2, <1>3, <1>5, <2>1 DEF Earlier
  <2>8. Follows(c, v, at)
    BY <1>10, <2>1, <2>2 DEF Follows
  <2> QED BY <1>2, <1>3, <1>4, <1>9, <2>1, <2>2, <2>6, <2>7, <2>8 DEF ComesLast
<1> QED BY <1>12, <1>13

\* The number of a message is a natural number.
LEMMA WordId ==
  ASSUME NEW b \in [Ptr -> Word], NEW p \in Ptr, b[p].kind \in {"header", "body"}
  PROVE  b[p].id \in Nat
<1>1. b[p] \in Word
  OBVIOUS
<1>2. \/ b[p] \in [kind : {"header"}, id : 1 .. MaxWrites, bytes : PayloadBytes,
                   prev : Ptr, read : BOOLEAN]
      \/ b[p] \in [kind : {"body"}, id : 1 .. MaxWrites, offset : 1 .. Words]
  BY <1>1 DEF Word, Zero, END_POINTER
<1>3. b[p].id \in 1 .. MaxWrites
  BY <1>2
<1> QED BY <1>3, BoundsAssumption

\* or not, and also if they lie on both sides of the wrap.
LEMMA WriteUpper ==
  ASSUME NEW b, NEW c, NEW r, NEW w, NEW v, NEW ow, NEW n, NEW at, NEW m, NEW y,
         Writing(b, c, r, w, v, ow, n, at, m, y), \E t \in Nat : Wrapped(b, r, w, t)
  PROVE  ComesLast(b, c, r, v, ow, at, r, y) /\ r # w /\ ~(r > at /\ r < at + m)
<1>a. /\ b \in [Ptr -> Word] /\ r \in Ptr /\ w \in Ptr /\ v \in Ptr /\ n \in Nat
      /\ Stored(b, c, w, at, m, v, n) /\ Free(b, w, at, m) /\ Tiled(b, 0, w)
      /\ \A p \in Ptr : Unread(c, p) <=> p = at \/ Unread(b, p)
      /\ \A p \in Ptr : Unread(b, p) => End(c, p) = End(b, p)
      /\ Unread(b, r) /\ Unread(b, v) /\ Follows(b, v, w)
      /\ y = (IF at + m = Words THEN 0 ELSE at + m)
      /\ r = y => prv_is_msg_in_bounds(c, r)
  BY DEF Writing
<1> USE <1>a
<1>1. /\ c \in [Ptr -> Word]
      /\ at \in Ptr /\ m \in Nat /\ m >= 3 /\ at + m <= Words /\ (at = w \/ at = 0)
      /\ c[at].kind = "header"
      /\ \A p \in Ptr : (p < at \/ p >= at + m) /\ (at = w \/ p # w) => c[p] = b[p]
  BY DEF Stored
<1>2. /\ w \in Nat /\ at \in Nat /\ r \in Nat /\ Words \in Nat /\ w < Words /\ r < Words
      /\ \A p \in Ptr : p \in Nat
      /\ \A p \in Nat : p < Words => p \in Ptr
  BY <1>1, WordsAssumption DEF Ptr
<1>3. PICK e \in Nat : e = at + m /\ e <= Words /\ e > at
  BY <1>1, <1>2
<1>4. Tiled(c, at, e) /\ AllUnread(c, at, e)
  BY <1>3, StoredIs
<1>0. PICK t \in Nat : Wrapped(b, r, w, t)
  OBVIOUS
<1>5. /\ w <= r /\ r < t /\ t <= Words
      /\ Tiled(b, r, t)
      /\ t < Words => b[t] = END_POINTER
      /\ AllUnread(b, r, t) /\ AllUnread(b, 0, w)
      /\ \A p \in Ptr : Unread(b, p) => p < w \/ (p >= r /\ p < t)
      /\ NoEnd(b, w, r)
  BY <1>0 DEF Wrapped
<1>6. \A p \in Ptr : Unread(b, p) => /\ End(b, p) \in Nat /\ End(b, p) >= p + 3 /\ End(b, p) <= Words
                                     /\ End(b, p) <= at \/ p >= e
                                     /\ b[p].kind = "header"
  BY <1>3, UnreadIs DEF Free
<1>7. at = w
  <2> SUFFICES ASSUME at # w PROVE FALSE
    OBVIOUS
  <2>1. at = 0 /\ w > 0 /\ 0 \in Ptr /\ 0 \in 0 .. w - 1
    BY <1>1, <1>2
  <2>2. b[0].kind = "header"
    BY <1>2, <2>1, TiledStart
  <2>3. Unread(b, 0)
    BY <1>2, <1>5, <2>1, <2>2, RegionUnread
  <2> QED BY <1>3, <1>6, <2>1, <2>3
<1>8. e <= r /\ y = e
  BY <1>2, <1>3, <1>5, <1>6, <1>7
<1>9. Unread(c, r) /\ c[r].kind = "header"
  <2>1. Unread(c, r)
    OBVIOUS
  <2> QED BY <1>1, <2>1, UnreadIs
<1>10. Tiled(c, 0, w) /\ AllUnread(c, 0, w)
  <2>1. 0 \in Nat /\ w <= Words /\ w <= at
    BY <1>2, <1>7
  <2>2. Kept(b, c, 0, w)
    BY <1>2, <1>7, <2>1, StoredKeeps
  <2> QED BY <1>5, <2>2 DEF Kept
<1>11. Tiled(c, 0, e) /\ AllUnread(c, 0, e)
  BY <1>1, <1>2, <1>3, <1>4, <1>7, <1>10, TiledJoin, UnreadJoin
<1>12. Tiled(c, r, t) /\ AllUnread(c, r, t) /\ (t < Words => c[t] = END_POINTER)
  <2>1. r >= at + m /\ (t < Words => t \in Ptr /\ t >= at + m)
    BY <1>2, <1>3, <1>5, <1>8
  <2>2. Kept(b, c, r, t)
    BY <1>2, <1>5, <1>7, <2>1, StoredKeeps
  <2> QED BY <1>1, <1>5, <1>7, <2>1, <2>2 DEF Kept
<1>13. NoEnd(c, e, r)
  <2>1. NoEnd(b, e, r)
    BY <1>2, <1>3, <1>5, <1>7 DEF NoEnd
  <2>2. r <= Words /\ e >= at + m
    BY <1>2, <1>3
  <2>3. Kept(b, c, e, r)
    BY <1>2, <1>7, <2>2, StoredKeeps
  <2> QED BY <2>1, <2>3 DEF Kept
<1>14. \A p \in Ptr : Unread(c, p) => p < e \/ (p >= r /\ p < t)
  BY <1>2, <1>3, <1>5, <1>7
<1>15. Wrapped(c, r, e, t)
  BY <1>1, <1>2, <1>3, <1>5, <1>8, <1>9, <1>11, <1>12, <1>13, <1>14 DEF Wrapped
<1>16. \A p \in Ptr : Unread(b, p) => Earlier(r, p, at) /\ ~Earlier(r, at, p)
  BY <1>2, <1>3, <1>5, <1>7, <1>8 DEF Earlier
<1>17. ASSUME NEW p \in Ptr, Unread(b, p), NEW s, Follows(b, p, s)
       PROVE  Follows(c, p, s)
  <2>1. End(c, p) = End(b, p)
    BY <1>17
  <2>2. CASE p >= r
    <3>1. End(b, p) < Words => End(b, p) \in Ptr /\ c[End(b, p)] = b[End(b, p)]
      BY <1>1, <1>2, <1>3, <1>6, <1>7, <1>8, <1>17, <2>2
    <3>2. End(b, p) = Words \/ End(b, p) < Words
      BY <1>2, <1>6, <1>17
    <3> QED BY <1>17, <2>1, <3>1, <3>2 DEF Follows
  <2>3. CASE p < r
    <3>1. p \in 0 .. w - 1 /\ b[p].kind = "header"
      BY <1>2, <1>5, <1>6, <1>17, <2>3
    <3>2. End(b, p) <= w /\ (End(b, p) < w => b[End(b, p)].kind = "header")
      BY <1>2, <3>1, TiledHeader
    <3>3. w \in w .. r - 1
      BY <1>2, <1>3, <1>7, <1>8
    <3>4. b[w] # END_POINTER
      BY <1>5, <3>3 DEF NoEnd
    <3>5. b[End(b, p)] # END_POINTER /\ End(b, p) # Words
      BY <1>2, <1>6, <1>17, <3>2, <3>4, EndIsNoHeader
    <3> QED BY <1>17, <2>1, <3>5 DEF Follows
  <2> QED BY <1>2, <2>2, <2>3
<1>18. Follows(c, v, at)
  BY <1>7, <1>17
<1>19. r # w /\ ~(r > at /\ r < at + m)
  BY <1>2, <1>3, <1>7, <1>8
<1>20. ComesLast(b, c, r, v, ow, at, r, y)
  BY <1>3, <1>8, <1>11, <1>15, <1>16, <1>17, <1>18 DEF ComesLast
<1> QED BY <1>19, <1>20

\* ticosd_queue_write keeps the queue in order.
LEMMA CalmWrite ==
  ASSUME NEW b, NEW r, NEW w, NEW v, NEW ow, NEW n, Calm(b, r, w, v, ow, n),
         NEW c, NEW at, NEW m, Stored(b, c, w, at, m, v, n), Free(b, w, at, m),
         NEW x, x = (IF r = w THEN at ELSE r),
         NEW y, y = (IF at + m = Words THEN 0 ELSE at + m),
         x = y => ~EndsAtLastByte(c, x)
  PROVE  /\ Calm(c, x, y, at, Append(ow, n + 1), n + 1)
         /\ r # w => ~(r > at /\ r < at + m)
<1>1. /\ b \in [Ptr -> Word] /\ r \in Ptr /\ w \in Ptr /\ v \in Ptr /\ ow \in Seq(Nat) /\ n \in Nat
      /\ Numbered(b, n) /\ Backwards(b, w, v) /\ Listed(b, ow)
      /\ Placed(b, r, w, ow) /\ InOrder(b, r) /\ Linked(b, r, w, v, ow)
  BY DEF Calm, Types
<1>2. /\ c \in [Ptr -> Word]
      /\ at \in Ptr /\ m \in Nat /\ m >= 3 /\ at + m <= Words /\ (at = w \/ at = 0)
      /\ \A p \in Ptr : (p < at \/ p >= at + m) /\ (at = w \/ p # w) => c[p] = b[p]
      /\ at # w /\ w >= at + m => c[w] = END_POINTER
      /\ c[at].kind = "header" /\ c[at].id = n + 1 /\ c[at].prev = v
      /\ Unread(c, at) /\ End(c, at) = at + m
      /\ \A p \in Ptr : p >= at /\ p < at + m =>
           c[p].kind \in {"header", "body"} /\ c[p].id = n + 1 /\ (p # at => c[p].kind = "body")
  BY DEF Stored
<1>3. /\ w \in Nat /\ at \in Nat /\ r \in Nat /\ Words \in Nat /\ w < Words /\ r < Words
      /\ Words >= 4
      /\ \A p \in Ptr : p \in Nat
      /\ \A p \in Nat : p < Words => p \in Ptr
  BY <1>1, <1>2, WordsAssumption DEF Ptr
<1>4. /\ \A s \in Ptr : Unread(c, s) <=> s = at \/ Unread(b, s)
      /\ \A s \in Ptr : Unread(b, s) => c[s] = b[s] /\ End(c, s) = End(b, s) /\ s # at
  BY <1>1, StoredUnread
<1>5. x \in Ptr /\ y \in Ptr /\ y \in Nat /\ x \in Nat
  BY <1>1, <1>2, <1>3
<1>6. Len(ow) \in Nat /\ (ow # <<>> => Len(ow) >= 1)
  BY <1>1, EmptySeq
<1>7. /\ \A p \in Ptr : Unread(b, p) => b[p].kind = "header" /\ b[p].id \in Nat /\ b[p].prev \in Ptr
                                        /\ b[p].id <= n /\ Lists(ow, b[p].id)
  BY <1>1, UnreadIs DEF Numbered, Listed
<1>8. /\ ComesLast(b, c, r, v, ow, at, x, y)
      /\ ow = <<>> => x = at
      /\ ow # <<>> => x = r
      /\ r # w => ~(r > at /\ r < at + m)
  <2>0. x = y => ~Intact(c, x) \/ prv_is_msg_in_bounds(c, x)
    BY DEF EndsAtLastByte
  <2>1. CASE ow = <<>>
    <3>1. r = w /\ Tiled(b, 0, w) /\ x = at
      BY <1>1, <2>1 DEF Placed
    <3>2. \A p \in Ptr : ~Unread(b, p)
      <4>1. Len(ow) = 0
        BY <2>1
      <4> QED BY <1>7, <4>1 DEF Lists
    <3>3. Intact(c, at)
      BY <1>2 DEF Unread
    <3>4. ComesLast(b, c, w, v, <<>>, at, at, y)
      BY <1>1, <1>4, <2>0, <3>1, <3>2, <3>3, WriteFirst
    <3> QED BY <2>1, <3>1, <3>4
  <2>2. CASE ow # <<>>
    <3>1. Unread(b, r) /\ Unread(b, v) /\ Follows(b, v, w) /\ Tiled(b, 0, w)
      BY <1>1, <2>2, CalmHead DEF Linked, Placed
    <3>2. Intact(c, r)
      BY <1>1, <1>4, <3>1 DEF Unread
    <3>3. ASSUME r = y => prv_is_msg_in_bounds(c, r)
          PROVE  Writing(b, c, r, w, v, ow, n, at, m, y)
      BY <1>1, <1>4, <2>2, <3>1, <3>3 DEF Writing
    <3>4. CASE Lower(b, r, w)
      <4>1. x = r /\ r # w
        BY <1>3, <3>4 DEF Lower
      <4>2. Writing(b, c, r, w, v, ow, n, at, m, y)
        BY <2>0, <3>2, <3>3, <4>1
      <4> QED BY <2>2, <3>4, <4>1, <4>2, WriteLower
    <3>5. CASE \E t \in Nat : Wrapped(b, r, w, t)
      <4>1. ASSUME x # r PROVE prv_is_msg_in_bounds(c, r)
        <5>1. w = r
          BY <4>1
        <5>2. prv_is_msg_in_bounds(b, r)
          BY <3>5, <5>1 DEF Wrapped
        <5>3. c[r] = b[r]
          BY <1>1, <1>4, <3>1
        <5> QED BY <5>2, <5>3 DEF prv_is_msg_in_bounds
      <4>2. r = y => prv_is_msg_in_bounds(c, r)
        BY <2>0, <3>2, <4>1
      <4>3. Writing(b, c, r, w, v, ow, n, at, m, y)
        BY <3>3, <4>2
      <4>4. ComesLast(b, c, r, v, ow, at, r, y) /\ r # w /\ ~(r > at /\ r < at + m)
        BY <3>5, <4>3, WriteUpper
      <4> QED BY <2>2, <4>4
    <3>6. Lower(b, r, w) \/ \E t \in Nat : Wrapped(b, r, w, t)
      BY <1>1, <2>2 DEF Placed
    <3> QED BY <3>4, <3>5, <3>6
  <2> QED BY <2>1, <2>2
<1> DEFINE more == Append(ow, n + 1)
<1>9. /\ more \in Seq(Nat) /\ Len(more) = Len(ow) + 1 /\ more # <<>>
      /\ \A i \in 1 .. Len(ow) : more[i] = ow[i]
      /\ more[Len(ow) + 1] = n + 1
  BY <1>1
<1> HIDE DEF more
<1>10. Listed(c, more)
  <2>1. \A i \in 1 .. Len(ow) : ow[i] <= n /\ ow[i] \in Nat
    BY <1>1, <1>7 DEF Listed
  <2>2. ASSUME NEW i \in 1 .. Len(more), NEW j \in 1 .. Len(more), i < j PROVE more[i] < more[j]
    <3>1. i \in 1 .. Len(ow)
      BY <1>6, <1>9, <2>2
    <3>2. CASE j \in 1 .. Len(ow)
      BY <1>1, <1>9, <2>2, <3>1, <3>2 DEF Listed
    <3>3. CASE j = Len(ow) + 1
      BY <1>1, <1>9, <2>1, <3>1, <3>3
    <3> QED BY <1>6, <1>9, <3>2, <3>3
  <2>3. ASSUME NEW p \in Ptr, Unread(c, p) PROVE Lists(more, c[p].id)
    <3>1. CASE p = at
      <4>1. Len(ow) + 1 \in 1 .. Len(more)
        BY <1>6, <1>9
      <4> QED BY <1>2, <1>9, <3>1, <4>1 DEF Lists
    <3>2. CASE Unread(b, p)
      <4>1. PICK i \in 1 .. Len(ow) : ow[i] = b[p].id
        BY <1>7, <3>2 DEF Lists
      <4>2. i \in 1 .. Len(more)
        BY <1>6, <1>9
      <4> QED BY <1>4, <1>9, <3>2, <4>1, <4>2 DEF Lists
    <3> QED BY <1>4, <2>3, <3>1, <3>2
  <2>4. ASSUME NEW i \in 1 .. Len(more) PROVE \E p \in Ptr : Unread(c, p) /\ c[p].id = more[i]
    <3>1. CASE i = Len(ow) + 1
      BY <1>2, <1>9, <3>1
    <3>2. CASE i \in 1 .. Len(ow)
      <4>1. PICK p \in Ptr : Unread(b, p) /\ b[p].id = ow[i]
        BY <1>1, <3>2 DEF Listed
      <4> QED BY <1>4, <1>9, <3>2, <4>1
    <3> QED BY <1>6, <1>9, <3>1, <3>2
  <2> QED BY <2>2, <2>3, <2>4 DEF Listed
<1>11. \A p \in Ptr : c[p].kind = "header" /\ p # at => c[p] = b[p]
  <2> SUFFICES ASSUME NEW p \in Ptr, c[p].kind = "header", p # at PROVE c[p] = b[p]
    OBVIOUS
  <2>1. p < at \/ p >= at + m
    BY <1>2, <1>3
  <2>2. at = w \/ p # w
    BY <1>2, <1>3, <2>1, EndIsNoHeader
  <2> QED BY <1>2, <2>1, <2>2
<1>12. Numbered(c, n + 1)
  <2>1. ASSUME NEW p \in Ptr, c[p].kind \in {"header", "body"} PROVE c[p].id <= n + 1
    <3>1. CASE p >= at /\ p < at + m
      BY <1>1, <1>2, <3>1
    <3>2. CASE c[p] = b[p]
      <4>1. b[p].id <= n
        BY <1>1, <2>1, <3>2 DEF Numbered
      <4>2. c[p].id \in Nat
        BY <1>2, <2>1, WordId
      <4> QED BY <1>1, <3>2, <4>1, <4>2
    <3>3. CASE at # w /\ p = w /\ w >= at + m
      BY <1>2, <2>1, <3>3 DEF END_POINTER
    <3> QED BY <1>2, <1>3, <3>1, <3>2, <3>3
  <2>2. ASSUME NEW p \in Ptr, NEW q \in Ptr, c[p].kind = "header", c[q].kind = "header",
               c[p].id = c[q].id
        PROVE  p = q
    <3>1. \A s \in Ptr : c[s].kind = "header" /\ s # at => c[s].id <= n /\ c[s].id \in Nat
      BY <1>1, <1>2, <1>11, WordId DEF Numbered
    <3>2. p = at <=> q = at
      BY <1>1, <1>2, <2>2, <3>1
    <3> QED BY <1>1, <1>11, <2>2, <3>2 DEF Numbered
  <2> QED BY <2>1, <2>2 DEF Numbered
<1>13. Backwards(c, y, at)
  <2>1. y > 0 => at < y
    BY <1>2, <1>3
  <2>2. ASSUME NEW p \in Ptr, c[p].kind = "header", p > 0 PROVE c[p].prev < p
    <3>1. CASE p = at
      BY <1>1, <1>2, <2>2, <3>1 DEF Backwards
    <3>2. CASE p # at
      BY <1>1, <1>11, <2>2, <3>2 DEF Backwards
    <3> QED BY <3>1, <3>2
  <2> QED BY <2>1, <2>2 DEF Backwards
<1>14. Placed(c, x, y, more)
  BY <1>8, <1>9 DEF ComesLast, Placed
<1>15. InOrder(c, x)
  <2> SUFFICES ASSUME NEW p \in Ptr, NEW q \in Ptr, Unread(c, p), Unread(c, q), Earlier(x, p, q)
               PROVE  c[p].id < c[q].id
    BY DEF InOrder
  <2>1. ~Earlier(x, at, at)
    BY <1>3, <1>5 DEF Earlier
  <2>2. p # at
    BY <1>4, <1>8, <2>1 DEF ComesLast
  <2>3. Unread(b, p) /\ c[p] = b[p]
    BY <1>4, <2>2
  <2>4. ow # <<>> /\ x = r
    <3>1. Len(ow) # 0
      BY <1>6, <1>7, <2>3 DEF Lists
    <3> QED BY <1>8, <3>1
  <2>5. CASE q = at
    BY <1>1, <1>2, <1>7, <2>3, <2>5
  <2>6. CASE q # at
    BY <1>1, <1>4, <2>3, <2>4, <2>6 DEF InOrder
  <2> QED BY <2>5, <2>6
<1>16. Linked(c, x, y, at, more)
  <2>1. Unread(c, at) /\ Follows(c, at, y)
    BY <1>2, <1>3 DEF Follows
  <2>2. ASSUME NEW s \in Ptr, Unread(c, s), s # x
        PROVE  Unread(c, c[s].prev) /\ Follows(c, c[s].prev, s)
    <3>1. ow # <<>> /\ x = r
      <4>1. CASE s = at
        BY <1>8, <2>2, <4>1
      <4>2. CASE Unread(b, s)
        <5>1. Len(ow) # 0
          BY <1>6, <1>7, <4>2 DEF Lists
        <5> QED BY <1>8, <5>1
      <4> QED BY <1>4, <2>2, <4>1, <4>2
    <3>2. CASE s = at
      <4>1. Unread(b, v)
        BY <1>1, <3>1 DEF Linked
      <4>2. Follows(c, v, at)
        BY <1>8, <3>1 DEF ComesLast
      <4> QED BY <1>1, <1>2, <1>4, <3>2, <4>1, <4>2
    <3>3. CASE Unread(b, s)
      <4>1. c[s] = b[s] /\ b[s].prev \in Ptr
        BY <1>4, <1>7, <3>3
      <4>2. Unread(b, b[s].prev) /\ Follows(b, b[s].prev, s)
        BY <1>1, <2>2, <3>1, <3>3 DEF Linked
      <4>3. Follows(c, b[s].prev, s)
        BY <1>8, <2>2, <3>1, <3>3, <4>1, <4>2 DEF ComesLast
      <4> QED BY <1>4, <4>1, <4>2, <4>3
    <3> QED BY <1>4, <2>2, <3>2, <3>3
  <2> QED BY <2>1, <2>2 DEF Linked
<1>17. Types(c, x, y, at, more, n + 1)
  BY <1>1, <1>2, <1>5, <1>9 DEF Types
<1>18. Calm(c, x, y, at, more, n + 1)
  BY <1>10, <1>12, <1>13, <1>14, <1>15, <1>16, <1>17 DEF Calm
<1> QED BY <1>8, <1>18 DEF more

-----------------------------------------------------------------------------
(* Starting up *)

\* The forward scan of prv_queue_find_read_write_ptr ends.
LEMMA ScanEquation ==
  ASSUME NEW b \in [Ptr -> Word]
  PROVE  \A p \in Ptr :
           ScanFrom(b)[p] =
             IF ~prv_is_msg_valid(b, p) THEN <<p>>
             ELSE <<p>> \o (IF prv_get_next_message(b, p) = 0 THEN <<0>>
                            ELSE ScanFrom(b)[prv_get_next_message(b, p)])
<1> DEFINE nx(p) == prv_get_next_message(b, p)
           R(f, p) == IF ~prv_is_msg_valid(b, p) THEN <<p>>
                      ELSE <<p>> \o (IF nx(p) = 0 THEN <<0>> ELSE f[nx(p)])
           Solved(k) == \E f : f = [p \in Words - k .. Words - 1 |-> R(f, p)]
           T == {k \in Nat : k <= Words /\ ~Solved(k)}
<1>1. ScanFrom(b) = CHOOSE f : f = [p \in Ptr |-> R(f, p)]
  BY DEF ScanFrom
<1>2. ASSUME T # {} PROVE FALSE
  <2>1. PICK k \in T : \A j \in T : k <= j
    BY <1>2, LeastNatural
  <2>2. k # 0
    <3>1. Solved(0)
      <4> DEFINE f == [p \in Words - 0 .. Words - 1 |-> 0]
      <4>0. Words - 0 .. Words - 1 = {}
        BY WordsAssumption
      <4>1. f = [p \in Words - 0 .. Words - 1 |-> R(f, p)]
        <5> HIDE DEF R
        <5> QED BY <4>0
      <4> QED BY <4>1
    <3> QED BY <3>1
  <2>3. Solved(k - 1)
    <3>1. k - 1 \in Nat /\ k - 1 <= Words /\ ~(k <= k - 1)
      BY <2>2, WordsAssumption
    <3> QED BY <2>1, <3>1
  <2>4. PICK g : g = [p \in Words - (k - 1) .. Words - 1 |-> R(g, p)]
    BY <2>3
  <2> DEFINE D == Words - k .. Words - 1
             f == [p \in D |-> IF p = Words - k THEN R(g, p) ELSE g[p]]
  <2>5. ASSUME NEW p \in D PROVE f[p] = R(f, p)
    <3>1. p \in Ptr /\ k \in Nat /\ k <= Words
      BY WordsAssumption DEF Ptr
    <3>2. nx(p) \in Ptr /\ (nx(p) # 0 => nx(p) > p)
      BY <3>1, NextMessage
    <3> HIDE DEF nx
    <3>3. nx(p) # 0 => nx(p) \in D /\ nx(p) # Words - k
      BY <3>1, <3>2, WordsAssumption DEF Ptr
    <3>4. nx(p) # 0 => f[nx(p)] = g[nx(p)]
      BY <3>3
    <3> HIDE DEF f
    <3>5. R(f, p) = R(g, p)
      BY <3>4
    <3>6. p # Words - k => p \in Words - (k - 1) .. Words - 1
      BY <3>1, WordsAssumption
    <3> HIDE DEF R
    <3>7. p # Words - k => g[p] = R(g, p)
      BY <2>4, <3>6
    <3>8. f[p] = IF p = Words - k THEN R(g, p) ELSE g[p]
      BY DEF f
    <3> QED BY <3>5, <3>7, <3>8
  <2> HIDE DEF R
  <2>6. f = [p \in D |-> R(f, p)]
    BY <2>5
  <2>7. Solved(k)
    BY <2>6
  <2> QED BY <2>7
<1>3. Solved(Words)
  <2> HIDE DEF Solved
  <2>1. ~Solved(Words) => Words \in T
    BY WordsAssumption
  <2> QED BY <1>2, <2>1
<1> HIDE DEF R
<1>4. \E f : f = [p \in Ptr |-> R(f, p)]
  <2>1. Words - Words .. Words - 1 = Ptr
    BY WordsAssumption DEF Ptr
  <2> QED BY <1>3, <2>1
<1>5. ScanFrom(b) = [p \in Ptr |-> R(ScanFrom(b), p)]
  BY <1>1, <1>4
<1>6. \A p \in Ptr : ScanFrom(b)[p] = R(ScanFrom(b), p)
  BY <1>5
<1> QED BY <1>6 DEF R

\* It visits valid messages, each after the one before it, until it wraps
\* around or meets a position where there is none.
Scan(b, p, S) ==
  /\ S \in Seq(Ptr) /\ Len(S) \in Nat /\ Len(S) >= 1 /\ S[1] = p
  /\ \A i \in 1 .. Len(S) - 1 : /\ prv_is_msg_valid(b, S[i])
                                /\ S[i + 1] = prv_get_next_message(b, S[i])
                                /\ i + 1 < Len(S) => S[i + 1] # 0
  /\ prv_is_msg_valid(b, S[Len(S)]) => Len(S) > 1 /\ S[Len(S)] = 0

\* That is what ScanFrom returns.
LEMMA ScanIs ==
  ASSUME NEW b \in [Ptr -> Word], NEW p0 \in Ptr
  PROVE  Scan(b, p0, ScanFrom(b)[p0])
<1> DEFINE scan == ScanFrom(b)
           nx(p) == prv_get_next_message(b, p)
           T == {k \in Nat : \E p \in Ptr : k = Words - p /\ ~Scan(b, p, scan[p])}
<1>1. \A p \in Ptr : scan[p] = IF ~prv_is_msg_valid(b, p) THEN <<p>>
                               ELSE <<p>> \o (IF nx(p) = 0 THEN <<0>> ELSE scan[nx(p)])
  BY ScanEquation
<1>2. \A p \in Ptr : nx(p) \in Ptr /\ (nx(p) # 0 => nx(p) > p)
  BY NextMessage
<1>3. 0 \in Ptr /\ Words \in Nat /\ \A p \in Ptr : p \in Nat /\ p < Words
  BY WordsAssumption DEF Ptr
<1> HIDE DEF scan
<1>4. ASSUME T # {} PROVE FALSE
  <2>1. PICK k \in T : \A j \in T : k <= j
    BY <1>4, LeastNatural
  <2>2. PICK p \in Ptr : k = Words - p /\ ~Scan(b, p, scan[p])
    BY <2>1
  <2>3. CASE ~prv_is_msg_valid(b, p)
    <3>1. scan[p] = <<p>>
      BY <1>1, <2>3
    <3>2. Scan(b, p, <<p>>)
      BY <2>3 DEF Scan
    <3> QED BY <2>2, <3>1, <3>2
  <2>4. CASE prv_is_msg_valid(b, p) /\ nx(p) = 0
    <3> DEFINE S == <<p>> \o <<0>>
    <3>1. scan[p] = S
      BY <1>1, <2>4
    <3>2. S \in Seq(Ptr) /\ Len(S) = 2 /\ S[1] = p /\ S[2] = 0
      BY <1>3
    <3> HIDE DEF S
    <3>3. Scan(b, p, S)
      BY <2>4, <3>2 DEF Scan
    <3> QED BY <2>2, <3>1, <3>3
  <2>5. CASE prv_is_msg_valid(b, p) /\ nx(p) # 0
    <3>1. PICK q \in Ptr : q = nx(p) /\ q # 0 /\ q > p
      BY <1>2, <2>5
    <3>2. Scan(b, q, scan[q])
      <4>1. Words - q \in Nat /\ Words - q < Words - p
        BY <1>3, <3>1
      <4>2. Words - q \in T \/ Scan(b, q, scan[q])
        BY <4>1
      <4> QED BY <1>3, <2>1, <2>2, <4>1, <4>2
    <3> DEFINE S == <<p>> \o scan[q]
    <3>3. scan[p] = S
      BY <1>1, <2>5, <3>1
    <3>4. PICK U : U = scan[q]
      OBVIOUS
    <3>5. /\ U \in Seq(Ptr) /\ Len(U) \in Nat /\ Len(U) >= 1 /\ U[1] = q
          /\ \A i \in 1 .. Len(U) - 1 : /\ prv_is_msg_valid(b, U[i])
                                        /\ U[i + 1] = nx(U[i])
                                        /\ i + 1 < Len(U) => U[i + 1] # 0
          /\ prv_is_msg_valid(b, U[Len(U)]) => Len(U) > 1 /\ U[Len(U)] = 0
      BY <3>2, <3>4 DEF Scan
    <3>6. /\ S \in Seq(Ptr) /\ Len(S) = Len(U) + 1 /\ S[1] = p
          /\ \A i \in 1 .. Len(U) : S[i + 1] = U[i]
      BY <3>4, <3>5
    <3> HIDE DEF S, nx
    <3>7. ASSUME NEW i \in 1 .. Len(S) - 1
          PROVE  /\ prv_is_msg_valid(b, S[i]) /\ S[i + 1] = nx(S[i])
                 /\ i + 1 < Len(S) => S[i + 1] # 0
      <4>1. CASE i = 1
        <5>1. S[2] = q
          BY <3>5, <3>6
        <5> QED BY <2>5, <3>1, <3>6, <4>1, <5>1
      <4>2. CASE i # 1
        <5>1. PICK j \in 1 .. Len(U) - 1 : i = j + 1
          <6>1. i - 1 \in 1 .. Len(U) - 1 /\ i = (i - 1) + 1
            BY <3>5, <3>6, <4>2
          <6> QED BY <6>1
        <5>2. j \in 1 .. Len(U) /\ j + 1 \in 1 .. Len(U) /\ (i + 1 < Len(S) => j + 1 < Len(U))
          BY <3>5, <3>6, <5>1
        <5>3. S[i] = U[j] /\ S[i + 1] = U[j + 1]
          BY <3>6, <5>1, <5>2
        <5> QED BY <3>5, <5>2, <5>3
      <4> QED BY <4>1, <4>2
    <3>8. Len(S) \in Nat /\ Len(S) > 1 /\ S[Len(S)] = U[Len(U)]
      BY <3>5, <3>6
    <3>9. Scan(b, p, S)
      BY <3>5, <3>6, <3>7, <3>8 DEF Scan, nx
    <3> QED BY <2>2, <3>3, <3>9
  <2> QED BY <2>3, <2>4, <2>5
<1>5. Scan(b, p0, scan[p0])
  <2>1. Words - p0 \in Nat
    BY <1>3
  <2>2. ~Scan(b, p0, scan[p0]) => Words - p0 \in T
    BY <2>1
  <2> QED BY <1>4, <2>2
<1> QED BY <1>5 DEF scan

\* A whole message that ends before the buffer does is in bounds.
LEMMA InBounds ==
  ASSUME NEW b \in [Ptr -> Word], NEW p \in Ptr, Intact(b, p), End(b, p) < Words
  PROVE  prv_is_msg_valid(b, p)
<1>1. b[p].kind = "header" /\ p \in Nat /\ Words \in Nat
  BY WordsAssumption DEF Intact, Ptr
<1>2. b[p].bytes \in Nat
  BY <1>1, HeaderFields
<1>3. PICK k \in Nat : k = (b[p].bytes + 3) \div 4 /\ 4 * k >= b[p].bytes
  BY <1>2
<1>4. p + (3 + k) < Words
  BY <1>3 DEF End, MessageWords, HEADER_LEN
<1>5. 4 * (p + 3) + b[p].bytes < 4 * Words
  BY <1>1, <1>2, <1>3, <1>4
<1> QED BY <1>5 DEF prv_is_msg_valid, prv_is_msg_in_bounds, HEADER_LEN

\* The scan goes through a region of whole messages to its end.
LEMMA ScanTiled ==
  ASSUME NEW b \in [Ptr -> Word], NEW S, Scan(b, 0, S), NEW z \in Nat, z > 0, z <= Words,
         Tiled(b, 0, z),
         \A p \in Ptr : p < z /\ Intact(b, p) => prv_is_msg_valid(b, p)
  PROVE  \E e \in Nat :
           /\ e >= 2 /\ e <= Len(S)
           /\ \A j \in 1 .. e - 1 : S[j] \in Ptr /\ S[j] < z /\ Intact(b, S[j])
           /\ End(b, S[e - 1]) = z
           /\ z = Words \/ b[z] = END_POINTER => S[e] = 0 /\ e = Len(S)
           /\ ~(z = Words \/ b[z] = END_POINTER) => S[e] = z
<1>1. /\ S \in Seq(Ptr) /\ Len(S) \in Nat /\ Len(S) >= 1 /\ S[1] = 0
      /\ \A i \in 1 .. Len(S) - 1 : /\ prv_is_msg_valid(b, S[i])
                                    /\ S[i + 1] = prv_get_next_message(b, S[i])
                                    /\ i + 1 < Len(S) => S[i + 1] # 0
      /\ prv_is_msg_valid(b, S[Len(S)]) => Len(S) > 1 /\ S[Len(S)] = 0
  BY DEF Scan
<1>2. Words \in Nat /\ (\A p \in Ptr : p \in Nat /\ p < Words) /\ \A i \in 1 .. Len(S) : S[i] \in Ptr
  BY <1>1, WordsAssumption DEF Ptr
<1>3. ASSUME NEW p \in Ptr, p < z, b[p].kind = "header"
      PROVE  /\ prv_is_msg_valid(b, p) /\ Intact(b, p) /\ End(b, p) \in Nat /\ End(b, p) <= z
             /\ End(b, p) < z => End(b, p) \in Ptr /\ b[End(b, p)].kind = "header"
             /\ End(b, p) > 0
  <2>1. p \in 0 .. z - 1
    BY <1>2, <1>3
  <2>2. Intact(b, p) /\ End(b, p) <= z /\ (End(b, p) < z => b[End(b, p)].kind = "header")
    BY <1>3, <2>1, TiledHeader
  <2>3. End(b, p) \in Nat /\ End(b, p) >= p + 3
    BY <2>2, IntactEnd
  <2> QED BY <1>2, <1>3, <2>2, <2>3 DEF Ptr
<1> DEFINE T == {j \in 1 .. Len(S) : j = Len(S) \/ S[j] >= z}
<1>4. T \subseteq Nat /\ Len(S) \in T
  BY <1>1
<1>5. PICK e \in T : \A j \in T : e <= j
  BY <1>4, LeastNatural
<1>6. e \in 1 .. Len(S) /\ e \in Nat /\ (e = Len(S) \/ S[e] >= z)
  BY <1>4, <1>5
<1>7. \A j \in 1 .. e - 1 : S[j] \in Ptr /\ S[j] < z /\ j \in 1 .. Len(S) - 1
  <2> SUFFICES ASSUME NEW j \in 1 .. e - 1 PROVE S[j] \in Ptr /\ S[j] < z /\ j \in 1 .. Len(S) - 1
    OBVIOUS
  <2>1. j \in 1 .. Len(S) - 1 /\ j \in 1 .. Len(S) /\ ~(e <= j)
    BY <1>1, <1>6
  <2>2. ~(j \in T)
    BY <1>5, <2>1
  <2> QED BY <1>1, <1>2, <2>1, <2>2
<1>8. e >= 2
  <2> SUFFICES ASSUME e = 1 PROVE FALSE
    BY <1>6
  <2>1. Len(S) = 1
    BY <1>1, <1>6
  <2>2. b[0].kind = "header" /\ 0 \in Ptr
    BY <1>1, <1>2, TiledStart
  <2>3. prv_is_msg_valid(b, 0)
    BY <1>3, <2>2
  <2> QED BY <1>1, <2>1, <2>3
<1>9. PICK p \in Ptr : p = S[e - 1] /\ p < z /\ b[p].kind = "header"
  <2>1. e - 1 \in 1 .. e - 1
    BY <1>6, <1>8
  <2>2. S[e - 1] \in Ptr /\ S[e - 1] < z /\ prv_is_msg_valid(b, S[e - 1])
    BY <1>1, <1>7, <2>1
  <2> QED BY <2>2 DEF prv_is_msg_valid, Intact
<1>10. S[e] = prv_get_next_message(b, p) /\ (e < Len(S) => S[e] # 0)
  <2>1. e - 1 \in 1 .. Len(S) - 1 /\ (e - 1) + 1 = e
    BY <1>1, <1>6, <1>8
  <2>2. S[(e - 1) + 1] = prv_get_next_message(b, p) /\ ((e - 1) + 1 < Len(S) => S[(e - 1) + 1] # 0)
    BY <1>1, <1>9, <2>1
  <2> QED BY <2>1, <2>2
<1>11. S[e] = IF End(b, p) >= Words \/ b[End(b, p)] = END_POINTER THEN 0 ELSE End(b, p)
  BY <1>9, <1>10, NextOfHeader
<1>12. End(b, p) = z
  <2> SUFFICES ASSUME End(b, p) < z PROVE FALSE
    BY <1>3, <1>9
  <2>1. PICK q \in Ptr : q = End(b, p) /\ b[q].kind = "header" /\ q < z /\ q > 0
    BY <1>3, <1>9
  <2>2. S[e] = q
    BY <1>2, <1>11, <2>1, EndIsNoHeader
  <2>3. e = Len(S)
    BY <1>2, <1>6, <2>1, <2>2
  <2>4. prv_is_msg_valid(b, q)
    BY <1>3, <2>1
  <2> QED BY <1>1, <1>2, <2>1, <2>2, <2>3, <2>4
<1>13. /\ z = Words \/ b[z] = END_POINTER => S[e] = 0 /\ e = Len(S)
       /\ ~(z = Words \/ b[z] = END_POINTER) => S[e] = z
  <2>1. z >= Words <=> z = Words
    BY <1>2
  <2>2. S[e] = 0 => e = Len(S)
    BY <1>1, <1>6, <1>10
  <2> QED BY <1>11, <1>12, <2>1, <2>2
<1>14. \A j \in 1 .. e - 1 : Intact(b, S[j])
  BY <1>1, <1>7 DEF prv_is_msg_valid
<1> QED BY <1>1, <1>6, <1>7, <1>8, <1>9, <1>12, <1>13, <1>14

\* The scan S ends early at the index e, and f is the first unread message.
Found(b, S, e, f) ==
  /\ e \in 1 .. Len(S) /\ f \in 1 .. e
  /\ e < Len(S) => e >= 2 /\ prv_is_msg_read(b, S[e]) /\ ~prv_is_msg_read(b, S[e - 1])
  /\ \A j \in 2 .. e - 1 : prv_is_msg_read(b, S[j]) => prv_is_msg_read(b, S[j - 1])
  /\ f < e => ~prv_is_msg_read(b, S[f])
  /\ \A j \in 1 .. f - 1 : prv_is_msg_read(b, S[j])

\* What prv_queue_find_read_write_ptr finds.
LEMMA FindIs ==
  ASSUME NEW b, NEW S, S = ScanFrom(b)[0], Len(S) \in Nat, Len(S) >= 1
  PROVE  \E e, f \in Nat :
           /\ Found(b, S, e, f)
           /\ prv_queue_find_read_write_ptr(b) =
                [write |-> S[e], prev |-> IF e = 1 THEN 0 ELSE S[e - 1],
                 read |-> IF S[f] = 0 /\ S[e] # 0 THEN WalkBack(b)[0] ELSE S[f]]
<1> DEFINE ends == {i \in 2 .. Len(S) - 1 : /\ prv_is_msg_read(b, S[i])
                                            /\ ~prv_is_msg_read(b, S[i - 1])} \cup {Len(S)}
           Least(X) == CHOOSE i \in X : \A j \in X : i <= j
           e == Least(ends)
           unread == {i \in 1 .. e - 1 : ~prv_is_msg_read(b, S[i])} \cup {e}
           f == Least(unread)
<1>1. prv_queue_find_read_write_ptr(b) =
        [write |-> S[e], prev |-> IF e = 1 THEN 0 ELSE S[e - 1],
         read |-> IF S[f] = 0 /\ S[e] # 0 THEN WalkBack(b)[0] ELSE S[f]]
  BY DEF prv_queue_find_read_write_ptr
<1>2. ASSUME NEW X, X \subseteq Nat, X # {}
      PROVE  Least(X) \in X /\ \A j \in X : Least(X) <= j
  BY <1>2, LeastNatural
<1>3. ends \subseteq Nat /\ ends # {}
  OBVIOUS
<1>4. e \in ends /\ \A j \in ends : e <= j
  BY <1>2, <1>3
<1> HIDE DEF e
<1>5. /\ e \in 1 .. Len(S) /\ e \in Nat
      /\ e < Len(S) => e >= 2 /\ prv_is_msg_read(b, S[e]) /\ ~prv_is_msg_read(b, S[e - 1])
  BY <1>4
<1>6. ASSUME NEW j \in 2 .. e - 1, prv_is_msg_read(b, S[j]) PROVE prv_is_msg_read(b, S[j - 1])
  <2>1. j \in 2 .. Len(S) - 1 /\ ~(e <= j)
    BY <1>5
  <2>2. ~(j \in ends)
    BY <1>4, <2>1
  <2> QED BY <1>6, <2>1, <2>2
<1>7. unread \subseteq Nat /\ unread # {}
  BY <1>5
<1>8. f \in unread /\ \A j \in unread : f <= j
  BY <1>2, <1>7
<1> HIDE DEF f
<1>9. f \in 1 .. e /\ f \in Nat /\ (f < e => ~prv_is_msg_read(b, S[f]))
  BY <1>5, <1>8
<1>10. ASSUME NEW j \in 1 .. f - 1 PROVE prv_is_msg_read(b, S[j])
  <2>1. j \in 1 .. e - 1 /\ ~(f <= j)
    BY <1>5, <1>9
  <2> QED BY <1>8, <2>1
<1>11. Found(b, S, e, f)
  BY <1>5, <1>6, <1>9, <1>10 DEF Found
<1> QED BY <1>1, <1>5, <1>9, <1>11

\* The walk back over prev_header ends, as prev_header goes backwards.
LEMMA WalkBackEquation ==
  ASSUME NEW b \in [Ptr -> Word],
         \A p \in Ptr : b[p].kind = "header" /\ p > 0 => b[p].prev < p
  PROVE  \A p \in Ptr : b[p].kind = "header" =>
           WalkBack(b)[p] =
             IF \/ b[p].prev = p
                \/ ~prv_is_msg_valid(b, b[p].prev)
                \/ prv_is_msg_read(b, b[p].prev)
             THEN p
             ELSE IF b[p].prev = 0 THEN 0 ELSE WalkBack(b)[b[p].prev]
<1> DEFINE prev(p) == b[p].prev
           Stop(p) == prev(p) = p \/ ~prv_is_msg_valid(b, prev(p)) \/ prv_is_msg_read(b, prev(p))
           R(f, p) == IF Stop(p) THEN p ELSE IF prev(p) = 0 THEN 0 ELSE f[prev(p)]
           H == {q \in Ptr : b[q].kind = "header"}
           D(k) == {q \in H : q > 0 /\ q <= k}
           Solved(k) == \E f : f = [p \in D(k) |-> R(f, p)]
           T == {k \in Nat : ~Solved(k)}
<1>1. WalkBack(b) = CHOOSE f : f = [p \in H |-> R(f, p)]
  BY DEF WalkBack
<1>2. Words \in Nat /\ 0 \in Ptr /\ \A p \in Ptr : p \in Nat /\ p < Words
  BY WordsAssumption DEF Ptr
<1>3. \A p \in H : /\ prev(p) \in Ptr
                   /\ p > 0 => prev(p) < p
                   /\ ~Stop(p) => prev(p) \in H /\ prev(p) # p
  BY HeaderFields DEF prv_is_msg_valid, Intact
<1>4. \A p \in H : p \in Nat /\ p \in Ptr
  BY <1>2
<1>5. 0 \in H => 0 \in Ptr
  BY <1>4
<1> HIDE DEF Stop, prev, H
<1>6. ASSUME T # {} PROVE FALSE
  <2>1. PICK k \in T : \A j \in T : k <= j
    BY <1>6, LeastNatural
  <2>2. k # 0
    <3>1. Solved(0)
      <4> DEFINE f == [p \in D(0) |-> 0]
      <4>0. D(0) = {}
        BY <1>4
      <4>1. f = [p \in D(0) |-> R(f, p)]
        <5> HIDE DEF R, D
        <5> QED BY <4>0
      <4> QED BY <4>1
    <3> QED BY <3>1
  <2>3. Solved(k - 1)
    <3>1. k - 1 \in Nat /\ ~(k <= k - 1)
      BY <2>2
    <3> QED BY <2>1, <3>1
  <2>4. PICK g : g = [p \in D(k - 1) |-> R(g, p)]
    BY <2>3
  <2> DEFINE f == [p \in D(k) |-> IF p = k THEN R(g, p) ELSE g[p]]
  <2>5. ASSUME NEW p \in D(k) PROVE f[p] = R(f, p)
    <3>1. k \in Nat /\ p \in H /\ p > 0 /\ p <= k /\ p \in Nat
      BY <1>4
    <3>2. ~Stop(p) /\ prev(p) # 0 => prev(p) \in D(k) /\ prev(p) # k
      BY <1>2, <1>3, <3>1
    <3>3. ~Stop(p) /\ prev(p) # 0 => f[prev(p)] = g[prev(p)]
      BY <3>2
    <3> HIDE DEF f
    <3>4. R(f, p) = R(g, p)
      BY <3>3
    <3>5. p # k => p \in D(k - 1)
      BY <3>1
    <3> HIDE DEF R
    <3>6. p # k => g[p] = R(g, p)
      BY <2>4, <3>5
    <3>7. f[p] = IF p = k THEN R(g, p) ELSE g[p]
      BY DEF f
    <3> QED BY <3>4, <3>6, <3>7
  <2> HIDE DEF R
  <2>6. f = [p \in D(k) |-> R(f, p)]
    BY <2>5
  <2>7. Solved(k)
    BY <2>6
  <2> QED BY <2>7
<1>7. Solved(Words)
  <2> HIDE DEF Solved
  <2> QED BY <1>2, <1>6
<1>8. PICK g : g = [p \in D(Words) |-> R(g, p)]
  BY <1>7
<1> DEFINE f == [p \in H |-> IF p = 0 THEN R(g, p) ELSE g[p]]
<1>9. ASSUME NEW p \in H PROVE f[p] = R(f, p)
  <2>1. \A q \in H : q # 0 => q \in D(Words)
    BY <1>2, <1>4
  <2>2. ~Stop(p) /\ prev(p) # 0 => f[prev(p)] = g[prev(p)]
    BY <1>3
  <2> HIDE DEF f
  <2>3. R(f, p) = R(g, p)
    BY <2>2
  <2> HIDE DEF R
  <2>4. p # 0 => g[p] = R(g, p)
    BY <1>8, <2>1
  <2>5. f[p] = IF p = 0 THEN R(g, p) ELSE g[p]
    BY DEF f
  <2> QED BY <2>3, <2>4, <2>5
<1> HIDE DEF R
<1>10. f = [p \in H |-> R(f, p)]
  BY <1>9
<1> HIDE DEF f
<1>11. WalkBack(b) = [p \in H |-> R(WalkBack(b), p)]
  BY <1>1, <1>10
<1>12. \A p \in H : WalkBack(b)[p] = R(WalkBack(b), p)
  BY <1>11
<1> QED BY <1>12 DEF R, Stop, prev, H

\* It stops at the first of the unread messages, if that is not before an
\* unread message of a later pass,
LEMMA WalkBackStops ==
  ASSUME NEW b, NEW r, NEW w, NEW v, NEW ow, NEW n, Calm(b, r, w, v, ow, n), ow # <<>>,
         \A p \in Ptr : Unread(b, p) => prv_is_msg_valid(b, p),
         \A p \in Ptr : Unread(b, p) /\ p > r => b[p].prev >= r,
         r = 0 \/ ~Unread(b, b[r].prev)
  PROVE  \A p \in Ptr : Unread(b, p) /\ p >= r /\ p > 0 => WalkBack(b)[p] = r
<1>1. /\ b \in [Ptr -> Word] /\ r \in Ptr /\ Linked(b, r, w, v, ow)
      /\ \A p \in Ptr : b[p].kind = "header" /\ p > 0 => b[p].prev < p
  BY DEF Calm, Types, Backwards
<1>2. Words \in Nat /\ \A p \in Ptr : p \in Nat /\ p < Words
  BY WordsAssumption DEF Ptr
<1> DEFINE T == {p \in Ptr : Unread(b, p) /\ p >= r /\ p > 0 /\ WalkBack(b)[p] # r}
<1>3. ASSUME T # {} PROVE FALSE
  <2>0. T \subseteq Nat
    BY <1>2
  <2>1. PICK p \in T : \A q \in T : p <= q
    BY <1>3, <2>0, LeastNatural
  <2>2. /\ p \in Ptr /\ p \in Nat /\ Unread(b, p) /\ p >= r /\ p > 0 /\ WalkBack(b)[p] # r
        /\ b[p].kind = "header" /\ b[p].prev \in Ptr
    BY <1>1, <1>2, <2>1, UnreadIs
  <2>3. PICK q \in Ptr : q = b[p].prev
    BY <2>2
  <2>4. q < p /\ q \in Nat
    BY <1>1, <1>2, <2>2, <2>3
  <2>5. WalkBack(b)[p] = IF q = p \/ ~prv_is_msg_valid(b, q) \/ prv_is_msg_read(b, q)
                         THEN p ELSE IF q = 0 THEN 0 ELSE WalkBack(b)[q]
    BY <1>1, <2>2, <2>3, WalkBackEquation
  <2>6. CASE p = r
    <3>1. ~Unread(b, q)
      BY <2>2, <2>3, <2>6
    <3>2. ~prv_is_msg_valid(b, q) \/ prv_is_msg_read(b, q)
      BY <3>1 DEF Unread, prv_is_msg_valid
    <3> QED BY <2>2, <2>5, <2>6, <3>2
  <2>7. CASE p # r
    <3>1. Unread(b, q)
      BY <1>1, <2>2, <2>3, <2>7 DEF Linked
    <3>2. prv_is_msg_valid(b, q) /\ ~prv_is_msg_read(b, q) /\ q # p
      BY <2>4, <3>1 DEF Unread
    <3>3. q >= r
      BY <1>1, <1>2, <2>2, <2>3, <2>7
    <3>4. q > 0 => WalkBack(b)[q] = r
      <4>1. ~(p <= q)
        BY <2>2, <2>4
      <4>2. ~(q \in T)
        BY <2>1, <4>1
      <4> QED BY <3>1, <3>3, <4>2
    <3>5. q = 0 => r = 0
      BY <1>1, <1>2, <3>3
    <3> QED BY <2>2, <2>4, <2>5, <3>2, <3>4, <3>5
  <2> QED BY <2>6, <2>7
<1> QED BY <1>3

\* If whole messages fill the buffer up to z, those before lo read, those from
\* lo on unread, and z is not the start of an unread one, then start-up takes
\* lo for the first and the last one before z for the last.
LEMMA StartsAt ==
  ASSUME NEW b \in [Ptr -> Word], NEW S, Scan(b, 0, S), NEW e, NEW f, Found(b, S, e, f),
         NEW z \in Nat, z > 0, z <= Words, Tiled(b, 0, z),
         \A p \in Ptr : p < z /\ Intact(b, p) => prv_is_msg_valid(b, p),
         NEW lo \in Ptr, lo < z, b[lo].kind = "header", AllUnread(b, lo, z),
         \A p \in Ptr : p < lo /\ Intact(b, p) => prv_is_msg_read(b, p),
         z < Words /\ Intact(b, z) => prv_is_msg_read(b, z)
  PROVE  /\ S[f] = lo /\ e # 1
         /\ S[e - 1] \in Ptr /\ Intact(b, S[e - 1]) /\ End(b, S[e - 1]) = z
         /\ S[e] = IF z = Words \/ b[z] = END_POINTER THEN 0 ELSE z
<1>1. /\ S \in Seq(Ptr) /\ Len(S) \in Nat /\ Len(S) >= 1 /\ S[1] = 0
      /\ \A i \in 1 .. Len(S) - 1 : /\ prv_is_msg_valid(b, S[i])
                                    /\ S[i + 1] = prv_get_next_message(b, S[i])
                                    /\ i + 1 < Len(S) => S[i + 1] # 0
  BY DEF Scan
<1>2. /\ Words \in Nat /\ (\A p \in Ptr : p \in Nat /\ p < Words) /\ \A i \in 1 .. Len(S) : S[i] \in Ptr
      /\ lo \in Nat
  BY <1>1, WordsAssumption DEF Ptr
<1>3. /\ e \in 1 .. Len(S) /\ f \in 1 .. e
      /\ e < Len(S) => e >= 2 /\ prv_is_msg_read(b, S[e]) /\ ~prv_is_msg_read(b, S[e - 1])
      /\ \A j \in 2 .. e - 1 : prv_is_msg_read(b, S[j]) => prv_is_msg_read(b, S[j - 1])
      /\ f < e => ~prv_is_msg_read(b, S[f])
      /\ \A j \in 1 .. f - 1 : prv_is_msg_read(b, S[j])
  BY DEF Found
<1>4. PICK k \in Nat :
        /\ k >= 2 /\ k <= Len(S)
        /\ \A j \in 1 .. k - 1 : S[j] \in Ptr /\ S[j] < z /\ Intact(b, S[j])
        /\ End(b, S[k - 1]) = z
        /\ z = Words \/ b[z] = END_POINTER => S[k] = 0 /\ k = Len(S)
        /\ ~(z = Words \/ b[z] = END_POINTER) => S[k] = z
  BY ScanTiled
<1>5. ASSUME NEW j \in 1 .. k - 1 PROVE prv_is_msg_read(b, S[j]) <=> S[j] < lo
  <2>1. S[j] \in Ptr /\ S[j] < z /\ Intact(b, S[j]) /\ S[j] \in Nat
    BY <1>2, <1>4
  <2>2. S[j] >= lo => S[j] \in lo .. z - 1
    BY <1>2, <2>1
  <2>3. S[j] >= lo => ~prv_is_msg_read(b, S[j])
    BY <2>1, <2>2 DEF AllUnread, Intact
  <2> QED BY <1>2, <2>1, <2>3
<1>6. \A i \in 2 .. Len(S) - 1 : S[i] > S[i - 1] /\ S[i] = End(b, S[i - 1])
  <2> SUFFICES ASSUME NEW i \in 2 .. Len(S) - 1 PROVE S[i] > S[i - 1] /\ S[i] = End(b, S[i - 1])
    OBVIOUS
  <2>1. PICK j \in 1 .. Len(S) - 1 : i = j + 1 /\ j + 1 < Len(S) /\ j = i - 1
    <3>1. i - 1 \in 1 .. Len(S) - 1 /\ i = (i - 1) + 1 /\ (i - 1) + 1 < Len(S)
      BY <1>1
    <3> QED BY <3>1
  <2>2. S[j] \in Ptr
    BY <1>1, <1>2
  <2>3. S[i] = prv_get_next_message(b, S[j]) /\ S[i] # 0 /\ b[S[j]].kind = "header"
    BY <1>1, <2>1 DEF prv_is_msg_valid, Intact
  <2>4. S[i] > S[j]
    BY <2>2, <2>3, NextMessage
  <2>5. S[i] = End(b, S[j])
    BY <2>2, <2>3, NextOfHeader
  <2> QED BY <2>1, <2>4, <2>5
<1>7. k - 1 \in 1 .. k - 1 /\ S[k - 1] \in Ptr /\ Intact(b, S[k - 1]) /\ S[k - 1] \in Nat
  <2>1. k - 1 \in 1 .. k - 1
    BY <1>4
  <2> QED BY <1>2, <1>4, <2>1
<1>8. ~prv_is_msg_read(b, S[k - 1])
  <2> SUFFICES ASSUME S[k - 1] < lo PROVE FALSE
    BY <1>5, <1>7
  <2>1. lo >= End(b, S[k - 1])
    BY <1>7, NoneInside
  <2> QED BY <1>2, <1>4, <2>1
<1>9. e >= k
  <2> SUFFICES ASSUME e < k PROVE FALSE
    BY <1>3, <1>4
  <2>1. e \in 2 .. Len(S) - 1 /\ e \in 1 .. k - 1 /\ e - 1 \in 1 .. k - 1
    BY <1>1, <1>3, <1>4
  <2>2. S[e] < lo /\ ~(S[e - 1] < lo)
    BY <1>1, <1>3, <1>5, <2>1
  <2>3. S[e] > S[e - 1]
    BY <1>6, <2>1
  <2>4. S[e] \in Nat /\ S[e - 1] \in Nat
    BY <1>2, <1>4, <2>1
  <2> QED BY <1>2, <2>2, <2>3, <2>4
<1>10. e <= k
  <2> SUFFICES ASSUME e > k PROVE FALSE
    BY <1>3, <1>4
  <2>1. k < Len(S) /\ k \in 2 .. e - 1 /\ k \in 1 .. Len(S) - 1
    BY <1>1, <1>3, <1>4
  <2>2. S[k] = z
    BY <1>4, <2>1
  <2>3. z < Words /\ Intact(b, z)
    BY <1>1, <1>2, <2>1, <2>2 DEF prv_is_msg_valid
  <2> QED BY <1>3, <1>8, <2>1, <2>2, <2>3
<1>11. e = k
  BY <1>3, <1>4, <1>9, <1>10
<1>12. f < e
  <2> SUFFICES ASSUME f = e PROVE FALSE
    BY <1>3
  <2>1. k - 1 \in 1 .. f - 1
    BY <1>3, <1>4, <1>11
  <2> QED BY <1>3, <1>8, <2>1
<1>13. S[f] = lo
  <2>1. f \in 1 .. k - 1 /\ f \in 1 .. Len(S) - 1
    BY <1>1, <1>3, <1>4, <1>11, <1>12
  <2>2. S[f] \in Nat /\ S[f] >= lo
    <3>1. S[f] \in Nat
      BY <1>2, <1>4, <2>1
    <3>2. ~(S[f] < lo)
      BY <1>3, <1>5, <1>12, <2>1
    <3> QED BY <1>2, <3>1, <3>2
  <2> SUFFICES ASSUME S[f] > lo PROVE FALSE
    BY <1>2, <2>2
  <2>3. f # 1
    BY <1>1, <1>2
  <2>4. f \in 2 .. Len(S) - 1 /\ f - 1 \in 1 .. f - 1 /\ f - 1 \in 1 .. k - 1
    BY <2>1, <2>3, <1>1, <1>4
  <2>5. S[f - 1] < lo /\ S[f - 1] \in Ptr /\ Intact(b, S[f - 1])
    BY <1>3, <1>4, <1>5, <2>4
  <2>6. lo >= End(b, S[f - 1])
    BY <1>2, <2>5, NoneInside
  <2>7. S[f] = End(b, S[f - 1])
    BY <1>6, <2>4
  <2> QED BY <1>2, <2>2, <2>6, <2>7
<1> QED BY <1>4, <1>7, <1>11, <1>13

\* Messages that end at the same place are the same.
LEMMA SameEnd ==
  ASSUME NEW b \in [Ptr -> Word], NEW p \in Ptr, NEW q \in Ptr, Intact(b, p), Intact(b, q),
         End(b, p) = End(b, q)
  PROVE  p = q
<1>1. /\ p \in Nat /\ q \in Nat /\ End(b, p) \in Nat /\ End(b, p) > p /\ End(b, p) > q
      /\ b[p].kind = "header" /\ b[q].kind = "header"
  <2>1. p \in Nat /\ q \in Nat
    BY DEF Ptr
  <2>2. End(b, p) \in Nat /\ End(b, p) >= p + 3 /\ b[p].kind = "header"
    BY IntactEnd
  <2>3. End(b, q) \in Nat /\ End(b, q) >= q + 3 /\ b[q].kind = "header"
    BY IntactEnd
  <2> QED BY <2>1, <2>2, <2>3
<1>2. p > q => p >= End(b, q)
  BY <1>1, NoneInside
<1>3. q > p => q >= End(b, p)
  BY <1>1, NoneInside
<1> QED BY <1>1, <1>2, <1>3

\* Start-up on a queue in order, whose unread messages are all in bounds.
Starting(b, r, w, v, ow, n, S, e, f) ==
  /\ Calm(b, r, w, v, ow, n)
  /\ Scan(b, 0, S) /\ Found(b, S, e, f)
  /\ \A p \in Ptr : Unread(b, p) => prv_is_msg_valid(b, p)

\* If there are none, the scan goes to the end of what has been sent.
LEMMA StartEmpty ==
  ASSUME NEW b, NEW r, NEW w, NEW v, NEW n, NEW S, NEW e, NEW f,
         Starting(b, r, w, v, <<>>, n, S, e, f),
         NEW z, z = (IF e = 1 THEN 0 ELSE S[e - 1])
  PROVE  S[f] = S[e] /\ Calm(b, S[e], S[e], z, <<>>, n)
<1>1. /\ S \in Seq(Ptr) /\ Len(S) \in Nat /\ Len(S) >= 1 /\ S[1] = 0
      /\ \A i \in 1 .. Len(S) - 1 : /\ prv_is_msg_valid(b, S[i])
                                    /\ S[i + 1] = prv_get_next_message(b, S[i])
                                    /\ i + 1 < Len(S) => S[i + 1] # 0
  BY DEF Starting, Scan
<1>2. /\ b \in [Ptr -> Word] /\ n \in Nat
      /\ Numbered(b, n) /\ Backwards(b, w, v) /\ Listed(b, <<>>)
  BY DEF Starting, Calm, Types
<1>3. /\ Words \in Nat /\ (\A p \in Ptr : p \in Nat /\ p < Words) /\ \A i \in 1 .. Len(S) : S[i] \in Ptr
      /\ 0 \in Ptr
  BY <1>1, WordsAssumption DEF Ptr
<1>4. \A p \in Ptr : ~Unread(b, p)
  <2>1. Len(<<>>) = 0
    OBVIOUS
  <2> QED BY <1>2, <2>1 DEF Listed, Lists
<1>5. /\ e \in 1 .. Len(S) /\ f \in 1 .. e
      /\ e < Len(S) => e >= 2 /\ prv_is_msg_read(b, S[e]) /\ ~prv_is_msg_read(b, S[e - 1])
      /\ f < e => ~prv_is_msg_read(b, S[f])
  BY DEF Starting, Found
<1>6. \A i \in 1 .. Len(S) - 1 : S[i] \in Ptr /\ Intact(b, S[i]) /\ prv_is_msg_read(b, S[i])
  <2> SUFFICES ASSUME NEW i \in 1 .. Len(S) - 1
               PROVE  S[i] \in Ptr /\ Intact(b, S[i]) /\ prv_is_msg_read(b, S[i])
    OBVIOUS
  <2>1. S[i] \in Ptr /\ Intact(b, S[i])
    BY <1>1, <1>3 DEF prv_is_msg_valid
  <2> QED BY <1>4, <2>1 DEF Unread
<1>7. e = Len(S) /\ f = e
  <2>1. e = Len(S)
    <3> SUFFICES ASSUME e < Len(S) PROVE FALSE
      BY <1>1, <1>5
    <3>1. e - 1 \in 1 .. Len(S) - 1
      BY <1>1, <1>5
    <3> QED BY <1>5, <1>6, <3>1
  <2>2. f < e => f \in 1 .. Len(S) - 1
    BY <1>1, <1>5
  <2> QED BY <1>1, <1>5, <1>6, <2>1, <2>2
<1> DEFINE T == {i \in 1 .. Len(S) : ~Tiled(b, 0, S[i])}
<1>8. ASSUME T # {} PROVE FALSE
  <2>0. T \subseteq Nat
    BY <1>1
  <2>1. PICK i \in T : \A j \in T : i <= j
    BY <1>8, <2>0, LeastNatural
  <2>2. i \in 1 .. Len(S) /\ ~Tiled(b, 0, S[i])
    BY <2>1
  <2>3. Tiled(b, 0, 0)
    BY DEF Tiled
  <2>4. S[i] # 0 /\ i # 1
    BY <1>1, <2>2, <2>3
  <2>5. PICK j \in 1 .. Len(S) - 1 : i = j + 1
    <3>1. i - 1 \in 1 .. Len(S) - 1 /\ i = (i - 1) + 1
      BY <1>1, <2>2, <2>4
    <3> QED BY <3>1
  <2>6. S[j] \in Ptr /\ S[j] \in Nat /\ Intact(b, S[j]) /\ b[S[j]].kind = "header"
    BY <1>3, <1>6 DEF Intact
  <2>7. S[i] = End(b, S[j])
    BY <1>1, <1>2, <2>4, <2>5, <2>6, NextOfHeader
  <2>8. Tiled(b, 0, S[j])
    <3>1. j \in 1 .. Len(S) /\ ~(i <= j)
      BY <1>1, <2>5
    <3> QED BY <2>1, <3>1
  <2>9. Tiled(b, S[j], S[i])
    BY <1>2, <2>6, <2>7, MessageTiled
  <2>10. 0 <= S[j] /\ S[j] <= S[i] /\ S[i] <= Words /\ S[i] \in Nat
    BY <1>2, <2>6, <2>7, IntactEnd
  <2>11. Tiled(b, 0, S[i])
    BY <1>2, <2>6, <2>8, <2>9, <2>10, TiledJoin
  <2> QED BY <2>2, <2>11
<1>9. S[e] \in Ptr /\ Tiled(b, 0, S[e])
  BY <1>3, <1>5, <1>8
<1>10. z \in Ptr /\ (S[e] > 0 => z < S[e])
  <2>1. CASE e = 1
    BY <1>1, <1>3, <2>1
  <2>2. CASE e # 1
    <3>1. PICK j \in 1 .. Len(S) - 1 : j = e - 1 /\ e = j + 1
      <4>1. e - 1 \in 1 .. Len(S) - 1 /\ e = (e - 1) + 1
        BY <1>1, <1>5, <2>2
      <4> QED BY <4>1
    <3>2. z = S[j] /\ S[j] \in Ptr /\ S[e] = prv_get_next_message(b, S[j])
      BY <1>1, <1>6, <2>2, <3>1
    <3>3. S[e] # 0 => S[e] > S[j]
      BY <1>2, <3>2, NextMessage
    <3> QED BY <1>3, <1>9, <3>2, <3>3
  <2> QED BY <2>1, <2>2
<1>11. Types(b, S[e], S[e], z, <<>>, n)
  BY <1>2, <1>9, <1>10 DEF Types
<1>12. Backwards(b, S[e], z)
  BY <1>2, <1>10 DEF Backwards
<1>13. Placed(b, S[e], S[e], <<>>) /\ InOrder(b, S[e]) /\ Linked(b, S[e], S[e], z, <<>>)
  BY <1>4, <1>9 DEF Placed, InOrder, Linked
<1> QED BY <1>2, <1>7, <1>11, <1>12, <1>13 DEF Calm

\* What is known if there are some.
LEMMA StartKnown ==
  ASSUME NEW b, NEW r, NEW w, NEW v, NEW ow, NEW n, NEW S, NEW e, NEW f,
         Starting(b, r, w, v, ow, n, S, e, f), ow # <<>>
  PROVE  /\ b \in [Ptr -> Word] /\ r \in Ptr /\ w \in Ptr /\ v \in Ptr
         /\ r \in Nat /\ w \in Nat /\ Words \in Nat /\ w < Words /\ r < Words
         /\ Scan(b, 0, S) /\ Found(b, S, e, f)
         /\ (\A p \in Ptr : Unread(b, p) => prv_is_msg_valid(b, p))
         /\ Tiled(b, 0, w)
         /\ Unread(b, v) /\ Intact(b, v) /\ Follows(b, v, w) /\ Unread(b, r)
         /\ (\A p \in Ptr : b[p].kind = "header" /\ p > 0 => b[p].prev < p)
         /\ \A s \in Ptr : Unread(b, s) /\ s # r => Unread(b, b[s].prev) /\ Follows(b, b[s].prev, s)
<1>1. Calm(b, r, w, v, ow, n)
  BY DEF Starting
<1>2. /\ b \in [Ptr -> Word] /\ r \in Ptr /\ w \in Ptr /\ v \in Ptr
      /\ Tiled(b, 0, w) /\ Unread(b, v) /\ Follows(b, v, w)
      /\ (\A p \in Ptr : b[p].kind = "header" /\ p > 0 => b[p].prev < p)
      /\ \A s \in Ptr : Unread(b, s) /\ s # r => Unread(b, b[s].prev) /\ Follows(b, b[s].prev, s)
  BY <1>1 DEF Calm, Types, Placed, Linked, Backwards
<1>3. r \in Nat /\ w \in Nat /\ Words \in Nat /\ w < Words /\ r < Words
  BY <1>2, WordsAssumption DEF Ptr
<1>4. Unread(b, r) /\ Intact(b, v)
  BY <1>1, <1>2, CalmHead DEF Unread
<1> QED BY <1>2, <1>3, <1>4 DEF Starting

\* What start-up finds if the unread messages lie below the write pointer,
LEMMA StartLower ==
  ASSUME NEW b, NEW r, NEW w, NEW v, NEW ow, NEW n, NEW S, NEW e, NEW f,
         Starting(b, r, w, v, ow, n, S, e, f), ow # <<>>, Lower(b, r, w)
  PROVE  /\ S[f] = r /\ e # 1 /\ S[e - 1] = v
         /\ r = 0 => WalkBack(b)[0] = 0
         /\ Calm(b, r, S[e], v, ow, n)
<1>1. /\ b \in [Ptr -> Word] /\ r \in Ptr /\ w \in Ptr /\ v \in Ptr
      /\ r \in Nat /\ w \in Nat /\ Words \in Nat /\ w < Words /\ r < Words
      /\ Scan(b, 0, S) /\ Found(b, S, e, f)
      /\ (\A p \in Ptr : Unread(b, p) => prv_is_msg_valid(b, p))
      /\ Tiled(b, 0, w)
      /\ Unread(b, v) /\ Intact(b, v) /\ Follows(b, v, w) /\ Unread(b, r)
      /\ (\A p \in Ptr : b[p].kind = "header" /\ p > 0 => b[p].prev < p)
  BY StartKnown
<1>2. /\ r < w /\ b[r].kind = "header" /\ AllUnread(b, r, w)
      /\ \A p \in Ptr : Unread(b, p) => p >= r /\ p < w
  BY DEF Lower
<1>3. \A p \in Ptr : p \in Nat
  BY DEF Ptr
<1>4. ASSUME NEW p \in Ptr, p < w, Intact(b, p) PROVE prv_is_msg_valid(b, p)
  <2>1. p \in 0 .. w - 1 /\ b[p].kind = "header"
    BY <1>1, <1>3, <1>4 DEF Intact
  <2>2. End(b, p) <= w
    BY <1>1, <2>1, TiledHeader
  <2>3. End(b, p) \in Nat
    BY <1>1, <1>4, IntactEnd
  <2> QED BY <1>1, <1>4, <2>2, <2>3, InBounds
<1>5. \A p \in Ptr : p < r /\ Intact(b, p) => prv_is_msg_read(b, p)
  BY <1>1, <1>2, <1>3 DEF Unread
<1>6. w < Words /\ Intact(b, w) => prv_is_msg_read(b, w)
  BY <1>1, <1>2 DEF Unread
<1>7. w > 0 /\ w <= Words
  BY <1>1, <1>2
<1>8. /\ S[f] = r /\ e # 1
      /\ S[e - 1] \in Ptr /\ Intact(b, S[e - 1]) /\ End(b, S[e - 1]) = w
      /\ S[e] = IF w = Words \/ b[w] = END_POINTER THEN 0 ELSE w
  BY <1>1, <1>2, <1>4, <1>5, <1>6, <1>7, StartsAt
<1>9. End(b, v) = w
  BY <1>1, <1>7 DEF Follows
<1>10. S[e - 1] = v
  BY <1>1, <1>8, <1>9, SameEnd
<1>11. Calm(b, r, w, v, ow, n)
  BY DEF Starting
<1>12. r = 0 => WalkBack(b)[0] = 0
  <2> SUFFICES ASSUME r = 0 PROVE WalkBack(b)[0] = 0
    OBVIOUS
  <2>1. \A p \in Ptr : Unread(b, p) /\ p > r => b[p].prev >= r
    <3>1. \A p \in Ptr : Unread(b, p) => b[p].prev \in Ptr
      BY <1>1, UnreadIs
    <3> QED BY <1>3, <3>1
  <2>2. \A p \in Ptr : Unread(b, p) /\ p >= r /\ p > 0 => WalkBack(b)[p] = r
    BY <1>1, <1>11, <2>1, WalkBackStops
  <2>3. PICK q \in Ptr : q = b[r].prev
    BY <1>1, UnreadIs
  <2>4. WalkBack(b)[r] = IF q = r \/ ~prv_is_msg_valid(b, q) \/ prv_is_msg_read(b, q)
                         THEN r ELSE IF q = 0 THEN 0 ELSE WalkBack(b)[q]
    BY <1>1, <1>2, <2>3, WalkBackEquation
  <2>5. prv_is_msg_valid(b, q) /\ ~prv_is_msg_read(b, q) => Unread(b, q)
    BY DEF prv_is_msg_valid, Unread
  <2>6. q # 0 => q > 0 /\ q >= r
    BY <1>3
  <2> QED BY <2>2, <2>4, <2>5, <2>6
<1>13. ASSUME b[w] = END_POINTER PROVE Calm(b, r, 0, v, ow, n)
  <2>1. r \in 0 .. w - 1
    BY <1>1, <1>2
  <2>2. Tiled(b, r, w) /\ Tiled(b, 0, r)
    BY <1>1, <1>2, <2>1, TiledHeader, TiledPrefix
  <2>3. NoEnd(b, 0, r) /\ AllUnread(b, 0, 0) /\ Tiled(b, 0, 0)
    <3>1. NoEnd(b, 0, r)
      BY <1>1, <2>2, TiledNoEnd
    <3> QED BY <3>1 DEF AllUnread, Tiled
  <2>4. prv_is_msg_in_bounds(b, r)
    BY <1>1 DEF prv_is_msg_valid
  <2>5. Wrapped(b, r, 0, w)
    BY <1>1, <1>2, <1>13, <2>2, <2>3, <2>4 DEF Wrapped
  <2>6. Placed(b, r, 0, ow)
    BY <1>1, <2>3, <2>5 DEF Placed
  <2>7. Linked(b, r, 0, v, ow)
    BY <1>9, <1>11, <1>13 DEF Calm, Linked, Follows
  <2>8. Types(b, r, 0, v, ow, n) /\ Backwards(b, 0, v)
    <3>1. 0 \in Ptr
      BY WordsAssumption DEF Ptr
    <3> QED BY <1>11, <3>1 DEF Calm, Types, Backwards
  <2> QED BY <1>11, <2>6, <2>7, <2>8 DEF Calm
<1>14. Calm(b, r, S[e], v, ow, n)
  BY <1>1, <1>8, <1>11, <1>13
<1> QED BY <1>8, <1>10, <1>12, <1>14

\* if they lie on both sides of the wrap,
LEMMA StartUpper ==
  ASSUME NEW b, NEW r, NEW w, NEW v, NEW ow, NEW n, NEW S, NEW e, NEW f, NEW t \in Nat,
         Starting(b, r, w, v, ow, n, S, e, f), ow # <<>>, Wrapped(b, r, w, t), r # w, w > 0,
         ~(b[r].prev < w /\ b[b[r].prev].kind = "header")
  PROVE  S[f] = 0 /\ S[e] = w /\ e # 1 /\ S[e - 1] = v /\ WalkBack(b)[0] = r
<1>1. /\ b \in [Ptr -> Word] /\ r \in Ptr /\ w \in Ptr /\ v \in Ptr
      /\ r \in Nat /\ w \in Nat /\ Words \in Nat /\ w < Words /\ r < Words
      /\ Scan(b, 0, S) /\ Found(b, S, e, f)
      /\ (\A p \in Ptr : Unread(b, p) => prv_is_msg_valid(b, p))
      /\ Tiled(b, 0, w)
      /\ Unread(b, v) /\ Intact(b, v) /\ Follows(b, v, w) /\ Unread(b, r)
      /\ (\A p \in Ptr : b[p].kind = "header" /\ p > 0 => b[p].prev < p)
      /\ \A s \in Ptr : Unread(b, s) /\ s # r => Unread(b, b[s].prev) /\ Follows(b, b[s].prev, s)
  BY StartKnown
<1>2. /\ w < r /\ r < t /\ t <= Words /\ b[r].kind = "header"
      /\ AllUnread(b, 0, w)
      /\ \A p \in Ptr : Unread(b, p) => p < w \/ (p >= r /\ p < t)
      /\ NoEnd(b, w, r)
  BY <1>1 DEF Wrapped
<1>3. (\A p \in Ptr : p \in Nat) /\ 0 \in Ptr
  BY WordsAssumption DEF Ptr
<1>4. ASSUME NEW p \in Ptr, p < w, Intact(b, p)
      PROVE  prv_is_msg_valid(b, p) /\ End(b, p) \in Nat /\ End(b, p) > 0 /\ End(b, p) <= w
             /\ b[End(b, p)] # END_POINTER
  <2>1. p \in 0 .. w - 1 /\ b[p].kind = "header"
    BY <1>1, <1>3, <1>4 DEF Intact
  <2>2. End(b, p) <= w /\ (End(b, p) < w => b[End(b, p)].kind = "header")
    BY <1>1, <2>1, TiledHeader
  <2>3. End(b, p) \in Nat /\ End(b, p) >= p + 3
    BY <1>1, <1>4, IntactEnd
  <2>4. prv_is_msg_valid(b, p)
    BY <1>1, <1>4, <2>2, <2>3, InBounds
  <2>5. b[w] # END_POINTER
    <3>1. w \in w .. r - 1
      BY <1>1, <1>2
    <3> QED BY <1>2, <3>1 DEF NoEnd
  <2> QED BY <1>1, <1>3, <2>2, <2>3, <2>4, <2>5, EndIsNoHeader
<1>5. \A p \in Ptr : p < 0 /\ Intact(b, p) => prv_is_msg_read(b, p)
  BY <1>3
<1>6. w < Words /\ Intact(b, w) => prv_is_msg_read(b, w)
  BY <1>1, <1>2 DEF Unread
<1>7. w <= Words /\ b[0].kind = "header"
  BY <1>1, <1>3, TiledStart
<1>8. /\ S[f] = 0 /\ e # 1
      /\ S[e - 1] \in Ptr /\ Intact(b, S[e - 1]) /\ End(b, S[e - 1]) = w
      /\ S[e] = IF w = Words \/ b[w] = END_POINTER THEN 0 ELSE w
  BY <1>1, <1>2, <1>3, <1>4, <1>5, <1>6, <1>7, StartsAt
<1>9. S[e] = w
  <2>1. w \in w .. r - 1
    BY <1>1, <1>2
  <2>2. b[w] # END_POINTER
    BY <1>2, <2>1 DEF NoEnd
  <2> QED BY <1>1, <1>8, <2>2
<1>10. End(b, v) = w
  BY <1>1 DEF Follows
<1>11. S[e - 1] = v
  BY <1>1, <1>8, <1>10, SameEnd
<1>12. ASSUME NEW s \in Ptr, Unread(b, s), s = 0 \/ s > r
       PROVE  Unread(b, b[s].prev) /\ b[s].prev \in Ptr /\ b[s].prev >= r
  <2>1. PICK q \in Ptr : q = b[s].prev
    BY <1>1, <1>12, UnreadIs
  <2>2. Unread(b, q) /\ Follows(b, q, s)
    BY <1>1, <1>2, <1>3, <1>12, <2>1
  <2>3. q >= r
    <3> SUFFICES ASSUME q < w PROVE FALSE
      BY <1>1, <1>2, <1>3, <2>2
    <3>1. End(b, q) \in Nat /\ End(b, q) > 0 /\ End(b, q) <= w /\ b[End(b, q)] # END_POINTER
      BY <1>4, <2>2 DEF Unread
    <3> QED BY <1>1, <1>2, <1>3, <1>12, <2>2, <3>1 DEF Follows
  <2> QED BY <2>1, <2>2, <2>3
<1>13. ~Unread(b, b[r].prev)
  <2>1. PICK q \in Ptr : q = b[r].prev
    BY <1>1, UnreadIs
  <2>2. q < r
    BY <1>1, <1>2, <2>1
  <2>3. q < w => ~Unread(b, q)
    BY <2>1 DEF Unread, Intact
  <2> QED BY <1>1, <1>2, <1>3, <2>1, <2>2, <2>3
<1>14. Calm(b, r, w, v, ow, n)
  BY DEF Starting
<1>15. \A p \in Ptr : Unread(b, p) /\ p >= r /\ p > 0 => WalkBack(b)[p] = r
  <2>1. \A p \in Ptr : Unread(b, p) /\ p > r => b[p].prev >= r
    BY <1>12
  <2> QED BY <1>1, <1>13, <1>14, <2>1, WalkBackStops
<1>16. WalkBack(b)[0] = r
  <2>1. 0 \in 0 .. w - 1
    BY <1>1
  <2>2. Unread(b, 0)
    BY <1>1, <1>2, <1>7, <2>1, RegionUnread
  <2>3. PICK q \in Ptr : q = b[0].prev /\ Unread(b, q) /\ q >= r
    BY <1>3, <1>12, <2>2
  <2>4. q # 0 /\ q > 0
    BY <1>1, <1>2, <1>3, <2>3
  <2>5. prv_is_msg_valid(b, q) /\ ~prv_is_msg_read(b, q)
    BY <1>1, <2>3 DEF Unread
  <2>6. WalkBack(b)[0] = IF q = 0 \/ ~prv_is_msg_valid(b, q) \/ prv_is_msg_read(b, q)
                         THEN 0 ELSE IF q = 0 THEN 0 ELSE WalkBack(b)[q]
    BY <1>1, <1>3, <1>7, <2>3, WalkBackEquation
  <2> QED BY <1>15, <2>3, <2>4, <2>5, <2>6
<1> QED BY <1>8, <1>9, <1>11, <1>16

\* and if the last one was written up to the end of the buffer.
LEMMA StartFull ==
  ASSUME NEW b, NEW r, NEW w, NEW v, NEW ow, NEW n, NEW S, NEW e, NEW f, NEW t \in Nat,
         Starting(b, r, w, v, ow, n, S, e, f), ow # <<>>, Wrapped(b, r, w, t), r # w, w = 0
  PROVE  S[f] = r /\ S[e] = 0 /\ e # 1 /\ S[e - 1] = v
<1>1. /\ b \in [Ptr -> Word] /\ r \in Ptr /\ w \in Ptr /\ v \in Ptr
      /\ r \in Nat /\ w \in Nat /\ Words \in Nat /\ w < Words /\ r < Words
      /\ Scan(b, 0, S) /\ Found(b, S, e, f)
      /\ (\A p \in Ptr : Unread(b, p) => prv_is_msg_valid(b, p))
      /\ Unread(b, v) /\ Intact(b, v) /\ Follows(b, v, 0) /\ Unread(b, r)
  BY StartKnown
<1>2. /\ r > 0 /\ r < t /\ t <= Words /\ b[r].kind = "header"
      /\ Tiled(b, r, t) /\ AllUnread(b, r, t) /\ Tiled(b, 0, r)
      /\ t < Words => b[t] = END_POINTER
      /\ \A p \in Ptr : Unread(b, p) => p < 0 \/ (p >= r /\ p < t)
  BY <1>1 DEF Wrapped
<1>3. (\A p \in Ptr : p \in Nat) /\ t > 0
  BY <1>1, <1>2 DEF Ptr
<1>4. Tiled(b, 0, t)
  BY <1>1, <1>2, TiledJoin
<1>5. \A p \in Ptr : Unread(b, p) => p >= r /\ p < t
  BY <1>2, <1>3
<1>6. \A p \in Ptr : p < r /\ Intact(b, p) => prv_is_msg_read(b, p)
  BY <1>1, <1>3, <1>5 DEF Unread
<1>7. ASSUME NEW p \in Ptr, p < t, Intact(b, p) PROVE prv_is_msg_valid(b, p)
  <2>1. CASE p < r
    <3>1. p \in 0 .. r - 1 /\ b[p].kind = "header"
      BY <1>1, <1>3, <1>7, <2>1 DEF Intact
    <3>2. End(b, p) <= r
      BY <1>1, <1>2, <3>1, TiledHeader
    <3>3. End(b, p) \in Nat
      BY <1>1, <1>7, IntactEnd
    <3> QED BY <1>1, <1>7, <3>2, <3>3, InBounds
  <2>2. CASE p >= r
    <3>1. p \in r .. t - 1 /\ b[p].kind = "header"
      BY <1>1, <1>3, <1>7, <2>2 DEF Intact
    <3>2. Unread(b, p)
      BY <1>1, <1>2, <3>1, RegionUnread
    <3> QED BY <1>1, <3>2
  <2> QED BY <1>1, <1>3, <2>1, <2>2
<1>8. t < Words /\ Intact(b, t) => prv_is_msg_read(b, t)
  BY <1>2, EndIsNoHeader DEF Intact
<1>9. /\ S[f] = r /\ e # 1
      /\ S[e - 1] \in Ptr /\ Intact(b, S[e - 1]) /\ End(b, S[e - 1]) = t
      /\ S[e] = IF t = Words \/ b[t] = END_POINTER THEN 0 ELSE t
  BY <1>1, <1>2, <1>3, <1>4, <1>6, <1>7, <1>8, StartsAt
<1>10. t = Words \/ b[t] = END_POINTER
  BY <1>1, <1>2
<1>11. End(b, v) = t
  <2>1. v \in 0 .. t - 1 /\ b[v].kind = "header"
    BY <1>1, <1>3, <1>5 DEF Intact
  <2>2. End(b, v) <= t /\ (End(b, v) < t => b[End(b, v)].kind = "header")
    BY <1>1, <1>2, <1>4, <2>1, TiledHeader
  <2>3. End(b, v) \in Nat /\ End(b, v) >= v + 3 /\ v \in Nat
    BY <1>1, <1>3, IntactEnd
  <2>4. ~(End(b, v) < t)
    BY <1>1, <1>2, <2>2, <2>3, EndIsNoHeader DEF Follows
  <2> QED BY <2>2, <2>3, <2>4
<1>12. S[e - 1] = v
  BY <1>1, <1>9, <1>11, SameEnd
<1> QED BY <1>9, <1>10, <1>12

\* Start-up keeps the queue in order.
LEMMA CalmStart ==
  ASSUME NEW b, NEW r, NEW w, NEW v, NEW ow, NEW n, Calm(b, r, w, v, ow, n),
         ~(ow # <<>> /\ r = w),
         ~(w > 0 /\ r > w /\ b[r].prev < w /\ b[b[r].prev].kind = "header"),
         \A p \in Ptr : Unread(b, p) => ~EndsAtLastByte(b, p),
         NEW found, found = prv_queue_find_read_write_ptr(b)
  PROVE  Calm(b, found.read, found.write, found.prev, ow, n)
<1>1. b \in [Ptr -> Word] /\ 0 \in Ptr /\ r \in Nat /\ w \in Nat /\ ow \in Seq(Nat)
  BY WordsAssumption DEF Calm, Types, Ptr
<1>2. PICK S : S = ScanFrom(b)[0]
  OBVIOUS
<1>3. Scan(b, 0, S)
  BY <1>1, <1>2, ScanIs
<1>4. Len(S) \in Nat /\ Len(S) >= 1
  BY <1>3 DEF Scan
<1>5. PICK e \in Nat, f \in Nat :
        /\ Found(b, S, e, f)
        /\ prv_queue_find_read_write_ptr(b) =
             [write |-> S[e], prev |-> IF e = 1 THEN 0 ELSE S[e - 1],
              read |-> IF S[f] = 0 /\ S[e] # 0 THEN WalkBack(b)[0] ELSE S[f]]
  BY <1>2, <1>4, FindIs
<1>6. /\ found.write = S[e] /\ found.prev = (IF e = 1 THEN 0 ELSE S[e - 1])
      /\ found.read = IF S[f] = 0 /\ S[e] # 0 THEN WalkBack(b)[0] ELSE S[f]
  BY <1>5
<1>7. \A p \in Ptr : Unread(b, p) => prv_is_msg_valid(b, p)
  BY DEF Unread, EndsAtLastByte, prv_is_msg_valid
<1>8. Starting(b, r, w, v, ow, n, S, e, f)
  BY <1>3, <1>5, <1>7 DEF Starting
<1>9. CASE ow = <<>>
  <2>1. PICK z : z = (IF e = 1 THEN 0 ELSE S[e - 1])
    OBVIOUS
  <2>2. S[f] = S[e] /\ Calm(b, S[e], S[e], z, <<>>, n)
    BY <1>8, <1>9, <2>1, StartEmpty
  <2>3. found.read = S[e] /\ found.prev = z
    BY <1>6, <2>1, <2>2
  <2> QED BY <1>6, <1>9, <2>2, <2>3
<1>10. CASE ow # <<>> /\ Lower(b, r, w)
  <2>1. /\ S[f] = r /\ e # 1 /\ S[e - 1] = v
        /\ r = 0 => WalkBack(b)[0] = 0
        /\ Calm(b, r, S[e], v, ow, n)
    BY <1>8, <1>10, StartLower
  <2>2. found.read = r /\ found.prev = v
    BY <1>6, <2>1
  <2> QED BY <1>6, <2>1, <2>2
<1>11. ASSUME NEW t \in Nat, ow # <<>>, Wrapped(b, r, w, t), w > 0
       PROVE  Calm(b, found.read, found.write, found.prev, ow, n)
  <2>1. r > w /\ r # w
    BY <1>1, <1>11 DEF Wrapped
  <2>2. S[f] = 0 /\ S[e] = w /\ e # 1 /\ S[e - 1] = v /\ WalkBack(b)[0] = r
    BY <1>8, <1>11, <2>1, StartUpper
  <2>3. found.read = r /\ found.prev = v /\ found.write = w
    BY <1>1, <1>6, <1>11, <2>2
  <2> QED BY <2>3
<1>12. ASSUME NEW t \in Nat, ow # <<>>, Wrapped(b, r, w, t), w = 0
       PROVE  Calm(b, found.read, found.write, found.prev, ow, n)
  <2>1. r # w
    BY <1>12
  <2>2. S[f] = r /\ S[e] = 0 /\ e # 1 /\ S[e - 1] = v
    BY <1>8, <1>12, <2>1, StartFull
  <2>3. found.read = r /\ found.prev = v /\ found.write = w
    BY <1>6, <1>12, <2>2
  <2> QED BY <2>3
<1>13. ow # <<>> => Lower(b, r, w) \/ \E t \in Nat : Wrapped(b, r, w, t)
  BY DEF Calm, Placed
<1>14. w > 0 \/ w = 0
  BY <1>1
<1> QED BY <1>9, <1>10, <1>11, <1>12, <1>13, <1>14

-----------------------------------------------------------------------------
(* Crashing inside a write *)

\* c is b with the first k of the m words of message n + 1 stored at the
\* position at, after the end marker at w if that is not where the write
\* pointer was.
Torn(b, c, w, at, m, k, v, n) ==
  /\ c \in [Ptr -> Word]
  /\ at \in Ptr /\ m \in Nat /\ k \in Nat /\ k < m /\ at + m <= Words /\ (at = w \/ at = 0)
  /\ \A p \in Ptr : (p < at \/ p >= at + k) /\ (at = w \/ p # w) => c[p] = b[p]
  /\ at # w /\ w >= at + k => c[w] = END_POINTER
  /\ k > 0 => c[at].prev = v
  /\ k > 0 => ~Intact(c, at)
  /\ \A p \in Ptr : p >= at /\ p < at + k =>
       c[p].kind \in {"header", "body"} /\ c[p].id = n + 1 /\ (p # at => c[p].kind = "body")

\* A torn write adds no message and leaves the unread ones alone.
LEMMA TornUnread ==
  ASSUME NEW b \in [Ptr -> Word], NEW c, NEW w \in Ptr, NEW at, NEW m, NEW k, NEW v, NEW n \in Nat,
         Numbered(b, n), Torn(b, c, w, at, m, k, v, n), Free(b, w, at, m)
  PROVE  /\ \A s \in Ptr : Unread(c, s) <=> Unread(b, s)
         /\ \A s \in Ptr : Unread(b, s) => c[s] = b[s] /\ End(c, s) = End(b, s)
<1>1. /\ c \in [Ptr -> Word]
      /\ at \in Ptr /\ m \in Nat /\ k \in Nat /\ k < m /\ at + m <= Words /\ (at = w \/ at = 0)
      /\ \A p \in Ptr : (p < at \/ p >= at + k) /\ (at = w \/ p # w) => c[p] = b[p]
      /\ at # w /\ w >= at + k => c[w] = END_POINTER
      /\ k > 0 => ~Intact(c, at)
      /\ \A p \in Ptr : p >= at /\ p < at + k =>
           c[p].kind \in {"header", "body"} /\ c[p].id = n + 1 /\ (p # at => c[p].kind = "body")
  BY DEF Torn
<1>2. w \in Nat /\ at \in Nat /\ Words \in Nat
  BY <1>1, WordsAssumption DEF Ptr
<1>0. (\A p \in Ptr : p \in Nat) /\ \A p \in Nat : p < Words => p \in Ptr
  BY <1>2 DEF Ptr
<1>3. ASSUME NEW s \in Ptr, Unread(b, s)
      PROVE  Intact(c, s) /\ c[s] = b[s] /\ End(c, s) = End(b, s)
  <2>1. /\ Intact(b, s) /\ s \in Nat /\ End(b, s) \in Nat /\ End(b, s) >= s + 3 /\ End(b, s) <= Words
    BY <1>3, UnreadIs
  <2>2. /\ End(b, s) <= at \/ s >= at + m
        /\ at # w => w < s \/ w >= End(b, s)
    BY <1>3 DEF Free
  <2>3. ASSUME NEW p \in s .. End(b, s) - 1 PROVE c[p] = b[p]
    <3>0. p \in Nat /\ p < Words
      BY <1>2, <2>1
    <3>1. p \in Ptr /\ (p < at \/ p >= at + k) /\ (at = w \/ p # w)
      BY <1>0, <1>1, <1>2, <2>1, <2>2, <3>0
    <3> QED BY <1>1, <3>1
  <2> QED BY <1>1, <2>1, <2>3, IntactFrame
<1>4. ASSUME NEW s \in Ptr, Intact(c, s)
      PROVE  Intact(b, s) /\ b[s] = c[s]
  <2>0. k > 0 => s # at
    BY <1>1, <1>4
  <2>1. s \in Nat /\ End(c, s) \in Nat /\ End(c, s) >= s + 3 /\ c[s].kind = "header"
    BY <1>0, <1>1, <1>4, IntactEnd
  <2>2. ~(s >= at /\ s < at + k)
    BY <1>1, <1>2, <2>0, <2>1
  <2>3. at # w => ~(s = w)
    BY <1>1, <1>2, <2>1, <2>2, EndIsNoHeader
  <2>4. c[s] = b[s]
    BY <1>1, <1>2, <2>1, <2>2, <2>3
  <2>5. c[s].id <= n /\ c[s].id \in Nat
    <3>1. b[s].id <= n
      BY <2>1, <2>4 DEF Numbered
    <3>2. c[s].id \in 1 .. MaxWrites
      BY <1>1, <2>1, HeaderFields
    <3> QED BY <2>4, <3>1, <3>2, BoundsAssumption
  <2>6. ASSUME NEW p \in s .. End(c, s) - 1 PROVE b[p] = c[p]
    <3>1. p \in Ptr /\ c[p].kind \in {"header", "body"} /\ c[p].id = c[s].id
      BY <1>1, <1>4, OwnWords
    <3>2. ~(p >= at /\ p < at + k)
      BY <1>1, <2>5, <3>1
    <3>3. at # w => p # w
      BY <1>1, <1>2, <3>1, <3>2 DEF END_POINTER
    <3>4. p < at \/ p >= at + k
      BY <1>1, <1>2, <3>1, <3>2 DEF Ptr
    <3> QED BY <1>1, <3>1, <3>3, <3>4
  <2> QED BY <1>1, <1>4, <2>6, IntactFrame
<1>5. \A s \in Ptr : Unread(c, s) <=> Unread(b, s)
  BY <1>3, <1>4 DEF Unread, prv_is_msg_read
<1> QED BY <1>3, <1>5

\* The numbers and prev_headers after a torn write.
LEMMA TornNumbers ==
  ASSUME NEW b \in [Ptr -> Word], NEW c, NEW w \in Ptr, NEW at, NEW m, NEW k, NEW v \in Ptr,
         NEW n \in Nat, Numbered(b, n), Backwards(b, w, v), Torn(b, c, w, at, m, k, v, n)
  PROVE  /\ Numbered(c, n + 1)
         /\ Backwards(c, w, v) /\ Backwards(c, 0, 0)
<1>1. /\ c \in [Ptr -> Word]
      /\ at \in Ptr /\ m \in Nat /\ k \in Nat /\ k < m /\ at + m <= Words /\ (at = w \/ at = 0)
      /\ \A p \in Ptr : (p < at \/ p >= at + k) /\ (at = w \/ p # w) => c[p] = b[p]
      /\ at # w /\ w >= at + k => c[w] = END_POINTER
      /\ k > 0 => c[at].prev = v
      /\ \A p \in Ptr : p >= at /\ p < at + k =>
           c[p].kind \in {"header", "body"} /\ c[p].id = n + 1 /\ (p # at => c[p].kind = "body")
  BY DEF Torn
<1>2. w \in Nat /\ at \in Nat /\ v \in Nat /\ Words \in Nat /\ \A p \in Ptr : p \in Nat
  BY <1>1, WordsAssumption DEF Ptr
<1>3. ASSUME NEW p \in Ptr
      PROVE  \/ p >= at /\ p < at + k
             \/ c[p] = b[p]
             \/ c[p] = END_POINTER
  BY <1>1, <1>2
<1>4. ASSUME NEW p \in Ptr, c[p].kind \in {"header", "body"} PROVE c[p].id <= n + 1 /\ c[p].id \in Nat
  <2>1. CASE p >= at /\ p < at + k
    BY <1>1, <2>1
  <2>2. CASE c[p] = b[p]
    <3>1. b[p].id <= n
      BY <1>4, <2>2 DEF Numbered
    <3>2. c[p].id \in Nat
      BY <1>1, <1>4, WordId
    <3> QED BY <2>2, <3>1, <3>2
  <2>3. CASE c[p] = END_POINTER
    BY <1>4, <2>3 DEF END_POINTER
  <2> QED BY <1>3, <2>1, <2>2, <2>3
<1>5. ASSUME NEW p \in Ptr, c[p].kind = "header"
      PROVE  \/ p = at /\ c[p].id = n + 1 /\ k > 0
             \/ c[p] = b[p] /\ c[p].id <= n /\ c[p].id \in Nat
  <2>1. CASE p >= at /\ p < at + k
    <3>1. p = at /\ c[p].id = n + 1
      BY <1>1, <1>5, <2>1
    <3> QED BY <1>1, <1>2, <2>1, <3>1
  <2>2. CASE c[p] = b[p]
    BY <1>1, <1>4, <1>5, <2>2 DEF Numbered
  <2>3. CASE c[p] = END_POINTER
    BY <1>5, <2>3 DEF END_POINTER
  <2> QED BY <1>3, <2>1, <2>2, <2>3
<1>6. ASSUME NEW p \in Ptr, NEW q \in Ptr, c[p].kind = "header", c[q].kind = "header",
             c[p].id = c[q].id
      PROVE  p = q
  <2>1. CASE p = at /\ c[p].id = n + 1
    BY <1>5, <1>6, <2>1
  <2>2. CASE q = at /\ c[q].id = n + 1
    BY <1>5, <1>6, <2>2
  <2>3. CASE c[p] = b[p] /\ c[q] = b[q]
    BY <1>6, <2>3 DEF Numbered
  <2> QED BY <1>5, <1>6, <2>1, <2>2, <2>3
<1>7. ASSUME NEW p \in Ptr, c[p].kind = "header", p > 0 PROVE c[p].prev < p
  <2>1. CASE p = at /\ k > 0
    BY <1>1, <1>2, <1>7, <2>1 DEF Backwards
  <2>2. CASE c[p] = b[p]
    BY <1>7, <2>2 DEF Backwards
  <2> QED BY <1>5, <1>7, <2>1, <2>2
<1>8. Numbered(c, n + 1)
  BY <1>4, <1>6 DEF Numbered
<1> QED BY <1>7, <1>8 DEF Backwards

\* A crash in a write to a queue in order that cuts into no unread message.
Tearing(b, c, r, w, v, ow, n, at, m, k) ==
  /\ Calm(b, r, w, v, ow, n)
  /\ Torn(b, c, w, at, m, k, v, n) /\ Free(b, w, at, m)
  /\ k > 0 /\ at = 0 => ow = <<>>
  /\ k > 0 \/ at # w

\* The unread messages are where they were, and are found there.
LEMMA TornPlaces ==
  ASSUME NEW b, NEW c, NEW r, NEW w, NEW v, NEW ow, NEW n, NEW at, NEW m, NEW k,
         Tearing(b, c, r, w, v, ow, n, at, m, k), at = w \/ k = 0, ow # <<>>
  PROVE  Placed(c, r, w, ow) /\ Linked(c, r, w, v, ow)
<1>0. /\ b \in [Ptr -> Word] /\ r \in Ptr /\ w \in Ptr /\ v \in Ptr /\ n \in Nat
      /\ Numbered(b, n) /\ Tiled(b, 0, w) /\ Unread(b, v) /\ Follows(b, v, w)
      /\ Calm(b, r, w, v, ow, n)
      /\ Torn(b, c, w, at, m, k, v, n) /\ Free(b, w, at, m)
      /\ \A s \in Ptr : Unread(b, s) /\ s # r => Unread(b, b[s].prev) /\ Follows(b, b[s].prev, s)
  BY DEF Tearing, Calm, Types, Placed, Linked
<1>1. /\ c \in [Ptr -> Word]
      /\ at \in Ptr /\ m \in Nat /\ k \in Nat /\ k < m /\ at + m <= Words /\ (at = w \/ at = 0)
      /\ \A p \in Ptr : (p < at \/ p >= at + k) /\ (at = w \/ p # w) => c[p] = b[p]
      /\ \A p \in Ptr : p >= at /\ p < at + k =>
           c[p].kind \in {"header", "body"}
  BY <1>0 DEF Torn
<1>2. /\ w \in Nat /\ at \in Nat /\ r \in Nat /\ v \in Nat /\ Words \in Nat /\ w < Words /\ r < Words
      /\ \A p \in Ptr : p \in Nat
      /\ \A p \in Nat : p < Words => p \in Ptr
  BY <1>0, <1>1, WordsAssumption DEF Ptr
<1>3. /\ \A s \in Ptr : Unread(c, s) <=> Unread(b, s)
      /\ \A s \in Ptr : Unread(b, s) => c[s] = b[s] /\ End(c, s) = End(b, s)
  BY <1>0, TornUnread
<1>4. Unread(b, r) /\ Unread(c, r) /\ c[r].kind = "header"
  <2>1. Unread(b, r)
    BY <1>0, CalmHead
  <2>2. Unread(c, r)
    BY <1>0, <1>3, <2>1
  <2> QED BY <1>0, <1>1, <2>1, <2>2, UnreadIs
<1>5. \A p \in Ptr : Unread(b, p) => /\ End(b, p) \in Nat /\ End(b, p) >= p + 3 /\ End(b, p) <= Words
                                     /\ End(b, p) <= at \/ p >= at + m
                                     /\ b[p].kind = "header" /\ b[p].prev \in Ptr
  BY <1>0, UnreadIs DEF Free
<1>6. \A p \in Ptr : p < w => c[p] = b[p]
  BY <1>1, <1>2
<1>7. 0 \in Nat /\ w <= Words /\ r <= Words
  BY <1>2
<1>8. Kept(b, c, 0, w)
  BY <1>0, <1>1, <1>2, <1>6, <1>7, SameKeeps
<1>9. Tiled(c, 0, w)
  BY <1>0, <1>8 DEF Kept
<1>10. ASSUME \A s \in Ptr : Unread(b, s) /\ s # r => Follows(c, b[s].prev, s),
              Follows(c, v, w)
       PROVE  Linked(c, r, w, v, ow)
  <2>1. ASSUME NEW s \in Ptr, Unread(c, s), s # r
        PROVE  Unread(c, c[s].prev) /\ Follows(c, c[s].prev, s)
    <3>1. Unread(b, s) /\ c[s] = b[s] /\ b[s].prev \in Ptr
      BY <1>3, <1>5, <2>1
    <3> QED BY <1>0, <1>3, <1>10, <2>1, <3>1
  <2>2. Unread(c, v)
    BY <1>0, <1>3
  <2> QED BY <1>10, <2>1, <2>2 DEF Linked
<1>11. CASE Lower(b, r, w)
  <2>1. /\ r < w /\ AllUnread(b, r, w)
        /\ \A p \in Ptr : Unread(b, p) => p >= r /\ p < w
    BY <1>11 DEF Lower
  <2>2. Kept(b, c, r, w)
    BY <1>0, <1>1, <1>2, <1>6, <1>7, SameKeeps
  <2>3. AllUnread(c, r, w)
    BY <2>1, <2>2 DEF Kept
  <2>4. Lower(c, r, w)
    BY <1>3, <1>4, <2>1, <2>3 DEF Lower
  <2>5. ASSUME NEW p \in Ptr, Unread(b, p), NEW s \in Nat, s # 0, Follows(b, p, s)
        PROVE  Follows(c, p, s)
    BY <1>3, <2>5 DEF Follows
  <2>6. Follows(c, v, w)
    BY <1>0, <1>2, <2>1, <2>5
  <2>7. ASSUME NEW s \in Ptr, Unread(b, s), s # r PROVE Follows(c, b[s].prev, s)
    <3>1. s \in Nat /\ s # 0
      BY <1>2, <2>1, <2>7
    <3>2. b[s].prev \in Ptr /\ Unread(b, b[s].prev) /\ Follows(b, b[s].prev, s)
      BY <1>0, <1>5, <2>7
    <3> QED BY <2>5, <3>1, <3>2
  <2>8. Linked(c, r, w, v, ow)
    BY <1>10, <2>6, <2>7
  <2> QED BY <1>9, <2>4, <2>8 DEF Placed
<1>12. ASSUME NEW t \in Nat, Wrapped(b, r, w, t)
       PROVE  Placed(c, r, w, ow) /\ Linked(c, r, w, v, ow)
  <2>1. /\ w <= r /\ r < t /\ t <= Words
        /\ Tiled(b, r, t)
        /\ t < Words => b[t] = END_POINTER
        /\ AllUnread(b, r, t) /\ AllUnread(b, 0, w)
        /\ \A p \in Ptr : Unread(b, p) => p < w \/ (p >= r /\ p < t)
        /\ NoEnd(b, w, r)
    BY <1>12 DEF Wrapped
  <2>2. at = w
    <3> SUFFICES ASSUME at # w PROVE FALSE
      OBVIOUS
    <3>1. at = 0 /\ w > 0 /\ 0 \in Ptr /\ 0 \in 0 .. w - 1
      BY <1>1, <1>2
    <3>2. b[0].kind = "header"
      BY <1>0, <1>2, <3>1, TiledStart
    <3>3. Unread(b, 0)
      BY <1>0, <1>2, <2>1, <3>1, <3>2, RegionUnread
    <3> QED BY <1>1, <1>5, <3>1, <3>3
  <2>3. k > 0 /\ w > 0 /\ r >= w + k /\ r > w /\ r >= w + m
    <3>1. k > 0 /\ (at = 0 => ow = <<>>)
      BY <2>2 DEF Tearing
    <3>2. End(b, r) >= r + 3 /\ End(b, r) \in Nat /\ (End(b, r) <= at \/ r >= at + m)
      BY <1>0, <1>4, <1>5
    <3> QED BY <1>1, <1>2, <2>1, <2>2, <3>1, <3>2
  <2>4. \A p \in Ptr : p >= r => c[p] = b[p]
    BY <1>1, <1>2, <2>2, <2>3
  <2>5. Kept(b, c, r, t)
    BY <1>0, <1>1, <1>2, <2>1, <2>4, SameKeeps
  <2>6. Tiled(c, r, t) /\ AllUnread(c, r, t) /\ AllUnread(c, 0, w)
    BY <1>8, <2>1, <2>5 DEF Kept
  <2>7. t < Words => c[t] = END_POINTER
    BY <1>2, <2>1, <2>4
  <2>8. NoEnd(c, w, r)
    <3> SUFFICES ASSUME NEW p \in w .. r - 1 PROVE c[p] # END_POINTER
      BY DEF NoEnd
    <3>1. p \in Ptr /\ p >= w
      BY <1>2
    <3>2. CASE p < at + k
      <4>1. c[p].kind \in {"header", "body"}
        BY <1>1, <2>2, <3>1, <3>2
      <4> QED BY <4>1 DEF END_POINTER
    <3>3. CASE p >= at + k
      <4>1. c[p] = b[p]
        BY <1>1, <2>2, <3>1, <3>3
      <4> QED BY <2>1, <4>1 DEF NoEnd
    <3> QED BY <1>1, <1>2, <3>1, <3>2, <3>3
  <2>9. Wrapped(c, r, w, t)
    BY <1>2, <1>3, <1>4, <2>1, <2>3, <2>6, <2>7, <2>8 DEF Wrapped
  <2>10. ASSUME NEW p \in Ptr, Unread(b, p), NEW s, Follows(b, p, s)
         PROVE  Follows(c, p, s)
    <3>1. End(c, p) = End(b, p)
      BY <1>3, <2>10
    <3>2. CASE p >= r
      <4>1. End(b, p) < Words => End(b, p) \in Ptr /\ c[End(b, p)] = b[End(b, p)]
        BY <1>2, <1>5, <2>4, <2>10, <3>2
      <4>2. End(b, p) = Words \/ End(b, p) < Words
        BY <1>2, <1>5, <2>10
      <4> QED BY <2>10, <3>1, <4>1, <4>2 DEF Follows
    <3>3. CASE p < r
      <4>1. p \in 0 .. w - 1 /\ b[p].kind = "header"
        BY <1>2, <1>5, <2>1, <2>10, <3>3
      <4>2. End(b, p) <= w /\ (End(b, p) < w => b[End(b, p)].kind = "header")
        BY <1>0, <1>2, <4>1, TiledHeader
      <4>3. w \in w .. r - 1
        BY <1>2, <2>3
      <4>4. b[w] # END_POINTER
        BY <2>1, <4>3 DEF NoEnd
      <4>5. b[End(b, p)] # END_POINTER /\ End(b, p) # Words
        BY <1>2, <1>5, <2>10, <4>2, <4>4, EndIsNoHeader
      <4> QED BY <2>10, <3>1, <4>5 DEF Follows
    <3> QED BY <1>2, <3>2, <3>3
  <2>11. Follows(c, v, w)
    BY <1>0, <2>10
  <2>12. \A s \in Ptr : Unread(b, s) /\ s # r => Follows(c, b[s].prev, s)
    BY <1>0, <1>5, <2>10
  <2>13. Linked(c, r, w, v, ow)
    BY <1>10, <2>11, <2>12
  <2> QED BY <1>9, <2>9, <2>13 DEF Placed
<1> QED BY <1>0, <1>11, <1>12 DEF Calm, Placed

\* Start-up after a crash inside ticosd_queue_write keeps the queue in order.
LEMMA CalmTorn ==
  ASSUME NEW b, NEW c, NEW r, NEW w, NEW v, NEW ow, NEW n, NEW at, NEW m, NEW k,
         Tearing(b, c, r, w, v, ow, n, at, m, k),
         ~(ow # <<>> /\ r = w),
         ~(w > 0 /\ r > w /\ b[r].prev < w /\ b[b[r].prev].kind = "header"),
         \A p \in Ptr : Unread(b, p) => ~EndsAtLastByte(b, p),
         NEW found, found = prv_queue_find_read_write_ptr(c)
  PROVE  Calm(c, found.read, found.write, found.prev, ow, n + 1)
<1>0. /\ b \in [Ptr -> Word] /\ r \in Ptr /\ w \in Ptr /\ v \in Ptr /\ ow \in Seq(Nat) /\ n \in Nat
      /\ Numbered(b, n) /\ Backwards(b, w, v) /\ Listed(b, ow)
      /\ Placed(b, r, w, ow) /\ InOrder(b, r)
      /\ Calm(b, r, w, v, ow, n)
      /\ Torn(b, c, w, at, m, k, v, n) /\ Free(b, w, at, m)
  BY DEF Tearing, Calm, Types
<1>1. /\ c \in [Ptr -> Word]
      /\ at \in Ptr /\ m \in Nat /\ k \in Nat /\ k < m /\ at + m <= Words /\ (at = w \/ at = 0)
      /\ \A p \in Ptr : (p < at \/ p >= at + k) /\ (at = w \/ p # w) => c[p] = b[p]
  BY <1>0 DEF Torn
<1>2. /\ w \in Nat /\ at \in Nat /\ r \in Nat /\ Words \in Nat /\ 0 \in Ptr /\ w < Words
      /\ \A p \in Ptr : p \in Nat
  BY <1>0, <1>1, WordsAssumption DEF Ptr
<1>3. /\ \A s \in Ptr : Unread(c, s) <=> Unread(b, s)
      /\ \A s \in Ptr : Unread(b, s) => c[s] = b[s] /\ End(c, s) = End(b, s)
  BY <1>0, TornUnread
<1>4. Numbered(c, n + 1) /\ Backwards(c, w, v) /\ Backwards(c, 0, 0)
  BY <1>0, TornNumbers
<1>5. Listed(c, ow)
  BY <1>0, <1>3 DEF Listed
<1>6. InOrder(c, r)
  BY <1>0, <1>3 DEF InOrder
<1>7. \A p \in Ptr : Unread(c, p) => ~EndsAtLastByte(c, p)
  BY <1>3 DEF EndsAtLastByte, Unread, prv_is_msg_in_bounds
<1>8. ow = <<>> => r = w /\ \A p \in Ptr : ~Unread(c, p)
  <2> SUFFICES ASSUME ow = <<>> PROVE r = w /\ \A p \in Ptr : ~Unread(c, p)
    OBVIOUS
  <2>1. Len(ow) = 0
    OBVIOUS
  <2> QED BY <1>0, <1>5, <2>1 DEF Placed, Listed, Lists
<1>9. CASE at = w \/ k = 0
  <2>1. \A p \in Ptr : p < w => c[p] = b[p]
    BY <1>1, <1>2, <1>9
  <2>2. Placed(c, r, w, ow) /\ Linked(c, r, w, v, ow)
    <3>1. CASE ow # <<>>
      BY <1>9, <3>1, TornPlaces
    <3>2. CASE ow = <<>>
      <4>1. Kept(b, c, 0, w)
        <5>1. 0 \in Nat /\ w <= Words
          BY <1>2
        <5> QED BY <1>0, <1>1, <1>2, <2>1, <5>1, SameKeeps
      <4>2. Tiled(c, 0, w)
        BY <1>0, <4>1 DEF Placed, Kept
      <4> QED BY <1>8, <3>2, <4>2 DEF Placed, Linked
    <3> QED BY <3>1, <3>2
  <2>3. Types(c, r, w, v, ow, n + 1)
    BY <1>0, <1>1 DEF Types
  <2>4. Calm(c, r, w, v, ow, n + 1)
    BY <1>4, <1>5, <1>6, <2>2, <2>3 DEF Calm
  <2>5. ~(w > 0 /\ r > w /\ c[r].prev < w /\ c[c[r].prev].kind = "header")
    <3> SUFFICES ASSUME w > 0, r > w, c[r].prev < w, c[c[r].prev].kind = "header" PROVE FALSE
      OBVIOUS
    <3>1. ow # <<>>
      BY <1>2, <1>8
    <3>2. Unread(b, r)
      BY <1>0, <3>1, CalmHead
    <3>3. c[r] = b[r] /\ b[r].prev \in Ptr
      BY <1>0, <1>3, <3>2, UnreadIs
    <3>4. c[b[r].prev] = b[b[r].prev]
      BY <2>1, <3>3
    <3> QED BY <3>3, <3>4
  <2> QED BY <1>7, <2>4, <2>5, CalmStart
<1>10. CASE at # w /\ k # 0
  <2>1. at = 0 /\ k > 0
    BY <1>1, <1>10
  <2>2. ow = <<>>
    BY <2>1 DEF Tearing
  <2>3. \A p \in Ptr : ~Unread(c, p)
    BY <1>8, <2>2
  <2>4. Tiled(c, 0, 0)
    BY DEF Tiled
  <2>5. Placed(c, 0, 0, ow) /\ Linked(c, 0, 0, 0, ow) /\ InOrder(c, 0)
    BY <2>2, <2>3, <2>4 DEF Placed, Linked, InOrder
  <2>6. Types(c, 0, 0, 0, ow, n + 1)
    BY <1>0, <1>1, <1>2 DEF Types
  <2>7. Calm(c, 0, 0, 0, ow, n + 1)
    BY <1>4, <1>5, <2>5, <2>6 DEF Calm
  <2>8. ~(0 > 0)
    OBVIOUS
  <2> QED BY <1>7, <2>2, <2>7, <2>8, CalmStart
<1> QED BY <1>9, <1>10

\* ticosd_queue_reset that leaves no unread message behind empties the queue.
LEMMA CalmReset ==
  ASSUME NEW b, NEW r, NEW w, NEW v, NEW ow, NEW n, Calm(b, r, w, v, ow, n),
         NEW c, c \in [Ptr -> Word], \A p \in Ptr : c[p] = b[p] \/ c[p] = Zero,
         \A p \in Ptr : ~Unread(c, p)
  PROVE  Calm(c, 0, 0, 0, <<>>, n)
<1>1. b \in [Ptr -> Word] /\ n \in Nat /\ Numbered(b, n) /\ Backwards(b, w, v)
  BY DEF Calm, Types
<1>2. \A p \in Ptr : c[p].kind \in {"header", "body"} => c[p] = b[p]
  BY DEF Zero
<1>3. Numbered(c, n)
  BY <1>1, <1>2 DEF Numbered
<1>4. Backwards(c, 0, 0)
  BY <1>1, <1>2 DEF Backwards
<1>5. Tiled(c, 0, 0) /\ 0 \in Ptr /\ <<>> \in Seq(Nat) /\ Len(<<>>) = 0
  BY WordsAssumption DEF Tiled, Ptr
<1>6. Listed(c, <<>>)
  BY <1>5 DEF Listed
<1>7. Placed(c, 0, 0, <<>>) /\ Linked(c, 0, 0, 0, <<>>) /\ InOrder(c, 0)
  BY <1>5 DEF Placed, Linked, InOrder
<1>8. Types(c, 0, 0, 0, <<>>, n)
  BY <1>1, <1>5 DEF Types
<1> QED BY <1>3, <1>4, <1>6, <1>7, <1>8 DEF Calm

-----------------------------------------------------------------------------
(* What the actions do to the buffer *)

\* The queue is in order, and so is the message the reader holds.
CalmState ==
  /\ Calm(buf, read_ptr, write_ptr, prev_ptr, owed, written)
  /\ can_complete_read => owed # <<>>
  /\ payload # NoMsg => can_complete_read /\ owed # <<>> /\ payload = Head(owed)

\* The words after the first k words of a message of m words have been stored.
LEMMA StoreWords ==
  ASSUME buf \in [Ptr -> Word], write_ptr \in Ptr, prev_ptr \in Ptr,
         NEW id \in 1 .. MaxWrites, NEW bytes \in PayloadBytes, NEW m \in Nat, m <= Words,
         NEW k \in Nat, k <= m, NEW at, at = WriteAt(m),
         NEW c, c = Store(MarkEnd(m), at, id, bytes, k)
  PROVE  /\ c \in [Ptr -> Word]
         /\ at \in Ptr /\ at + m <= Words /\ (at = write_ptr \/ at = 0)
         /\ at # write_ptr <=> Wraps(m)
         /\ \A p \in Ptr : (p < at \/ p >= at + k) /\ (at = write_ptr \/ p # write_ptr) => c[p] = buf[p]
         /\ at # write_ptr /\ write_ptr >= at + k => c[write_ptr] = END_POINTER
         /\ k > 0 => c[at] = Header(id, bytes, prev_ptr)
         /\ \A p \in Ptr : p > at /\ p < at + k => c[p] = Body(id, p - at)
<1>1. Words \in Nat /\ write_ptr \in Nat /\ write_ptr < Words /\ 0 \in Ptr
  BY WordsAssumption DEF Ptr
<1>2. /\ at \in Ptr /\ at + m <= Words /\ (at = write_ptr \/ at = 0)
      /\ at # write_ptr <=> Wraps(m)
  BY <1>1 DEF WriteAt, Wraps
<1>3. at \in Nat /\ at + k <= Words /\ \A p \in Ptr : p \in Nat
  BY <1>1, <1>2 DEF Ptr
<1>4. PICK d : d = MarkEnd(m)
  OBVIOUS
<1>5. /\ d \in [Ptr -> Word]
      /\ \A p \in Ptr : at = write_ptr \/ p # write_ptr => d[p] = buf[p]
      /\ at # write_ptr => d[write_ptr] = END_POINTER
  <2>1. END_POINTER \in Word
    BY DEF Word
  <2> QED BY <1>2, <1>4, <2>1 DEF MarkEnd
<1>6. c \in [Ptr -> Word]
  BY <1>2, <1>3, <1>4, <1>5, StoreType
<1>7. \A p \in Ptr : p < at \/ p >= at + k => c[p] = d[p]
  BY <1>2, <1>4, StoreKeeps
<1>8. \A p \in Ptr : p >= at /\ p < at + k =>
        c[p] = IF p = at THEN Header(id, bytes, prev_ptr) ELSE Body(id, p - at)
  <2> SUFFICES ASSUME NEW p \in Ptr, p >= at, p < at + k
               PROVE  c[p] = IF p = at THEN Header(id, bytes, prev_ptr) ELSE Body(id, p - at)
    OBVIOUS
  <2>1. p \in at .. at + k - 1
    BY <1>3
  <2> QED BY <2>1 DEF Store
<1>9. k > 0 => c[at] = Header(id, bytes, prev_ptr)
  BY <1>2, <1>3, <1>8
<1>10. \A p \in Ptr : p > at /\ p < at + k => c[p] = Body(id, p - at)
  BY <1>3, <1>8
<1> QED BY <1>1, <1>2, <1>5, <1>6, <1>7, <1>9, <1>10

\* A write that is not cut short stores the message.
LEMMA WriteStores ==
  ASSUME buf \in [Ptr -> Word], write_ptr \in Ptr, prev_ptr \in Ptr, written \in Nat,
         written < MaxWrites, NEW bytes \in PayloadBytes, NEW m, m = MessageWords(bytes),
         m <= Words, NEW at, at = WriteAt(m),
         NEW c, c = Store(MarkEnd(m), at, written + 1, bytes, m)
  PROVE  Stored(buf, c, write_ptr, at, m, prev_ptr, written)
<1>1. m \in Nat /\ m >= 3 /\ written + 1 \in 1 .. MaxWrites /\ m <= m
  BY PayloadAssumption, BoundsAssumption, MessageWordsNat
<1>2. /\ c \in [Ptr -> Word]
      /\ at \in Ptr /\ at + m <= Words /\ (at = write_ptr \/ at = 0)
      /\ \A p \in Ptr : (p < at \/ p >= at + m) /\ (at = write_ptr \/ p # write_ptr) => c[p] = buf[p]
      /\ at # write_ptr /\ write_ptr >= at + m => c[write_ptr] = END_POINTER
      /\ m > 0 => c[at] = Header(written + 1, bytes, prev_ptr)
      /\ \A p \in Ptr : p > at /\ p < at + m => c[p] = Body(written + 1, p - at)
  BY <1>1, StoreWords
<1>3. at \in Nat /\ Words \in Nat /\ \A p \in Ptr : p \in Nat
  BY <1>2, WordsAssumption DEF Ptr
<1>4. /\ c[at].kind = "header" /\ c[at].id = written + 1 /\ c[at].prev = prev_ptr
      /\ c[at].bytes = bytes /\ c[at].read = FALSE
  BY <1>1, <1>2 DEF Header
<1>5. \A k \in 1 .. m - 1 : c[at + k] = Body(written + 1, k)
  <2> SUFFICES ASSUME NEW k \in 1 .. m - 1 PROVE c[at + k] = Body(written + 1, k)
    OBVIOUS
  <2>1. at + k \in Nat /\ at + k < Words /\ at + k > at /\ at + k < at + m /\ (at + k) - at = k
    BY <1>1, <1>2, <1>3
  <2>2. at + k \in Ptr
    BY <1>3, <2>1 DEF Ptr
  <2> QED BY <1>2, <2>1, <2>2
<1>6. Unread(c, at) /\ End(c, at) = at + m
  BY <1>2, <1>4, <1>5 DEF Unread, Intact, End, prv_is_msg_read
<1>7. \A p \in Ptr : p >= at /\ p < at + m =>
        c[p].kind \in {"header", "body"} /\ c[p].id = written + 1 /\ (p # at => c[p].kind = "body")
  <2> SUFFICES ASSUME NEW p \in Ptr, p >= at, p < at + m
               PROVE  c[p].kind \in {"header", "body"} /\ c[p].id = written + 1 /\ (p # at => c[p].kind = "body")
    OBVIOUS
  <2>1. p # at => c[p] = Body(written + 1, p - at)
    BY <1>2, <1>3
  <2> QED BY <1>4, <2>1 DEF Body
<1> QED BY <1>1, <1>2, <1>4, <1>6, <1>7 DEF Stored

\* A write that is cut short stores a part, which is no message.
LEMMA CrashTears ==
  ASSUME buf \in [Ptr -> Word], write_ptr \in Ptr, prev_ptr \in Ptr, written \in Nat,
         written < MaxWrites, Numbered(buf, written),
         NEW bytes \in PayloadBytes, NEW m, m = MessageWords(bytes),
         m <= Words, NEW at, at = WriteAt(m), NEW k \in Nat, k < m, k = 0 => Wraps(m),
         NEW c, c = Store(MarkEnd(m), at, written + 1, bytes, k)
  PROVE  Torn(buf, c, write_ptr, at, m, k, prev_ptr, written) /\ (k > 0 \/ at # write_ptr)
<1>1. m \in Nat /\ m >= 3 /\ written + 1 \in 1 .. MaxWrites /\ k <= m
  BY PayloadAssumption, BoundsAssumption, MessageWordsNat
<1>2. /\ c \in [Ptr -> Word]
      /\ at \in Ptr /\ at + m <= Words /\ (at = write_ptr \/ at = 0)
      /\ at # write_ptr <=> Wraps(m)
      /\ \A p \in Ptr : (p < at \/ p >= at + k) /\ (at = write_ptr \/ p # write_ptr) => c[p] = buf[p]
      /\ at # write_ptr /\ write_ptr >= at + k => c[write_ptr] = END_POINTER
      /\ k > 0 => c[at] = Header(written + 1, bytes, prev_ptr)
      /\ \A p \in Ptr : p > at /\ p < at + k => c[p] = Body(written + 1, p - at)
  BY <1>1, StoreWords
<1>3. at \in Nat /\ Words \in Nat /\ (\A p \in Ptr : p \in Nat) /\ write_ptr \in Nat
  BY <1>2, WordsAssumption DEF Ptr
<1>4. k > 0 => /\ c[at].kind = "header" /\ c[at].id = written + 1 /\ c[at].prev = prev_ptr
               /\ c[at].bytes = bytes
  BY <1>2 DEF Header
<1>5. k > 0 => ~Intact(c, at)
  <2> SUFFICES ASSUME k > 0, Intact(c, at) PROVE FALSE
    OBVIOUS
  <2>1. k \in 1 .. MessageWords(c[at].bytes) - 1
    BY <1>1, <1>4
  <2>2. c[at + k] = Body(written + 1, k)
    BY <1>4, <2>1 DEF Intact
  <2>3. PICK p \in Ptr : p = at + k
    BY <1>1, <1>2, <1>3 DEF Ptr
  <2>4. c[p].kind = "body" /\ c[p].id = written + 1
    BY <2>2, <2>3 DEF Body
  <2>5. CASE at = write_ptr \/ p # write_ptr
    <3>1. c[p] = buf[p]
      BY <1>2, <1>3, <2>3, <2>5
    <3>2. buf[p].id <= written
      BY <2>4, <3>1 DEF Numbered
    <3> QED BY <2>4, <3>1, <3>2
  <2>6. CASE at # write_ptr /\ p = write_ptr
    <3>1. c[p] = END_POINTER
      BY <1>2, <1>3, <2>3, <2>6
    <3> QED BY <2>4, <3>1 DEF END_POINTER
  <2> QED BY <2>5, <2>6
<1>6. \A p \in Ptr : p >= at /\ p < at + k =>
        c[p].kind \in {"header", "body"} /\ c[p].id = written + 1 /\ (p # at => c[p].kind = "body")
  <2> SUFFICES ASSUME NEW p \in Ptr, p >= at, p < at + k
               PROVE  c[p].kind \in {"header", "body"} /\ c[p].id = written + 1 /\ (p # at => c[p].kind = "body")
    OBVIOUS
  <2>1. p # at => c[p] = Body(written + 1, p - at)
    BY <1>2, <1>3
  <2>2. k > 0
    BY <1>3
  <2> QED BY <1>4, <2>1, <2>2 DEF Body
<1>7. k > 0 \/ at # write_ptr
  BY <1>2
<1>8. k > 0 => c[at].prev = prev_ptr
  BY <1>4
<1>9. Torn(buf, c, write_ptr, at, m, k, prev_ptr, written)
  BY <1>1, <1>2, <1>5, <1>6, <1>8 DEF Torn
<1> QED BY <1>7, <1>9

\* A write that is no slip takes no word of an unread message.
LEMMA WriteIsFree ==
  ASSUME buf \in [Ptr -> Word], write_ptr \in Ptr, Listed(buf, owed),
         NEW bytes \in PayloadBytes, NEW m, m = MessageWords(bytes), m <= Words,
         NEW at, at = WriteAt(m), ~Overwrites(bytes)
  PROVE  Free(buf, write_ptr, at, m)
<1>1. m \in Nat /\ m >= 3
  BY PayloadAssumption, MessageWordsNat
<1>2. Words \in Nat /\ write_ptr \in Nat /\ at \in Nat /\ (at # write_ptr => Wraps(m))
  BY WordsAssumption DEF Ptr, WriteAt
<1>0. PICK z \in Nat : z = at + m /\ z > at
  BY <1>1, <1>2
<1>3. ~HoldsOwed(at, z) /\ (Wraps(m) => ~HoldsOwed(write_ptr, write_ptr + 1))
  BY <1>0 DEF Overwrites
<1>4. ASSUME NEW s \in Ptr, Unread(buf, s)
      PROVE  /\ End(buf, s) <= at \/ s >= at + m
             /\ at # write_ptr => write_ptr < s \/ write_ptr >= End(buf, s)
  <2>1. Intact(buf, s) /\ s \in Nat /\ End(buf, s) \in Nat /\ End(buf, s) >= s + 3
    BY <1>4, UnreadIs
  <2>2. IsOwed(buf[s].id)
    BY <1>4 DEF Listed, Lists, IsOwed
  <2>3. \A p \in s .. End(buf, s) - 1 : buf[p].kind \in {"header", "body"} /\ IsOwed(buf[p].id)
    BY <2>1, <2>2, OwnWords
  <2>4. End(buf, s) <= at \/ s >= z
    <3> SUFFICES ASSUME End(buf, s) > at, s < z PROVE FALSE
      BY <1>0, <1>2, <2>1
    <3>1. CASE s <= at
      <4>1. at \in at .. z - 1 /\ at \in s .. End(buf, s) - 1
        BY <1>0, <1>2, <2>1, <3>1
      <4>2. HoldsOwed(at, z)
        BY <2>3, <4>1 DEF HoldsOwed
      <4> QED BY <1>3, <4>2
    <3>2. CASE s > at
      <4>1. s \in at .. z - 1 /\ s \in s .. End(buf, s) - 1
        BY <1>0, <1>2, <2>1, <3>2
      <4>2. HoldsOwed(at, z)
        BY <2>3, <4>1 DEF HoldsOwed
      <4> QED BY <1>3, <4>2
    <3> QED BY <1>2, <2>1, <3>1, <3>2
  <2>5. at # write_ptr => write_ptr < s \/ write_ptr >= End(buf, s)
    <3> SUFFICES ASSUME at # write_ptr, write_ptr >= s, write_ptr < End(buf, s) PROVE FALSE
      BY <1>2, <2>1
    <3>1. /\ write_ptr \in write_ptr .. (write_ptr + 1) - 1
          /\ write_ptr \in s .. End(buf, s) - 1
      BY <1>2, <2>1
    <3>2. HoldsOwed(write_ptr, write_ptr + 1)
      BY <2>3, <3>1 DEF HoldsOwed
    <3> QED BY <1>2, <1>3, <3>2
  <2> QED BY <1>0, <2>4, <2>5
<1> QED BY <1>4 DEF Free

\* The oldest message owed is at the head of the queue.
LEMMA CalmResult ==
  ASSUME CalmState
  PROVE  HeadIsOldest /\ HeadIsIntact
<1>1. Calm(buf, read_ptr, write_ptr, prev_ptr, owed, written) /\ (can_complete_read => owed # <<>>)
  BY DEF CalmState
<1>2. /\ buf \in [Ptr -> Word] /\ read_ptr \in Ptr /\ read_ptr \in Nat /\ write_ptr \in Nat
      /\ owed \in Seq(Nat) /\ Listed(buf, owed) /\ Placed(buf, read_ptr, write_ptr, owed)
  BY <1>1 DEF Calm, Types, Ptr
<1>3. CASE owed = <<>>
  <2>1. read_ptr = write_ptr
    BY <1>2, <1>3 DEF Placed
  <2>2. ~Unread(buf, read_ptr)
    <3>1. Len(owed) = 0
      BY <1>3
    <3> QED BY <1>2, <3>1 DEF Listed, Lists
  <2>3. ~prv_is_msg_valid(buf, read_ptr) \/ prv_is_msg_read(buf, read_ptr)
    BY <2>2 DEF Unread, prv_is_msg_valid
  <2>4. ~(read_ptr # write_ptr \/ can_complete_read)
    BY <1>1, <1>3, <2>1
  <2> QED BY <1>3, <2>1, <2>3, <2>4 DEF HeadIsOldest, HeadIsIntact, ReadHeadResult
<1>4. CASE owed # <<>>
  <2>1. Unread(buf, read_ptr) /\ buf[read_ptr].id = owed[1]
    BY <1>1, <1>4, CalmHead
  <2>2. Head(owed) = owed[1]
    BY <1>2, <1>4
  <2>3. read_ptr = write_ptr => prv_is_msg_valid(buf, read_ptr)
    <3> SUFFICES ASSUME read_ptr = write_ptr PROVE prv_is_msg_valid(buf, read_ptr)
      OBVIOUS
    <3>1. PICK t \in Nat : Wrapped(buf, read_ptr, write_ptr, t)
      <4>1. ~Lower(buf, read_ptr, write_ptr)
        BY <1>2 DEF Lower
      <4> QED BY <1>2, <1>4, <4>1 DEF Placed
    <3>2. prv_is_msg_in_bounds(buf, read_ptr)
      BY <3>1 DEF Wrapped
    <3> QED BY <2>1, <3>2 DEF Unread, prv_is_msg_valid
  <2>4. HeadIsIntact
    BY <2>1 DEF Unread, HeadIsIntact
  <2>5. ~prv_is_msg_read(buf, read_ptr)
    BY <2>1 DEF Unread
  <2>6. ReadHeadResult = Head(owed)
    BY <2>1, <2>2, <2>3, <2>5 DEF ReadHeadResult
  <2> QED BY <1>4, <2>4, <2>6 DEF HeadIsOldest
<1> QED BY <1>3, <1>4

\* The oldest message owed is the first in the list, and only there.
LEMMA WithoutHead ==
  ASSUME owed \in Seq(Nat), owed # <<>>, Listed(buf, owed)
  PROVE  Without(Head(owed)) = Tail(owed)
<1>1. Len(owed) \in Nat /\ Len(owed) >= 1 /\ Head(owed) = owed[1] /\ 1 \in 1 .. Len(owed)
  BY EmptySeq
<1>2. \A i \in 1 .. Len(owed) : owed[i] = owed[1] => i = 1
  <2> SUFFICES ASSUME NEW i \in 1 .. Len(owed), i # 1 PROVE owed[i] # owed[1]
    OBVIOUS
  <2>1. 1 < i
    BY <1>1
  <2>2. owed[1] < owed[i]
    BY <1>1, <2>1 DEF Listed
  <2>3. owed[1] \in Nat /\ owed[i] \in Nat
    BY <1>1
  <2> QED BY <2>2, <2>3
<1>3. IsOwed(Head(owed))
  BY <1>1 DEF IsOwed
<1>4. (CHOOSE i \in 1 .. Len(owed) : owed[i] = Head(owed)) = 1
  BY <1>1, <1>2
<1>5. Without(Head(owed)) = SubSeq(owed, 1, 1 - 1) \o SubSeq(owed, 1 + 1, Len(owed))
  BY <1>3, <1>4 DEF Without
<1>6. SubSeq(owed, 1, 1 - 1) = <<>>
  BY <1>1
<1>7. SubSeq(owed, 1 + 1, Len(owed)) = Tail(owed)
  BY <1>1
<1>8. Tail(owed) \in Seq(Nat)
  BY <1>1
<1>9. <<>> \o Tail(owed) = Tail(owed)
  BY <1>8
<1> QED BY <1>5, <1>6, <1>7, <1>9

\* ticosd_queue_write
LEMMA WriteIsCalm ==
  ASSUME CalmState, NEW bytes \in PayloadBytes, OrderWrite(bytes), slips' = {}
  PROVE  CalmState' /\ owed' = Append(owed, written + 1) /\ payload' = payload
<1>1. /\ Calm(buf, read_ptr, write_ptr, prev_ptr, owed, written)
      /\ payload # NoMsg => can_complete_read /\ owed # <<>> /\ payload = Head(owed)
  BY DEF CalmState
<1>2. /\ buf \in [Ptr -> Word] /\ read_ptr \in Ptr /\ write_ptr \in Ptr /\ prev_ptr \in Ptr
      /\ owed \in Seq(Nat) /\ written \in Nat
      /\ Listed(buf, owed) /\ Placed(buf, read_ptr, write_ptr, owed)
  BY <1>1 DEF Calm, Types
<1>3. PICK m : m = MessageWords(bytes)
  OBVIOUS
<1>4. PICK at : at = WriteAt(m)
  OBVIOUS
<1> DEFINE overtaken == read_ptr # write_ptr /\ read_ptr > at /\ read_ptr < at + m
<1>5. /\ m <= Words /\ written < MaxWrites
      /\ buf' = Store(MarkEnd(m), at, written + 1, bytes, m)
      /\ read_ptr' = IF read_ptr = write_ptr THEN at
                     ELSE IF overtaken THEN SkipTo(MarkEnd(m), at + m)[read_ptr] ELSE read_ptr
      /\ can_complete_read' = (can_complete_read /\ ~overtaken)
      /\ prev_ptr' = at
      /\ write_ptr' = (at + m) % Words
      /\ written' = written + 1
      /\ payload' = payload
  BY <1>3, <1>4 DEF OrderWrite, ticosd_queue_write
<1>6. owed' = Append(owed, written + 1)
  BY <1>5 DEF OrderWrite
<1>7. ~Overwrites(bytes) /\ ~(read_ptr' = write_ptr' /\ EndsAtLastByte(buf', read_ptr'))
  BY DEF OrderWrite, Slip
<1>8. Stored(buf, buf', write_ptr, at, m, prev_ptr, written)
  BY <1>2, <1>3, <1>4, <1>5, WriteStores
<1>9. Free(buf, write_ptr, at, m)
  BY <1>2, <1>3, <1>4, <1>5, <1>7, WriteIsFree
<1>10. m \in Nat /\ m >= 3 /\ at \in Nat /\ at + m <= Words /\ Words \in Nat /\ Words >= 4
  BY <1>8, WordsAssumption DEF Stored, Ptr
<1>11. ~overtaken
  <2> SUFFICES ASSUME read_ptr # write_ptr, read_ptr > at, read_ptr < at + m PROVE FALSE
    OBVIOUS
  <2>1. owed # <<>>
    BY <1>2 DEF Placed
  <2>2. Unread(buf, read_ptr)
    BY <1>1, <2>1, CalmHead
  <2>3. End(buf, read_ptr) \in Nat /\ End(buf, read_ptr) >= read_ptr + 3 /\ read_ptr \in Nat
    BY <1>2, <2>2, UnreadIs
  <2>4. End(buf, read_ptr) <= at \/ read_ptr >= at + m
    BY <1>2, <1>9, <2>2 DEF Free
  <2> QED BY <1>10, <2>3, <2>4
<1>12. PICK y : y = (IF at + m = Words THEN 0 ELSE at + m)
  OBVIOUS
<1>13. write_ptr' = y
  <2>1. CASE at + m = Words
    <3>1. Words % Words = 0
      BY <1>10
    <3> QED BY <1>5, <1>12, <2>1, <3>1
  <2>2. CASE at + m < Words
    <3>1. PICK e \in Nat : e = at + m /\ e < Words
      BY <1>10, <2>2
    <3>2. e % Words = e
      BY <1>10, <3>1
    <3> QED BY <1>5, <1>12, <3>1, <3>2
  <2> QED BY <1>10, <2>1, <2>2
<1>14. PICK x : x = (IF read_ptr = write_ptr THEN at ELSE read_ptr)
  OBVIOUS
<1>15. read_ptr' = x /\ (can_complete_read => can_complete_read')
  <2> HIDE DEF overtaken
  <2>1. read_ptr' = x
    BY <1>5, <1>11, <1>14
  <2>2. can_complete_read => can_complete_read'
    BY <1>5, <1>11
  <2> QED BY <2>1, <2>2
<1>16. PICK c : c = buf'
  OBVIOUS
<1>17. x = y => ~EndsAtLastByte(c, x)
  BY <1>7, <1>13, <1>15, <1>16
<1>18. Stored(buf, c, write_ptr, at, m, prev_ptr, written)
  BY <1>8, <1>16
<1>19. Calm(c, x, y, at, Append(owed, written + 1), written + 1)
  BY <1>1, <1>9, <1>12, <1>14, <1>17, <1>18, CalmWrite
<1>20. Calm(buf', read_ptr', write_ptr', prev_ptr', owed', written')
  BY <1>5, <1>6, <1>13, <1>15, <1>16, <1>19
<1>21. owed' # <<>> /\ (owed # <<>> => Head(owed') = Head(owed))
  BY <1>2, <1>6
<1> QED BY <1>1, <1>5, <1>6, <1>15, <1>20, <1>21 DEF CalmState

\* ticosd_queue_read_head
LEMMA ReadHeadIsCalm ==
  ASSUME CalmState, OrderReadHead
  PROVE  CalmState' /\ payload = NoMsg /\ owed # <<>> /\ payload' = Head(owed) /\ owed' = owed
<1>1. /\ payload = NoMsg /\ ReadHeadResult # NoMsg /\ payload' = ReadHeadResult
      /\ can_complete_read' = TRUE
      /\ UNCHANGED <<buf, read_ptr, write_ptr, prev_ptr, written, owed>>
  BY DEF OrderReadHead, ticosd_queue_read_head
<1>2. ReadHeadResult = IF owed = <<>> THEN NoMsg ELSE Head(owed)
  BY CalmResult DEF HeadIsOldest
<1>3. owed # <<>> /\ payload' = Head(owed)
  BY <1>1, <1>2
<1>4. Calm(buf', read_ptr', write_ptr', prev_ptr', owed', written')
  BY <1>1 DEF CalmState
<1> QED BY <1>1, <1>3, <1>4 DEF CalmState

\* ticosd_queue_complete_read
LEMMA CompleteReadIsCalm ==
  ASSUME CalmState, OrderCompleteRead, slips' = {}
  PROVE  /\ CalmState'
         /\ payload # NoMsg /\ owed # <<>> /\ payload = Head(owed)
         /\ owed' = Tail(owed) /\ payload' = NoMsg
<1>1. /\ Calm(buf, read_ptr, write_ptr, prev_ptr, owed, written)
      /\ payload # NoMsg => can_complete_read /\ owed # <<>> /\ payload = Head(owed)
  BY DEF CalmState
<1>2. /\ buf \in [Ptr -> Word] /\ read_ptr \in Ptr
      /\ owed \in Seq(Nat) /\ Listed(buf, owed)
  BY <1>1 DEF Calm, Types
<1>3. payload # NoMsg /\ payload' = NoMsg
  BY DEF OrderCompleteRead, ticosd_queue_complete_read
<1>4. can_complete_read /\ owed # <<>> /\ payload = Head(owed)
  BY <1>1, <1>3
<1>5. /\ buf' = [buf EXCEPT ![read_ptr].read = TRUE]
      /\ read_ptr' = prv_get_next_message(buf, read_ptr)
      /\ can_complete_read' = FALSE
      /\ UNCHANGED <<write_ptr, prev_ptr, written>>
  BY <1>4 DEF OrderCompleteRead, ticosd_queue_complete_read
<1>6. owed' = Tail(owed)
  <2>1. owed' = Without(payload)
    BY DEF OrderCompleteRead
  <2> QED BY <1>2, <1>4, <2>1, WithoutHead
<1>7. ~StaleEndMet
  BY DEF OrderCompleteRead, Slip
<1>8. ~(End(buf, read_ptr) < Words /\ End(buf, read_ptr) = write_ptr /\ buf[write_ptr] = END_POINTER)
  BY <1>4, <1>7 DEF StaleEndMet, End
<1>9. Unread(buf, read_ptr)
  BY <1>1, <1>4, CalmHead
<1>10. PICK c : c = [buf EXCEPT ![read_ptr].read = TRUE]
  OBVIOUS
<1>11. Sent(buf, c, read_ptr)
  BY <1>2, <1>9, <1>10, MarkRead
<1>12. buf' = c
  BY <1>5, <1>10
<1>13. Calm(c, prv_get_next_message(buf, read_ptr), write_ptr, prev_ptr, Tail(owed), written)
  BY <1>1, <1>4, <1>8, <1>11, CalmComplete
<1>14. Calm(buf', read_ptr', write_ptr', prev_ptr', owed', written')
  BY <1>5, <1>6, <1>12, <1>13
<1> QED BY <1>3, <1>4, <1>5, <1>6, <1>14 DEF CalmState

\* What the slips at a start say.
LEMMA StartNoSlip ==
  ASSUME CalmState, ~FullAtStart, ~WalksBackTooFar, ~OwedEndsAtLastByte
  PROVE  /\ ~(owed # <<>> /\ read_ptr = write_ptr)
         /\ ~(write_ptr > 0 /\ read_ptr > write_ptr
              /\ buf[read_ptr].prev < write_ptr /\ buf[buf[read_ptr].prev].kind = "header")
         /\ \A p \in Ptr : Unread(buf, p) => ~EndsAtLastByte(buf, p)
<1>1. \A p \in Ptr : Unread(buf, p) => IsOwed(buf[p].id)
  BY DEF CalmState, Calm, Listed, Lists, IsOwed
<1>2. \A p \in Ptr : Unread(buf, p) => ~EndsAtLastByte(buf, p)
  BY <1>1 DEF OwedEndsAtLastByte
<1>3. ~(owed # <<>> /\ read_ptr = write_ptr)
  BY DEF FullAtStart
<1>4. ~(write_ptr > 0 /\ read_ptr > write_ptr
        /\ buf[read_ptr].prev < write_ptr /\ buf[buf[read_ptr].prev].kind = "header")
  BY DEF WalksBackTooFar
<1> QED BY <1>2, <1>3, <1>4

\* ticosd_queue_init, and ticosd_queue_reset if collection is disabled
LEMMA RestartIsCalm ==
  ASSUME CalmState, NEW en \in BOOLEAN, OrderRestart(en), slips' = {}
  PROVE  CalmState' /\ payload' = NoMsg /\ owed' = IF en THEN owed ELSE <<>>
<1>1. Calm(buf, read_ptr, write_ptr, prev_ptr, owed, written)
  BY DEF CalmState
<1>2. PICK found : found = prv_queue_find_read_write_ptr(buf)
  OBVIOUS
<1>3. /\ payload' = NoMsg /\ can_complete_read' = FALSE /\ written' = written
      /\ buf' = IF en THEN buf ELSE [buf EXCEPT ![0] = Zero, ![1] = Zero, ![2] = Zero]
      /\ read_ptr' = IF en THEN found.read ELSE 0
      /\ write_ptr' = IF en THEN found.write ELSE 0
      /\ prev_ptr' = IF en THEN found.prev ELSE 0
      /\ owed' = IF en THEN owed ELSE <<>>
  BY <1>2 DEF OrderRestart, Restart, Start
<1>4. ~FullAtStart /\ ~WalksBackTooFar /\ ~OwedEndsAtLastByte /\ ~(~en /\ LeavesUnread(buf'))
  BY DEF OrderRestart, Slip
<1>5. CASE en
  <2>1. Calm(buf, found.read, found.write, found.prev, owed, written)
    BY <1>1, <1>2, <1>4, StartNoSlip, CalmStart
  <2>2. Calm(buf', read_ptr', write_ptr', prev_ptr', owed', written')
    BY <1>3, <1>5, <2>1
  <2> QED BY <1>3, <2>2 DEF CalmState
<1>6. CASE ~en
  <2>1. PICK c : c = [buf EXCEPT ![0] = Zero, ![1] = Zero, ![2] = Zero]
    OBVIOUS
  <2>2. buf \in [Ptr -> Word] /\ Zero \in Word
    BY <1>1 DEF Calm, Types, Word
  <2>3. c \in [Ptr -> Word] /\ \A p \in Ptr : c[p] = buf[p] \/ c[p] = Zero
    <3> HIDE DEF Ptr, Word, Zero
    <3> QED BY <2>1, <2>2
  <2>4. buf' = c
    BY <1>3, <1>6, <2>1
  <2>5. ~LeavesUnread(c)
    BY <1>4, <1>6, <2>4
  <2>6. \A p \in Ptr : ~Unread(c, p)
    BY <2>5 DEF LeavesUnread, Unread, prv_is_msg_read
  <2>7. Calm(c, 0, 0, 0, <<>>, written)
    BY <1>1, <2>3, <2>6, CalmReset
  <2>8. Calm(buf', read_ptr', write_ptr', prev_ptr', owed', written')
    BY <1>3, <1>6, <2>4, <2>7
  <2> QED BY <1>3, <2>8 DEF CalmState
<1> QED BY <1>5, <1>6, <1>3

\* A crash inside ticosd_queue_write, and ticosd_queue_init on what it left
LEMMA CrashIsCalm ==
  ASSUME CalmState, NEW bytes \in PayloadBytes, NEW k \in 0 .. Words - 1,
         OrderCrashInWrite(bytes, k), slips' = {}
  PROVE  CalmState' /\ payload' = NoMsg /\ owed' = owed
<1>1. Calm(buf, read_ptr, write_ptr, prev_ptr, owed, written)
  BY DEF CalmState
<1>2. /\ buf \in [Ptr -> Word] /\ write_ptr \in Ptr /\ prev_ptr \in Ptr
      /\ written \in Nat /\ Listed(buf, owed) /\ Numbered(buf, written)
  BY <1>1 DEF Calm, Types
<1>3. PICK m : m = MessageWords(bytes)
  OBVIOUS
<1>4. PICK at : at = WriteAt(m)
  OBVIOUS
<1>5. PICK c : c = Store(MarkEnd(m), at, written + 1, bytes, k)
  OBVIOUS
<1>6. PICK found : found = prv_queue_find_read_write_ptr(c)
  OBVIOUS
<1>7. /\ m <= Words /\ written < MaxWrites /\ k < m /\ (k = 0 => Wraps(m))
      /\ written' = written + 1 /\ payload' = NoMsg /\ can_complete_read' = FALSE
      /\ buf' = c /\ owed' = owed
      /\ read_ptr' = found.read /\ write_ptr' = found.write /\ prev_ptr' = found.prev
  BY <1>3, <1>4, <1>5, <1>6 DEF OrderCrashInWrite, CrashInWrite, Start
<1>8. /\ ~Overwrites(bytes) /\ ~FullAtStart /\ ~WalksBackTooFar /\ ~OwedEndsAtLastByte
      /\ ~TornAtZero(bytes, k)
  BY DEF OrderCrashInWrite, Slip
<1>9. k \in Nat
  OBVIOUS
<1>10. Torn(buf, c, write_ptr, at, m, k, prev_ptr, written) /\ (k > 0 \/ at # write_ptr)
  BY <1>2, <1>3, <1>4, <1>5, <1>7, <1>9, CrashTears
<1>11. Free(buf, write_ptr, at, m)
  BY <1>2, <1>3, <1>4, <1>7, <1>8, WriteIsFree
<1>12. k > 0 /\ at = 0 => owed = <<>>
  BY <1>3, <1>4, <1>8 DEF TornAtZero
<1>13. Tearing(buf, c, read_ptr, write_ptr, prev_ptr, owed, written, at, m, k)
  BY <1>1, <1>10, <1>11, <1>12 DEF Tearing
<1>14. Calm(c, found.read, found.write, found.prev, owed, written + 1)
  BY <1>6, <1>8, <1>13, StartNoSlip, CalmTorn
<1>15. Calm(buf', read_ptr', write_ptr', prev_ptr', owed', written')
  BY <1>7, <1>14
<1> QED BY <1>7, <1>15 DEF CalmState

-----------------------------------------------------------------------------
\* The inductive invariant over restarts: the queue is in order until the
\* first slip.
CalmInv == slips = {} => CalmState

\* An empty queue is in order.
LEMMA CalmInit == OrderInit => CalmInv
<1> SUFFICES ASSUME OrderInit PROVE CalmState
  BY DEF CalmInv
<1>1. /\ buf = [p \in Ptr |-> Zero] /\ read_ptr = 0 /\ write_ptr = 0 /\ prev_ptr = 0
      /\ can_complete_read = FALSE /\ payload = NoMsg /\ written = 0 /\ owed = <<>>
  BY DEF OrderInit, Init
<1>2. Zero \in Word /\ Zero.kind = "zero"
  BY DEF Word, Zero
<1>3. buf \in [Ptr -> Word] /\ \A p \in Ptr : buf[p].kind = "zero"
  <2> HIDE DEF Word, Zero
  <2> QED BY <1>1, <1>2
<1>4. \A p \in Ptr : ~Unread(buf, p)
  BY <1>3 DEF Unread, Intact
<1>5. Numbered(buf, 0) /\ Backwards(buf, 0, 0)
  BY <1>3 DEF Numbered, Backwards
<1>6. Tiled(buf, 0, 0) /\ 0 \in Ptr /\ <<>> \in Seq(Nat) /\ Len(<<>>) = 0
  BY WordsAssumption DEF Tiled, Ptr
<1>7. Listed(buf, <<>>)
  BY <1>4, <1>6 DEF Listed
<1>8. Placed(buf, 0, 0, <<>>) /\ Linked(buf, 0, 0, 0, <<>>) /\ InOrder(buf, 0)
  BY <1>4, <1>6 DEF Placed, Linked, InOrder
<1>9. Types(buf, 0, 0, 0, <<>>, 0)
  BY <1>3, <1>6 DEF Types
<1>10. Calm(buf, 0, 0, 0, <<>>, 0)
  BY <1>5, <1>7, <1>8, <1>9 DEF Calm
<1> QED BY <1>1, <1>10 DEF CalmState

\* Until the first slip every step keeps the queue in order, and is a step of
\* the FIFO.
LEMMA CalmStep ==
  ASSUME CalmState, slips = {}, OrderNext, slips' = {}
  PROVE  CalmState' /\ Fifo!Promised
<1>1. ASSUME NEW bytes \in PayloadBytes, OrderWrite(bytes) PROVE CalmState' /\ Fifo!Promised
  <2>1. CalmState' /\ owed' = Append(owed, written + 1) /\ payload' = payload
    BY <1>1, WriteIsCalm
  <2>2. owed \in Seq(Nat) /\ written \in Nat
    BY DEF CalmState, Calm, Types
  <2>3. Len(owed') = Len(owed) + 1 /\ SubSeq(owed', 1, Len(owed)) = owed
    BY <2>1, <2>2
  <2> QED BY <2>1, <2>3 DEF Fifo!Accept, Fifo!Promised
<1>2. CASE OrderReadHead
  <2>1. CalmState' /\ payload = NoMsg /\ owed # <<>> /\ payload' = Head(owed) /\ owed' = owed
    BY <1>2, ReadHeadIsCalm
  <2> QED BY <2>1 DEF Fifo!Take, Fifo!Promised
<1>3. CASE OrderCompleteRead
  <2>1. /\ CalmState'
        /\ payload # NoMsg /\ owed # <<>> /\ payload = Head(owed)
        /\ owed' = Tail(owed) /\ payload' = NoMsg
    BY <1>3, CompleteReadIsCalm
  <2> QED BY <2>1 DEF Fifo!Finish, Fifo!Promised
<1>4. CASE OrderRetryLater
  <2>1. payload' = NoMsg /\ UNCHANGED <<buf, read_ptr, write_ptr, prev_ptr, can_complete_read, written, owed>>
    BY <1>4 DEF OrderRetryLater, RetryLater, handle
  <2>2. Calm(buf', read_ptr', write_ptr', prev_ptr', owed', written')
    BY <2>1 DEF CalmState
  <2>3. can_complete_read' => owed' # <<>>
    BY <2>1 DEF CalmState
  <2>4. CalmState'
    BY <2>1, <2>2, <2>3 DEF CalmState
  <2> QED BY <2>1, <2>4 DEF Fifo!Forget, Fifo!Promised
<1>5. ASSUME NEW en \in Collection, OrderRestart(en) PROVE CalmState' /\ Fifo!Promised
  <2>1. en \in BOOLEAN
    BY CollectionAssumption
  <2>2. CalmState' /\ payload' = NoMsg /\ owed' = IF en THEN owed ELSE <<>>
    BY <1>5, <2>1, RestartIsCalm
  <2> QED BY <2>1, <2>2 DEF Fifo!Forget, Fifo!Discard, Fifo!Promised
<1>6. ASSUME NEW bytes \in PayloadBytes, NEW k \in 0 .. Words - 1, OrderCrashInWrite(bytes, k)
      PROVE  CalmState' /\ Fifo!Promised
  <2>1. CalmState' /\ payload' = NoMsg /\ owed' = owed
    BY <1>6, CrashIsCalm
  <2> QED BY <2>1 DEF Fifo!Forget, Fifo!Promised
<1> QED BY <1>1, <1>2, <1>3, <1>4, <1>5, <1>6 DEF OrderNext

\* The invariant is inductive.
LEMMA CalmInvStep == CalmInv /\ [OrderNext]_allVars => CalmInv'
<1> SUFFICES ASSUME CalmInv, [OrderNext]_allVars, slips' = {} PROVE CalmState'
  BY DEF CalmInv
<1>1. CASE OrderNext
  <2>1. slips = {}
    BY <1>1 DEF OrderNext
  <2> QED BY <1>1, <2>1, CalmStep DEF CalmInv
<1>2. CASE UNCHANGED allVars
  <2>1. UNCHANGED <<buf, read_ptr, write_ptr, prev_ptr, can_complete_read, payload, written, owed, slips>>
    BY <1>2 DEF allVars, vars, handle
  <2>2. CalmState
    BY <2>1 DEF CalmInv
  <2>3. Calm(buf', read_ptr', write_ptr', prev_ptr', owed', written')
    BY <2>1, <2>2 DEF CalmState
  <2>4. can_complete_read' => owed' # <<>>
    BY <2>1, <2>2 DEF CalmState
  <2>5. payload' # NoMsg => can_complete_read' /\ owed' # <<>> /\ payload' = Head(owed')
    BY <2>1, <2>2 DEF CalmState
  <2> QED BY <2>3, <2>4, <2>5 DEF CalmState
<1> QED BY <1>1, <1>2

\* Every behaviour of the ring buffer, with its wraps, restarts and torn
\* writes, keeps it in order until the first slip, for every buffer size,
\* every set of payload sizes and any number of writes and restarts.
THEOREM QueueInvariant == OrderSpec => []CalmInv
BY CalmInit, CalmInvStep, PTL DEF OrderSpec

\* Until the first slip ticosd_queue_read_head returns the oldest message
\* owed: after a restart, too, prv_queue_find_read_write_ptr finds it.
THEOREM HandsOutTheOldest == OrderSpec => []HeadIsOldestUnlessSlip
<1>1. CalmInv => HeadIsOldestUnlessSlip
  BY CalmResult DEF CalmInv, HeadIsOldestUnlessSlip
<1> QED BY <1>1, QueueInvariant, PTL

\* Until the first slip the header that ticosd_queue_read_head and
\* ticosd_queue_complete_read follow heads a whole message, also after
\* restarts and torn writes.
THEOREM HeadStaysIntact == OrderSpec => []HeadIsIntactUnlessSlip
<1>1. CalmInv => HeadIsIntactUnlessSlip
  BY CalmResult DEF CalmInv, HeadIsIntactUnlessSlip
<1> QED BY <1>1, QueueInvariant, PTL

\* The ring buffer of src/queue.c implements the FIFO of TxFifo, which
\* promises each message once and in order until the first slip.
THEOREM ImplementsFifo == OrderSpec => FifoSpec
<1>1. OrderInit => Fifo!Init
  BY DEF OrderInit, Init, Fifo!Init
<1>2. CalmInv /\ [OrderNext]_allVars => [Fifo!Next]_(Fifo!vars)
  <2> SUFFICES ASSUME CalmInv, [OrderNext]_allVars PROVE [Fifo!Next]_(Fifo!vars)
    OBVIOUS
  <2>1. CASE OrderNext
    <3>1. slips = {}
      BY <2>1 DEF OrderNext
    <3>2. slips' = {} => Fifo!Promised
      BY <2>1, <3>1, CalmStep DEF CalmInv
    <3> QED BY <3>1, <3>2 DEF Fifo!Next
  <2>2. CASE UNCHANGED allVars
    <3>1. UNCHANGED <<owed, payload, slips>>
      BY <2>2 DEF allVars, vars, handle
    <3> QED BY <3>1 DEF Fifo!vars
  <2> QED BY <2>1, <2>2
<1> QED BY <1>1, <1>2, QueueInvariant, PTL DEF OrderSpec, FifoSpec, Fifo!Spec
=============================================================================
