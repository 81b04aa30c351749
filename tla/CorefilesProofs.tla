---------------------------- MODULE CorefilesProofs ----------------------------
(***************************************************************************)
(* The promises of Corefiles for any set of file names, any sizes, limits  *)
(* and capacity of the queue, and any number of restarts and interrupts.   *)
(*                                                                         *)
(* A name is with the plugin, then in the queue, then with the main thread *)
(* and is never used again (NameInv): so the threads never work on the     *)
(* same file, and an entry is overwritten, completed or forgotten only     *)
(* where the history records it.  An entry is in the queue once, and the   *)
(* one that is being uploaded is the head or gone (HeadInv).  A file that  *)
(* the main thread asked about stays on the disk until it is committed and *)
(* deleted (UploadInv).  The space that prv_check_for_available_space      *)
(* found is still there when the file is complete, since meanwhile files   *)
(* are only deleted (SpaceInv).                                            *)
(***************************************************************************)
EXTENDS Corefiles, FiniteSetTheorems, TLAPS

\* The types of the variables that TypeOK leaves out.
NumTypes ==
  /\ limit \in Nat /\ crashes \in Nat /\ interrupted \in Nat
  /\ unanswered \subseteq Files

\* Where a name can be.
NameInv ==
  /\ fresh \cap (OnDisk \cup Queued \cup committed \cup forgotten) = {}
  /\ writer = "idle" => outfile = NoFile
  /\ writer # "idle" => /\ outfile \in OnDisk
                        /\ outfile \notin Queued \cup committed \cup forgotten
                        /\ uploader # "idle" => filename # outfile
  /\ uploader # "idle" => filename \in Files \ fresh

\* There is an entry to complete.
ReadInv == can_complete_read => queue # <<>>

\* No entry is there twice, and the one being uploaded is the one that
\* ticosd_queue_complete_read will remove, if it is still there.
Unique(q) == \A i, j \in 1 .. Len(q) : q[i] = q[j] => i = j
HeadInv ==
  /\ Unique(queue)
  /\ uploader # "idle" /\ filename \in Queued => can_complete_read /\ filename = Head(queue)

\* What the main thread knows of its file; a file that was committed and
\* answered is deleted next, or it could not be deleted and its entry is gone.
UploadInv ==
  /\ uploader \in {"prepare", "upload", "commit", "unlink"} => filename \in OnDisk
  /\ uploader = "unlink" => filename \in committed
  /\ crashes = 0 => \A f \in committed \ unanswered :
                      \/ f \notin OnDisk
                      \/ uploader \in {"unlink", "unlinked"} /\ filename = f
                      \/ f \notin Queued /\ (uploader # "idle" => filename # f)

\* A file that is being written has room for all that it may grow to.
Room(f, n) ==
  /\ max_usage # 0 /\ f \notin unmeasured => Used + n <= max_usage
  /\ min_headroom # 0 => Used + n <= Disk - min_headroom
SpaceInv ==
  /\ IsFiniteSet(Blocks)
  /\ writer = "writing" => size[outfile] = 0 /\ Room(outfile, limit)
  /\ LimitsHold

IInv ==
  /\ TypeOK /\ NumTypes
  /\ NameInv /\ ReadInv /\ HeadInv /\ UploadInv /\ SpaceInv /\ NoOrphanUnlessLost

-----------------------------------------------------------------------------
(* The queue *)

\* The names in a queue.
Names(q) == {q[i] : i \in 1 .. Len(q)}

\* Removing the head leaves the other names.
LEMMA NamesTail ==
  ASSUME NEW q \in Seq(Files), q # <<>>
  PROVE  /\ Tail(q) \in Seq(Files) /\ Len(Tail(q)) = Len(q) - 1 /\ Len(q) \in Nat \ {0}
         /\ Head(q) \in Files
         /\ Names(q) = {Head(q)} \cup Names(Tail(q))
<1>1. /\ Tail(q) \in Seq(Files) /\ Len(Tail(q)) = Len(q) - 1 /\ Len(q) \in Nat \ {0}
      /\ \A i \in 1 .. Len(q) - 1 : Tail(q)[i] = q[i + 1]
      /\ Head(q) = q[1] /\ q[1] \in Files
  OBVIOUS
<1>2. ASSUME NEW x \in Names(q) PROVE x = Head(q) \/ x \in Names(Tail(q))
  <2>1. PICK i \in 1 .. Len(q) : x = q[i]
    BY <1>2 DEF Names
  <2>2. CASE i = 1
    BY <2>1, <2>2, <1>1
  <2>3. CASE i # 1
    <3>1. i - 1 \in 1 .. Len(Tail(q)) /\ Tail(q)[i - 1] = x
      BY <2>1, <2>3, <1>1
    <3>2. QED
      BY <3>1 DEF Names
  <2>4. QED
    BY <2>2, <2>3
<1>3. Head(q) \in Names(q)
  BY <1>1 DEF Names
<1>4. ASSUME NEW x \in Names(Tail(q)) PROVE x \in Names(q)
  <2>1. PICK i \in 1 .. Len(q) - 1 : x = q[i + 1]
    BY <1>1, <1>4 DEF Names
  <2>2. i + 1 \in 1 .. Len(q)
    BY <1>1
  <2>3. QED
    BY <2>1, <2>2 DEF Names
<1>5. QED
  BY <1>1, <1>2, <1>3, <1>4

\* A new entry adds its name.
LEMMA NamesAppend ==
  ASSUME NEW q \in Seq(Files), NEW f \in Files
  PROVE  /\ Append(q, f) \in Seq(Files) /\ Len(Append(q, f)) = Len(q) + 1 /\ Len(q) \in Nat
         /\ Names(Append(q, f)) = Names(q) \cup {f}
<1>1. /\ Append(q, f) \in Seq(Files) /\ Len(Append(q, f)) = Len(q) + 1 /\ Len(q) \in Nat
      /\ \A i \in 1 .. Len(q) : Append(q, f)[i] = q[i]
      /\ Append(q, f)[Len(q) + 1] = f
  OBVIOUS
<1>2. QED
  BY <1>1 DEF Names

\* So does one that takes the place of the head.
LEMMA NamesPut ==
  ASSUME NEW q \in Seq(Files), NEW f \in Files
  PROVE  /\ <<f>> \o q \in Seq(Files) /\ Len(<<f>> \o q) = Len(q) + 1
         /\ Names(<<f>> \o q) = Names(q) \cup {f}
<1>1. /\ <<f>> \o q \in Seq(Files) /\ Len(<<f>> \o q) = Len(q) + 1 /\ Len(q) \in Nat
      /\ \A i \in 1 .. Len(q) : (<<f>> \o q)[i + 1] = q[i]
      /\ (<<f>> \o q)[1] = f
  OBVIOUS
<1>2. ASSUME NEW x \in Names(q) PROVE x \in Names(<<f>> \o q)
  <2>1. PICK i \in 1 .. Len(q) : x = q[i]
    BY <1>2 DEF Names
  <2>2. i + 1 \in 1 .. Len(<<f>> \o q)
    BY <1>1
  <2>3. QED
    BY <2>1, <2>2, <1>1 DEF Names
<1>3. f \in Names(<<f>> \o q)
  BY <1>1 DEF Names
<1>4. ASSUME NEW x \in Names(<<f>> \o q) PROVE x \in Names(q) \cup {f}
  <2>1. PICK i \in 1 .. Len(<<f>> \o q) : x = (<<f>> \o q)[i]
    BY <1>4 DEF Names
  <2>2. CASE i = 1
    BY <2>1, <2>2, <1>1
  <2>3. CASE i # 1
    <3>1. i - 1 \in 1 .. Len(q) /\ q[i - 1] = x
      BY <2>1, <2>3, <1>1
    <3>2. QED
      BY <3>1 DEF Names
  <2>4. QED
    BY <2>2, <2>3
<1>5. QED
  BY <1>1, <1>2, <1>3, <1>4

\* The tail of a queue without repetitions is one without its head.
LEMMA UniqueTail ==
  ASSUME NEW q \in Seq(Files), q # <<>>, Unique(q)
  PROVE  Unique(Tail(q)) /\ Head(q) \notin Names(Tail(q))
<1>1. /\ Tail(q) \in Seq(Files) /\ Len(Tail(q)) = Len(q) - 1 /\ Len(q) \in Nat \ {0}
      /\ \A i \in 1 .. Len(q) - 1 : Tail(q)[i] = q[i + 1]
      /\ Head(q) = q[1]
  OBVIOUS
<1>2. \A i \in 1 .. Len(q) - 1 : i + 1 \in 1 .. Len(q) /\ i + 1 # 1 /\ 1 \in 1 .. Len(q)
  BY <1>1
<1>3. ASSUME NEW i \in 1 .. Len(Tail(q)), NEW j \in 1 .. Len(Tail(q)), Tail(q)[i] = Tail(q)[j]
      PROVE  i = j
  <2>1. i + 1 = j + 1
    BY <1>1, <1>2, <1>3 DEF Unique
  <2>2. QED
    BY <2>1
<1>4. Head(q) \notin Names(Tail(q))
  BY <1>1, <1>2 DEF Names, Unique
<1>5. QED
  BY <1>3, <1>4 DEF Unique

\* A new name repeats none.
LEMMA UniqueAppend ==
  ASSUME NEW q \in Seq(Files), NEW f \in Files, Unique(q), f \notin Names(q)
  PROVE  Unique(Append(q, f)) /\ (q # <<>> => Head(Append(q, f)) = Head(q))
<1>1. /\ Len(Append(q, f)) = Len(q) + 1 /\ Len(q) \in Nat
      /\ \A i \in 1 .. Len(q) : Append(q, f)[i] = q[i]
      /\ Append(q, f)[Len(q) + 1] = f
  OBVIOUS
<1>2. q # <<>> => Head(Append(q, f)) = Head(q)
  OBVIOUS
<1>3. \A i \in 1 .. Len(q) : q[i] # f
  BY DEF Names
<1>4. ASSUME NEW i \in 1 .. Len(q) + 1, NEW j \in 1 .. Len(q) + 1, Append(q, f)[i] = Append(q, f)[j]
      PROVE  i = j
  <2>1. (i \in 1 .. Len(q) \/ i = Len(q) + 1) /\ (j \in 1 .. Len(q) \/ j = Len(q) + 1)
    BY <1>1
  <2>2. QED
    BY <1>1, <1>3, <1>4, <2>1 DEF Unique
<1>5. QED
  BY <1>1, <1>2, <1>4 DEF Unique

\* Nor does one in front.
LEMMA UniquePut ==
  ASSUME NEW q \in Seq(Files), NEW f \in Files, Unique(q), f \notin Names(q)
  PROVE  Unique(<<f>> \o q)
<1>1. /\ Len(<<f>> \o q) = Len(q) + 1 /\ Len(q) \in Nat
      /\ \A i \in 1 .. Len(q) : (<<f>> \o q)[i + 1] = q[i]
      /\ (<<f>> \o q)[1] = f
  OBVIOUS
<1>2. \A i \in 1 .. Len(q) : q[i] # f
  BY DEF Names
<1>3. ASSUME NEW i \in 1 .. Len(q) + 1, NEW j \in 1 .. Len(q) + 1,
             (<<f>> \o q)[i] = (<<f>> \o q)[j]
      PROVE  i = j
  <2>1. ASSUME NEW m \in 1 .. Len(q) + 1
        PROVE  m = 1 \/ (m - 1 \in 1 .. Len(q) /\ (<<f>> \o q)[m] = q[m - 1])
    <3>1. m = 1 \/ (m - 1 \in 1 .. Len(q) /\ (m - 1) + 1 = m)
      BY <1>1
    <3>2. QED
      BY <1>1, <3>1
  <2>2. CASE i = 1 /\ j = 1
    BY <2>2
  <2>3. CASE i # 1 /\ j # 1
    <3>1. q[i - 1] = q[j - 1] /\ i - 1 \in 1 .. Len(q) /\ j - 1 \in 1 .. Len(q)
      BY <1>3, <2>1, <2>3
    <3>2. i - 1 = j - 1
      BY <3>1 DEF Unique
    <3>3. QED
      BY <3>2
  <2>4. CASE i = 1 /\ j # 1
    BY <1>1, <1>2, <1>3, <2>1, <2>4
  <2>5. CASE i # 1 /\ j = 1
    BY <1>1, <1>2, <1>3, <2>1, <2>5
  <2>6. QED
    BY <2>2, <2>3, <2>4, <2>5
<1>4. QED
  BY <1>1, <1>3 DEF Unique

\* What a start may find is a queue of entries that were there.
LEMMA FoundIsQueue ==
  ASSUME TypeOK, NEW q \in Found
  PROVE  /\ q \in Seq(Files) /\ Len(q) <= Capacity /\ Unique(q)
         /\ Names(q) \subseteq Queued \cup forgotten
<1>1. PICK n \in 0 .. Capacity : q \in [1 .. n -> Queued \cup forgotten]
  BY DEF Found
<1>2. Queued \cup forgotten \subseteq Files /\ n \in Nat /\ n <= Capacity
  <2>1. \A i \in 1 .. Len(queue) : queue[i] \in Files
    BY DEF TypeOK
  <2>2. QED
    BY <2>1, BoundsAssumption DEF TypeOK, Queued
<1>3. q \in [1 .. n -> Files]
  BY <1>1, <1>2
<1>4. q \in Seq(Files) /\ Len(q) = n /\ DOMAIN q = 1 .. n
  BY <1>2, <1>3
<1>5. Unique(q)
  BY <1>4 DEF Found, Unique
<1>6. Names(q) \subseteq Queued \cup forgotten
  BY <1>1, <1>4 DEF Names
<1>7. QED
  BY <1>2, <1>4, <1>5, <1>6

-----------------------------------------------------------------------------
(* The space *)

\* What is in use when one file changes its size, or is deleted: at most what
\* was in use before, and the new size of that file.
LEMMA Grows ==
  ASSUME TypeOK, IsFiniteSet(Blocks),
         NEW f, NEW n \in Nat, DOMAIN size' \subseteq OnDisk \cup {f},
         \A g \in DOMAIN size' \ {f} : size'[g] = size[g],
         f \in DOMAIN size' => size'[f] = n
  PROVE  /\ IsFiniteSet(Blocks') /\ Used \in Nat /\ Used' \in Nat
         /\ Used' <= Used + n
<1> DEFINE F == {f} \X (1 .. n)
<1>1. Blocks' \subseteq Blocks \cup F
  BY DEF Blocks, OnDisk
<1>2. IsFiniteSet(F) /\ Cardinality(F) = n
  <2>1. IsFiniteSet(1 .. n) /\ Cardinality(1 .. n) = n
    BY FS_Interval
  <2>2. IsFiniteSet({f}) /\ Cardinality({f}) = 1
    BY FS_Singleton
  <2>3. /\ IsFiniteSet({f} \X (1 .. n))
        /\ Cardinality({f} \X (1 .. n)) = Cardinality({f}) * Cardinality(1 .. n)
    <3> HIDE DEF F
    <3> QED
      BY <2>1, <2>2, FS_Product, Zenon
  <2>4. 1 * n = n
    OBVIOUS
  <2>5. QED
    BY <2>1, <2>2, <2>3, <2>4, Zenon
<1> HIDE DEF F
<1>3. /\ IsFiniteSet(Blocks \cup F)
      /\ Cardinality(Blocks \cup F) = Cardinality(Blocks) + Cardinality(F) - Cardinality(Blocks \cap F)
  BY <1>2, FS_Union
<1>4. IsFiniteSet(Blocks \cap F)
  BY FS_Subset, Blocks \cap F \subseteq Blocks
<1>5. Cardinality(Blocks) \in Nat /\ Cardinality(Blocks \cap F) \in Nat
  BY <1>4, FS_CardinalityType
<1>6. IsFiniteSet(Blocks') /\ Cardinality(Blocks') <= Cardinality(Blocks \cup F)
  BY <1>1, <1>3, FS_Subset
<1>7. Cardinality(Blocks') \in Nat
  BY <1>6, FS_CardinalityType
<1>8. QED
  BY <1>2, <1>3, <1>5, <1>6, <1>7 DEF Used

\* The least of a few numbers is one of them and no more than the others.
LEMMA MinOf ==
  ASSUME NEW S, NEW a \in Int, NEW b \in Int, NEW c \in Int,
         a \in S, S \subseteq {a, b, c}
  PROVE  Min(S) \in S /\ \A x \in S : Min(S) <= x
<1>1. \E x \in S : \A y \in S : x <= y
  OBVIOUS
<1>2. QED
  BY <1>1 DEF Min

\* The limit of a new file leaves all others theirs, if the folder was measured.
LEMMA LimitLeavesRoom ==
  ASSUME Used \in Nat, NEW used \in {Used, 0}, prv_check_for_available_space(used) > 0
  PROVE  /\ prv_check_for_available_space(used) \in Nat
         /\ max_usage # 0 => used + prv_check_for_available_space(used) <= max_usage
         /\ min_headroom # 0 => Used + prv_check_for_available_space(used) <= Disk - min_headroom
<1> USE LimitsAssumption
<1> DEFINE a == max_size
           b == Free - min_headroom
           c == max_usage - used
           deltas == {a} \cup (IF min_headroom # 0 THEN {b} ELSE {})
                         \cup (IF max_usage # 0 THEN {c} ELSE {})
<1>1. a \in Int /\ b \in Int /\ c \in Int /\ a \in deltas /\ deltas \subseteq {a, b, c}
  BY DEF Free
<1>2. CASE min_headroom = 0 /\ max_usage = 0 /\ max_size = 0
  BY <1>2 DEF prv_check_for_available_space, Free
<1>3. CASE ~(min_headroom = 0 /\ max_usage = 0 /\ max_size = 0)
  <2>1. prv_check_for_available_space(used)
          = IF \E d \in deltas : d <= 0 THEN 0 ELSE Min(deltas)
    BY <1>3, Zenon DEF prv_check_for_available_space
  <2>2. ~\E d \in deltas : d <= 0
    <3> SUFFICES ASSUME \E d \in deltas : d <= 0 PROVE FALSE
      OBVIOUS
    <3>1. prv_check_for_available_space(used) = 0
      BY <2>1
    <3>2. QED
      BY <3>1
  <2>3. prv_check_for_available_space(used) = Min(deltas)
    BY <2>1, <2>2
  <2>4. (min_headroom # 0 => b \in deltas) /\ (max_usage # 0 => c \in deltas)
    OBVIOUS
  <2> HIDE DEF deltas
  <2>5. Min(deltas) \in deltas /\ \A x \in deltas : Min(deltas) <= x
    BY <1>1, MinOf
  <2>6. prv_check_for_available_space(used) \in Int
    BY <1>1, <2>3, <2>5
  <2>7. /\ min_headroom # 0 => prv_check_for_available_space(used) <= b
        /\ max_usage # 0 => prv_check_for_available_space(used) <= c
    BY <2>3, <2>4, <2>5
  <2>8. QED
    BY <2>6, <2>7 DEF Free
<1>4. QED
  BY <1>2, <1>3

\* Some of the blocks are no more than all of them.
LEMMA PartOf ==
  ASSUME NEW B, IsFiniteSet(B), NEW M, M \subseteq B
  PROVE  Cardinality(M) \in Nat /\ Cardinality(B) \in Nat /\ Cardinality(M) <= Cardinality(B)
BY FS_Subset, FS_CardinalityType

\* Arithmetic of the limits: what takes less still fits, and a file that grew
\* into its room, but for k bytes, leaves the headroom, but for k bytes.
LEMMA LessFits ==
  ASSUME NEW v \in Nat, NEW u \in Nat, NEW l \in Nat, NEW x \in Int, v <= u, u + l <= x
  PROVE  v + l <= x
OBVIOUS

LEMMA LessUsed ==
  ASSUME NEW p \in Nat, NEW m \in Nat, NEW i \in Nat, NEW j \in Nat, NEW x \in Int,
         p <= m, i <= j, m <= x + i
  PROVE  p <= x + j
OBVIOUS

LEMMA MoreFree ==
  ASSUME NEW v \in Nat, NEW u \in Nat, NEW i \in Nat, NEW j \in Nat, NEW d \in Int,
         NEW h \in Int, v <= u, i <= j, d - u >= h - i
  PROVE  d - v >= h - j
OBVIOUS

LEMMA GrownFits ==
  ASSUME NEW v \in Nat, NEW u \in Nat, NEW l \in Nat, NEW n \in Nat, NEW i \in Nat,
         NEW k \in Nat, NEW d \in Int, NEW h \in Int,
         v <= u + n, n <= l + k, u + l <= d - h
  PROVE  d - v >= h - (i + k)
OBVIOUS

\* Files that are only deleted keep within the limits, and leave a file that is
\* being written its room.
LEMMA LimitsKept ==
  ASSUME IsFiniteSet(Blocks), Blocks' \subseteq Blocks, LimitsHold,
         \A b \in Blocks' : b[1] \in unmeasured => b[1] \in unmeasured',
         interrupted \in Nat, interrupted' \in Nat, interrupted <= interrupted'
  PROVE  /\ IsFiniteSet(Blocks') /\ Used \in Nat /\ Used' \in Nat /\ Used' <= Used
         /\ LimitsHold'
<1>1. IsFiniteSet(Blocks') /\ Used \in Nat /\ Used' \in Nat /\ Used' <= Used
  BY FS_Subset, PartOf DEF Used
<1>2. Measured' \subseteq Measured /\ Measured \subseteq Blocks
  BY DEF Measured
<1>3. IsFiniteSet(Measured)
  BY <1>2, FS_Subset
<1>4. PICK m \in Nat, p \in Nat : m = Cardinality(Measured) /\ p = Cardinality(Measured') /\ p <= m
  BY <1>2, <1>3, PartOf
<1>5. PICK u \in Nat, v \in Nat : u = Used /\ v = Used' /\ v <= u
  BY <1>1
<1>6. /\ max_usage # 0 => m <= max_usage + interrupted
      /\ min_headroom # 0 => Disk - u >= min_headroom - interrupted
  BY <1>4, <1>5, Zenon DEF LimitsHold, Free
<1>a. PICK i \in Nat, j \in Nat : i = interrupted /\ j = interrupted' /\ i <= j
  OBVIOUS
<1>b. /\ max_usage # 0 => m <= max_usage + i
      /\ min_headroom # 0 => Disk - u >= min_headroom - i
  BY <1>6, <1>a, Zenon
<1>c. max_usage \in Int /\ Disk \in Int /\ min_headroom \in Int
  BY LimitsAssumption
<1>d. ASSUME max_usage # 0 PROVE p <= max_usage + j
  <2>1. m <= max_usage + i
    BY <1>b, <1>d, Zenon
  <2>2. QED
    BY <1>4, <1>a, <1>c, <2>1, LessUsed
<1>e. ASSUME min_headroom # 0 PROVE Disk - v >= min_headroom - j
  <2>1. Disk - u >= min_headroom - i
    BY <1>b, <1>e, Zenon
  <2>2. QED
    BY <1>5, <1>a, <1>c, <2>1, MoreFree
<1>7. /\ max_usage # 0 => p <= max_usage + interrupted'
      /\ min_headroom # 0 => Disk - v >= min_headroom - interrupted'
  BY <1>a, <1>d, <1>e, Zenon
<1>8. LimitsHold'
  BY <1>4, <1>5, <1>7, Zenon DEF LimitsHold, Free
<1>9. QED
  BY <1>1, <1>8

\* So do files of which one grows into the room it was given, and one byte more
\* for every interrupt.
LEMMA LimitsKeptByGrowth ==
  ASSUME TypeOK, NumTypes, IsFiniteSet(Blocks), LimitsHold, Room(outfile, limit),
         NEW n \in Nat, NEW k \in Nat, n <= limit + k, outfile \in OnDisk,
         size' = [size EXCEPT ![outfile] = n],
         interrupted' = interrupted + k, unmeasured' = unmeasured
  PROVE  IsFiniteSet(Blocks') /\ LimitsHold'
<1>1. /\ DOMAIN size' = OnDisk /\ size'[outfile] = n
      /\ \A g \in OnDisk \ {outfile} : size'[g] = size[g]
  BY DEF OnDisk
<1>2. IsFiniteSet(Blocks') /\ Used \in Nat /\ Used' \in Nat /\ Used' <= Used + n
  BY <1>1, Grows
<1>3. PICK u \in Nat, v \in Nat : u = Used /\ v = Used' /\ v <= u + n
  BY <1>2
<1>4. PICK l \in Nat, i \in Nat : l = limit /\ i = interrupted
  BY DEF NumTypes
<1>5. ASSUME max_usage # 0 PROVE Cardinality(Measured') <= max_usage + interrupted'
  <2>1. CASE outfile \in unmeasured
    <3>1. Measured' \subseteq Measured /\ Measured \subseteq Blocks
      BY <1>1, <2>1 DEF Measured, Blocks, OnDisk
    <3>2. IsFiniteSet(Measured)
      BY <3>1, FS_Subset
    <3>3. PICK m \in Nat, p \in Nat : m = Cardinality(Measured) /\ p = Cardinality(Measured') /\ p <= m
      BY <3>1, <3>2, PartOf
    <3>4. m <= max_usage + i
      BY <1>4, <1>5, <3>3, Zenon DEF LimitsHold
    <3>5. QED
      BY <1>4, <3>3, <3>4, LimitsAssumption
  <2>2. CASE outfile \notin unmeasured
    <3>1. Measured' \subseteq Blocks'
      BY DEF Measured
    <3>2. PICK p \in Nat : p = Cardinality(Measured') /\ p <= v
      BY <1>2, <1>3, <3>1, PartOf DEF Used
    <3>3. u + l <= max_usage
      BY <1>3, <1>4, <1>5, <2>2, Zenon DEF Room
    <3>4. QED
      BY <1>3, <1>4, <3>2, <3>3, LimitsAssumption
  <2>3. QED
    BY <2>1, <2>2
<1>6. ASSUME min_headroom # 0 PROVE Free' >= min_headroom - interrupted'
  <2>1. u + l <= Disk - min_headroom
    BY <1>3, <1>4, <1>6, Zenon DEF Room
  <2>a. Disk \in Int /\ min_headroom \in Int /\ n <= l + k
    BY <1>4, LimitsAssumption
  <2>2. Disk - v >= min_headroom - (i + k)
    BY <1>3, <1>4, <2>1, <2>a, GrownFits
  <2>3. QED
    BY <1>3, <1>4, <2>2 DEF Free
<1>7. QED
  BY <1>2, <1>5, <1>6 DEF LimitsHold

-----------------------------------------------------------------------------
(* What the steps do *)

\* What the pass over an entry may do to the queue and the history.
QueueEffect ==
  /\ queue' \in Seq(Files) /\ Len(queue') <= Capacity
  /\ Queued' \subseteq Queued
  /\ Queued \cap OnDisk \subseteq Queued' \cup lost'
  /\ lost \subseteq lost' /\ lost' \subseteq Files
  /\ can_complete_read' \in BOOLEAN
  /\ ReadInv'

\* A pass that ends removes at most the head.
LEMMA DoneEffect ==
  ASSUME TypeOK, ReadInv, HeadInv, NEW result, Done(result), uploader # "idle"
  PROVE  /\ QueueEffect /\ uploader' = "idle" /\ filename' = NoFile /\ HeadInv'
         /\ result # "RetryLater" => filename \notin Queued'
<1>1. uploader' = "idle" /\ filename' = NoFile /\ can_complete_read' \in BOOLEAN
  BY DEF Done, TypeOK
<1>2. lost \subseteq lost' /\ lost' \subseteq Files
  BY DEF Done, TypeOK
<1>3. CASE result # "RetryLater" /\ can_complete_read
  <2>1. queue # <<>> /\ queue \in Seq(Files) /\ Len(queue) <= Capacity
    BY <1>3 DEF ReadInv, TypeOK
  <2>2. queue' = Tail(queue) /\ ~can_complete_read' /\ {Head(queue)} \cap OnDisk \subseteq lost'
    BY <1>3 DEF Done
  <2>3. PICK q : q = queue
    OBVIOUS
  <2>4. /\ Tail(q) \in Seq(Files) /\ Len(Tail(q)) = Len(q) - 1 /\ Len(q) \in Nat \ {0}
        /\ Names(q) = {Head(q)} \cup Names(Tail(q))
    BY <2>1, <2>3, NamesTail
  <2>5. Unique(Tail(q)) /\ Head(q) \notin Names(Tail(q))
    BY <2>1, <2>3, UniqueTail DEF HeadInv
  <2>6. Queued = Names(q) /\ Queued' = Names(Tail(q))
    BY <2>2, <2>3 DEF Queued, Names
  <2>7. queue' \in Seq(Files) /\ Len(queue') <= Capacity
    BY <2>1, <2>2, <2>3, <2>4, BoundsAssumption
  <2>8. Queued' \subseteq Queued /\ Queued \cap OnDisk \subseteq Queued' \cup lost'
    BY <2>2, <2>3, <2>4, <2>6
  <2>9. HeadInv' /\ filename \notin Queued'
    BY <1>1, <2>2, <2>3, <2>5, <2>6, <2>8 DEF HeadInv
  <2>10. QED
    BY <1>1, <1>2, <2>2, <2>7, <2>8, <2>9 DEF QueueEffect, ReadInv
<1>4. CASE ~(result # "RetryLater" /\ can_complete_read)
  <2>1. queue' = queue /\ (can_complete_read' => can_complete_read)
    BY <1>4 DEF Done
  <2>2. Queued' = Queued
    BY <2>1 DEF Queued
  <2>3. HeadInv' /\ (result # "RetryLater" => filename \notin Queued')
    BY <1>1, <1>4, <2>1, <2>2 DEF HeadInv
  <2>4. QED
    BY <1>1, <1>2, <2>1, <2>2, <2>3 DEF QueueEffect, ReadInv, TypeOK
<1>5. QED
  BY <1>3, <1>4

\* A pass that goes on leaves the queue alone.
LEMMA GoOnEffect ==
  ASSUME TypeOK, ReadInv, HeadInv, UNCHANGED <<filename, can_complete_read, queue, lost>>,
         uploader # "idle"
  PROVE  QueueEffect /\ filename' = filename /\ HeadInv'
<1>1. Queued' = Queued
  BY DEF Queued
<1>2. QED
  BY <1>1 DEF QueueEffect, ReadInv, TypeOK, HeadInv

\* What the main thread may do after ReadHead, the deletion left aside.
UploadEffect ==
  /\ UNCHANGED <<fresh, size, writer, outfile, limit, enabled, crashes, forgotten, unmeasured,
                 interrupted>>
  /\ QueueEffect /\ HeadInv'
  /\ uploader \notin {"idle", "unlink"}
  /\ \/ uploader' = "idle" /\ filename' = NoFile
     \/ /\ filename' = filename /\ filename \in OnDisk /\ uploader # "unlinked"
        /\ uploader' \in {"prepare", "upload", "commit", "unlink"}
  /\ uploader = "unlinked" => filename \notin Queued'
  /\ committed \subseteq committed' /\ committed' \subseteq committed \cup {filename}
  /\ unanswered \subseteq unanswered' /\ unanswered' \subseteq unanswered \cup {filename}
  /\ uploader' = "unlink" => filename \in committed'
  /\ filename \in committed' \ committed => uploader' = "unlink" \/ filename \in unanswered'

\* Each step of an upload does no more than that.
LEMMA UploadStepEffect ==
  ASSUME TypeOK, ReadInv, HeadInv, UploadInv, StatFile \/ Request \/ CompleteRead
  PROVE  UploadEffect
<1> USE DEF uploadStep, sameServer, writerVars, startVars, spaceVars
<1>1. CASE StatFile
  <2>1. CASE filename \in OnDisk
    <3>1. QueueEffect /\ filename' = filename /\ HeadInv'
      BY <1>1, <2>1, GoOnEffect DEF StatFile
    <3>2. QED
      BY <1>1, <2>1, <3>1 DEF StatFile, UploadEffect
  <2>2. CASE filename \notin OnDisk
    <3>1. QueueEffect /\ uploader' = "idle" /\ filename' = NoFile /\ HeadInv'
      BY <1>1, <2>2, DoneEffect DEF StatFile
    <3>2. QED
      BY <1>1, <3>1 DEF StatFile, UploadEffect
  <2>3. QED
    BY <2>1, <2>2
<1>2. ASSUME NEW reply \in Replies, NEW parsed \in BOOLEAN, prv_file_upload_prepare(reply, parsed)
      PROVE  UploadEffect
  <2>1. PICK result : \/ /\ uploader' = "upload"
                         /\ UNCHANGED <<filename, can_complete_read, queue, lost>>
                      \/ Done(result)
    BY <1>2 DEF prv_file_upload_prepare
  <2>2. uploader = "prepare" /\ uploadStep /\ sameServer /\ UNCHANGED size
    BY <1>2 DEF prv_file_upload_prepare
  <2>3. CASE uploader' = "upload" /\ UNCHANGED <<filename, can_complete_read, queue, lost>>
    <3>1. QueueEffect /\ filename' = filename /\ HeadInv'
      BY <2>2, <2>3, GoOnEffect
    <3>2. QED
      BY <2>2, <2>3, <3>1 DEF UploadEffect, UploadInv
  <2>4. CASE Done(result)
    <3>1. QueueEffect /\ uploader' = "idle" /\ filename' = NoFile /\ HeadInv'
      BY <2>2, <2>4, DoneEffect
    <3>2. QED
      BY <2>2, <3>1 DEF UploadEffect
  <2>5. QED
    BY <2>1, <2>3, <2>4
<1>3. ASSUME NEW reply \in Replies, NEW parsed \in BOOLEAN, prv_file_upload(reply, parsed)
      PROVE  UploadEffect
  <2>1. PICK result : \/ /\ uploader' = "commit"
                         /\ UNCHANGED <<filename, can_complete_read, queue, lost>>
                      \/ Done(result)
    BY <1>3 DEF prv_file_upload
  <2>2. uploader = "upload" /\ uploadStep /\ sameServer /\ UNCHANGED size
    BY <1>3 DEF prv_file_upload
  <2>3. CASE uploader' = "commit" /\ UNCHANGED <<filename, can_complete_read, queue, lost>>
    <3>1. QueueEffect /\ filename' = filename /\ HeadInv'
      BY <2>2, <2>3, GoOnEffect
    <3>2. QED
      BY <2>2, <2>3, <3>1 DEF UploadEffect, UploadInv
  <2>4. CASE Done(result)
    <3>1. QueueEffect /\ uploader' = "idle" /\ filename' = NoFile /\ HeadInv'
      BY <2>2, <2>4, DoneEffect
    <3>2. QED
      BY <2>2, <3>1 DEF UploadEffect
  <2>5. QED
    BY <2>1, <2>3, <2>4
<1>4. ASSUME NEW reply \in Replies, prv_file_upload_commit(reply)
      PROVE  UploadEffect
  <2>1. uploader = "commit" /\ uploadStep /\ UNCHANGED size
    BY <1>4 DEF prv_file_upload_commit
  <2>2. reply = "no answer" => prv_check_error(reply) = "RetryLater"
    BY DEF prv_check_error
  <2>3. CASE prv_check_error(reply) = "OK"
    <3>1. /\ uploader' = "unlink" /\ UNCHANGED <<filename, can_complete_read, queue, lost>>
          /\ committed' = committed \cup {filename} /\ unanswered' = unanswered
      BY <1>4, <2>2, <2>3 DEF prv_file_upload_commit
    <3>2. QueueEffect /\ filename' = filename /\ HeadInv'
      BY <2>1, <3>1, GoOnEffect
    <3>3. QED
      BY <2>1, <3>1, <3>2 DEF UploadEffect, UploadInv
  <2>4. CASE prv_check_error(reply) # "OK"
    <3>1. Done(prv_check_error(reply))
      BY <1>4, <2>4 DEF prv_file_upload_commit
    <3>2. QueueEffect /\ uploader' = "idle" /\ filename' = NoFile /\ HeadInv'
      BY <2>1, <3>1, DoneEffect
    <3>3. \/ committed' = committed
          \/ committed' = committed \cup {filename} /\ reply = "no answer"
      BY <1>4, <2>4 DEF prv_file_upload_commit
    <3>4. unanswered' = IF reply = "no answer" THEN unanswered \cup {filename} ELSE unanswered
      BY <1>4 DEF prv_file_upload_commit
    <3>5. QED
      BY <2>1, <3>2, <3>3, <3>4 DEF UploadEffect
  <2>5. QED
    BY <2>3, <2>4
<1>5. CASE CompleteRead
  <2>1. QueueEffect /\ uploader' = "idle" /\ filename' = NoFile /\ HeadInv' /\ filename \notin Queued'
    BY <1>5, DoneEffect DEF CompleteRead
  <2>2. QED
    BY <1>5, <2>1 DEF CompleteRead, UploadEffect
<1>6. QED
  BY <1>1, <1>2, <1>3, <1>4, <1>5 DEF Request

\* A file that is removed, or not.
LEMMA RemoveEffect ==
  ASSUME TypeOK, outfile \in OnDisk, RemoveOutfile
  PROVE  /\ DOMAIN size' \subseteq OnDisk /\ OnDisk \ {outfile} \subseteq DOMAIN size'
         /\ \A g \in DOMAIN size' : size'[g] = size[g]
         /\ lost \subseteq lost' /\ lost' \subseteq Files
         /\ outfile \in DOMAIN size' => outfile \in lost'
         /\ Blocks' \subseteq Blocks
         /\ \A b \in Blocks' : b[1] \in unmeasured => b[1] \in unmeasured'
<1>1. /\ DOMAIN size' \subseteq OnDisk /\ OnDisk \ {outfile} \subseteq DOMAIN size'
      /\ \A g \in DOMAIN size' : size'[g] = size[g]
      /\ lost \subseteq lost' /\ lost' \subseteq Files
      /\ outfile \in DOMAIN size' => outfile \in lost' /\ unmeasured' = unmeasured
      /\ outfile \notin DOMAIN size' => unmeasured' = unmeasured \ {outfile}
  BY DEF RemoveOutfile, Without, OnDisk, TypeOK
<1>2. Blocks' \subseteq Blocks /\ \A b \in Blocks' : b[1] \in DOMAIN size'
  BY <1>1 DEF Blocks, OnDisk
<1>3. QED
  BY <1>1, <1>2

\* What queueing a file does to the names in the queue.
LEMMA EnqueueEffect ==
  ASSUME TypeOK, NameInv, ReadInv, HeadInv, EnqueueCore
  PROVE  /\ outfile \in Files /\ outfile \in OnDisk
         /\ queue' \in Seq(Files) /\ Len(queue') <= Capacity
         /\ Queued' \subseteq Queued \cup {outfile}
         /\ Queued \cap OnDisk \subseteq Queued' \cup lost'
         /\ lost \subseteq lost' /\ lost' \subseteq Files
         /\ can_complete_read' \in BOOLEAN /\ ReadInv' /\ HeadInv'
         /\ \/ outfile \in Queued' /\ UNCHANGED <<size, unmeasured>>
            \/ RemoveOutfile /\ queue' = queue
<1>1. outfile \in Files /\ outfile \in OnDisk /\ queue \in Seq(Files) /\ Len(queue) <= Capacity
  BY DEF EnqueueCore, NameInv, TypeOK
<1>2. PICK q, f : q = queue /\ f = outfile
  OBVIOUS
<1>3. /\ Queued = Names(q) /\ f \notin Names(q) /\ Unique(q) /\ q \in Seq(Files) /\ f \in Files
      /\ uploader' = uploader /\ filename' = filename
      /\ uploader # "idle" => filename # f
      /\ uploader # "idle" /\ filename \in Names(q) => can_complete_read /\ filename = Head(q)
  BY <1>1, <1>2 DEF EnqueueCore, NameInv, HeadInv, Queued, Names
<1>4. CASE /\ Len(queue) < Capacity
           /\ queue' = Append(queue, outfile)
           /\ UNCHANGED <<size, can_complete_read, lost, unmeasured>>
  <2>1. /\ Append(q, f) \in Seq(Files) /\ Len(Append(q, f)) = Len(q) + 1 /\ Len(q) \in Nat
        /\ Names(Append(q, f)) = Names(q) \cup {f}
    BY <1>1, <1>2, NamesAppend
  <2>2. Queued = Names(q) /\ Queued' = Names(Append(q, f))
    BY <1>2, <1>4 DEF Queued, Names
  <2>3. queue' \in Seq(Files) /\ Len(queue') <= Capacity /\ queue' # <<>>
    BY <1>2, <1>4, <2>1, BoundsAssumption
  <2>4. Unique(Append(q, f)) /\ (q # <<>> => Head(Append(q, f)) = Head(q))
    BY <1>3, UniqueAppend
  <2>5. filename \in Names(q) => q # <<>>
    BY DEF Names
  <2>6. HeadInv'
    BY <1>2, <1>4, <1>3, <2>1, <2>2, <2>4, <2>5 DEF HeadInv
  <2>7. QED
    BY <1>1, <1>2, <1>4, <2>1, <2>2, <2>3, <2>6 DEF ReadInv, TypeOK
<1>5. CASE /\ Len(queue) = Capacity
           /\ \/ queue' = Append(Tail(queue), outfile) /\ can_complete_read' = FALSE
              \/ queue' = <<outfile>> \o Tail(queue) /\ UNCHANGED can_complete_read
           /\ lost' = lost \cup ({Head(queue)} \cap OnDisk)
           /\ UNCHANGED <<size, unmeasured>>
  <2>1. q # <<>>
    BY <1>2, <1>5, BoundsAssumption
  <2>2. /\ Tail(q) \in Seq(Files) /\ Len(Tail(q)) = Len(q) - 1 /\ Len(q) \in Nat \ {0}
        /\ Head(q) \in Files
        /\ Names(q) = {Head(q)} \cup Names(Tail(q))
    BY <1>1, <1>2, <2>1, NamesTail
  <2>3. PICK r : r = Tail(q)
    OBVIOUS
  <2>4. /\ Append(r, f) \in Seq(Files) /\ Len(Append(r, f)) = Len(r) + 1
        /\ Names(Append(r, f)) = Names(r) \cup {f}
    BY <1>1, <1>2, <2>2, <2>3, NamesAppend
  <2>5. /\ <<f>> \o r \in Seq(Files) /\ Len(<<f>> \o r) = Len(r) + 1
        /\ Names(<<f>> \o r) = Names(r) \cup {f}
    BY <1>1, <1>2, <2>2, <2>3, NamesPut
  <2>6. queue' = Append(r, f) \/ queue' = <<f>> \o r
    BY <1>2, <1>5, <2>3
  <2>7. Queued = Names(q) /\ Queued' = Names(queue')
    BY <1>2 DEF Queued, Names
  <2>8. queue' \in Seq(Files) /\ Len(queue') = Capacity /\ queue' # <<>>
    <3>1. queue' \in Seq(Files) /\ Len(queue') = Len(r) + 1
      <4>1. CASE queue' = Append(r, f)
        BY <4>1, <2>4, Zenon
      <4>2. CASE queue' = <<f>> \o r
        BY <4>2, <2>5, Zenon
      <4>3. QED
        BY <4>1, <4>2, <2>6
    <3>2. Len(r) = Capacity - 1
      BY <1>2, <1>5, <2>2, <2>3
    <3>3. QED
      BY <3>1, <3>2, BoundsAssumption
  <2>9. Names(queue') = Names(r) \cup {f}
    BY <2>4, <2>5, <2>6
  <2>10. Queued' \subseteq Queued \cup {outfile} /\ outfile \in Queued'
         /\ Queued \cap OnDisk \subseteq Queued' \cup lost'
    BY <1>2, <1>5, <2>2, <2>3, <2>7, <2>9
  <2>11. can_complete_read' \in BOOLEAN /\ lost \subseteq lost' /\ lost' \subseteq Files
    BY <1>2, <1>5, <2>2 DEF TypeOK
  <2>12. HeadInv'
    <3>1. Unique(r) /\ Head(q) \notin Names(r) /\ f \notin Names(r) /\ r \in Seq(Files)
      BY <1>3, <2>1, <2>2, <2>3, UniqueTail
    <3>2. Unique(Append(r, f)) /\ Unique(<<f>> \o r)
      BY <1>3, <3>1, UniqueAppend, UniquePut
    <3>3. Unique(queue')
      BY <2>6, <3>2
    <3>4. uploader # "idle" => filename \notin Queued'
      BY <1>3, <2>2, <2>3, <2>7, <2>9, <3>1
    <3>5. QED
      BY <1>3, <3>3, <3>4 DEF HeadInv
  <2>13. QED
    BY <1>1, <1>5, <2>8, <2>10, <2>11, <2>12, BoundsAssumption DEF ReadInv
<1>6. CASE RemoveOutfile /\ UNCHANGED <<queue, can_complete_read>>
  <2>1. Queued' = Queued
    BY <1>6 DEF Queued
  <2>2. HeadInv'
    BY <1>6, <1>3, <2>1 DEF HeadInv
  <2>3. lost \subseteq lost' /\ lost' \subseteq Files
    BY <1>1, <1>6, RemoveEffect
  <2>4. QED
    BY <1>1, <1>6, <2>1, <2>2, <2>3 DEF ReadInv, TypeOK
<1>7. QED
  BY <1>4, <1>5, <1>6 DEF EnqueueCore

-----------------------------------------------------------------------------
(* The invariant, step by step *)

\* prv_msg_handler: the new file is empty and has room for its limit.
LEMMA MsgHandlerStep ==
  ASSUME IInv, NEW used \in {Used, 0}, prv_msg_handler(used)
  PROVE  IInv'
<1> USE DEF IInv
<1>1. PICK f \in fresh : f = prv_generate_filename
  BY DEF prv_msg_handler, prv_generate_filename
<1>2. /\ DOMAIN size' = OnDisk \cup {f} /\ f \notin OnDisk /\ f \in Files
      /\ size'[f] = 0 /\ \A g \in OnDisk : size'[g] = size[g]
  BY <1>1 DEF prv_msg_handler, NameInv, TypeOK
<1>3. /\ writer = "idle" /\ writer' = "writing" /\ outfile' = f
      /\ fresh' = fresh \ {f} /\ limit' = prv_check_for_available_space(used)
      /\ prv_check_for_available_space(used) > 0
      /\ unmeasured' = IF used = Used THEN unmeasured ELSE unmeasured \cup {f}
      /\ UNCHANGED <<queue, uploader, filename, can_complete_read, enabled, crashes, forgotten,
                     interrupted, committed, lost, unanswered>>
  BY <1>1 DEF prv_msg_handler, uploaderVars, startVars
<1>4. Queued' = Queued
  BY <1>3 DEF Queued
<1>5. Blocks' \subseteq Blocks
  BY <1>2 DEF Blocks, OnDisk
<1>6. /\ IsFiniteSet(Blocks') /\ Used \in Nat /\ Used' \in Nat /\ Used' <= Used
      /\ LimitsHold'
  BY <1>3, <1>5, LimitsKept DEF SpaceInv, NumTypes
<1>7. PICK l \in Nat : l = limit'
  BY <1>3, <1>6, LimitLeavesRoom
<1>8. /\ max_usage # 0 => used + l <= max_usage
      /\ min_headroom # 0 => Used + l <= Disk - min_headroom
  BY <1>3, <1>6, <1>7, LimitLeavesRoom
<1>9. TypeOK'
  BY <1>2, <1>3 DEF TypeOK, OnDisk
<1>10. NumTypes'
  BY <1>3, <1>7 DEF NumTypes
<1>11. NameInv'
  BY <1>1, <1>2, <1>3, <1>4 DEF NameInv, OnDisk, TypeOK
<1>12. ReadInv' /\ HeadInv'
  BY <1>3, <1>4 DEF ReadInv, HeadInv
<1>13. UploadInv'
  BY <1>1, <1>2, <1>3, <1>4 DEF UploadInv, NameInv, OnDisk
<1>14. SpaceInv'
  <2>1. PICK u \in Nat, v \in Nat : u = Used /\ v = Used' /\ v <= u
    BY <1>6
  <2>a. max_usage \in Int /\ Disk - min_headroom \in Int
    BY LimitsAssumption
  <2>2. ASSUME max_usage # 0, f \notin unmeasured' PROVE v + l <= max_usage
    <3>1. used = u
      BY <1>3, <2>1, <2>2
    <3>2. u + l <= max_usage
      BY <1>8, <2>2, <3>1, Zenon
    <3>3. QED
      BY <2>1, <2>a, <3>2, LessFits
  <2>3. ASSUME min_headroom # 0 PROVE v + l <= Disk - min_headroom
    <3>1. u + l <= Disk - min_headroom
      BY <1>8, <2>1, <2>3, Zenon
    <3>2. QED
      BY <2>1, <2>a, <3>1, LessFits
  <2>4. Room(outfile, limit)'
    BY <1>3, <1>7, <2>1, <2>2, <2>3, Zenon DEF Room
  <2>5. QED
    BY <1>2, <1>3, <1>6, <2>4 DEF SpaceInv
<1>15. NoOrphanUnlessLost'
  BY <1>2, <1>3, <1>4, NoFileAssumption DEF NoOrphanUnlessLost, OnDisk, NameInv, TypeOK
<1>16. QED
  BY <1>9, <1>10, <1>11, <1>12, <1>13, <1>14, <1>15

\* prv_transform_coredump_from_fd_to_file: the file stays within its limit, but
\* for the interrupts, or it goes, or nobody can delete it.
LEMMA TransformStep ==
  ASSUME IInv, NEW n \in Sizes, NEW k \in 0 .. MaxInterrupts - interrupted,
         prv_transform_coredump_from_fd_to_file(n, k)
  PROVE  IInv'
<1> USE DEF IInv
<1>1. /\ writer = "writing" /\ outfile \in OnDisk /\ outfile \in Files /\ outfile # NoFile
      /\ limit' = 0 /\ interrupted' = interrupted + k
      /\ UNCHANGED <<fresh, queue, uploader, filename, can_complete_read, enabled, crashes,
                     forgotten, committed, unanswered>>
  BY NoFileAssumption
  DEF prv_transform_coredump_from_fd_to_file, uploaderVars, startVars, NameInv, TypeOK
<1>2. Queued' = Queued
  BY <1>1 DEF Queued
<1>3. n \in Nat /\ k \in Nat /\ interrupted \in Nat /\ interrupted' \in Nat
      /\ interrupted <= interrupted'
  BY <1>1, SizesAssumption, BoundsAssumption DEF NumTypes
<1>4. ReadInv' /\ NumTypes' /\ HeadInv'
  BY <1>1, <1>2, <1>3 DEF ReadInv, NumTypes, HeadInv
<1>5. CASE /\ n <= limit + k
           /\ size' = [size EXCEPT ![outfile] = n]
           /\ writer' = "queueing" /\ UNCHANGED <<outfile, lost, unmeasured>>
  <2>1. DOMAIN size' = OnDisk /\ \A g \in OnDisk : size'[g] \in Nat
    BY <1>1, <1>3, <1>5 DEF OnDisk, TypeOK
  <2>2. IsFiniteSet(Blocks') /\ LimitsHold'
    BY <1>1, <1>3, <1>5, LimitsKeptByGrowth DEF SpaceInv
  <2>3. TypeOK'
    BY <1>1, <1>5, <2>1 DEF TypeOK, OnDisk
  <2>4. NameInv' /\ UploadInv' /\ NoOrphanUnlessLost'
    BY <1>1, <1>2, <1>5, <2>1 DEF NameInv, UploadInv, NoOrphanUnlessLost, OnDisk
  <2>5. SpaceInv'
    BY <1>5, <2>2 DEF SpaceInv
  <2>6. QED
    BY <1>4, <2>3, <2>4, <2>5
<1>6. CASE RemoveOutfile /\ writer' = "idle" /\ outfile' = NoFile
  <2>1. /\ DOMAIN size' \subseteq OnDisk /\ OnDisk \ {outfile} \subseteq DOMAIN size'
        /\ \A g \in DOMAIN size' : size'[g] = size[g]
        /\ lost \subseteq lost' /\ lost' \subseteq Files
        /\ outfile \in DOMAIN size' => outfile \in lost'
        /\ Blocks' \subseteq Blocks
        /\ \A b \in Blocks' : b[1] \in unmeasured => b[1] \in unmeasured'
    BY <1>1, <1>6, RemoveEffect
  <2>2. IsFiniteSet(Blocks') /\ LimitsHold'
    BY <1>3, <2>1, LimitsKept DEF SpaceInv
  <2>3. TypeOK'
    BY <1>1, <1>6, <2>1 DEF TypeOK, OnDisk
  <2>4. NameInv'
    BY <1>1, <1>2, <1>6, <2>1 DEF NameInv, OnDisk
  <2>5. UploadInv'
    BY <1>1, <1>2, <2>1 DEF UploadInv, NameInv, OnDisk
  <2>6. NoOrphanUnlessLost'
    BY <1>1, <1>2, <2>1 DEF NoOrphanUnlessLost, OnDisk
  <2>7. SpaceInv'
    BY <1>6, <2>2 DEF SpaceInv
  <2>8. QED
    BY <1>4, <2>3, <2>4, <2>5, <2>6, <2>7
<1>7. QED
  BY <1>5, <1>6 DEF prv_transform_coredump_from_fd_to_file

\* EnqueueCore: the name is in the queue, or the file goes if it can.
LEMMA EnqueueStep ==
  ASSUME IInv, EnqueueCore
  PROVE  IInv'
<1> USE DEF IInv
<1>1. /\ outfile \in Files /\ outfile \in OnDisk
      /\ queue' \in Seq(Files) /\ Len(queue') <= Capacity
      /\ Queued' \subseteq Queued \cup {outfile}
      /\ Queued \cap OnDisk \subseteq Queued' \cup lost'
      /\ lost \subseteq lost' /\ lost' \subseteq Files
      /\ can_complete_read' \in BOOLEAN /\ ReadInv' /\ HeadInv'
      /\ \/ outfile \in Queued' /\ UNCHANGED <<size, unmeasured>>
         \/ RemoveOutfile /\ queue' = queue
  BY EnqueueEffect
<1>2. /\ writer = "queueing" /\ writer' = "idle" /\ outfile' = NoFile
      /\ UNCHANGED <<fresh, limit, uploader, filename, enabled, crashes, forgotten, interrupted,
                     committed, unanswered>>
  BY DEF EnqueueCore, startVars
<1>3. /\ DOMAIN size' \subseteq OnDisk /\ \A g \in DOMAIN size' : size'[g] = size[g]
      /\ OnDisk \ {outfile} \subseteq DOMAIN size'
      /\ outfile \in DOMAIN size' => outfile \in Queued' \cup lost'
      /\ Blocks' \subseteq Blocks
      /\ \A b \in Blocks' : b[1] \in unmeasured => b[1] \in unmeasured'
  <2>1. CASE outfile \in Queued' /\ UNCHANGED <<size, unmeasured>>
    BY <2>1 DEF OnDisk, Blocks
  <2>2. CASE RemoveOutfile
    BY <1>1, <2>2, RemoveEffect
  <2>3. QED
    BY <1>1, <2>1, <2>2
<1>4. IsFiniteSet(Blocks') /\ LimitsHold'
  BY <1>2, <1>3, LimitsKept DEF SpaceInv, NumTypes
<1>5. TypeOK' /\ NumTypes'
  BY <1>1, <1>2, <1>3 DEF TypeOK, NumTypes, OnDisk
<1>6. NameInv'
  BY <1>1, <1>2, <1>3 DEF NameInv, OnDisk
<1>7. UploadInv'
  BY <1>1, <1>2, <1>3 DEF UploadInv, NameInv, OnDisk
<1>8. SpaceInv'
  BY <1>2, <1>4 DEF SpaceInv
<1>9. NoOrphanUnlessLost'
  BY <1>1, <1>2, <1>3 DEF NoOrphanUnlessLost, OnDisk
<1>10. QED
  BY <1>1, <1>5, <1>6, <1>7, <1>8, <1>9

\* ReadHead takes up a name that is in the queue, so none that the plugin has.
LEMMA ReadHeadStep ==
  ASSUME IInv, ReadHead
  PROVE  IInv'
<1> USE DEF IInv
<1>1. /\ uploader = "idle" /\ queue # <<>>
      /\ uploader' = "stat" /\ filename' = Head(queue) /\ can_complete_read' = TRUE
      /\ UNCHANGED <<fresh, size, queue, writer, outfile, limit, enabled, crashes, forgotten,
                     unmeasured, interrupted, committed, lost, unanswered>>
  BY DEF ReadHead, writerVars, startVars, spaceVars
<1>2. Head(queue) \in Files /\ Head(queue) \in Queued
  BY <1>1 DEF TypeOK, Queued
<1>3. Queued' = Queued /\ Used' = Used /\ Blocks' = Blocks /\ Measured' = Measured
  BY <1>1 DEF Queued, Used, Blocks, Measured, OnDisk
<1>4. TypeOK' /\ NumTypes'
  BY <1>1, <1>2 DEF TypeOK, NumTypes, OnDisk
<1>5. NameInv' /\ ReadInv' /\ HeadInv' /\ NoOrphanUnlessLost'
  BY <1>1, <1>2, <1>3 DEF NameInv, ReadInv, HeadInv, NoOrphanUnlessLost, OnDisk
<1>6. UploadInv'
  BY <1>1, <1>2, <1>3 DEF UploadInv, OnDisk
<1>7. SpaceInv'
  BY <1>1, <1>3 DEF SpaceInv, Room, LimitsHold, Free
<1>8. QED
  BY <1>4, <1>5, <1>6, <1>7

\* The steps of an upload, the deletion left aside.
LEMMA UploadStep ==
  ASSUME IInv, StatFile \/ Request \/ CompleteRead
  PROVE  IInv'
<1> USE DEF IInv
<1>1. UploadEffect
  BY UploadStepEffect
<1>2. /\ UNCHANGED <<fresh, size, writer, outfile, limit, enabled, crashes, forgotten,
                     unmeasured, interrupted>>
      /\ QueueEffect /\ HeadInv'
  BY <1>1 DEF UploadEffect
<1>3. filename \in Files \ fresh
  BY <1>1 DEF UploadEffect, NameInv
<1>4. committed' \subseteq committed \cup {filename} /\ unanswered' \subseteq Files
  BY <1>1, <1>3 DEF UploadEffect, NumTypes
<1>5. Used' = Used /\ Blocks' = Blocks /\ OnDisk' = OnDisk /\ Measured' = Measured
  BY <1>2 DEF Used, Blocks, OnDisk, Measured
<1>6. TypeOK'
  BY <1>1, <1>2, <1>3, <1>4, <1>5 DEF TypeOK, QueueEffect, UploadEffect
<1>7. NumTypes'
  BY <1>2, <1>4 DEF NumTypes
<1>8. NameInv'
  BY <1>1, <1>2, <1>3, <1>4, <1>5 DEF NameInv, QueueEffect, UploadEffect
<1>9. ReadInv'
  BY <1>2 DEF QueueEffect
<1>10. UploadInv'
  BY <1>1, <1>2, <1>5 DEF UploadInv, UploadEffect, QueueEffect
<1>11. NoOrphanUnlessLost'
  BY <1>2, <1>5 DEF NoOrphanUnlessLost, QueueEffect
<1>12. SpaceInv'
  BY <1>2, <1>5 DEF SpaceInv, Room, LimitsHold, Free
<1>13. QED
  BY <1>2, <1>6, <1>7, <1>8, <1>9, <1>10, <1>11, <1>12

\* UnlinkFile deletes a file that is committed and that the plugin is done with,
\* if it can.
LEMMA UnlinkStep ==
  ASSUME IInv, UnlinkFile
  PROVE  IInv'
<1> USE DEF IInv
<1>1. /\ uploader = "unlink" /\ uploader' = "unlinked"
      /\ UNCHANGED <<fresh, writer, outfile, limit, enabled, crashes, forgotten, interrupted,
                     committed, filename, can_complete_read, queue>>
  BY DEF UnlinkFile, writerVars, startVars
<1>2. /\ DOMAIN size' \subseteq OnDisk /\ OnDisk \ {filename} \subseteq DOMAIN size'
      /\ \A g \in DOMAIN size' : size'[g] = size[g]
      /\ unmeasured \ {filename} \subseteq unmeasured' /\ unmeasured' \subseteq unmeasured
      /\ unanswered \ {filename} \subseteq unanswered' /\ unanswered' \subseteq unanswered
      /\ lost \ {filename} \subseteq lost' /\ lost' \subseteq lost \cup {filename}
      /\ filename \in DOMAIN size' => unmeasured' = unmeasured /\ filename \in lost'
  BY DEF UnlinkFile, Without, OnDisk
<1>3. Queued' = Queued
  BY <1>1 DEF Queued
<1>4. filename \in Files
  BY <1>1 DEF NameInv
<1>5. Blocks' \subseteq Blocks /\ \A b \in Blocks' : b[1] \in DOMAIN size'
  BY <1>2 DEF Blocks, OnDisk
<1>6. \A b \in Blocks' : b[1] \in unmeasured => b[1] \in unmeasured'
  BY <1>2, <1>5
<1>7. /\ IsFiniteSet(Blocks') /\ Used \in Nat /\ Used' \in Nat /\ Used' <= Used
      /\ LimitsHold'
  BY <1>1, <1>5, <1>6, LimitsKept DEF SpaceInv, NumTypes
<1>8. TypeOK' /\ NumTypes'
  BY <1>1, <1>2, <1>4 DEF TypeOK, NumTypes, OnDisk
<1>9. NameInv' /\ ReadInv' /\ HeadInv'
  BY <1>1, <1>2, <1>3 DEF NameInv, ReadInv, HeadInv, OnDisk
<1>10. UploadInv'
  BY <1>1, <1>2, <1>3 DEF UploadInv, OnDisk
<1>11. NoOrphanUnlessLost'
  BY <1>1, <1>2, <1>3 DEF NoOrphanUnlessLost, OnDisk
<1>12. SpaceInv'
  <2>1. ASSUME writer' = "writing" PROVE (size[outfile] = 0 /\ Room(outfile, limit))'
    <3>1. /\ outfile \in OnDisk \ {filename} /\ size[outfile] = 0
          /\ Room(outfile, limit) /\ limit \in Nat
      BY <1>1, <2>1 DEF SpaceInv, NameInv, NumTypes
    <3>2. PICK l \in Nat, u \in Nat, v \in Nat : l = limit /\ u = Used /\ v = Used' /\ v <= u
      BY <1>7, <3>1
    <3>3. outfile' \notin unmeasured' => outfile \notin unmeasured
      BY <1>1, <1>2, <3>1
    <3>4. /\ max_usage # 0 /\ outfile \notin unmeasured => u + l <= max_usage
          /\ min_headroom # 0 => u + l <= Disk - min_headroom
      BY <3>1, <3>2, Zenon DEF Room
    <3>a. max_usage \in Int /\ Disk - min_headroom \in Int
      BY LimitsAssumption
    <3>b. ASSUME max_usage # 0, outfile' \notin unmeasured' PROVE v + l <= max_usage
      <4>1. u + l <= max_usage
        BY <3>3, <3>4, <3>b, Zenon
      <4>2. QED
        BY <3>2, <3>a, <4>1, LessFits
    <3>c. ASSUME min_headroom # 0 PROVE v + l <= Disk - min_headroom
      <4>1. u + l <= Disk - min_headroom
        BY <3>4, <3>c, Zenon
      <4>2. QED
        BY <3>2, <3>a, <4>1, LessFits
    <3>5. /\ max_usage # 0 /\ outfile' \notin unmeasured' => v + l <= max_usage
          /\ min_headroom # 0 => v + l <= Disk - min_headroom
      BY <3>b, <3>c
    <3>6. limit' = l
      BY <1>1, <3>2
    <3>7. Room(outfile, limit)'
      BY <3>2, <3>5, <3>6, Zenon DEF Room
    <3>8. QED
      BY <1>1, <1>2, <3>1, <3>7
  <2>2. QED
    BY <1>7, <2>1 DEF SpaceInv
<1>13. QED
  BY <1>8, <1>9, <1>10, <1>11, <1>12

\* A restart leaves a file that was being written no larger than its limit, but
\* for the interrupts, and what start-up does not find is forgotten and lost.
LEMMA RestartStep ==
  ASSUME IInv, NEW found \in Found, NEW k \in 0 .. MaxInterrupts - interrupted,
         Restart(found, k)
  PROVE  IInv'
<1> USE DEF IInv
<1>1. /\ crashes' = crashes + 1
      /\ writer' = "idle" /\ outfile' = NoFile /\ limit' = 0
      /\ uploader' = "idle" /\ filename' = NoFile /\ can_complete_read' = FALSE
      /\ forgotten' = (Queued \cup forgotten) \ Queued'
      /\ lost' = ((lost \cup Queued \cup {outfile}) \cap OnDisk) \ Queued'
      /\ UNCHANGED <<fresh, unmeasured, committed, unanswered>>
  BY DEF Restart
<1>2. writer # "idle" => outfile \in OnDisk /\ outfile \in Files
  BY DEF NameInv, TypeOK
<1>3. k \in Nat /\ interrupted \in Nat
  BY BoundsAssumption DEF NumTypes
<1>4. /\ queue' \in Seq(Files) /\ Len(queue') <= Capacity /\ Unique(queue')
      /\ Queued' \subseteq Queued \cup forgotten /\ enabled' \in BOOLEAN
  <2>1. CASE enabled' = TRUE /\ queue' = found
    <3>1. PICK q : q = found /\ q = queue'
      BY <2>1
    <3>2. /\ q \in Seq(Files) /\ Len(q) <= Capacity /\ Unique(q)
          /\ Names(q) \subseteq Queued \cup forgotten
      BY <3>1, FoundIsQueue
    <3>3. Queued' = Names(q)
      BY <3>1 DEF Queued, Names
    <3>4. enabled' \in BOOLEAN
      BY <2>1, Zenon
    <3>5. QED
      BY <3>1, <3>2, <3>3, <3>4
  <2>2. CASE enabled' = FALSE /\ queue' = <<>>
    <3>1. enabled' \in BOOLEAN
      BY <2>2, Zenon
    <3>2. QED
      BY <2>2, <3>1, BoundsAssumption DEF Queued, Unique
  <2>3. QED
    BY <2>1, <2>2 DEF Restart
<1>5. /\ DOMAIN size' = OnDisk /\ (\A g \in OnDisk : size'[g] \in Nat)
      /\ IsFiniteSet(Blocks') /\ LimitsHold' /\ interrupted' \in Nat
  <2>1. CASE writer = "writing"
    <3>1. PICK n \in Sizes \cup {0} : n <= limit + k /\ size' = [size EXCEPT ![outfile] = n]
      BY <2>1 DEF Restart
    <3>2. n \in Nat /\ interrupted' = interrupted + k
      BY <2>1, SizesAssumption DEF Restart
    <3>3. IsFiniteSet(Blocks') /\ LimitsHold'
      BY <1>1, <1>2, <1>3, <2>1, <3>1, <3>2, LimitsKeptByGrowth DEF SpaceInv
    <3>4. QED
      BY <1>2, <1>3, <2>1, <3>1, <3>2, <3>3 DEF TypeOK, OnDisk
  <2>2. CASE writer # "writing"
    <3>1. size' = size /\ interrupted' = interrupted
      BY <2>2 DEF Restart
    <3>2. Used' = Used /\ Blocks' = Blocks /\ OnDisk' = OnDisk /\ Measured' = Measured
      BY <1>1, <3>1 DEF Used, Blocks, OnDisk, Measured
    <3>3. QED
      BY <1>3, <3>1, <3>2 DEF SpaceInv, LimitsHold, Free, TypeOK, OnDisk
  <2>3. QED
    BY <2>1, <2>2
<1>6. lost' \subseteq Files /\ forgotten' \subseteq Files
  <2>1. \A i \in 1 .. Len(queue) : queue[i] \in Files
    BY DEF TypeOK
  <2>2. QED
    BY <1>1, <2>1 DEF TypeOK, Queued
<1>7. TypeOK' /\ NumTypes'
  <2>1. can_complete_read' \in BOOLEAN
    BY <1>1, Zenon
  <2>2. QED
    BY <1>1, <1>2, <1>4, <1>5, <1>6, <2>1 DEF TypeOK, NumTypes, OnDisk
<1>8. NameInv' /\ ReadInv' /\ HeadInv'
  BY <1>1, <1>4, <1>5 DEF NameInv, ReadInv, HeadInv, OnDisk
<1>9. UploadInv'
  BY <1>1 DEF UploadInv, NumTypes
<1>10. NoOrphanUnlessLost'
  BY <1>1, <1>5, NoFileAssumption DEF NoOrphanUnlessLost, OnDisk, NameInv, TypeOK
<1>11. SpaceInv'
  BY <1>1, <1>5 DEF SpaceInv
<1>12. QED
  BY <1>7, <1>8, <1>9, <1>10, <1>11

\* A step that changes nothing.
LEMMA StutterStep ==
  ASSUME IInv, UNCHANGED vars
  PROVE  IInv'
<1> USE DEF vars, writerVars, uploaderVars, startVars, spaceVars
<1>1. /\ Queued' = Queued /\ Used' = Used /\ Blocks' = Blocks /\ OnDisk' = OnDisk
      /\ Measured' = Measured
  BY DEF Queued, Used, Blocks, OnDisk, Measured
<1>2. QED
  BY <1>1 DEF IInv, TypeOK, NumTypes, NameInv, ReadInv, HeadInv, UploadInv, SpaceInv, Room,
              LimitsHold, Free, NoOrphanUnlessLost

\* Every step keeps the invariant.
LEMMA NextIInv == IInv /\ [Next]_vars => IInv'
BY MsgHandlerStep, TransformStep, EnqueueStep, ReadHeadStep, UploadStep, UnlinkStep, RestartStep,
   StutterStep DEF Next, PluginStep

\* The initial state satisfies the invariant.
LEMMA InitIInv == Init => IInv
<1> SUFFICES ASSUME Init PROVE IInv
  OBVIOUS
<1> USE DEF Init
<1>1. OnDisk = {} /\ Queued = {} /\ Blocks = {} /\ Measured = {}
  BY DEF OnDisk, Queued, Blocks, Measured
<1>2. IsFiniteSet(Blocks) /\ Used = 0 /\ Cardinality(Measured) = 0
  BY <1>1, FS_EmptySet DEF Used
<1>3. TypeOK
  <2>1. can_complete_read \in BOOLEAN
    BY Zenon
  <2>2. queue \in Seq(Files) /\ Len(queue) <= Capacity
    BY BoundsAssumption
  <2>3. QED
    BY <1>1, <2>1, <2>2 DEF TypeOK
<1>4. NumTypes /\ NameInv /\ ReadInv /\ HeadInv /\ UploadInv /\ NoOrphanUnlessLost
  BY <1>1 DEF NumTypes, NameInv, ReadInv, HeadInv, Unique, UploadInv, NoOrphanUnlessLost
<1>5. SpaceInv
  BY <1>2, LimitsAssumption DEF SpaceInv, LimitsHold, Free
<1>6. QED
  BY <1>3, <1>4, <1>5 DEF IInv

\* The invariant holds in every behaviour.
LEMMA Invariance == Spec => []IInv
BY InitIInv, NextIInv, PTL DEF Spec

-----------------------------------------------------------------------------
\* The types of the variables; the queue never outgrows its capacity.
THEOREM TypeCorrect == Spec => []TypeOK
<1>1. IInv => TypeOK
  BY DEF IInv
<1>2. QED
  BY <1>1, Invariance, PTL

\* prv_check_for_available_space keeps the core files that were taken on while the
\* folder could be measured within storage_max_usage_kib, and all of them within
\* storage_min_headroom_kib, half written ones included, but for one byte for
\* every interrupted write (prv_fio_write), for any limits, sizes and crashes.
THEOREM CoreFilesWithinLimits == Spec => []LimitsHold
<1>1. IInv => LimitsHold
  BY DEF IInv, SpaceInv
<1>2. QED
  BY <1>1, Invariance, PTL

\* No core file is forgotten on the disk, except where the server refused it,
\* its entry was overwritten, completed for another, not found by
\* ticosd_queue_init or dropped by ticosd_queue_reset, the daemon died before
\* queueing it, or unlink failed.
THEOREM NoOrphan == Spec => []NoOrphanUnlessLost
<1>1. IInv => NoOrphanUnlessLost
  BY DEF IInv
<1>2. QED
  BY <1>1, Invariance, PTL

\* ticosd_network_file_upload never offers a file again that it knows to be
\* committed.
THEOREM SentOnce == Spec => []SentOnceUnlessUnanswered
<1>1. IInv => SentOnceUnlessUnanswered
  BY DEF IInv, UploadInv, SentOnceUnlessUnanswered, NumTypes, TypeOK
<1>2. QED
  BY <1>1, Invariance, PTL

\* A step deletes only the file that was committed, or that the plugin could not
\* complete or queue.
LEMMA DeletionStep ==
  ASSUME IInv, [Next]_vars
  PROVE  \A f \in OnDisk \ DOMAIN size' : f \in committed \/ f = outfile
<1> USE DEF OnDisk
<1>1. ASSUME NEW used \in {Used, 0}, prv_msg_handler(used)
      PROVE  OnDisk \subseteq DOMAIN size'
  BY <1>1 DEF prv_msg_handler
<1>2. ASSUME NEW n \in Sizes, NEW k \in 0 .. MaxInterrupts - interrupted,
             prv_transform_coredump_from_fd_to_file(n, k)
      PROVE  OnDisk \ DOMAIN size' \subseteq {outfile}
  BY <1>2 DEF prv_transform_coredump_from_fd_to_file, RemoveOutfile, Without
<1>3. CASE EnqueueCore
  BY <1>3 DEF EnqueueCore, RemoveOutfile, Without
<1>4. CASE ReadHead
  BY <1>4 DEF ReadHead
<1>5. CASE StatFile \/ Request \/ CompleteRead
  BY <1>5, UploadStepEffect DEF IInv, UploadEffect
<1>6. CASE UnlinkFile
  BY <1>6 DEF UnlinkFile, Without, IInv, UploadInv
<1>7. ASSUME NEW found \in Found, NEW k \in 0 .. MaxInterrupts - interrupted, Restart(found, k)
      PROVE  DOMAIN size' = OnDisk
  BY <1>7 DEF Restart
<1>8. CASE UNCHANGED vars
  BY <1>8 DEF vars
<1>9. QED
  BY <1>1, <1>2, <1>3, <1>4, <1>5, <1>6, <1>7, <1>8 DEF Next, PluginStep

\* A complete core file is deleted only after the server has committed it, or
\* because it could not be queued.
THEOREM DeletedIfCommitted == Spec => DeletedOnlyIfCommitted
<1>1. IInv /\ [Next]_vars => [\A f \in OnDisk \ DOMAIN size' : f \in committed \/ f = outfile]_vars
  BY DeletionStep
<1>2. QED
  BY <1>1, Invariance, PTL DEF Spec, DeletedOnlyIfCommitted
=============================================================================
