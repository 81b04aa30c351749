------------------------------ MODULE Corefiles -------------------------------
(***************************************************************************)
(* The life of a core file: the coredump plugin writes it on the IPC       *)
(* thread and queues its name (src/plugins/coredump/coredump.c); the main  *)
(* thread uploads it in three requests and deletes it (src/network.c).     *)
(* Files survive a crash of the daemon, and of the queue what start-up     *)
(* finds in the buffer; nothing but these two ever deletes a core file, so *)
(* what matters is that they do not lose track of one.                     *)
(*                                                                         *)
(* The transmit queue is a sequence here (TxQueue has the ring buffer).    *)
(* When it is full a new entry takes the place of the oldest; if it comes  *)
(* to lie where the head was (the write wraps to it, or the buffer is full *)
(* to the last word), the new entry also becomes the head.                 *)
(***************************************************************************)
EXTENDS Integers, Sequences, FiniteSets, FiniteSetsExt

CONSTANTS
  Files,           \* names that prv_generate_filename makes, each once
  Sizes,           \* sizes of core files, complete or half written
  Disk,            \* size of the file system
  min_headroom, max_usage, max_size,    \* the limits of coredump_plugin
  Capacity,        \* entries that fit in the transmit queue
  MaxCrashes,      \* bound on the number of restarts
  MaxInterrupts    \* bound on the number of interrupted writes

ASSUME SizesAssumption == Sizes \subseteq Nat \ {0} /\ IsFiniteSet(Files)
ASSUME LimitsAssumption ==
  /\ Disk \in Nat /\ min_headroom \in Nat /\ max_usage \in Nat /\ max_size \in Nat
  /\ min_headroom <= Disk
ASSUME BoundsAssumption ==
  Capacity \in Nat \ {0} /\ MaxCrashes \in Nat /\ MaxInterrupts \in Nat

NoFile == "no file"
ASSUME NoFileAssumption == NoFile \notin Files

VARIABLES
  fresh,      \* names not used yet
  size,       \* the files on the disk and their sizes
  queue,      \* the names queued
  enabled,    \* enable_data_collection, read when the daemon starts
  \* the IPC thread: what it does, to which file, the limit of its size
  writer, outfile, limit,
  \* the main thread: what it does, to which file; can_complete_read
  uploader, filename, can_complete_read,
  crashes,
  forgotten,  \* entries that a start did not find, but a later one may
  \* history: files the server has; files on the disk that nobody will delete:
  \* refused by the server, not to be removed, their entry gone from the
  \* queue, or the daemon died early; those whose commit got no answer; those
  \* taken on while the folder could not be measured; interrupted writes
  committed, lost, unanswered, unmeasured, interrupted

writerVars == <<writer, outfile, limit>>
uploaderVars == <<uploader, filename, can_complete_read>>
startVars == <<enabled, crashes, forgotten>>
spaceVars == <<unmeasured, interrupted>>
vars == <<fresh, size, queue, writerVars, uploaderVars, startVars, spaceVars, committed, lost,
          unanswered>>

Init ==
  /\ fresh = Files
  /\ size = <<>>
  /\ queue = <<>>
  /\ writer = "idle" /\ outfile = NoFile /\ limit = 0
  /\ uploader = "idle" /\ filename = NoFile /\ can_complete_read = FALSE
  /\ enabled \in BOOLEAN /\ crashes = 0 /\ forgotten = {}
  /\ committed = {} /\ lost = {} /\ unanswered = {} /\ unmeasured = {} /\ interrupted = 0

OnDisk == DOMAIN size
Without(f) == [g \in OnDisk \ {f} |-> size[g]]

-----------------------------------------------------------------------------
(* The coredump plugin *)

\* ticosd_get_folder_size and ticosd_get_free_space: each file takes as many
\* blocks as its size says.
Blocks == UNION {{f} \X (1 .. size[f]) : f \in OnDisk}
Used == Cardinality(Blocks)
Free == Disk - Used

\* Mutated form: each file is only compared with its own limit.
prv_check_for_available_space_OwnLimit(used) == max_size

\* A limit of 0 is no limit, except that max_size limits even then if one of
\* the others is set.  used is what ticosd_get_folder_size returned.
prv_check_for_available_space(used) ==
  LET deltas == {max_size}
                \cup (IF min_headroom # 0 THEN {Free - min_headroom} ELSE {})
                \cup (IF max_usage # 0 THEN {max_usage - used} ELSE {})
  IN  IF min_headroom = 0 /\ max_usage = 0 /\ max_size = 0 THEN Free
      ELSE IF \E d \in deltas : d <= 0 THEN 0
      ELSE Min(deltas)

\* A name that has not been used: a new uuid.
prv_generate_filename == CHOOSE f \in fresh : TRUE

\* prv_msg_handler takes on a core dump: data collection is enabled, the
\* rate limiter accepts it and there is space.  Otherwise nothing changes.
\* If the folder cannot be measured (nftw fails), nothing counts as used.
prv_msg_handler(used) ==
  LET f == prv_generate_filename
  IN  /\ enabled
      /\ writer = "idle"
      /\ fresh # {}
      /\ used \in {Used, 0}
      /\ prv_check_for_available_space(used) > 0
      /\ limit' = prv_check_for_available_space(used)
      /\ unmeasured' = IF used = Used THEN unmeasured ELSE unmeasured \cup {f}
      /\ fresh' = fresh \ {f}
      /\ writer' = "writing" /\ outfile' = f
      /\ size' = [g \in OnDisk \cup {f} |-> IF g = f THEN 0 ELSE size[g]]
      /\ UNCHANGED <<queue, uploaderVars, startVars, interrupted, committed, lost, unanswered>>

\* unlink of the file that could not be completed or queued; if that fails too,
\* the file stays.
RemoveOutfile ==
  \/ size' = Without(outfile) /\ unmeasured' = unmeasured \ {outfile} /\ UNCHANGED lost
  \/ UNCHANGED <<size, unmeasured>> /\ lost' = lost \cup {outfile}

\* prv_transform_coredump_from_fd_to_file: a file of size n is complete, if it
\* stays within the limit and the disk; or the transformation fails and the
\* file is removed.  prv_fio_write takes one byte off the size it counts for
\* every interrupted write; there are k of them.
prv_transform_coredump_from_fd_to_file(n, k) ==
  /\ writer = "writing"
  /\ interrupted' = interrupted + k
  /\ \/ /\ n <= limit + k /\ n <= Free
        /\ size' = [size EXCEPT ![outfile] = n]
        /\ writer' = "queueing"
        /\ UNCHANGED <<outfile, lost, unmeasured>>
     \/ RemoveOutfile /\ writer' = "idle" /\ outfile' = NoFile
  /\ limit' = 0
  /\ UNCHANGED <<fresh, queue, uploaderVars, startVars, committed, unanswered>>

\* Mutated form: a file that cannot be queued stays on the disk.
EnqueueCore_KeepsFile ==
  /\ writer = "queueing"
  /\ writer' = "idle" /\ outfile' = NoFile
  /\ \/ Len(queue) < Capacity /\ queue' = Append(queue, outfile)
     \/ UNCHANGED queue
  /\ UNCHANGED <<fresh, size, limit, uploaderVars, startVars, spaceVars,
                 committed, lost, unanswered>>

\* Mutated form: the queue grows instead of overwriting.
EnqueueCore_Grows ==
  /\ writer = "queueing"
  /\ writer' = "idle" /\ outfile' = NoFile
  /\ queue' = Append(queue, outfile)
  /\ UNCHANGED <<fresh, size, limit, uploaderVars, startVars, spaceVars,
                 committed, lost, unanswered>>

\* ticosd_txdata of the file's name.  If that fails the file is removed.
EnqueueCore ==
  /\ writer = "queueing"
  /\ writer' = "idle" /\ outfile' = NoFile
  /\ \/ /\ Len(queue) < Capacity
        /\ queue' = Append(queue, outfile)
        /\ UNCHANGED <<size, can_complete_read, lost, unmeasured>>
     \/ /\ Len(queue) = Capacity
        /\ \/ queue' = Append(Tail(queue), outfile) /\ can_complete_read' = FALSE
           \/ queue' = <<outfile>> \o Tail(queue) /\ UNCHANGED can_complete_read
        /\ lost' = lost \cup ({Head(queue)} \cap OnDisk)
        /\ UNCHANGED <<size, unmeasured>>
     \/ RemoveOutfile /\ UNCHANGED <<queue, can_complete_read>>
  /\ UNCHANGED <<fresh, limit, uploader, filename, startVars, interrupted, committed,
                 unanswered>>

-----------------------------------------------------------------------------
(* The upload *)

\* What a request may come to: curl fails, or the server answers; any status
\* below 400 counts as success.
Replies == {"no answer", "< 400", "4xx", "5xx"}
prv_check_error(reply) ==
  CASE reply \in {"no answer", "5xx"} -> "RetryLater"
    [] reply = "4xx" -> "NoRetry"
    [] reply = "< 400" -> "OK"

\* The end of a pass over one entry in prv_ticosd_process_tx_queue: unless it
\* is to be retried, ticosd_queue_complete_read removes the head.
Done(result) ==
  LET completes == result # "RetryLater" /\ can_complete_read
      gone == (IF result = "NoRetry" THEN {filename} ELSE {})
              \cup (IF completes THEN {Head(queue)} ELSE {})
  IN  /\ uploader' = "idle" /\ filename' = NoFile
      /\ can_complete_read' = (can_complete_read /\ result = "RetryLater")
      /\ queue' = IF completes THEN Tail(queue) ELSE queue
      /\ lost' = lost \cup (gone \cap OnDisk)

\* ticosd_queue_read_head
ReadHead ==
  /\ enabled
  /\ uploader = "idle"
  /\ queue # <<>>
  /\ uploader' = "stat" /\ filename' = Head(queue) /\ can_complete_read' = TRUE
  /\ UNCHANGED <<fresh, size, queue, writerVars, startVars, spaceVars, committed, lost, unanswered>>

uploadStep == UNCHANGED <<fresh, writerVars, startVars, spaceVars>>
sameServer == UNCHANGED <<committed, unanswered>>

\* Mutated form: a file that is not there is retried later.
StatFile_Retries ==
  /\ uploader = "stat"
  /\ IF filename \in OnDisk
     THEN uploader' = "prepare" /\ UNCHANGED <<filename, can_complete_read, queue, lost>>
     ELSE Done("RetryLater")
  /\ uploadStep /\ sameServer /\ UNCHANGED size

\* ticosd_network_file_upload: a file that is not there is never retried.
StatFile ==
  /\ uploader = "stat"
  /\ IF filename \in OnDisk
     THEN uploader' = "prepare" /\ UNCHANGED <<filename, can_complete_read, queue, lost>>
     ELSE Done("NoRetry")
  /\ uploadStep /\ sameServer /\ UNCHANGED size

\* An answer that cannot be parsed is a reason to retry.
prv_file_upload_prepare(reply, parsed) ==
  LET result == IF prv_check_error(reply) # "OK" THEN prv_check_error(reply)
                ELSE IF parsed THEN "OK" ELSE "RetryLater"
  IN  /\ uploader = "prepare"
      /\ \/ /\ result = "OK" /\ uploader' = "upload"
            /\ UNCHANGED <<filename, can_complete_read, queue, lost>>
         \/ result # "OK" /\ Done(result)
      /\ uploadStep /\ sameServer /\ UNCHANGED size

\* Here also that of a refusal.
prv_file_upload(reply, parsed) ==
  LET result == IF parsed THEN prv_check_error(reply) ELSE "RetryLater"
  IN  /\ uploader = "upload"
      /\ \/ /\ result = "OK" /\ uploader' = "commit"
            /\ UNCHANGED <<filename, can_complete_read, queue, lost>>
         \/ result # "OK" /\ Done(result)
      /\ uploadStep /\ sameServer /\ UNCHANGED size

\* Mutated form: the commit's result is not looked at.
prv_file_upload_commit_Unchecked(reply) ==
  /\ uploader = "commit"
  /\ uploader' = "unlink"
  /\ committed' = IF reply = "< 400" THEN committed \cup {filename} ELSE committed
  /\ UNCHANGED <<filename, can_complete_read, queue, lost, unanswered>>
  /\ uploadStep /\ UNCHANGED size

\* Mutated form: the body of the answer must be parsed, as for the other requests.
prv_file_upload_commit_Parsed(reply) ==
  /\ uploader = "commit"
  /\ IF reply = "< 400"
     THEN /\ committed' = committed \cup {filename}
          /\ \/ uploader' = "unlink" /\ UNCHANGED <<filename, can_complete_read, queue, lost>>
             \/ Done("RetryLater")
     ELSE UNCHANGED committed /\ Done(prv_check_error(reply))
  /\ uploadStep /\ UNCHANGED <<size, unanswered>>

\* The server may have committed the file though its answer was lost.
prv_file_upload_commit(reply) ==
  LET result == prv_check_error(reply)
  IN  /\ uploader = "commit"
      /\ \/ result = "OK" /\ committed' = committed \cup {filename}
         \/ reply = "no answer" /\ committed' = committed \cup {filename}
         \/ result # "OK" /\ UNCHANGED committed
      /\ unanswered' = IF reply = "no answer" THEN unanswered \cup {filename} ELSE unanswered
      /\ \/ /\ result = "OK" /\ uploader' = "unlink"
            /\ UNCHANGED <<filename, can_complete_read, queue, lost>>
         \/ result # "OK" /\ Done(result)
      /\ uploadStep /\ UNCHANGED size

\* What unlink returns is not looked at.
UnlinkFile ==
  /\ uploader = "unlink"
  /\ uploader' = "unlinked"
  /\ \/ /\ size' = Without(filename) /\ lost' = lost \ {filename}
        /\ unanswered' = unanswered \ {filename} /\ unmeasured' = unmeasured \ {filename}
     \/ UNCHANGED <<size, unanswered, unmeasured>> /\ lost' = lost \cup {filename}
  /\ UNCHANGED <<fresh, writerVars, startVars, interrupted, committed, filename,
                 can_complete_read, queue>>

\* ticosd_queue_complete_read after the upload
CompleteRead ==
  /\ uploader = "unlinked"
  /\ Done("OK")
  /\ uploadStep /\ sameServer /\ UNCHANGED size

-----------------------------------------------------------------------------
Queued == {queue[i] : i \in 1 .. Len(queue)}

\* What ticosd_queue_init may find: every entry at most once.  Where the walk
\* over the buffer goes wrong (TxQueue says when), it passes over entries,
\* which a later start may find, or finds them in another order.
Found ==
  {q \in UNION {[1 .. n -> Queued \cup forgotten] : n \in 0 .. Capacity} :
     \A i, j \in DOMAIN q : q[i] = q[j] => i = j}

\* The daemon dies and ticosd_main starts again.  A file being written stays as
\* it is, with k interrupted writes.  If data collection has been switched off,
\* ticosd_queue_reset makes the queue empty.
Restart(found, k) ==
  /\ crashes < MaxCrashes
  /\ crashes' = crashes + 1
  /\ writer' = "idle" /\ outfile' = NoFile /\ limit' = 0
  /\ uploader' = "idle" /\ filename' = NoFile /\ can_complete_read' = FALSE
  /\ IF writer = "writing"
     THEN /\ \E n \in Sizes \cup {0} : /\ n <= limit + k /\ n <= Free
                                      /\ size' = [size EXCEPT ![outfile] = n]
          /\ interrupted' = interrupted + k
     ELSE UNCHANGED <<size, interrupted>>
  /\ \/ enabled' = TRUE /\ queue' = found
     \/ enabled' = FALSE /\ queue' = <<>>
  /\ forgotten' = (Queued \cup forgotten) \ Queued'
  /\ lost' = ((lost \cup Queued \cup {outfile}) \cap OnDisk) \ Queued'
  /\ UNCHANGED <<fresh, unmeasured, committed, unanswered>>

PluginStep ==
  \/ \E used \in {Used, 0} : prv_msg_handler(used)
  \/ \E n \in Sizes, k \in 0 .. MaxInterrupts - interrupted :
       prv_transform_coredump_from_fd_to_file(n, k)
  \/ EnqueueCore

Request ==
  \E reply \in Replies :
    \/ \E parsed \in BOOLEAN :
         prv_file_upload_prepare(reply, parsed) \/ prv_file_upload(reply, parsed)
    \/ prv_file_upload_commit(reply)

Next ==
  \/ PluginStep
  \/ ReadHead \/ StatFile \/ Request \/ UnlinkFile \/ CompleteRead
  \/ \E found \in Found, k \in 0 .. MaxInterrupts - interrupted : Restart(found, k)

\* The main thread runs, requests end, and a server asked again and again
\* grants each kind of request at last.
Fairness ==
  /\ WF_vars(ReadHead \/ StatFile \/ UnlinkFile \/ CompleteRead)
  /\ WF_vars(Request)
  /\ SF_vars(prv_file_upload_prepare("< 400", TRUE))
  /\ SF_vars(prv_file_upload("< 400", TRUE))
  /\ SF_vars(prv_file_upload_commit("< 400"))

Spec == Init /\ [][Next]_vars /\ Fairness

-----------------------------------------------------------------------------
\* The types of the variables.
TypeOK ==
  /\ fresh \subseteq Files /\ OnDisk \subseteq Files /\ \A f \in OnDisk : size[f] \in Nat
  /\ queue \in Seq(Files) /\ Len(queue) <= Capacity
  /\ writer \in {"idle", "writing", "queueing"} /\ outfile \in Files \cup {NoFile}
  /\ uploader \in {"idle", "stat", "prepare", "upload", "commit", "unlink", "unlinked"}
  /\ filename \in Files \cup {NoFile} /\ can_complete_read \in BOOLEAN /\ enabled \in BOOLEAN
  /\ committed \subseteq Files /\ lost \subseteq Files /\ forgotten \subseteq Files

\* The blocks of the files that were taken on when the folder was measured.
Measured == {b \in Blocks : b[1] \notin unmeasured}

\* On a file system of their own, the core files taken on while the folder could
\* be measured never take more than storage_max_usage_kib, and all of them
\* never leave less than storage_min_headroom_kib free, but for one byte for
\* every write that was interrupted, whatever becomes of the files: also the
\* ones that a crash left half written count (prv_check_for_available_space).
LimitsHold ==
  /\ max_usage # 0 => Cardinality(Measured) <= max_usage + interrupted
  /\ min_headroom # 0 => Free >= min_headroom - interrupted

\* A complete core file is deleted only when the server has committed it, or
\* when it could not be queued: no crash, retry or overwritten entry makes
\* ticosd_network_file_upload delete one that the server does not have.
DeletedOnlyIfCommitted ==
  [][\A f \in OnDisk \ DOMAIN size' : f \in committed \/ f = outfile]_vars

\* A core file that the server has committed is offered to it again only if the
\* answer to the commit was lost or the daemon died: neither the retry of a
\* pass nor a queue that moves under the main thread sends one twice
\* (ticosd_network_file_upload, ticosd_queue_complete_read).
SentOnceUnlessUnanswered ==
  uploader \in {"prepare", "upload", "commit"} /\ filename \in committed =>
    filename \in unanswered \/ crashes > 0

\* A core file on the disk is being written, or its name is queued, unless the
\* server refused it, its entry was overwritten, completed in place of another,
\* not found when the daemon started, or dropped because data collection was
\* then off, the daemon died before queueing it, or unlink failed: on every
\* other path prv_msg_handler or ticosd_network_file_upload removes the file.
\* A file whose entry a later start finds after all is no longer lost.
NoOrphanUnlessLost ==
  \A f \in OnDisk : f \in Queued \cup lost \cup {outfile}

\* An entry of the queue leaves it in the end, so that the ones behind it are
\* not blocked: also the entry of a file that is no longer there, because the
\* daemon died after deleting it (ticosd_network_file_upload).
EntryLeaves ==
  \A f \in Files : f \in Queued ~> f \notin Queued
=============================================================================
