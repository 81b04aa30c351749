# Verification of ticosd

TLA+ models of **ticosd**, the daemon of the Ticos Linux SDK, checked with TLC and
in part proved with TLAPS. ticosd runs on a device, collects core dumps, reboot
reasons and attributes, keeps them in a queue on disk and uploads them. Source
paths below are relative to
`src/meta-ticos/recipes-ticos/ticosd/files/ticosd/src/`.

The code is small, but what it promises is hard to test: nothing may be lost or sent
twice over crashes, full disks, full queues, lost answers, and signals that arrive at
the wrong moment. That is what the models are about.

## 1. Inventory

| Component | State | Operations | Interacts with |
|---|---|---|---|
| **Transmit queue** `queue.c` | ring buffer in a memory-mapped file, `read_ptr`, `write_ptr`, `prev_ptr`, `can_complete_read` | init (find the pointers), reset, read_head, complete_read, write | written by plugins (IPC thread, start-up), read by the main thread |
| **Main loop, signals, IPC thread** `ticosd.c`, `util/ipc.c`, `util/plugins.c` | `terminate`, back-off, the IPC socket | process the queue, sleep, receive datagrams, handle SIGUSR1 and SIGTERM, shut down | everything |
| **Rate limiter** `util/rate_limiter.c` | times of the last events, and their copy in a file | check_event, init | coredump plugin |
| **Reboot plugin** `plugins/reboot/` | `last_tracked_boot_id`, `lastrebootreason`, the customer's reason file, pstore | init (track the boot), destroy (write a reason) | queue; `ticosctl reboot`; systemd |
| **Coredump plugin** `plugins/coredump/coredump.c`, `util/disk.c` | core files on disk | message handler: limits, write, queue | rate limiter, queue, core handler |
| **Network** `network.c` | a curl handle | post; file upload in three requests | queue (main thread), server |
| **ticosctl** | none | reboot, sync, request-metrics, write-attributes, enable/disable | datagrams, SIGUSR1, runtime.conf |
| **Configuration** `util/config.c`, `util/runtime_config.c`, `util/systemd.c` | base and runtime JSON, `runtime.conf` | get, set and restart | all; systemd |
| **Collectd and swupdate plugins** `plugins/collectd/`, `plugins/swupdate.c` | configuration files of other services, `was_enabled` | reload at start-up, request metrics | configuration, systemd |
| **Core ELF reader, transformer, writer** `plugins/coredump/core_elf_*.c` | of one conversion: position in the stream, warnings, segments, planned offsets, bytes written | read headers and notes from a pipe, plan segments, copy memory, write the file, with or without gzip, up to a limit | coredump plugin, `/proc/<pid>/mem` |
| **Core handler** `ticos-core-handler.c` | a socket, a retry counter | pass the pipe on to ticosd, wait for an answer | kernel, IPC thread |
| **Attributes plugin** `plugins/attributes/` | none | queue a datagram | IPC thread, queue |
| Device settings; helpers | none that outlives a call, or files written once at start-up | – | – |

Two threads share the queue under one lock. The main thread reads the head, **releases
the lock**, posts to the network for seconds or minutes, and then completes the read;
the IPC thread may write meanwhile. Signals are taken by the main thread. All else is
shared through files, so crashes and restarts are the main source of interleavings.

What makes each component correct:

* queue – the header that the code follows unvalidated is always a real one; messages
  come out in order, none twice, none forgotten, also after a restart;
* main loop – it never oversleeps, backs off after failures, answers signals, ends;
* rate limiter – the limit holds over restarts;
* reboot – one event per boot, with a reason that belongs to that reboot;
* configuration – a setting stays, ticosd and collectd follow it, and data collection
  that was disabled is off everywhere;
* core files – disk limits hold, every file is either still tracked or deleted, no file
  is deleted before the server has it, none is sent twice without need, the queue does not
  get stuck;
* conversion – what is reported as a success is a whole ELF file with all that the core
  dump held, within the limit; no input and no failing call crashes or stalls the daemon;
* core handler – the memory that ends up in the file is that of the crashed process; nobody
  waits for ever.

`PROJECT.json` lists the hazards one by one, each at its line, with the properties that
would catch it going wrong, or the reason why none does.

## 2. Modules

| Module | Models | Notes |
|---|---|---|
| `TxQueue` | `queue.c` | each operation is one action, as each holds the lock |
| `TxFifo` | the queue's promise | abstract: take the oldest, finish it, restart without loss |
| `TxQueueOrder` | `TxQueue` with history variables | refinement of `TxFifo`, liveness |
| `TxQueueProofs` | – | theorems about one run, and about any number of restarts |
| `RateLimiter`, `RateLimiterProofs` | `util/rate_limiter.c` | |
| `Ticosd`, `TicosdProofs` | `ticosd.c`, `util/ipc.c`, `util/plugins.c` | queue abstracted to a number |
| `Reboot`, `RebootProofs` | `plugins/reboot/`, `ticosctl reboot` | |
| `Corefiles`, `CorefilesProofs` | `coredump.c`, `disk.c`, upload in `network.c`, the queue pass in `ticosd.c` | queue abstracted to a sequence |
| `CoreElf`, `MCCoreElf`, `CoreElfProofs` | `core_elf_reader.c`, `core_elf_transformer.c`, `core_elf_writer.c`, `core_elf_note.c`, `core_elf_metadata.c`, CBOR sizes | one conversion |
| `CoreHandler`, `CoreHandlerProofs` | `ticos-core-handler.c`, the IPC thread of `ticosd.c`, `attributes.c`, the message handler of `coredump.c` | composes kernel, handler, ticosctl and ticosd |
| `RuntimeConfig`, `MCRuntimeConfig`, `RuntimeConfigProofs` | `config.c`, `runtime_config.c`, `systemd.c`, `collectd.c`, `swupdate.c` | composes ticosctl, ticosd's start and collectd |

`TxQueueOrder` extends `TxQueue` and instantiates `TxFifo`. Each specification is its own
TLC root; constants are given in the `.cfg` files. Operators whose name ends in
`_Something` and whose comment begins "Mutated form" are plausible bugs. No specification
uses them: substituted for the original they show that a property can fail.

### TxQueue

A word of the buffer is a record that says what it is (header, k-th word of a message,
end marker, zero); a message is the number of the write that stored it. Positions, sizes,
rounding and the strict bound of `prv_is_msg_in_bounds` are those of the code.
`prv_queue_find_read_write_ptr` is the forward scan (`ScanFrom`) followed by the walk over
`prev_header` (`WalkBack`, defined where there is a header: the loop reads no other word, and
TLC would stop if it did). `CrashInWrite(bytes, k)` is a daemon that dies inside
`ticosd_queue_write` with the first k words in the file, followed by a start.
Abstracted: the CRC8 detects every torn or overwritten payload (in reality all but one in
256), and no payload word looks like an end marker or a header. A message counts as torn
until its last word is stored; the words of one `memcpy` reach the file in order.

### TxQueueOrder and TxFifo

`owed` is the sequence of messages accepted and not yet completed. The ring buffer cannot
keep the promise of `TxFifo` always, so the module names the situations in which it does
not (`slips`), and the promise is given **until the first slip**:

| Slip | Situation |
|---|---|
| overwrite | a write takes words of an unsent message (the queue is full) |
| last byte | a message ends with the buffer's last byte: `prv_is_msg_in_bounds` rejects it at a start, or at the head of a full queue |
| stale end | the reader meets an end marker of the previous pass where the writer has stopped, and wraps alone |
| full at start | after a restart of a full queue the oldest message cannot be told (the code says so) |
| walk back | the walk over `prev_header` passes the oldest message |
| torn | a write torn at position 0, where every scan begins |
| reset | `ticosd_queue_reset` leaves unread messages behind the first header |

The definitions of the slips are part of the result: any other state in which the head is
not the oldest message would be a counterexample.

### Ticosd

The main thread is a program counter with the local variables of
`prv_ticosd_process_loop`; "rest" is between the pass over the queue and the test before
sleep, "presleep" between that test and `sleep()`. The SIGTERM handler is two steps,
since the IPC thread runs between its two statements; while it runs the main thread does
not. `int` overflow is `WrapInt` (undefined in C, but a doubling wraps on every target).
The clock may be set back during a pass. Process-directed signals go to the main thread,
which Linux prefers.

`asked` remembers where the main thread was when SIGTERM came, and when the last SIGUSR1 came
that no look at the queue has followed; `naps` counts the calls of `sleep()` since then. They
show two windows. SIGTERM is remembered in `terminate`, so it is slept on only if it comes
between the test of `terminate` and `sleep()`. SIGUSR1 is remembered nowhere: its window opens
at the last look at the queue, so that one during a post that fails, or between the pass and
the test, is slept on as well. `AwakeUnlessMissed` says that there is no other window, and
that no request is slept on twice.

### RateLimiter

The two halves of `check_event`, emptying the file and closing it, are two actions; a
restart may come between them and find any prefix, the last number of which may be cut
short. The disk may be full at `fclose`. If the file cannot be opened at a start there is
no limiter at all (`limiting = FALSE`).

### Reboot

Each file remembers the boot in which it was written, which lets a property say that a
reason is stale. `Die` ends the daemon between any two steps; `Shutdown` and `KernelPanic`
end the boot. Whether `prv_reboot_destroy` writes FirmwareUpdate or UserReset depends on
the bootloader and is a free choice. The file of `ticosctl reboot` may hold Unknown (no
`--reason` given) or something unreadable.

### Corefiles

The IPC thread writes a file, then queues its name; the main thread stats, prepares,
uploads, commits, unlinks and completes. The two interleave. When the queue is full a new
entry overwrites the oldest, in the ways `TxQueue` shows (also with the new entry at the head
and `can_complete_read` still set). `Restart(found, k)` is the end of the daemon at any point
and the next start: `ticosd_queue_init` may find only part of the queue, also in another
order, or entries that an earlier start did not find (`forgotten`), as `TxQueueOrder` shows;
with data collection off (`enabled`) `ticosd.c` resets the queue. `lost` collects the files
that nobody will delete any more, those of entries not found included.

Only core files take space on the modelled disk; what they use is counted in blocks
(`Blocks`), without the folder itself. If `nftw` fails, `ticosd_get_folder_size` returns 0 and
all of `storage_max_usage_kib` is granted: `unmeasured` are the files taken on that way.
`interrupted` counts interrupted writes, each of which lets a file exceed its limit by one byte
(`CoreElf` has the arithmetic). Every `unlink` may fail. `unanswered` collects the files whose
commit reached the server while the answer did not reach the daemon (lost, not parsed, or the
daemon died): only those may be committed again.

### CoreElf

`pc` is the reader's current action (`ticos_core_elf_reader_read_all` loops over them) and,
inside it, the place where a call may fail. `prv_read_all` and `prv_io_write_all` are one
step per system call, and each may give all, give less, be interrupted, or fail; `errno` is
kept because the code looks at it after a refusal that does not set it. The writer's
variables are those of the code; `segments_max` and `allocated` are apart because the code
enlarges the first before it knows of the second. `todo`, `avail_in` and `pending` say what
the file and deflate have still to take. Contents are left out, but each segment knows the
place in the stream where its note came from. deflate is any function that keeps or gives
out what it holds and makes a quarter of what it gets; `size_t` is modulo `SizeMod`.
A write beyond the end of an array is a crash, after which nothing is written any more, or
goes unnoticed.

What the model shows beyond the properties: a gap before a note is read into a NULL buffer,
which `read()` refuses, so that no note after a gap is ever kept (the kernel writes none);
with gzip, `prv_sync` never calls the sync of the file (core_elf_writer.c:286); and
`prv_fio_write` does not set `errno` when it refuses, which core_elf_writer.h:34 asks for:
`Stuck` is the consequence.

### CoreHandler

The kernel is an external environment with three rules: a crashed process exists until its
dump is written or nobody has the reading end of the pipe; a writer waits while the pipe is
full; a number is used again once its process is gone. (`core_pipe_limit` is left at
0, so that the kernel does not wait for the handler as well.) The pipe can be open in three
places: the handler, the datagram in the socket, ticosd (`HasReader`). ticosd has no code
that answers the handler, so `recv` ends with its timeout of 60 s, or by a signal; if
`setsockopt` failed, which the code only logs, there is no timeout ("untimed"; `-t 0` has the
same effect).
The handler may send the datagram long before ticosd looks at it, and exit in between.

The memory is read by process number after the stream's head was read, and what keeps the
process there is that the rest of the dump does not fit into the pipe. `Small` are the
processes for which this is not so: for them, and for one killed meanwhile, the memory may be
gone or that of another process, and `MemoryIsOfCrashed` says that there is no other case.
A core dump of ticosd itself would wait for itself; `prctl` (ticosd.c:452) prevents it, so
ticosd is not one of the processes that crash. `recvmsg` may fail, and its -1 passes the test for `<= 0`
since `received_size` is unsigned: the buffer of the last datagram is processed again;
`failures` counts how often.

The conversion is two steps here (`ReadStream`, `CopyMemory`), each of which may fail; a stream
that ends early may still lead to a copy of the memory. `WriteLoops` is the endless loop that
`CoreElf` calls `Stuck`: the IPC thread never comes back and keeps the pipe. The attributes
handler may fail to queue. `EverybodyLeaves` therefore excuses exactly two waits, and only as
long as their cause lasts: of a handler without a timeout (and of the process whose dump it
holds), and of everybody while the IPC thread is in that loop.

### RuntimeConfig

Four actors. *Processes that set* (`ticosctl enable-…`, `ticosd --enable-…`) read
`runtime.conf`, empty it, write their copy and ask for a restart, in separate steps.
*ticosd* reads the file once, then its plugins in the order of `g_plugins`: swupdate, then
collectd, whose include files are opened and printed, or cleared, one by one. *systemd*
keeps restart jobs; `ticosd_restart_service_if_running` returns at once, and refuses if the
unit is stopped or just stopping. *collectd* reads the files some time after its start.
A key is unset, on, off, or of another type; an include file is missing, empty or full; a
footer that was only half written counts as either. Since `prv_reload` runs only at
start-up, `was_enabled` is the setting read then.

What excuses a deviation is history: `agreed` is what a user may take to be set (nothing
after overlapping writers, a death inside the rewrite or a full disk), `stale` a change
that nobody told ticosd about, `adrift` a reload of collectd that failed or was cut off
when the files show nothing of what collectd sends. The last is lasting: at the next start
the files are already clear, so collectd is not restarted and goes on sending until a
successful reload, however often ticosd restarts. It can also come from two deaths of
which neither would do harm alone: the first leaves the files half printed, collectd starts
and reads them, the second comes while ticosd clears them (`Unmarked`). The proof of
`CollectdStaysInStep` failed until the history recorded this; the run has two crashes to reach it.

## 3. Runs

| Run | Question | Bounds | States |
|---|---|---|---|
| `queue_run` | Is the unvalidated header always real, in one run? Is the invariant of the proof an invariant? | 15 words, payloads of 3, 4, 7, 11 bytes (4 to 6 words per message), 7 writes: two to three messages fit, so there are several wraps, exact fits and overtakings | 63 k |
| `queue_order` | Does the queue implement a FIFO until the first slip; is each message sent? | 13 words, payloads 3, 4, 7, 6 writes, 2 restarts or torn writes, collection on or off | 71 k |
| `rate_limiter` | Does the limit hold over restarts and clock steps? | 3 events in 3 s, clock values on both sides of the boundary, 5 events, 2 restarts | 1.7 M |
| `main_loop` | Back-off, sleep, signals, shutdown | the real 60 s and 3600 s; a 16-bit int, so that overflow is reached in 10 failures; 2 messages, 2 datagrams, 2 SIGUSR1, 1 SIGTERM | 1.1 M |
| `reboot` | One event per boot, right reason | 3 boots, 4 starts of the daemon | 1.8 M |
| `corefiles` | Limits, orphans, early deletion, sending twice, stuck queue | 3 files of size 2, disk 8, headroom 2, usage 5, file limit 2, 2 entries in the queue, 2 restarts, 1 interrupted write | 250 k |
| `settings` | Are settings kept, do ticosd and collectd follow, is "disabled" silent? | 2 processes, 2 commands, 2 crashes, ticosd.conf that enables or has another type; symmetry of the processes | 3.2 M |
| `core_elf` | Is a success a whole file with everything in it, within the limit; does it end? | ten core dumps (as the kernel writes them, cut off at three places, and unusual ones: gaps, repeated notes, other types, none), five limits, gzip or not, serials on both sides of a CBOR boundary, any 2 failures | 282 k |
| `core_handler` | Whose memory is copied, is anything queued twice, does everybody leave? | 2 crashes, 2 numbers used twice, 1 ticosctl, pipe, socket and head of one unit each, 1 retry, 1 end of ticosd, 1 fault | 405 k |

Two commands are the least with which one can lose the other's key; the same invariants
also hold with three commands, one crash and a ticosd.conf that enables (9.7 M states, four minutes).
Three files with a queue of two entries make the queue overflow, and with these limits the
third one may have 1 if the folder is measured, exceeds that only by an interrupted write, and
has 2 if it is not measured (a headroom that an interrupt eats into is left to the theorem,
which is for all sizes); three boots are needed
for a reason that skips a boot; six writes in 13 words let the queue wrap twice and
restart on either side of a wrap.

Three runs show where the code does not do what a comment says (`findings` in
`PROJECT.json`):

| Run | Comment | What happens |
|---|---|---|
| `queue_completes` | queue.c:494 "flag to avoid marking the wrong message as sent" | the message being posted lies at 0, the queue is full up to its end and a write wraps to 0: it takes that place, `read_ptr` need not move, and the strict `>` of queue.c:481 leaves the flag set; the new message is marked as sent |
| `queue_walk_back` | queue.c:189 "walk backwards to see if there are more unread messages" | the walk runs through a newer message to 0; the older ones are forgotten |
| `backoff_overflow` | ticosd.c:257 "back off up to the entire update interval" | the int overflows; no pause at all until a pass succeeds |

Met while modelling, and not given a run of their own: a SIGUSR1 that comes
after the last look at the queue (during a post that fails, before or after the test of
`terminate`) is slept on, contrary to ipc.h:23 "immediately process the queue"
(`AwakeUnlessMissed` names the window); an Unknown left by `ticosctl reboot` wins over a known reason of lower
priority, contrary to reboot.c:318 "The first non-unknown reason found is used"; attributes
always have the timestamp 1, since `assert(msg->timestamp = time(NULL) > 0)` stores the
comparison (ticosctl.c:197) and nothing at all without assertions; the crash command compares
its argument with the results of `strcmp` reversed (ticosctl.c:143); a datagram longer than
RX_BUFFER_SIZE is cut off without notice (ticosd.c:312); if the metadata cannot be had, an
uninitialised descriptor is closed (coredump.c:139).

`CHECK_DEADLOCK FALSE` stands where the bounds, or the end of the daemon, stop the system.

### Fairness

* `TxQueueOrder`: weak fairness of read_head (the loop comes back after every interval)
  and strong fairness of complete_read: a network that is asked again and again answers
  at last. Writes, restarts and retries have none.
* `Ticosd`: weak fairness of each thread and of the running handler: the scheduler runs
  them, `sleep` ends, and curl returns with some outcome. No fairness of success: `Ends`
  holds with a network that fails for ever. curl is called without a timeout, so that "curl
  returns" is an assumption about TCP. MaxQueued bounds the queue; that writers cannot
  keep the queue non-empty for ever follows from the IPC thread ending on `terminate`.
* `CoreElf`: weak fairness of the one thread. The kernel writes or closes the pipe.
* `CoreHandler`: weak fairness of the kernel's writing, of the handler's sending and its
  timeout, of ticosctl and of the IPC thread. None of ticosd starting (its unit has
  `Restart=on-failure` only), of faults (a failing `setsockopt` and the endless write loop
  among them), of ticosd ending or of signals.
* `Corefiles`: weak fairness of the main thread's steps and of requests ending, strong
  fairness of a granted answer to each of the three requests.

## 4. Proofs

All proofs are for every value of the constants.

**TxQueueProofs, one run** (`RunSpec`, on a new file). `HeadIsIntact` is not inductive,
since the next position depends on all messages ahead. `RunInv` adds: the words below
`write_ptr` are tiled by whole messages; from every header at or beyond it, whole messages
follow one another up to an end marker or the end of the buffer; `read_ptr` is at a header
whenever the code does not check. The work is in three places. A write cuts leftovers:
headers that remain beyond its end still start tiled regions (`StoreKeepsTiling`). A wrap
turns the written part into leftovers (`FullIsLeftover`, `MarkIsLeftover`). And the loop
that skips overtaken messages ends at a header beyond the write, or at 0
(`SkipToHeader`), by a least-counterexample argument over the buffer; `SkipToEquation`
shows that the recursive function modelling the loop is well defined.

**TxQueueProofs, any number of runs** (`OrderSpec`). `HandsOutTheOldest`, `HeadStaysIntact` and
the refinement `ImplementsFifo` hold until the first slip, for any number of writes, restarts
and crashes inside a write. A restart keeps nothing but the file, so the invariant has
to say what the file tells. `Calm` does, as a predicate on a buffer, pointers, `owed` and the number of writes:

* `Numbered`, `Listed`: every message has a number of its own, and the messages that are
  whole and unread are those owed;
* `Placed`: they lie between the pointers (`Lower`), or fill the buffer from `read_ptr` up to
  the place where the last pass ended and from 0 up to `write_ptr`, with no old end marker
  between the pointers (`Wrapped`); below `write_ptr` all is tiled;
* `InOrder`: from `read_ptr` around the buffer their numbers ascend;
* `Backwards`, `Linked`: `prev_header` points backwards except from 0, and links each unread
  message to the one before it.

There is one lemma for each way in which the buffer changes. `CalmWrite` and `CalmComplete`
are about the two ends of the queue. `CalmTorn`: the words that a crash left behind a write
are those of no valid message, so the queue is the one before the write. `CalmReset` is the
start with collection off. `CalmStart` is the central one: on such a buffer
`prv_queue_find_read_write_ptr` finds pointers with which the queue is in order again, for the
same messages owed. The scan is a recursive function whose value is a sequence; `ScanIs` says
what it visits, `StartsAt` where start-up then takes the unread messages to begin and to end, and
`WalkBackStops` that the walk over `prev_header` comes to rest on the oldest one, given that
there is no slip "walk back". Each is an argument by least counterexample over positions, since
the installed provers cannot use the library's induction rules.
The refinement is then one case per action: a write is Accept, a read of the head Take,
completion Finish (the message held is the first owed), a retry, restart or torn write Forget,
a start with collection off Discard; a step that slips gives up `calm`.
Before the proof, TLC checked `CalmInv` as an invariant of `OrderSpec` with buffers of 4 to
16 words.

**RateLimiterProofs**. The history is the times of the last Count accepted events
(`HistoryIsRecent`), so the comparison with its last slot is one with the event Count
before. A restart keeps that, or sets `lapsed`; without a limiter `lapsed` is set.

**TicosdProofs**. `NapBounded` needs that `interval` is at most Refresh from the loop's head
on and that `override_interval` is an integer whatever overflow makes of it;
`AwakeUnlessMissed` is traced back from `sleep()` to the last look at the queue
(`MissedBeforeSleep`): a SIGUSR1 open after that look came after it, and none has been slept
on before `sleep()` begins. `BackoffDoubles`
speaks of the interval of the last failure, which the code took from an `override_interval`
computed one failure earlier; `BackoffInv` adds that one (`OverrideDoubles`). What a doubled
back-off is, is the recursive function `Doubled`, whose equation is proved by a least
counterexample, and `WrapFits` says that the product is exact while it fits in an int.

**RebootProofs**. The history of a boot is spread over files, so the invariant ties it together
for each place of the plugin. `MarkInv`: the boot id is marked before the sources are read.
`EventInv`: a boot that is not marked, or is about to report, has no event, and one that is
marked has one or `dropped` is set; the first half makes `OneEventPerBoot` inductive over any
number of deaths. `DateInv`: while the history says that the reason can be relied on
(`fresh`), every source holds nothing older than what the boot before left, and once it is
cleared nothing older than this boot; `InitInv` says where the loop over the sources is.

**CorefilesProofs**. `NameInv`: a name is with the plugin, then in the queue, then with the main
thread, and is never used again; so the threads do not work on the same file, and an entry is
overwritten, completed or not found only where `lost` records it. `HeadInv`: no entry is in
the queue twice, and the one being uploaded is the head or gone, so that a completed read
removes that one or one that `lost` records; a restart keeps this, since what start-up finds is
some of the entries, each once (`FoundIsQueue`). `UploadInv`: a file that the main thread asked
about stays on the disk until it is committed. `SpaceInv`: the space that
`prv_check_for_available_space` found is still there when the file is complete, since
meanwhile files are only deleted. `LimitsKept` is for the steps that free space,
`LimitsKeptByGrowth` for the one that takes it. This is where `Blocks` is needed, a set whose
cardinality the theorems on finite sets can bound, rather than a sum.

**RuntimeConfigProofs**. `TicosdInStep` speaks of a quiet system; `InStepInv` extends it to
all states: whoever has touched the file is busy until it has asked for a restart, and a
ticosd that has a job, or is down, will read the file again. The types of the processes'
copies are needed to see that marking an overlap does not move a process. `SettingsKept`
needs `AloneInv`: a process that rewrites the file without an overlap has a copy that agrees
with what was promised in all keys but its own. `CollectdInStep` needs `SendInv`: if collectd
sends and no restart is due, an include file that is still full shows it to the next reload, or
the running reload has just emptied one; and once ticosd is up the footer, which makes
collectd send, is as `was_enabled` says. `ReloadInv` follows `prv_reload` through the files.
`DisabledIsSilent` follows from these and `TicosdInStep`.

**CoreElfProofs**. The invariant has one part for each stage of the conversion. `ReaderInv`: the
reader is where it believes to be in the pipe, and inside a note it is in that note, so that
`prv_process_note_segment` keeps it from its own place. `GatherInv`: each segment before the
one in turn is in the array, in order, or has a warning, or memory ran out. `LayoutInv`: the
writer plans the table with one running offset and writes the data with another; row by row
the plan is a chain that begins behind the table (`Planned`), and segment by segment the
offset reached meets it, so the comparison in `SegmentWritten` never fails. `OutputInv`: what
is in the file and what is still to be written is what the writer has counted, however writes
fell short. `LimitInv`: the size that `prv_fio_write` compares with the limit is the length
less one per interrupted write, modulo the width of `size_t`; arithmetic modulo `SizeMod`
is derived in four lemmas. `ArrayInv` and `WarningInv` bound the two arrays.

**CoreHandlerProofs**. `MemoryIsOfCrashed` and `QueuedOnce` are about a moment that several
actors lead up to, so `HandlerInv` follows a datagram all the way. `MailInv`: it is with its
sender, in the socket, or with the IPC thread, in one place only, and is not queued before it
has left all three. `PipeInv` is an account: while the pipe has been with somebody all the
time, what the kernel has still to write, what the pipe holds and what the thread has read add
up to the length of the dump. For a dump longer than head and pipe something is then left to
write, so the kernel cannot end it, and its process keeps its number; `KernelInv` (each dump
is of a process of its own, older than a process that runs under its number) carries this
over to the use of the number. `ThreadInv` gives the locals of the thread. The lemmas named
`...Effect` state once what each action does to the two record-valued variables.

The assumptions are the named `ASSUME`s of the modules (a buffer of at least four words,
payloads of at least one byte, positive times and sizes, at least one process number); TLC
evaluates them in every run. Two of `CoreElf` deserve a word. `SizesAssumption` asks for a
`size_t` of at least 16 bits, the largest alignment considered: padding is computed modulo
its width. `BlocksAssumption` says that the limit and what is written in one go (a header, a
chunk, the metadata or a note, all of which are in memory) add up to a `size_t`: else the sum
in `prv_fio_write` would wrap and a file could pass the limit. The limit is at most the
free space of the disk and the configured maximum (96 MB by default), so this holds on every
64-bit target, and on 32-bit ones unless the limit is set to just below 4 GiB.

Only model-checked:

* liveness (`EventuallySent`, `Ends`, `EntryLeaves`, `EverybodyLeaves`, `EndsUnlessStuck`).

Liveness under fairness is beyond the prover. All invariants, and the refinement `FifoSpec`, are
proved. What the theorems about the queue over restarts do not say, and TLC does not either, is
what happens after a slip: behaviours are followed up to their first slip. The types of the queue
(`TypeOK`) are proved for one run, and over restarts as part of `Calm` until a slip: beyond it
`prev_header` need not point backwards, and the walk over it need not be well founded.

## 5. Not modelled

* The contents of the ELF file, of the CBOR metadata and of the compressed stream.
* Device settings (the output of a script, read once), and the text of the generated
  configurations of collectd and swupdate.
* Two instances of ticosd, a changed queue size between runs, the heap fallback of the
  queue, allocation failures that only skip a step.
* Recipes, images, Docker, test scripts.

## 6. Plan

1. Done: queue (ring, order, abstract FIFO), main loop, rate limiter, reboot, core files,
   configuration with collectd and swupdate, conversion of core dumps, core handler with
   the IPC thread and attributes; first theorems.
2. Done: the safety properties of all modules proved, with the queue's invariant over
   restarts and its refinement of `TxFifo`.
3. Left for later models: two instances of ticosd with `--daemonize`; the composition of
   rate limiter and core files.
