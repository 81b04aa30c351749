------------------------------- MODULE CoreElf -------------------------------
(***************************************************************************)
(* The conversion of a core dump (src/plugins/coredump/core_elf_*.c): the  *)
(* reader parses the ELF file that the kernel writes into a pipe, the      *)
(* transformer keeps its notes, plans to copy its memory segments from     *)
(* /proc/<pid>/mem and adds a note of its own, and the writer lays out a   *)
(* new ELF file and writes it, through gzip or not, up to a size limit.    *)
(*                                                                         *)
(* Everything is sequential; what is hard is that every read, write and    *)
(* allocation may fail or fall short, and that the writer announces the    *)
(* place of each segment before it has written any.  Positions and sizes   *)
(* are in bytes; contents are left out but for the place they come from.   *)
(***************************************************************************)
EXTENDS Integers, Sequences, FiniteSets

CONSTANTS
  Streams,       \* core dumps: [valid, phoff, segs, length]
  MaxSizes,      \* limits given by prv_check_for_available_space
  Serials,       \* lengths of the device serial, the longest string of the metadata
  Ehdr, Phdr,    \* sizeof(Elf_Ehdr), sizeof(Elf_Phdr)
  Chunk,         \* size of the buffers for copying, padding and compressing
  Step,          \* SEGMENTS_REALLOC_STEP_SIZE
  MaxWarnings,   \* size of the array of warnings
  SizeMod,       \* a size_t is a number modulo SizeMod
  MaxFaults      \* bound on the calls that fail, fall short or are interrupted

ASSUME StreamsAssumption ==
  \A s \in Streams :
    /\ s.valid \in BOOLEAN /\ s.phoff \in Nat /\ s.length \in Nat
    /\ s.segs \in Seq([type : {"NOTE", "LOAD", "other"}, offset : Nat, filesz : Nat,
                       align : {0} \cup {2 ^ k : k \in 0 .. 16}])
ASSUME SizesAssumption ==
  /\ \A n \in {Ehdr, Phdr, Chunk, Step} : n \in Nat \ {0}
  /\ MaxSizes \subseteq 0 .. SizeMod - 1 /\ SizeMod \in Nat /\ SizeMod >= 2 ^ 16
ASSUME BoundsAssumption == MaxWarnings \in Nat /\ MaxFaults \in Nat /\ Serials \subseteq Nat
\* What is written in one go is in memory, so that its size and the limit add
\* up to a size_t: a header, a chunk, the metadata (128 bytes and the serial
\* are enough for it) or a note.
ASSUME BlocksAssumption ==
  \A limit \in MaxSizes :
    /\ \A n \in {Ehdr, Phdr, Chunk} \cup {128 + n : n \in Serials} : limit + n < SizeMod
    /\ \A s \in Streams : \A i \in 1 .. Len(s.segs) :
         s.segs[i].type = "NOTE" => limit + s.segs[i].filesz < SizeMod

VARIABLES
  stream, max_size, gzip, serial,      \* the input, the limit, the configuration
  pc,                                  \* the reader's action, and the place in it
  \* the reader: its position and that of the pipe; what prv_read_all has
  \* still to read, and whether it has given up
  stream_pos, piped, left, broken,
  next, next_warning_idx, write_success,     \* the transformer
  \* the writer: the segments added, the length of their array according to
  \* segments_max and in truth; the segment in turn, planned and reached offsets
  segments, segments_max, allocated, idx, segment_data_offset, write_offset,
  rest,                                \* bytes of padding or memory still to come
  \* one prv_write_all: its size, what deflate and what the file have still
  \* to take; what deflate holds back; the file
  block, avail_in, todo, pending, written_size, length,
  errno,
  faults,
  \* history: interrupted writes; warnings and the segments they are about; a
  \* failed realloc; where the data of each segment really starts
  interrupted, warnings, warned, nomem, placed

input == <<stream, max_size, gzip, serial>>
reader == <<stream_pos, piped, left, broken>>
transformer == <<next, next_warning_idx, warnings, warned, write_success>>
array == <<segments, segments_max, allocated, nomem>>
layout == <<idx, segment_data_offset, write_offset, rest, placed>>
io == <<block, avail_in, todo, pending, written_size, length, interrupted>>
vars == <<input, pc, reader, transformer, array, layout, io, errno, faults>>

Init ==
  /\ stream \in Streams /\ max_size \in MaxSizes /\ gzip \in BOOLEAN /\ serial \in Serials
  /\ pc = "open"
  /\ stream_pos = 0 /\ piped = 0 /\ left = 0 /\ broken = FALSE
  /\ next = 1 /\ next_warning_idx = 0 /\ write_success = FALSE
  /\ segments = <<>> /\ segments_max = 0 /\ allocated = 0
  /\ idx = 1 /\ segment_data_offset = 0 /\ write_offset = 0 /\ rest = 0
  /\ block = 0 /\ avail_in = 0 /\ todo = 0 /\ pending = 0 /\ written_size = 0 /\ length = 0
  /\ errno = "none" /\ faults = 0
  /\ interrupted = 0 /\ warnings = 0 /\ warned = {} /\ nomem = FALSE /\ placed = <<>>

MIN(a, b) == IF a <= b THEN a ELSE b
\* The macro's mask; align is a power of two.
TICOS_ALIGN_UP(n, align) == ((n + align - 1) \div align) * align

Fault == faults < MaxFaults /\ faults' = faults + 1

-----------------------------------------------------------------------------
(* The metadata note, core_elf_metadata.c and core_elf_note.c *)

\* Bytes of a CBOR item's head, which holds a number or the length of a string.
prv_encode_unsigned_integer(n) ==
  IF n < 24 THEN 1 ELSE IF n < 256 THEN 2 ELSE IF n < 65536 THEN 3 ELSE 5
ticos_cbor_encode_string(n) == prv_encode_unsigned_integer(n) + n

\* A dictionary of seven small keys; a version, a time, the serial, and four
\* short strings (of 8 bytes here).
prv_cbor_calculate_size ==
  prv_encode_unsigned_integer(7) + 7 * prv_encode_unsigned_integer(1)
  + prv_encode_unsigned_integer(1) + prv_encode_unsigned_integer(65536)
  + 4 * ticos_cbor_encode_string(8) + ticos_cbor_encode_string(serial)

\* sizeof(Elf_Nhdr), the owner "Ticos" and the description
ticos_core_elf_note_calculate_size ==
  12 + TICOS_ALIGN_UP(6, 4) + TICOS_ALIGN_UP(prv_cbor_calculate_size, 4)

-----------------------------------------------------------------------------
(* The reader, core_elf_reader.c *)

\* prv_add_warning.  The index is compared with > and not with >=, so that one
\* warning too many is stored where the index itself is.
prv_add_warning(about) ==
  /\ warnings' = warnings + 1
  /\ warned' = warned \cup about
  /\ next_warning_idx' = MIN(next_warning_idx + 1, MaxWarnings + 1)
  /\ UNCHANGED <<next, write_success>>

StartRead(action, size) ==
  /\ pc' = action /\ left' = size /\ broken' = FALSE
  /\ UNCHANGED <<stream_pos, piped>>

Goto(action) == pc' = action /\ UNCHANGED reader

Reading == pc \in {"header", "skip", "table", "seek", "note"} /\ left > 0 /\ ~broken
Read == left = 0 \/ broken
skips == pc \in {"skip", "seek"}

\* prv_transform_coredump_from_fd_to_file: the metadata, /proc/<pid>/mem, the
\* new file and gzip; if one cannot be had that is all.
Open ==
  /\ pc = "open"
  /\ \/ StartRead("header", Ehdr) /\ UNCHANGED faults
     \/ Fault /\ Goto("ended")
  /\ UNCHANGED <<input, transformer, array, layout, io, errno>>

\* One read() of prv_read_all: some bytes, the end of the stream, an
\* interruption, or an error.  What is to be skipped is read into a NULL
\* buffer, which read() refuses with EFAULT.
prv_read_all ==
  /\ Reading
  /\ \/ /\ ~skips /\ stream.length > piped
        /\ \E n \in {MIN(left, stream.length - piped), 1} :
             /\ IF n < MIN(left, stream.length - piped) THEN Fault ELSE UNCHANGED faults
             /\ left' = left - n
             /\ stream_pos' = stream_pos + n /\ piped' = piped + n
        /\ UNCHANGED <<broken, errno, transformer>>
     \/ /\ stream.length = piped
        /\ broken' = TRUE
        /\ UNCHANGED <<left, stream_pos, piped, errno, transformer, faults>>
     \/ /\ Fault /\ errno' = "EINTR"
        /\ UNCHANGED <<reader, transformer>>
     \/ /\ IF skips THEN stream.length > piped /\ UNCHANGED faults ELSE Fault
        /\ errno' = "other"
        /\ broken' = TRUE
        /\ prv_add_warning({})
        /\ UNCHANGED <<left, stream_pos, piped>>
  /\ UNCHANGED <<input, pc, array, layout, io>>

prv_action_read_elf_header ==
  /\ pc = "header" /\ Read
  /\ LET valid == left = 0 /\ stream.valid
     IN  \/ /\ valid /\ stream.phoff = stream_pos
            /\ Goto("prepare") /\ UNCHANGED transformer
         \/ /\ valid /\ stream.phoff > stream_pos
            /\ StartRead("skip", stream.phoff - stream_pos) /\ prv_add_warning({})
         \/ /\ ~valid \/ stream.phoff < stream_pos
            /\ Goto("done") /\ prv_add_warning({})
  /\ UNCHANGED <<input, array, layout, io, errno, faults>>

prv_action_skip_to_segment_headers ==
  /\ pc = "skip" /\ Read
  /\ IF left = 0 THEN Goto("prepare") /\ UNCHANGED transformer
     ELSE Goto("done") /\ prv_add_warning({})
  /\ UNCHANGED <<input, array, layout, io, errno, faults>>

prv_action_prepare_segment_headers ==
  /\ pc = "prepare"
  /\ \/ /\ StartRead("table", Phdr * Len(stream.segs))
        /\ UNCHANGED <<transformer, faults>>
     \/ /\ stream.segs # <<>> /\ Fault
        /\ Goto("done") /\ prv_add_warning({})
  /\ UNCHANGED <<input, array, layout, io, errno>>

prv_action_read_segment_headers ==
  /\ pc = "table" /\ Read
  /\ \/ left = 0 /\ Goto("segment") /\ UNCHANGED transformer
     \/ left > 0 /\ Goto("done") /\ prv_add_warning({})
  /\ UNCHANGED <<input, array, layout, io, errno, faults>>

-----------------------------------------------------------------------------
(* The transformer, core_elf_transformer.c *)

segment == stream.segs[next]
More(type) == pc = "segment" /\ next <= Len(stream.segs) /\ segment.type = type

\* On to the next segment, without a warning about this one or with one.
NextSegment ==
  /\ next' = next + 1
  /\ UNCHANGED <<next_warning_idx, warnings, warned, write_success>>

\* Mutated form: there is no test of the index.
NextWithWarning_Unbounded ==
  /\ next' = next + 1
  /\ warnings' = warnings + 1 /\ warned' = warned \cup {next}
  /\ next_warning_idx' = next_warning_idx + 1
  /\ UNCHANGED write_success

NextWithWarning ==
  /\ next' = next + 1
  /\ warnings' = warnings + 1 /\ warned' = warned \cup {next}
  /\ next_warning_idx' = MIN(next_warning_idx + 1, MaxWarnings + 1)
  /\ UNCHANGED write_success

\* Mutated form: the array is enlarged one segment too late.
NeedsRealloc_Late == Len(segments) > segments_max

\* The test of prv_alloc_next_segment (segments_idx is Len(segments) - 1).
NeedsRealloc == Len(segments) >= segments_max

\* prv_alloc_next_segment fails.  segments_max has been enlarged all the same.
AllocFails ==
  /\ NeedsRealloc /\ Fault
  /\ segments_max' = segments_max + Step /\ nomem' = TRUE
  /\ UNCHANGED <<segments, allocated>>

\* The new segment's place is beyond the end of the array: the heap is
\* overwritten, which may go unnoticed, or the pointer is NULL.
Overruns == ~NeedsRealloc /\ Len(segments) >= allocated

\* ticos_core_elf_writer_add_segment_with_buffer or _with_callback succeeds.
Added(seg, then) ==
  /\ segments' = Append(segments, seg)
  /\ segments_max' = IF NeedsRealloc THEN segments_max + Step ELSE segments_max
  /\ allocated' = IF NeedsRealloc THEN segments_max + Step ELSE allocated
  /\ Overruns => allocated > 0
  /\ pc' \in IF Overruns THEN {then, "crashed"} ELSE {then}
  /\ UNCHANGED nomem
AddCrashes ==
  /\ Overruns /\ allocated = 0
  /\ pc' = "crashed" /\ UNCHANGED array

Segment(i, filesz, align, callback, from) ==
  [i |-> i, filesz |-> filesz, align |-> align, callback |-> callback, from |-> from,
   offset |-> 0]

\* prv_process_note_segment up to the skipping in read_segment_data.
prv_process_note_segment ==
  /\ More("NOTE")
  /\ \/ Fault /\ Goto("segment") /\ NextWithWarning
     \/ /\ segment.offset < stream_pos /\ segment.filesz > 0
        /\ Goto("segment") /\ NextWithWarning /\ UNCHANGED faults
     \/ /\ segment.offset < stream_pos /\ segment.filesz = 0
        /\ StartRead("note", 0) /\ UNCHANGED <<transformer, faults>>
     \/ /\ segment.offset >= stream_pos
        /\ StartRead("seek", segment.offset - stream_pos) /\ UNCHANGED <<transformer, faults>>
  /\ UNCHANGED <<input, array, layout, io, errno>>

\* Mutated form: a note that cannot be reached is dropped without a warning.
SeekDone_Silent ==
  /\ pc = "seek" /\ Read
  /\ \/ left = 0 /\ StartRead("note", segment.filesz) /\ UNCHANGED transformer
     \/ left > 0 /\ Goto("segment") /\ NextSegment
  /\ UNCHANGED <<input, array, layout, io, errno, faults>>

\* ticos_core_elf_reader_read_segment_data: at the note, or not
SeekDone ==
  /\ pc = "seek" /\ Read
  /\ \/ left = 0 /\ StartRead("note", segment.filesz) /\ UNCHANGED transformer
     \/ left > 0 /\ segment.filesz > 0 /\ Goto("segment") /\ NextWithWarning
     \/ left > 0 /\ segment.filesz = 0 /\ StartRead("note", 0) /\ UNCHANGED transformer
  /\ UNCHANGED <<input, array, layout, io, errno, faults>>

\* The rest of prv_process_note_segment.
NoteDone ==
  LET seg == Segment(next, segment.filesz, segment.align, FALSE, piped - segment.filesz)
  IN  /\ pc = "note" /\ Read
      /\ \/ /\ left > 0 /\ pc' = "segment"
            /\ NextWithWarning /\ UNCHANGED <<array, faults>>
         \/ left = 0 /\ Added(seg, "segment") /\ NextSegment /\ UNCHANGED faults
         \/ left = 0 /\ AddCrashes /\ UNCHANGED <<transformer, faults>>
         \/ left = 0 /\ AllocFails /\ pc' = "segment" /\ NextWithWarning
      /\ UNCHANGED <<input, reader, layout, io, errno>>

\* A segment that cannot be added is left out without a word.
prv_process_load_segment ==
  LET seg == Segment(next, segment.filesz, segment.align, TRUE, 0)
  IN  /\ More("LOAD")
      /\ \/ Added(seg, "segment") /\ NextSegment /\ UNCHANGED faults
         \/ AddCrashes /\ UNCHANGED <<transformer, faults>>
         \/ AllocFails /\ pc' = "segment" /\ NextSegment
      /\ UNCHANGED <<input, reader, layout, io, errno>>

\* The default case of prv_handle_segments.
UnexpectedSegment ==
  /\ More("other")
  /\ Goto("segment") /\ NextWithWarning
  /\ UNCHANGED <<input, array, layout, io, errno, faults>>

-----------------------------------------------------------------------------
(* The writer, core_elf_writer.c: one prv_write_all after the other *)

\* prv_write_all of n bytes begins.
StartBlock(n) ==
  /\ block' = n
  /\ avail_in' = IF gzip THEN n ELSE 0
  /\ todo' = IF gzip THEN 0 ELSE n
  /\ UNCHANGED <<pending, written_size, length, interrupted>>
BlockDone == avail_in = 0 /\ todo = 0

\* prv_append_ticos_metadata_note, and the first write of
\* ticos_core_elf_writer_write.
prv_append_ticos_metadata_note ==
  LET seg == Segment(0, ticos_core_elf_note_calculate_size, 0, FALSE, 0)
  IN  /\ pc = "segment" /\ next > Len(stream.segs)
      /\ \/ Added(seg, "ehdr") /\ UNCHANGED faults
         \/ AddCrashes /\ UNCHANGED faults
         \/ AllocFails /\ pc' = "ehdr"
         \/ Fault /\ pc' = "ehdr" /\ nomem' = TRUE /\ UNCHANGED <<segments, segments_max, allocated>>
      /\ StartBlock(Ehdr)
      /\ UNCHANGED <<input, reader, transformer, layout, errno>>

WriteFails ==
  /\ pc' = "done"
  /\ avail_in' = 0 /\ todo' = 0 /\ UNCHANGED <<block, pending>>

\* Mutated form: only what has been written is compared with the limit.
Exceeds_TooLate == written_size > max_size

\* prv_fio_write refuses to write: the file would become too long.
Exceeds == (written_size + todo) % SizeMod > max_size

\* Mutated form: a write that falls short is taken for complete.
prv_io_write_all_Once ==
  /\ todo > 0 /\ pc # "crashed"
  /\ \/ /\ ~Exceeds
        /\ \E n \in {todo, (todo + 1) \div 2} :
             /\ IF n < todo THEN Fault ELSE UNCHANGED faults
             /\ todo' = 0
             /\ length' = length + n
             /\ written_size' = (written_size + n) % SizeMod
        /\ UNCHANGED <<pc, block, avail_in, pending, errno>>
     \/ /\ Exceeds /\ WriteFails
        /\ UNCHANGED <<length, written_size, errno, faults>>
  /\ UNCHANGED <<input, reader, transformer, array, layout, interrupted>>

\* One prv_fio_write of prv_io_write_all: all or some of it is written, or
\* write() fails, which counts as SIZE_MAX bytes written, or it would exceed
\* the limit.  In the last case errno is not set: if it is still EINTR the
\* same write is tried for ever.
prv_io_write_all ==
  /\ todo > 0 /\ pc # "crashed"
  /\ \/ /\ ~Exceeds
        /\ \E n \in {todo, (todo + 1) \div 2} :
             /\ IF n < todo THEN Fault ELSE UNCHANGED faults
             /\ todo' = todo - n
             /\ length' = length + n
             /\ written_size' = (written_size + n) % SizeMod
        /\ UNCHANGED <<pc, block, avail_in, pending, errno, interrupted>>
     \/ /\ ~Exceeds /\ Fault
        /\ written_size' = (written_size + SizeMod - 1) % SizeMod
        /\ \/ errno' = "EINTR" /\ UNCHANGED <<pc, block, avail_in, todo, pending>>
              /\ interrupted' = interrupted + 1
           \/ errno' = "other" /\ WriteFails /\ UNCHANGED interrupted
        /\ UNCHANGED length
     \/ /\ Exceeds /\ errno # "EINTR"
        /\ WriteFails
        /\ UNCHANGED <<written_size, length, errno, faults, interrupted>>
  /\ UNCHANGED <<input, reader, transformer, array, layout>>

\* prv_write of the gzip stage: deflate takes the data, to a quarter of its
\* size, and gives out what it holds, or keeps it.
prv_write ==
  LET held == pending + avail_in \div 4
  IN  /\ avail_in > 0 /\ todo = 0 /\ pc # "crashed"
      /\ avail_in' = 0
      /\ todo' \in {0, MIN(held, Chunk)}
      /\ pending' = held - todo'
      /\ UNCHANGED <<input, pc, reader, transformer, array, layout, block, written_size,
                     length, interrupted, errno, faults>>

\* The ELF header is written; the segment table is next.
HeaderWritten ==
  /\ pc = "ehdr" /\ BlockDone
  /\ pc' = "plan"
  /\ write_offset' = write_offset + block
  /\ segment_data_offset' = write_offset + block + Phdr * Len(segments)
  /\ block' = 0
  /\ UNCHANGED <<input, reader, transformer, array, idx, rest, placed, avail_in, todo, pending,
                 written_size, length, interrupted, errno, faults>>

prv_calc_padding(offset, align) ==
  IF align <= 1 THEN 0 ELSE TICOS_ALIGN_UP(offset, align) - offset

\* The segment table: plan the place of a segment and write its header.
PlanSegment ==
  LET offset == segment_data_offset + prv_calc_padding(segment_data_offset, segments[idx].align)
  IN  /\ pc = "plan" /\ BlockDone
      /\ write_offset' = write_offset + block
      /\ IF idx <= Len(segments)
         THEN /\ segments' = [segments EXCEPT ![idx].offset = offset]
              /\ segment_data_offset' = offset + segments[idx].filesz
              /\ idx' = idx + 1
              /\ StartBlock(Phdr) /\ UNCHANGED pc
         ELSE /\ pc' = "data" /\ idx' = 0
              /\ StartBlock(0)
              /\ UNCHANGED <<segments, segment_data_offset>>
      /\ UNCHANGED <<input, reader, transformer, segments_max, allocated, nomem, rest, placed,
                     errno, faults>>

\* The data of a segment has been written (or the table): compare the end with
\* the planned one and go on with the padding of the next segment, or to the end.
SegmentWritten ==
  LET end == write_offset + block
      off == idx > 0 /\ end # segments[idx].offset + segments[idx].filesz
      last == idx = Len(segments)
  IN  /\ pc = "data" /\ BlockDone /\ rest = 0
      /\ write_offset' = end
      /\ \/ /\ off \/ last
            /\ pc' = IF off THEN "done" ELSE "sync"
            /\ UNCHANGED <<idx, rest>>
         \/ /\ ~off /\ ~last /\ pc' = "pad"
            /\ idx' = idx + 1
            /\ rest' = (segments[idx + 1].offset - end) % SizeMod
      /\ StartBlock(0)
      /\ UNCHANGED <<input, reader, transformer, array, segment_data_offset, placed, errno, faults>>

\* prv_write_padding, piece by piece; then the data: a note is one block, the
\* memory is copied in chunks.
prv_write_padding ==
  /\ pc = "pad" /\ BlockDone
  /\ write_offset' = write_offset + block
  /\ \/ /\ rest > 0
        /\ StartBlock(MIN(rest, Chunk)) /\ rest' = rest - MIN(rest, Chunk)
        /\ UNCHANGED <<pc, placed>>
     \/ /\ rest = 0
        /\ placed' = Append(placed, write_offset + block)
        /\ pc' = "data"
        /\ rest' = IF segments[idx].callback THEN segments[idx].filesz ELSE 0
        /\ StartBlock(IF segments[idx].callback THEN 0 ELSE segments[idx].filesz)
  /\ UNCHANGED <<input, reader, transformer, array, idx, segment_data_offset, errno, faults>>

\* Mutated form: when nothing can be read, nothing is written either.
prv_write_load_segment_data_cb_NoFill ==
  LET sz == MIN(rest, Chunk)
  IN  /\ pc = "data" /\ BlockDone /\ rest > 0 /\ errno # "other"
      /\ \/ /\ StartBlock(sz) /\ rest' = rest - sz
            /\ write_offset' = write_offset + block
            /\ UNCHANGED <<errno, faults>>
         \/ Fault /\ errno' = "other" /\ UNCHANGED <<io, rest, write_offset>>
      /\ UNCHANGED <<input, pc, reader, transformer, array, idx, segment_data_offset, placed>>

\* One chunk of prv_write_load_segment_data_cb.  pread of /proc/<pid>/mem may
\* give less; if it gives nothing a whole chunk of placeholders is written.
prv_write_load_segment_data_cb ==
  LET sz == MIN(rest, Chunk)
  IN  /\ pc = "data" /\ BlockDone /\ rest > 0
      /\ write_offset' = write_offset + block
      /\ \/ StartBlock(sz) /\ rest' = rest - sz /\ UNCHANGED <<errno, faults>>
         \/ Fault /\ StartBlock(1) /\ rest' = rest - 1 /\ UNCHANGED errno
         \/ Fault /\ StartBlock(sz) /\ rest' = rest - sz /\ errno' = "other"
      /\ UNCHANGED <<input, pc, reader, transformer, array, idx, segment_data_offset, placed>>

\* The end of ticos_core_elf_writer_write without gzip: prv_fio_sync
prv_fio_sync ==
  /\ pc = "sync" /\ ~gzip
  /\ pc' = "done"
  /\ \/ write_success' = TRUE /\ UNCHANGED <<errno, faults>>
     \/ Fault /\ errno' = "other" /\ UNCHANGED write_success
  /\ UNCHANGED <<input, reader, next, next_warning_idx, warnings, warned, array, layout, io>>

\* And with gzip: prv_sync lets deflate finish, trailer included, and writes
\* what it gives out.  The file is not synchronised.
prv_sync ==
  /\ pc \in {"sync", "finish"} /\ gzip /\ todo = 0
  /\ LET held == pending + (IF pc = "sync" THEN 8 ELSE 0)
     IN  \/ /\ held > 0
            /\ pc' = "finish"
            /\ todo' = MIN(held, Chunk) /\ pending' = held - MIN(held, Chunk)
            /\ UNCHANGED write_success
         \/ /\ held = 0
            /\ pc' = "done" /\ write_success' = TRUE
            /\ UNCHANGED <<todo, pending>>
  /\ UNCHANGED <<input, reader, next, next_warning_idx, warnings, warned, array, layout, block,
                 avail_in, written_size, length, interrupted, errno, faults>>

\* prv_handle_done frees the warnings.  If the array overflowed the index is
\* no longer one, and neither is what lies behind the array a string.
prv_action_done ==
  /\ pc = "done"
  /\ pc' = IF next_warning_idx > MaxWarnings THEN "crashed" ELSE "ended"
  /\ UNCHANGED <<input, reader, transformer, array, layout, io, errno, faults>>

-----------------------------------------------------------------------------
ReaderStep ==
  \/ Open \/ prv_read_all \/ prv_action_read_elf_header \/ prv_action_skip_to_segment_headers
  \/ prv_action_prepare_segment_headers \/ prv_action_read_segment_headers \/ prv_action_done
TransformerStep ==
  \/ prv_process_note_segment \/ SeekDone \/ NoteDone \/ prv_process_load_segment
  \/ UnexpectedSegment \/ prv_append_ticos_metadata_note
WriterStep ==
  \/ prv_io_write_all \/ prv_write \/ HeaderWritten \/ PlanSegment \/ SegmentWritten
  \/ prv_write_padding \/ prv_write_load_segment_data_cb \/ prv_fio_sync \/ prv_sync

Next == ReaderStep \/ TransformerStep \/ WriterStep

\* The thread runs, and the kernel goes on writing or closes the pipe.
Spec == Init /\ [][Next]_vars /\ WF_vars(Next)

-----------------------------------------------------------------------------
\* The types of the variables.
TypeOK ==
  /\ pc \in {"open", "header", "skip", "prepare", "table", "segment", "seek", "note", "ehdr",
             "plan", "pad", "data", "sync", "finish", "done", "ended", "crashed"}
  /\ stream_pos \in Nat /\ piped \in 0 .. stream.length /\ left \in Nat /\ broken \in BOOLEAN
  /\ next \in 1 .. Len(stream.segs) + 1 /\ next_warning_idx \in 0 .. MaxWarnings + 1
  /\ Len(segments) <= Len(stream.segs) + 1 /\ idx \in 0 .. Len(segments) + 1
  /\ {segment_data_offset, write_offset, rest, block, avail_in, todo, pending, length} \subseteq Nat
  /\ written_size \in 0 .. SizeMod - 1
  /\ errno \in {"none", "EINTR", "other"} /\ write_success \in BOOLEAN

\* If the transformer reports success, the file is a whole ELF file: each
\* segment's data lies where the table says, aligned, behind the table and
\* behind the segment before it, and nothing is missing at the end, however
\* often reads and writes fell short (ticos_core_elf_writer_write).
WholeIfSuccess ==
  write_success =>
    /\ Len(placed) = Len(segments)
    /\ \A i \in 1 .. Len(segments) :
         LET s == segments[i]
             begin == IF i = 1 THEN Ehdr + Phdr * Len(segments)
                      ELSE segments[i - 1].offset + segments[i - 1].filesz
         IN  /\ s.offset = placed[i] /\ s.offset >= begin
             /\ s.align > 1 => s.offset % s.align = 0 /\ s.offset - begin < s.align
    /\ write_offset = IF segments = <<>> THEN Ehdr
                      ELSE segments[Len(segments)].offset + segments[Len(segments)].filesz
    /\ IF gzip THEN pending = 0 /\ todo = 0 ELSE length = write_offset

\* The file stays within the limit that prv_check_for_available_space gave,
\* but for one byte per interrupted write: prv_fio_write adds the -1 that
\* write() returned to written_size.
WithinLimit == length <= max_size + interrupted

\* A file that is reported as a success holds every note of the core dump,
\* taken from its place in the stream, and every memory segment, in their
\* order and with the metadata last, except for those that there was a
\* warning about, or when memory ran out (prv_handle_segments).
NothingMissing ==
  LET Kept(i) == \E k \in 1 .. Len(segments) :
                   /\ segments[k].i = i
                   /\ segments[k].filesz = stream.segs[i].filesz
                   /\ stream.segs[i].type = "NOTE" /\ stream.segs[i].filesz > 0 =>
                        segments[k].from = stream.segs[i].offset
                   /\ \A j \in 1 .. k - 1 : segments[j].i \in 1 .. i - 1
  IN  write_success =>
        \/ nomem
        \/ /\ segments[Len(segments)].i = 0
           /\ \A i \in 1 .. Len(stream.segs) : Kept(i) \/ i \in warned

\* The daemon survives any core dump with up to MaxWarnings warnings, as long
\* as the array of segments could be enlarged: beyond that prv_add_warning and
\* prv_alloc_next_segment write past the end of their arrays.
SurvivesUnlessExceeded ==
  pc = "crashed" => warnings > MaxWarnings \/ nomem

\* prv_fio_write refuses and prv_io_write_all sees the EINTR of an earlier call.
Stuck == todo > 0 /\ errno = "EINTR" /\ Exceeds

\* The conversion ends, also if reads and writes are interrupted, memory of
\* the process is gone or the stream is cut off, unless the limit is reached
\* after an interruption (prv_io_write_all).
EndsUnlessStuck == <>(pc \in {"ended", "crashed"} \/ Stuck)
=============================================================================
