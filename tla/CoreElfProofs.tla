---------------------------- MODULE CoreElfProofs -----------------------------
(***************************************************************************)
(* The promises of CoreElf for any core dumps, limits and sizes, and any   *)
(* number of reads, writes and allocations that fail or fall short.        *)
(*                                                                         *)
(* The reader is where it believes to be in the pipe (ReaderInv), so that  *)
(* a note is kept from its own place.  While the transformer gathers, each *)
(* segment up to the one in turn is in the array, in order, or was warned  *)
(* about, or memory ran out (GatherInv).  The writer plans the table with  *)
(* one running offset and writes with another: row by row the plan is a    *)
(* chain from the end of the table (Planned), and segment by segment the   *)
(* offset reached meets it (LayoutInv).  Short and interrupted writes are  *)
(* made up for: what is in the file and what is still to be written is     *)
(* what the writer has counted (OutputInv).  The size that prv_fio_write   *)
(* compares with the limit is the length less one per interrupted write,   *)
(* modulo the width of size_t (LimitInv).                                  *)
(***************************************************************************)
EXTENDS CoreElf, TLAPS

\* Parts of the run: notes are read and segments gathered; the file is written.
Gathering == pc \in {"open", "header", "skip", "prepare", "table", "segment", "seek", "note"}
Writing == pc \in {"ehdr", "plan", "pad", "data", "sync", "finish"}
Aligns == {0} \cup {2 ^ k : k \in 0 .. 16}

\* The segments of the new file.
NewSegments ==
  [i : Nat, filesz : Nat, align : Aligns, callback : BOOLEAN, from : Int, offset : Nat]

\* The input does not change.
InputInv ==
  /\ stream \in Streams /\ max_size \in MaxSizes /\ gzip \in BOOLEAN /\ serial \in Serials

\* Where the thread is, and the errno of its last call that failed.
PlaceInv == Gathering \/ Writing \/ pc \in {"done", "ended", "crashed"}
ErrnoInv == errno \in {"none", "EINTR", "other"}

\* The types of the variables that the writer does not have, and the segment
\* in turn: one is being read only if there is one.
ReaderInv ==
  /\ piped \in 0 .. stream.length /\ stream_pos = piped /\ left \in Nat /\ broken \in BOOLEAN
  /\ next \in 1 .. Len(stream.segs) + 1
  /\ pc \in {"seek", "note"} => next <= Len(stream.segs) /\ segment.type = "NOTE"
  /\ pc = "seek" => segment.offset = stream_pos + left
  /\ pc = "note" /\ segment.filesz > 0 => stream_pos + left = segment.offset + segment.filesz

\* The array of segments: as long as segments_max says, unless memory ran out,
\* and no longer than the segments so far (and the metadata) need.
ArrayInv ==
  /\ segments \in Seq(NewSegments) /\ segments_max \in Nat /\ allocated \in Nat
  /\ nomem \in BOOLEAN
  /\ ~nomem => allocated = segments_max /\ Len(segments) <= segments_max
  /\ Gathering => Len(segments) <= next - 1
  /\ Len(segments) <= next

\* The index into the array of warnings counts them until it is full.
WarningInv ==
  /\ warnings \in Nat
  /\ next_warning_idx = MIN(warnings, MaxWarnings + 1)
  /\ pc = "crashed" => warnings > MaxWarnings \/ nomem

\* A segment of the core dump that is in the new file, from its own place.
IsOf(seg, i) ==
  /\ seg.i = i
  /\ seg.filesz = stream.segs[i].filesz
  /\ stream.segs[i].type = "NOTE" /\ stream.segs[i].filesz > 0 =>
       seg.from = stream.segs[i].offset

\* In order; and none of the first ones is missing.
Ordered(n) == \A k \in 1 .. n : segments[k].i >= 1 /\ \A j \in 1 .. k - 1 : segments[j].i < segments[k].i
Accounted(i) == nomem \/ i \in warned \/ \E k \in 1 .. Len(segments) : IsOf(segments[k], i)

Gathered ==
  /\ Ordered(Len(segments))
  /\ \A k \in 1 .. Len(segments) : segments[k].i < next
  /\ \A i \in 1 .. next - 1 : Accounted(i)

\* All of them are accounted for, and the metadata comes last.
Complete ==
  \/ nomem
  \/ /\ Len(segments) >= 1 /\ segments[Len(segments)].i = 0
     /\ Ordered(Len(segments) - 1)
     /\ \A i \in 1 .. Len(stream.segs) : Accounted(i)

GatherInv ==
  /\ Gathering => Gathered
  /\ Writing \/ write_success => Complete

\* Where the data of the first n segments ends, according to the table.
EndOf(n) == IF n = 0 THEN Ehdr + Phdr * Len(segments) ELSE segments[n].offset + segments[n].filesz

\* The place of the n-th segment follows that of the one before.
Planned(n) ==
  /\ segments[n].offset >= EndOf(n - 1)
  /\ IF segments[n].align > 1
     THEN /\ segments[n].offset % segments[n].align = 0
          /\ segments[n].offset - EndOf(n - 1) < segments[n].align
     ELSE segments[n].offset = EndOf(n - 1)
Placed(n) == Len(placed) = n /\ \A k \in 1 .. n : placed[k] = segments[k].offset
AllPlanned == \A n \in 1 .. Len(segments) : Planned(n)

\* The announced places and the real ones.
LayoutInv ==
  /\ idx \in 0 .. Len(segments) + 1 /\ segment_data_offset \in Nat /\ write_offset \in Nat
  /\ rest \in Nat /\ placed \in Seq(Nat) /\ block \in Nat
  /\ Gathering \/ pc = "ehdr" => idx = 1 /\ write_offset = 0 /\ placed = <<>> /\ rest = 0
  /\ pc = "ehdr" => block = Ehdr
  /\ pc = "plan" =>
       /\ idx >= 1 /\ placed = <<>> /\ rest = 0
       /\ write_offset + block = Ehdr + Phdr * (idx - 1)
       /\ segment_data_offset = EndOf(idx - 1)
       /\ \A n \in 1 .. idx - 1 : Planned(n)
  /\ pc = "data" =>
       /\ idx <= Len(segments) /\ AllPlanned /\ Placed(idx)
       /\ idx = 0 => rest = 0 /\ write_offset + block = EndOf(0)
  /\ pc = "pad" =>
       /\ idx \in 1 .. Len(segments) /\ AllPlanned /\ Placed(idx - 1)
       /\ write_offset + block + rest = segments[idx].offset
  /\ pc \in {"sync", "finish"} \/ write_success =>
       /\ AllPlanned /\ Placed(Len(segments)) /\ write_offset = EndOf(Len(segments))

\* What is on its way into the file.
OutputInv ==
  /\ avail_in \in Nat /\ todo \in Nat /\ pending \in Nat /\ length \in Nat
  /\ write_success \in BOOLEAN
  /\ write_success => pc \in {"done", "ended", "crashed"}
  /\ Gathering \/ pc \in {"sync", "done", "ended"} \/ write_success => avail_in = 0 /\ todo = 0
  /\ pc = "finish" => avail_in = 0 /\ gzip
  /\ pc \in {"sync", "finish"} => block = 0
  /\ Gathering => length = 0 /\ block = 0
  /\ ~gzip /\ (Writing \/ write_success) => avail_in = 0 /\ length + todo = write_offset + block
  /\ write_success => block = 0
  /\ gzip /\ write_success => pending = 0

\* The size that prv_fio_write keeps is the length less one per interrupted
\* write, as a size_t, and what is written next adds up with the limit.
LimitInv ==
  /\ interrupted \in Nat /\ written_size \in 0 .. SizeMod - 1
  /\ length <= max_size + interrupted
  /\ Gathering \/ Writing => written_size = (length - interrupted) % SizeMod
  /\ max_size + todo < SizeMod
  /\ \A k \in 1 .. Len(segments) :
       ~segments[k].callback => max_size + segments[k].filesz < SizeMod

IInv ==
  /\ InputInv /\ PlaceInv /\ ErrnoInv /\ ReaderInv /\ ArrayInv /\ WarningInv /\ GatherInv
  /\ LayoutInv /\ OutputInv /\ LimitInv

-----------------------------------------------------------------------------
(* What the constants are *)

\* The constants are positive, and a size_t is at least 16 bits wide.
LEMMA Sizes ==
  /\ Ehdr \in Nat /\ Ehdr >= 1 /\ Phdr \in Nat /\ Phdr >= 1
  /\ Chunk \in Nat /\ Chunk >= 1 /\ Step \in Nat /\ Step >= 1
  /\ SizeMod \in Nat /\ SizeMod >= 65536
<1>1. \A n \in {Ehdr, Phdr, Chunk, Step} : n \in Nat /\ n >= 1
  BY SizesAssumption
<1>2. SizeMod \in Nat /\ SizeMod >= 65536
  BY SizesAssumption
<1> QED BY <1>1, <1>2

\* An alignment is at most 64 KiB.
LEMMA AlignIsSmall == \A a \in Aligns : a \in Nat /\ a <= 65536
<1> SUFFICES ASSUME NEW a \in Aligns PROVE a \in Nat /\ a <= 65536
  OBVIOUS
<1>1. CASE a = 0
  BY <1>1
<1>2. CASE a \in {2 ^ k : k \in 0 .. 16}
  <2>1. PICK k \in 0 .. 16 : a = 2 ^ k
    BY <1>2
  <2>2. k = 0 => a = 1
    BY <2>1
  <2>3. k = 1 => a = 2
    BY <2>1
  <2>4. k = 2 => a = 4
    BY <2>1
  <2>5. k = 3 => a = 8
    BY <2>1
  <2>6. k = 4 => a = 16
    BY <2>1
  <2>7. k = 5 => a = 32
    BY <2>1
  <2>8. k = 6 => a = 64
    BY <2>1
  <2>9. k = 7 => a = 128
    BY <2>1
  <2>10. k = 8 => a = 256
    BY <2>1
  <2>11. k = 9 => a = 512
    BY <2>1
  <2>12. k = 10 => a = 1024
    BY <2>1
  <2>13. k = 11 => a = 2048
    BY <2>1
  <2>14. k = 12 => a = 4096
    BY <2>1
  <2>15. k = 13 => a = 8192
    BY <2>1
  <2>16. k = 14 => a = 16384
    BY <2>1
  <2>17. k = 15 => a = 32768
    BY <2>1
  <2>18. k = 16 => a = 65536
    BY <2>1
  <2> QED BY <2>1, <2>2, <2>3, <2>4, <2>5, <2>6, <2>7, <2>8, <2>9, <2>10, <2>11, <2>12, <2>13, <2>14, <2>15, <2>16, <2>17, <2>18
<1> QED BY <1>1, <1>2 DEF Aligns

\* The core dump: its length and its segments.
LEMMA StreamTypes ==
  ASSUME InputInv
  PROVE  /\ stream.length \in Nat /\ stream.phoff \in Nat
         /\ Len(stream.segs) \in Nat
         /\ \A i \in 1 .. Len(stream.segs) :
              /\ stream.segs[i].offset \in Nat /\ stream.segs[i].filesz \in Nat
              /\ stream.segs[i].align \in Aligns
<1>1. /\ stream.length \in Nat /\ stream.phoff \in Nat
      /\ stream.segs \in Seq([type : {"NOTE", "LOAD", "other"}, offset : Nat, filesz : Nat,
                              align : Aligns])
  BY StreamsAssumption DEF InputInv, Aligns
<1>2. \A i \in 1 .. Len(stream.segs) :
        stream.segs[i] \in [type : {"NOTE", "LOAD", "other"}, offset : Nat, filesz : Nat,
                            align : Aligns]
  <2>1. ASSUME NEW S, NEW s \in Seq(S) PROVE \A i \in 1 .. Len(s) : s[i] \in S
    OBVIOUS
  <2> QED BY <1>1, <2>1, Zenon
<1>3. Len(stream.segs) \in Nat
  BY <1>1
<1> QED BY <1>1, <1>2, <1>3

-----------------------------------------------------------------------------
(* What the three parts leave alone *)

\* The reader touches neither the array, the layout nor the output.
LEMMA ReaderFrame ==
  ASSUME ReaderStep
  PROVE  /\ UNCHANGED <<stream, max_size, gzip, serial, segments, segments_max, allocated,
                        nomem, idx, segment_data_offset, write_offset, rest, placed, block,
                        avail_in, todo, pending, written_size, length, interrupted, next,
                        write_success>>
         /\ Gathering \/ pc = "done"
         /\ Gathering' => Gathering
         /\ Gathering' \/ pc' \in {"done", "ended", "crashed"}
         /\ pc' = "crashed" => pc = "done" /\ next_warning_idx > MaxWarnings /\ UNCHANGED warnings
<1> USE DEF input, reader, transformer, array, layout, io, Gathering, Goto, StartRead,
            prv_add_warning
<1>1. CASE Open
  BY <1>1 DEF Open
<1>2. CASE prv_read_all
  BY <1>2 DEF prv_read_all, Reading
<1>3. CASE prv_action_read_elf_header
  BY <1>3 DEF prv_action_read_elf_header
<1>4. CASE prv_action_skip_to_segment_headers
  BY <1>4 DEF prv_action_skip_to_segment_headers
<1>5. CASE prv_action_prepare_segment_headers
  BY <1>5 DEF prv_action_prepare_segment_headers
<1>6. CASE prv_action_read_segment_headers
  BY <1>6 DEF prv_action_read_segment_headers
<1>7. CASE prv_action_done
  BY <1>7 DEF prv_action_done
<1> QED BY <1>1, <1>2, <1>3, <1>4, <1>5, <1>6, <1>7 DEF ReaderStep

\* The transformer only gathers; at the end it starts the first block.
LEMMA TransformerFrame ==
  ASSUME TransformerStep
  PROVE  /\ UNCHANGED <<stream, max_size, gzip, serial, idx, segment_data_offset, write_offset,
                        rest, placed, pending, written_size, length, interrupted,
                        write_success>>
         /\ pc \in {"segment", "seek", "note"}
         /\ \/ pc' \in {"segment", "seek", "note", "crashed"}
               /\ UNCHANGED <<block, avail_in, todo>>
            \/ pc' \in {"ehdr", "crashed"} /\ StartBlock(Ehdr)
<1> USE DEF input, reader, transformer, array, layout, io, Goto, StartRead,
            NextSegment, NextWithWarning, AllocFails, Added, AddCrashes, More
<1>1. CASE prv_process_note_segment
  BY <1>1 DEF prv_process_note_segment
<1>2. CASE SeekDone
  BY <1>2 DEF SeekDone
<1>3. CASE NoteDone
  BY <1>3 DEF NoteDone
<1>4. CASE prv_process_load_segment
  BY <1>4 DEF prv_process_load_segment
<1>5. CASE UnexpectedSegment
  BY <1>5 DEF UnexpectedSegment
<1>6. CASE prv_append_ticos_metadata_note
  BY <1>6 DEF prv_append_ticos_metadata_note, StartBlock
<1> QED BY <1>1, <1>2, <1>3, <1>4, <1>5, <1>6 DEF TransformerStep

\* The writer leaves the input, the stream and the warnings alone.
LEMMA WriterFrame ==
  ASSUME WriterStep
  PROVE  /\ UNCHANGED <<stream, max_size, gzip, serial, stream_pos, piped, left, broken, next,
                        next_warning_idx, warnings, warned, segments_max, allocated, nomem>>
         /\ UNCHANGED pc \/ pc' \in {"done", "plan", "data", "pad", "sync", "finish"}
<1> USE DEF input, reader, transformer, array, layout, io, StartBlock
<1>1. CASE prv_io_write_all
  BY <1>1 DEF prv_io_write_all, WriteFails
<1>2. CASE prv_write
  BY <1>2 DEF prv_write
<1>3. CASE HeaderWritten
  BY <1>3 DEF HeaderWritten
<1>4. CASE PlanSegment
  BY <1>4 DEF PlanSegment
<1>5. CASE SegmentWritten
  BY <1>5 DEF SegmentWritten
<1>6. CASE prv_write_padding
  BY <1>6 DEF prv_write_padding
<1>7. CASE prv_write_load_segment_data_cb
  BY <1>7 DEF prv_write_load_segment_data_cb
<1>8. CASE prv_fio_sync
  BY <1>8 DEF prv_fio_sync
<1>9. CASE prv_sync
  BY <1>9 DEF prv_sync
<1> QED BY <1>1, <1>2, <1>3, <1>4, <1>5, <1>6, <1>7, <1>8, <1>9 DEF WriterStep

-----------------------------------------------------------------------------
(* The reader: where it is in the stream *)

\* No step changes the input.
LEMMA InputStep == InputInv /\ [Next]_vars => InputInv'
<1> SUFFICES ASSUME InputInv, [Next]_vars PROVE UNCHANGED <<stream, max_size, gzip, serial>>
  BY DEF InputInv
<1>1. CASE UNCHANGED vars
  BY <1>1 DEF vars, input
<1> QED BY <1>1, ReaderFrame, TransformerFrame, WriterFrame DEF Next

\* pc names a place.
LEMMA PlaceStep == PlaceInv /\ [Next]_vars => PlaceInv'
<1> SUFFICES ASSUME PlaceInv, [Next]_vars PROVE PlaceInv'
  OBVIOUS
<1>1. CASE UNCHANGED vars
  BY <1>1 DEF vars, PlaceInv, Gathering, Writing
<1>2. CASE ReaderStep
  BY <1>2, ReaderFrame DEF PlaceInv
<1>3. CASE TransformerStep
  BY <1>3, TransformerFrame DEF PlaceInv, Gathering, Writing
<1>4. CASE WriterStep
  BY <1>4, WriterFrame DEF PlaceInv, Gathering, Writing
<1> QED BY <1>1, <1>2, <1>3, <1>4 DEF Next

\* errno is only ever set to an error.
LEMMA ErrnoStep == ErrnoInv /\ [Next]_vars => ErrnoInv'
<1> SUFFICES ASSUME ErrnoInv, [Next]_vars PROVE UNCHANGED errno \/ errno' \in {"EINTR", "other"}
  BY DEF ErrnoInv
<1>1. CASE UNCHANGED vars
  BY <1>1 DEF vars
<1>2. CASE ReaderStep
  BY <1>2 DEF ReaderStep, Open, prv_read_all, prv_action_read_elf_header,
       prv_action_skip_to_segment_headers, prv_action_prepare_segment_headers,
       prv_action_read_segment_headers, prv_action_done
<1>3. CASE TransformerStep
  BY <1>3 DEF TransformerStep, prv_process_note_segment, SeekDone, NoteDone,
       prv_process_load_segment, UnexpectedSegment, prv_append_ticos_metadata_note
<1>4. CASE WriterStep
  BY <1>4 DEF WriterStep, prv_io_write_all, prv_write, HeaderWritten, PlanSegment, SegmentWritten,
       prv_write_padding, prv_write_load_segment_data_cb, prv_fio_sync, prv_sync
<1> QED BY <1>1, <1>2, <1>3, <1>4 DEF Next

\* read() gives at least one byte and not more than there are.
LEMMA ReadKeeps ==
  ASSUME InputInv, ReaderInv, prv_read_all
  PROVE  ReaderInv'
<1>0. stream.length \in Nat /\ Len(stream.segs) \in Nat
  BY StreamTypes
<1>1. /\ UNCHANGED <<stream, next, pc>> /\ left > 0
  BY DEF prv_read_all, Reading, input, transformer, prv_add_warning
<1>2. \/ UNCHANGED <<stream_pos, piped, left>>
      \/ \E n \in Nat : /\ n <= left /\ n <= stream.length - piped
                        /\ left' = left - n /\ stream_pos' = stream_pos + n /\ piped' = piped + n
  <2>1. CASE /\ stream.length > piped
             /\ \E n \in {MIN(left, stream.length - piped), 1} :
                  left' = left - n /\ stream_pos' = stream_pos + n /\ piped' = piped + n
    <3>1. PICK n \in {MIN(left, stream.length - piped), 1} :
            left' = left - n /\ stream_pos' = stream_pos + n /\ piped' = piped + n
      BY <2>1
    <3>2. n \in Nat /\ n <= left /\ n <= stream.length - piped
      BY <1>0, <1>1, <2>1 DEF MIN, ReaderInv
    <3> QED BY <3>1, <3>2
  <2> QED BY <2>1 DEF prv_read_all, reader
<1>3. broken' \in BOOLEAN
  BY DEF prv_read_all, reader, ReaderInv
<1>4. piped' \in 0 .. stream.length /\ stream_pos' = piped' /\ left' \in Nat
      /\ stream_pos' + left' = stream_pos + left
  BY <1>0, <1>2 DEF ReaderInv
<1> QED BY <1>1, <1>3, <1>4 DEF ReaderInv, segment

\* The other actions of the reader begin or end a read.
LEMMA ReaderKeeps == InputInv /\ ReaderInv /\ ReaderStep => ReaderInv'
<1> SUFFICES ASSUME InputInv, ReaderInv, ReaderStep PROVE ReaderInv'
  OBVIOUS
<1>0. /\ stream.phoff \in Nat /\ Phdr * Len(stream.segs) \in Nat /\ Ehdr \in Nat
      /\ stream_pos \in Nat
  BY StreamTypes, Sizes DEF ReaderInv
<1>f. UNCHANGED <<stream, next>>
  BY ReaderFrame
<1>1. CASE prv_read_all
  BY <1>1, ReadKeeps
<1>2. CASE ~prv_read_all
  <2>1. /\ UNCHANGED <<stream_pos, piped>> /\ left' \in Nat
        /\ broken' \in BOOLEAN /\ pc' \notin {"seek", "note"}
    <3> USE <1>0 DEF Goto, StartRead, reader, ReaderInv
    <3>1. CASE Open
      BY <3>1 DEF Open
    <3>2. CASE prv_action_read_elf_header
      <4>1. UNCHANGED <<stream_pos, piped>> /\ pc' \notin {"seek", "note"}
        BY <3>2 DEF prv_action_read_elf_header
      <4>2. left' \in Nat
        BY <3>2 DEF prv_action_read_elf_header
      <4>3. broken' \in BOOLEAN
        BY <3>2, Zenon DEF prv_action_read_elf_header
      <4> QED BY <4>1, <4>2, <4>3
    <3>3. CASE prv_action_skip_to_segment_headers
      BY <3>3 DEF prv_action_skip_to_segment_headers
    <3>4. CASE prv_action_prepare_segment_headers
      BY <3>4 DEF prv_action_prepare_segment_headers
    <3>5. CASE prv_action_read_segment_headers
      BY <3>5 DEF prv_action_read_segment_headers
    <3>6. CASE prv_action_done
      BY <3>6 DEF prv_action_done
    <3> QED BY <1>2, <3>1, <3>2, <3>3, <3>4, <3>5, <3>6 DEF ReaderStep
  <2> QED BY <1>f, <2>1 DEF ReaderInv
<1> QED BY <1>1, <1>2

\* A read of the note in turn, or of what lies before it, begins.
LEMMA NoteReadBegins ==
  ASSUME ReaderInv, UNCHANGED <<stream, next, stream_pos, piped>>,
         next <= Len(stream.segs), segment.type = "NOTE",
         left' \in Nat, broken' = FALSE, pc' \in {"seek", "note"},
         pc' = "seek" => segment.offset = stream_pos + left',
         pc' = "note" /\ segment.filesz > 0 =>
           stream_pos + left' = segment.offset + segment.filesz
  PROVE  ReaderInv'
<1>1. segment' = segment
  BY DEF segment
<1>2. piped' \in 0 .. stream'.length /\ stream_pos' = piped'
  BY DEF ReaderInv
<1>3. next' \in 1 .. Len(stream'.segs) + 1
  BY DEF ReaderInv
<1>4. next' <= Len(stream'.segs) /\ segment'.type = "NOTE"
  BY <1>1
<1>5. /\ pc' = "seek" => segment'.offset = stream_pos' + left'
      /\ pc' = "note" /\ segment'.filesz > 0 =>
           stream_pos' + left' = segment'.offset + segment'.filesz
  BY <1>1
<1> QED BY <1>2, <1>3, <1>4, <1>5 DEF ReaderInv

\* The transformer reads a note, or goes on to the next segment.
LEMMA TransformerKeepsReader == InputInv /\ ReaderInv /\ TransformerStep => ReaderInv'
<1> SUFFICES ASSUME InputInv, ReaderInv, TransformerStep PROVE ReaderInv'
  OBVIOUS
<1>0. /\ Len(stream.segs) \in Nat /\ stream_pos \in Nat
      /\ next \in 1 .. Len(stream.segs) => segment.offset \in Nat /\ segment.filesz \in Nat
  BY StreamTypes DEF ReaderInv, segment
<1>f. UNCHANGED stream
  BY TransformerFrame
<1> USE <1>0, <1>f DEF Goto, StartRead, reader, transformer, NextWithWarning, NextSegment
<1>1. CASE prv_process_note_segment
  <2>0. next <= Len(stream.segs) /\ segment.type = "NOTE" /\ next \in 1 .. Len(stream.segs)
    BY <1>1 DEF prv_process_note_segment, More, ReaderInv
  <2>1. CASE UNCHANGED reader /\ next' = next + 1 /\ pc' = "segment"
    BY <2>0, <2>1 DEF ReaderInv
  <2>2. CASE segment.filesz = 0 /\ StartRead("note", 0) /\ UNCHANGED next
    <3>1. ~(segment.filesz > 0) /\ left' \in Nat
      BY <2>2
    <3>2. pc' = "note" /\ UNCHANGED <<stream, next, stream_pos, piped>> /\ broken' = FALSE
      BY <2>2
    <3> QED BY <2>0, <3>1, <3>2, NoteReadBegins
  <2>3. CASE /\ segment.offset >= stream_pos /\ UNCHANGED next
             /\ StartRead("seek", segment.offset - stream_pos)
    <3>1. left' \in Nat /\ segment.offset = stream_pos + left'
      BY <2>0, <2>3
    <3> QED BY <2>0, <2>3, <3>1, NoteReadBegins
  <2> QED BY <1>1, <2>1, <2>2, <2>3 DEF prv_process_note_segment
<1>2. CASE SeekDone
  <2>0. /\ pc = "seek" /\ next <= Len(stream.segs) /\ next \in 1 .. Len(stream.segs)
        /\ segment.type = "NOTE"
    BY <1>2 DEF SeekDone, ReaderInv
  <2>1. CASE UNCHANGED reader /\ next' = next + 1 /\ pc' = "segment"
    BY <2>0, <2>1 DEF ReaderInv
  <2>2. CASE segment.filesz = 0 /\ StartRead("note", 0) /\ UNCHANGED next
    <3>1. ~(segment.filesz > 0) /\ left' \in Nat
      BY <2>2
    <3>2. pc' = "note" /\ UNCHANGED <<stream, next, stream_pos, piped>> /\ broken' = FALSE
      BY <2>2
    <3> QED BY <2>0, <3>1, <3>2, NoteReadBegins
  <2>3. CASE left = 0 /\ StartRead("note", segment.filesz) /\ UNCHANGED next
    <3>1. left' \in Nat /\ stream_pos + left' = segment.offset + segment.filesz
      BY <2>0, <2>3 DEF ReaderInv
    <3> QED BY <2>0, <2>3, <3>1, NoteReadBegins
  <2> QED BY <1>2, <2>1, <2>2, <2>3 DEF SeekDone
<1>3. CASE NoteDone
  <2>1. /\ UNCHANGED reader /\ next' \in {next, next + 1}
        /\ pc = "note" /\ pc' \in {"segment", "crashed"}
    BY <1>3 DEF NoteDone, AddCrashes, Added
  <2> QED BY <2>1 DEF ReaderInv
<1>4. CASE prv_process_load_segment
  <2>1. /\ UNCHANGED reader /\ next' \in {next, next + 1}
        /\ next <= Len(stream.segs) /\ pc' \in {"segment", "crashed"}
    BY <1>4 DEF prv_process_load_segment, More, AddCrashes, Added
  <2> QED BY <2>1 DEF ReaderInv
<1>5. CASE UnexpectedSegment
  <2>1. /\ UNCHANGED reader /\ next' = next + 1
        /\ next <= Len(stream.segs) /\ pc' = "segment"
    BY <1>5 DEF UnexpectedSegment, More
  <2> QED BY <2>1 DEF ReaderInv
<1>6. CASE prv_append_ticos_metadata_note
  <2>1. UNCHANGED reader /\ UNCHANGED next /\ pc' \in {"ehdr", "crashed"}
    BY <1>6 DEF prv_append_ticos_metadata_note, AddCrashes, Added
  <2> QED BY <2>1 DEF ReaderInv
<1> QED BY <1>1, <1>2, <1>3, <1>4, <1>5, <1>6 DEF TransformerStep

\* Every step keeps the position in the stream where the reader believes it to be.
LEMMA ReaderInvStep == InputInv /\ ReaderInv /\ [Next]_vars => ReaderInv'
<1>1. CASE UNCHANGED vars
  BY <1>1 DEF vars, input, reader, transformer, ReaderInv, segment
<1>2. CASE ReaderInv /\ WriterStep
  BY <1>2, WriterFrame DEF ReaderInv, segment
<1> QED BY <1>1, <1>2, ReaderKeeps, TransformerKeepsReader DEF Next

-----------------------------------------------------------------------------
(* The array of segments and that of warnings *)

\* The three kinds of segment that are added.
LEMMA NewSegmentTypes ==
  ASSUME InputInv, ReaderInv
  PROVE  /\ next <= Len(stream.segs) =>
              /\ segment.filesz \in Nat
              /\ Segment(next, segment.filesz, segment.align, FALSE, piped - segment.filesz)
                   \in NewSegments
              /\ Segment(next, segment.filesz, segment.align, TRUE, 0) \in NewSegments
         /\ Segment(0, ticos_core_elf_note_calculate_size, 0, FALSE, 0) \in NewSegments
         /\ ticos_core_elf_note_calculate_size \in Nat
         /\ ticos_core_elf_note_calculate_size <= 128 + serial
<1>1. ASSUME next <= Len(stream.segs)
      PROVE  /\ next \in Nat /\ segment.filesz \in Nat /\ segment.align \in Aligns
             /\ piped - segment.filesz \in Int
  <2>1. next \in 1 .. Len(stream.segs) /\ piped \in Int
    BY <1>1, StreamTypes DEF ReaderInv
  <2>2. segment.filesz \in Nat /\ segment.align \in Aligns
    BY <2>1, StreamTypes DEF segment
  <2> QED BY <2>1, <2>2
<1>2. /\ ticos_core_elf_note_calculate_size \in Nat
      /\ ticos_core_elf_note_calculate_size <= 128 + serial
  <2>1. serial \in Nat
    BY BoundsAssumption DEF InputInv
  <2>2. prv_cbor_calculate_size \in Nat /\ prv_cbor_calculate_size <= 55 + serial
    BY <2>1 DEF prv_cbor_calculate_size, prv_encode_unsigned_integer, ticos_cbor_encode_string
  <2>3. PICK n : n = prv_cbor_calculate_size
    OBVIOUS
  <2>4. n \in Nat /\ n <= 55 + serial
    BY <2>2, <2>3
  <2>5. TICOS_ALIGN_UP(n, 4) \in Nat /\ TICOS_ALIGN_UP(n, 4) <= 3 + n
    BY <2>4 DEF TICOS_ALIGN_UP
  <2>6. TICOS_ALIGN_UP(6, 4) = 8
    BY DEF TICOS_ALIGN_UP
  <2>7. ticos_core_elf_note_calculate_size = 12 + TICOS_ALIGN_UP(6, 4) + TICOS_ALIGN_UP(n, 4)
    BY <2>3 DEF ticos_core_elf_note_calculate_size
  <2> QED BY <2>1, <2>4, <2>5, <2>6, <2>7
<1>3. 0 \in Aligns
  BY DEF Aligns
<1> QED BY <1>1, <1>2, <1>3 DEF NewSegments, Segment

\* A segment is added at the end, in a place that there is, unless memory ran out.
LEMMA AddedEffect ==
  ASSUME ArrayInv, NEW seg \in NewSegments, NEW then, Added(seg, then)
  PROVE  /\ segments' \in Seq(NewSegments) /\ Len(segments') = Len(segments) + 1
         /\ segments'[Len(segments) + 1] = seg
         /\ \A k \in 1 .. Len(segments) : segments'[k] = segments[k]
         /\ segments_max' \in Nat /\ allocated' \in Nat /\ nomem' = nomem
         /\ ~nomem => /\ allocated' = segments_max' /\ Len(segments') <= segments_max'
                      /\ pc' = then
         /\ pc' \in {then, "crashed"}
<1>1. segments' = Append(segments, seg) /\ segments \in Seq(NewSegments)
  BY DEF Added, ArrayInv
<1>2. /\ segments' \in Seq(NewSegments) /\ Len(segments') = Len(segments) + 1
      /\ segments'[Len(segments) + 1] = seg /\ Len(segments) \in Nat
      /\ \A k \in 1 .. Len(segments) : segments'[k] = segments[k]
  BY <1>1
<1>3. segments_max' \in Nat /\ allocated' \in Nat /\ nomem' = nomem
  BY Sizes DEF Added, ArrayInv
<1>4. ASSUME ~nomem
      PROVE  allocated' = segments_max' /\ Len(segments) + 1 <= segments_max' /\ pc' = then
  BY <1>2, <1>4, Sizes DEF Added, ArrayInv, NeedsRealloc, Overruns
<1>5. pc' \in {then, "crashed"}
  BY DEF Added
<1> QED BY <1>2, <1>3, <1>4, <1>5

\* The transformer adds the segment in turn, or goes on without.
GoesOn ==
  /\ UNCHANGED segments /\ segments_max' \in Nat /\ allocated' \in Nat
  /\ \/ UNCHANGED array
     \/ nomem' = TRUE
  /\ pc' = "crashed" => nomem

\* What a step of the transformer may do to the segments gathered.
LEMMA TransformerEffect ==
  ASSUME InputInv, ReaderInv, ArrayInv, TransformerStep
  PROVE  \/ /\ pc' \in {"segment", "seek", "note"}
            /\ GoesOn /\ UNCHANGED <<nomem, next, warnings, warned, next_warning_idx>>
         \/ GoesOn /\ pc' = "segment" /\ NextWithWarning /\ next <= Len(stream.segs)
         \/ GoesOn /\ nomem' = TRUE /\ pc' = "segment" /\ NextSegment /\ next <= Len(stream.segs)
         \/ GoesOn /\ pc' = "crashed" /\ UNCHANGED <<nomem, next, warnings, warned, next_warning_idx>>
         \/ /\ next <= Len(stream.segs) /\ pc = "note" /\ left = 0
            /\ Added(Segment(next, segment.filesz, segment.align, FALSE, piped - segment.filesz),
                     "segment")
            /\ NextSegment
         \/ /\ next <= Len(stream.segs) /\ segment.type = "LOAD"
            /\ Added(Segment(next, segment.filesz, segment.align, TRUE, 0), "segment")
            /\ NextSegment
         \/ /\ pc = "segment" /\ next > Len(stream.segs)
            /\ Added(Segment(0, ticos_core_elf_note_calculate_size, 0, FALSE, 0), "ehdr")
            /\ UNCHANGED <<next, warnings, warned, next_warning_idx>>
         \/ /\ pc = "segment" /\ next > Len(stream.segs)
            /\ GoesOn /\ nomem' = TRUE /\ pc' = "ehdr"
            /\ UNCHANGED <<next, warnings, warned, next_warning_idx>>
<1>0. segments_max \in Nat /\ allocated \in Nat
  BY DEF ArrayInv
<1>1. UNCHANGED array /\ pc' # "crashed" => GoesOn /\ UNCHANGED nomem
  BY <1>0 DEF array, GoesOn
<1>2. AllocFails /\ pc' # "crashed" => GoesOn /\ nomem' = TRUE
  BY <1>0, Sizes DEF AllocFails, GoesOn
<1>3. AddCrashes => GoesOn /\ pc' = "crashed" /\ UNCHANGED nomem
  <2> SUFFICES ASSUME AddCrashes PROVE GoesOn /\ pc' = "crashed" /\ UNCHANGED nomem
    OBVIOUS
  <2>1. Len(segments) \in Nat
    BY DEF ArrayInv
  <2>2. nomem
    BY <1>0, <2>1 DEF AddCrashes, Overruns, NeedsRealloc, ArrayInv
  <2> QED BY <1>0, <2>2 DEF AddCrashes, array, GoesOn
<1> USE DEF Goto, StartRead, transformer
<1>4. CASE prv_process_note_segment
  <2>1. UNCHANGED array /\ next <= Len(stream.segs) /\ pc' \in {"segment", "seek", "note"}
    BY <1>4 DEF prv_process_note_segment, More
  <2>2. \/ NextWithWarning /\ pc' = "segment"
        \/ UNCHANGED transformer
    BY <1>4 DEF prv_process_note_segment
  <2> QED BY <1>1, <2>1, <2>2
<1>5. CASE SeekDone
  <2>1. UNCHANGED array /\ next <= Len(stream.segs) /\ pc' \in {"segment", "seek", "note"}
    BY <1>5 DEF SeekDone, ReaderInv
  <2>2. \/ NextWithWarning /\ pc' = "segment"
        \/ UNCHANGED transformer
    BY <1>5 DEF SeekDone
  <2> QED BY <1>1, <2>1, <2>2
<1>6. CASE NoteDone
  <2>1. pc = "note" /\ next <= Len(stream.segs)
    BY <1>6 DEF NoteDone, ReaderInv
  <2>2. \/ pc' = "segment" /\ NextWithWarning /\ UNCHANGED array
        \/ /\ left = 0 /\ NextSegment
           /\ Added(Segment(next, segment.filesz, segment.align, FALSE, piped - segment.filesz),
                    "segment")
        \/ AddCrashes /\ UNCHANGED transformer
        \/ AllocFails /\ pc' = "segment" /\ NextWithWarning
    BY <1>6 DEF NoteDone
  <2> QED BY <1>1, <1>2, <1>3, <2>1, <2>2
<1>7. CASE prv_process_load_segment
  <2>1. next <= Len(stream.segs) /\ segment.type = "LOAD"
    BY <1>7 DEF prv_process_load_segment, More
  <2>2. \/ /\ NextSegment
           /\ Added(Segment(next, segment.filesz, segment.align, TRUE, 0), "segment")
        \/ AddCrashes /\ UNCHANGED transformer
        \/ AllocFails /\ pc' = "segment" /\ NextSegment
    BY <1>7 DEF prv_process_load_segment
  <2> QED BY <1>1, <1>2, <1>3, <2>1, <2>2
<1>8. CASE UnexpectedSegment
  <2>1. UNCHANGED array /\ next <= Len(stream.segs) /\ pc' = "segment" /\ NextWithWarning
    BY <1>8 DEF UnexpectedSegment, More
  <2> QED BY <1>1, <2>1
<1>9. CASE prv_append_ticos_metadata_note
  <2>1. pc = "segment" /\ next > Len(stream.segs) /\ UNCHANGED transformer
    BY <1>9 DEF prv_append_ticos_metadata_note
  <2>2. \/ Added(Segment(0, ticos_core_elf_note_calculate_size, 0, FALSE, 0), "ehdr")
        \/ AddCrashes
        \/ AllocFails /\ pc' = "ehdr"
        \/ pc' = "ehdr" /\ nomem' = TRUE /\ UNCHANGED <<segments, segments_max, allocated>>
    BY <1>9 DEF prv_append_ticos_metadata_note
  <2>3. /\ pc' = "ehdr" /\ nomem' = TRUE /\ UNCHANGED <<segments, segments_max, allocated>>
        => GoesOn /\ nomem' = TRUE
    BY <1>0 DEF GoesOn
  <2> QED BY <1>1, <1>2, <1>3, <2>1, <2>2, <2>3
<1> QED BY <1>4, <1>5, <1>6, <1>7, <1>8, <1>9 DEF TransformerStep

\* prv_calc_padding leads to the next multiple of the alignment.
LEMMA PaddingEffect ==
  ASSUME NEW n \in Nat, NEW a \in Nat
  PROVE  /\ prv_calc_padding(n, a) \in Nat
         /\ a > 1 => (n + prv_calc_padding(n, a)) % a = 0 /\ prv_calc_padding(n, a) < a
         /\ a <= 1 => prv_calc_padding(n, a) = 0
<1>1. CASE a <= 1
  BY <1>1 DEF prv_calc_padding
<1>2. CASE a > 1
  <2> DEFINE q == (n + a - 1) \div a
  <2>1. q \in Nat /\ q * a \in Nat /\ q * a >= n /\ q * a < n + a
    BY <1>2
  <2>2. (q * a) % a = 0
    <3>1. \A k \in Nat : (k * a) % a = 0
      BY <1>2
    <3>2. q \in Nat
      BY <2>1
    <3> QED BY <3>1, <3>2
  <2>3. prv_calc_padding(n, a) = q * a - n
    BY <1>2 DEF prv_calc_padding, TICOS_ALIGN_UP
  <2> HIDE DEF q
  <2>4. PICK m \in Nat : m = q * a
    BY <2>1
  <2>5. n + (m - n) = m
    OBVIOUS
  <2> QED BY <1>2, <2>1, <2>2, <2>3, <2>4, <2>5
<1> QED BY <1>1, <1>2

\* The place that the table announces for the segment in turn.
PlannedOffset ==
  segment_data_offset + prv_calc_padding(segment_data_offset, segments[idx].align)

\* A row of the table gives one segment its place and changes nothing else of it.
LEMMA PlanEffect ==
  ASSUME ArrayInv, LayoutInv, PlanSegment, idx <= Len(segments)
  PROVE  /\ idx \in 1 .. Len(segments) /\ PlannedOffset \in Nat
         /\ segments' \in Seq(NewSegments) /\ Len(segments') = Len(segments)
         /\ \A k \in 1 .. Len(segments) :
              /\ k # idx => segments'[k] = segments[k]
              /\ k = idx => segments'[k] = [segments[k] EXCEPT !.offset = PlannedOffset]
<1>0. pc = "plan" /\ Len(segments) \in Nat
  BY DEF PlanSegment, ArrayInv
<1>1. idx \in 1 .. Len(segments) /\ segment_data_offset \in Nat
  BY <1>0 DEF LayoutInv
<1>2. \A k \in 1 .. Len(segments) : segments[k] \in NewSegments
  BY DEF ArrayInv
<1>3. segments[idx].align \in Nat
  BY <1>1, <1>2, AlignIsSmall DEF NewSegments
<1>4. PICK off : off = PlannedOffset
  OBVIOUS
<1>5. off \in Nat
  <2>1. PICK p : p = prv_calc_padding(segment_data_offset, segments[idx].align)
    OBVIOUS
  <2>2. p \in Nat
    BY <1>1, <1>3, <2>1, PaddingEffect, Zenon
  <2>3. off = segment_data_offset + p
    BY <1>4, <2>1, Zenon DEF PlannedOffset
  <2> QED BY <1>1, <2>2, <2>3
<1>6. segments' = [segments EXCEPT ![idx].offset = off]
  BY <1>4 DEF PlanSegment, PlannedOffset
<1>7. \A r \in NewSegments : [r EXCEPT !.offset = off] \in NewSegments
  BY <1>5 DEF NewSegments
<1>8. /\ segments' \in Seq(NewSegments) /\ Len(segments') = Len(segments)
      /\ \A k \in 1 .. Len(segments) :
           /\ k # idx => segments'[k] = segments[k]
           /\ k = idx => segments'[k] = [segments[k] EXCEPT !.offset = off]
  <2> DEFINE r == [segments[idx] EXCEPT !.offset = off]
  <2>1. r \in NewSegments
    BY <1>1, <1>2, <1>7
  <2>2. segments' = [segments EXCEPT ![idx] = r]
    BY <1>6
  <2> HIDE DEF r
  <2>3. segments \in Seq(NewSegments)
    BY DEF ArrayInv
  <2>4. /\ segments' \in Seq(NewSegments) /\ Len(segments') = Len(segments)
        /\ \A k \in 1 .. Len(segments) : segments'[k] = IF k = idx THEN r ELSE segments[k]
    BY <1>1, <2>1, <2>2, <2>3
  <2> QED BY <2>4 DEF r
<1> QED BY <1>1, <1>4, <1>5, <1>8

\* Only the planning of the table changes the segments.
LEMMA OnlyPlanChanges == WriterStep /\ ~PlanSegment => UNCHANGED segments
<1> SUFFICES ASSUME WriterStep, ~PlanSegment PROVE UNCHANGED segments
  OBVIOUS
<1> USE DEF array
<1>1. CASE prv_io_write_all
  BY <1>1 DEF prv_io_write_all
<1>2. CASE prv_write
  BY <1>2 DEF prv_write
<1>3. CASE HeaderWritten
  BY <1>3 DEF HeaderWritten
<1>4. CASE SegmentWritten
  BY <1>4 DEF SegmentWritten
<1>5. CASE prv_write_padding \/ prv_write_load_segment_data_cb
  BY <1>5 DEF prv_write_padding, prv_write_load_segment_data_cb
<1>6. CASE prv_fio_sync \/ prv_sync
  BY <1>6 DEF prv_fio_sync, prv_sync
<1> QED BY <1>1, <1>2, <1>3, <1>4, <1>5, <1>6 DEF WriterStep

\* The writer changes nothing but the offsets of the segments.
LEMMA WriterSegments ==
  ASSUME ArrayInv, LayoutInv, WriterStep
  PROVE  /\ segments' \in Seq(NewSegments) /\ Len(segments') = Len(segments)
         /\ \A k \in 1 .. Len(segments) :
              /\ segments'[k].i = segments[k].i /\ segments'[k].filesz = segments[k].filesz
              /\ segments'[k].align = segments[k].align /\ segments'[k].from = segments[k].from
              /\ segments'[k].callback = segments[k].callback
<1>1. CASE PlanSegment /\ idx <= Len(segments)
  <2>1. \A r \in NewSegments : LET s == [r EXCEPT !.offset = PlannedOffset]
                               IN  /\ s.i = r.i /\ s.filesz = r.filesz /\ s.align = r.align
                                   /\ s.from = r.from /\ s.callback = r.callback
    BY DEF NewSegments
  <2>2. \A k \in 1 .. Len(segments) : segments[k] \in NewSegments
    BY DEF ArrayInv
  <2> QED BY <1>1, <2>1, <2>2, PlanEffect
<1>2. CASE UNCHANGED segments
  BY <1>2 DEF ArrayInv
<1>3. (PlanSegment /\ idx <= Len(segments)) \/ UNCHANGED segments
  BY OnlyPlanChanges DEF PlanSegment
<1> QED BY <1>1, <1>2, <1>3

\* The array has room for what is in it.
LEMMA ArrayStep == InputInv /\ ReaderInv /\ ArrayInv /\ LayoutInv /\ [Next]_vars => ArrayInv'
<1> SUFFICES ASSUME InputInv, ReaderInv, ArrayInv, LayoutInv, [Next]_vars PROVE ArrayInv'
  OBVIOUS
<1>0. Len(segments) \in Nat /\ next \in Nat
  BY StreamTypes DEF ArrayInv, ReaderInv
<1>1. CASE UNCHANGED vars
  BY <1>1 DEF vars, array, transformer, ArrayInv, Gathering
<1>2. CASE ReaderStep
  BY <1>2, ReaderFrame DEF ArrayInv
<1>3. CASE WriterStep
  <2>1. /\ UNCHANGED <<segments_max, allocated, nomem, next>>
        /\ Gathering' => Gathering
    BY <1>3, WriterFrame DEF Gathering
  <2>2. segments' \in Seq(NewSegments) /\ Len(segments') = Len(segments)
    BY <1>3, WriterSegments
  <2> QED BY <2>1, <2>2 DEF ArrayInv
<1>4. CASE TransformerStep
  <2>0. Gathering /\ Len(segments) <= next - 1
    BY <1>4, TransformerFrame DEF Gathering, ArrayInv
  <2>1. CASE GoesOn /\ next' \in {next, next + 1}
    <3>1. nomem' \in BOOLEAN
      BY <2>1 DEF GoesOn, array, ArrayInv
    <3>2. segments' \in Seq(NewSegments) /\ segments_max' \in Nat /\ allocated' \in Nat
      BY <2>1 DEF GoesOn, ArrayInv
    <3>3. ~nomem' => allocated' = segments_max' /\ Len(segments') <= segments_max'
      BY <2>1 DEF GoesOn, array, ArrayInv
    <3>4. Len(segments') <= next' - 1 /\ Len(segments') <= next'
      BY <1>0, <2>0, <2>1 DEF GoesOn
    <3> QED BY <3>1, <3>2, <3>3, <3>4 DEF ArrayInv
  <2>2. ASSUME NEW seg \in NewSegments, NEW then, Added(seg, then),
               \/ next' = next + 1
               \/ next' = next /\ then = "ehdr"
        PROVE  ArrayInv'
    <3>1. /\ segments' \in Seq(NewSegments) /\ Len(segments') = Len(segments) + 1
          /\ segments_max' \in Nat /\ allocated' \in Nat /\ nomem' = nomem
          /\ ~nomem => allocated' = segments_max' /\ Len(segments') <= segments_max'
          /\ pc' \in {then, "crashed"}
      BY <2>2, AddedEffect
    <3>2. nomem' \in BOOLEAN
      BY <3>1 DEF ArrayInv
    <3>3. Len(segments') <= next' /\ (Gathering' => Len(segments') <= next' - 1)
      BY <1>0, <2>0, <2>2, <3>1 DEF Gathering
    <3> QED BY <3>1, <3>2, <3>3 DEF ArrayInv
  <2> QED BY <1>4, <2>1, <2>2, TransformerEffect, NewSegmentTypes DEF NextSegment, NextWithWarning
<1> QED BY <1>1, <1>2, <1>3, <1>4 DEF Next

\* One more warning, in the array or behind it.
LEMMA MinCounts ==
  ASSUME NEW n \in Nat, NEW max \in Nat
  PROVE  MIN(MIN(n, max + 1) + 1, max + 1) = MIN(n + 1, max + 1)
BY DEF MIN

\* The index of the next warning counts the warnings.
LEMMA WarningStep ==
  InputInv /\ ReaderInv /\ ArrayInv /\ WarningInv /\ [Next]_vars => WarningInv'
<1> SUFFICES ASSUME InputInv, ReaderInv, ArrayInv, WarningInv, [Next]_vars PROVE WarningInv'
  OBVIOUS
<1>0. warnings \in Nat /\ MaxWarnings \in Nat /\ next_warning_idx = MIN(warnings, MaxWarnings + 1)
  BY BoundsAssumption DEF WarningInv
<1>w. ASSUME warnings' = warnings + 1,
             next_warning_idx' = MIN(next_warning_idx + 1, MaxWarnings + 1)
      PROVE  warnings' \in Nat /\ next_warning_idx' = MIN(warnings', MaxWarnings + 1)
  <2>1. MIN(MIN(warnings, MaxWarnings + 1) + 1, MaxWarnings + 1) = MIN(warnings + 1, MaxWarnings + 1)
    BY <1>0, MinCounts
  <2> QED BY <1>0, <1>w, <2>1
<1>1. CASE UNCHANGED vars
  BY <1>1 DEF vars, array, transformer, WarningInv
<1>2. CASE ReaderStep
  <2>1. \/ UNCHANGED <<warnings, next_warning_idx>>
        \/ /\ warnings' = warnings + 1
           /\ next_warning_idx' = MIN(next_warning_idx + 1, MaxWarnings + 1)
    <3> USE DEF transformer, prv_add_warning
    <3>1. CASE Open \/ prv_action_done
      BY <3>1 DEF Open, prv_action_done
    <3>2. CASE prv_read_all
      BY <3>2 DEF prv_read_all
    <3>3. CASE prv_action_read_elf_header
      BY <3>3 DEF prv_action_read_elf_header
    <3>4. CASE prv_action_skip_to_segment_headers
      BY <3>4 DEF prv_action_skip_to_segment_headers
    <3>5. CASE prv_action_prepare_segment_headers \/ prv_action_read_segment_headers
      BY <3>5 DEF prv_action_prepare_segment_headers, prv_action_read_segment_headers
    <3> QED BY <1>2, <3>1, <3>2, <3>3, <3>4, <3>5 DEF ReaderStep
  <2>2. warnings' \in Nat /\ next_warning_idx' = MIN(warnings', MaxWarnings + 1)
    BY <1>0, <1>w, <2>1
  <2>3. pc' = "crashed" => warnings' > MaxWarnings \/ nomem'
    BY <1>0, <1>2, ReaderFrame DEF MIN
  <2> QED BY <2>2, <2>3 DEF WarningInv
<1>3. CASE WriterStep
  BY <1>3, WriterFrame DEF WarningInv
<1>4. CASE TransformerStep
  <2>1. \/ UNCHANGED <<warnings, next_warning_idx>>
        \/ /\ warnings' = warnings + 1
           /\ next_warning_idx' = MIN(next_warning_idx + 1, MaxWarnings + 1)
    BY <1>4, TransformerEffect DEF NextSegment, NextWithWarning
  <2>2. warnings' \in Nat /\ next_warning_idx' = MIN(warnings', MaxWarnings + 1)
    BY <1>0, <1>w, <2>1
  <2>3. pc' = "crashed" => nomem'
    <3>1. ASSUME NEW seg \in NewSegments, NEW then \in {"segment", "ehdr"}, Added(seg, then)
          PROVE  pc' = "crashed" => nomem'
      BY <3>1, AddedEffect
    <3>2. ASSUME GoesOn, UNCHANGED nomem \/ nomem' = TRUE
          PROVE  pc' = "crashed" => nomem'
      BY <3>2 DEF GoesOn
    <3> QED BY <1>4, <3>1, <3>2, TransformerEffect, NewSegmentTypes
  <2> QED BY <2>2, <2>3 DEF WarningInv
<1> QED BY <1>1, <1>2, <1>3, <1>4 DEF Next

-----------------------------------------------------------------------------
(* Nothing is missing *)

\* The writer never goes back to gathering, and writes no more once it has stopped.
LEMMA WriterFlow ==
  ASSUME WriterStep
  PROVE  /\ Gathering' => Gathering
         /\ Writing' => Writing
         /\ \/ write_success' = write_success
            \/ write_success' = TRUE /\ pc \in {"sync", "finish"} /\ pc' = "done"
<1> USE DEF Gathering, Writing, transformer
<1>1. CASE prv_io_write_all
  BY <1>1 DEF prv_io_write_all, WriteFails
<1>2. CASE prv_write
  BY <1>2 DEF prv_write
<1>3. CASE HeaderWritten
  BY <1>3 DEF HeaderWritten
<1>4. CASE PlanSegment
  BY <1>4 DEF PlanSegment
<1>5. CASE SegmentWritten
  BY <1>5 DEF SegmentWritten
<1>6. CASE prv_write_padding
  BY <1>6 DEF prv_write_padding
<1>7. CASE prv_write_load_segment_data_cb
  BY <1>7 DEF prv_write_load_segment_data_cb
<1>8. CASE prv_fio_sync
  BY <1>8 DEF prv_fio_sync
<1>9. CASE prv_sync
  BY <1>9 DEF prv_sync
<1> QED BY <1>1, <1>2, <1>3, <1>4, <1>5, <1>6, <1>7, <1>8, <1>9 DEF WriterStep

\* The segments so far stay in the new file, but for their offsets.
Extended ==
  /\ Len(segments) <= Len(segments')
  /\ \A k \in 1 .. Len(segments) :
       /\ segments'[k].i = segments[k].i /\ segments'[k].filesz = segments[k].filesz
       /\ segments'[k].from = segments[k].from

\* What has been accounted for stays so.
LEMMA AccountedKeeps ==
  ASSUME UNCHANGED stream, nomem => nomem', warned \subseteq warned', Extended,
         Len(segments) \in Nat, Len(segments') \in Nat, NEW i, Accounted(i)
  PROVE  Accounted(i)'
<1>1. CASE nomem \/ i \in warned
  BY <1>1 DEF Accounted
<1>2. CASE \E k \in 1 .. Len(segments) : IsOf(segments[k], i)
  <2>1. PICK k \in 1 .. Len(segments) : IsOf(segments[k], i)
    BY <1>2
  <2>2. k \in 1 .. Len(segments')
    BY DEF Extended
  <2>3. IsOf(segments[k], i)'
    BY <2>1 DEF IsOf, Extended
  <2> QED BY <2>2, <2>3 DEF Accounted
<1> QED BY <1>1, <1>2 DEF Accounted

\* The order of the segments depends only on which they are.
LEMMA OrderedKeeps ==
  ASSUME Extended, Len(segments) \in Nat, NEW n \in Nat, n <= Len(segments), Ordered(n)
  PROVE  Ordered(n)'
<1> SUFFICES ASSUME NEW k \in 1 .. n
             PROVE  segments'[k].i >= 1 /\ \A j \in 1 .. k - 1 : segments'[j].i < segments'[k].i
  BY DEF Ordered
<1>1. k \in 1 .. Len(segments) /\ \A j \in 1 .. k - 1 : j \in 1 .. Len(segments)
  OBVIOUS
<1>2. segments[k].i >= 1 /\ \A j \in 1 .. k - 1 : segments[j].i < segments[k].i
  BY DEF Ordered
<1> QED BY <1>1, <1>2, Zenon DEF Extended

\* The segments stay the same, and the next is in turn or not.
LEMMA GatheredKeeps ==
  ASSUME ReaderInv, Gathered, UNCHANGED <<stream, segments>>, nomem => nomem', warned \subseteq warned',
         segments \in Seq(NewSegments), InputInv,
         NEW this, this = next, next' = next \/ (next' = next + 1 /\ Accounted(this)')
  PROVE  Gathered'
<1>0. Len(segments) \in Nat /\ next \in Nat
  BY StreamTypes DEF ReaderInv
<1>1. Extended
  BY <1>0 DEF Extended
<1>2. Ordered(Len(segments))'
  <2>1. PICK n \in Nat : n = Len(segments)
    BY <1>0
  <2>2. Ordered(n)'
    BY <1>0, <1>1, <2>1, OrderedKeeps DEF Gathered
  <2>3. n = Len(segments')
    BY <2>1
  <2> QED BY <2>2, <2>3
<1>3. \A k \in 1 .. Len(segments') : segments'[k].i < next'
  <2> SUFFICES ASSUME NEW k \in 1 .. Len(segments) PROVE segments[k].i < next'
    OBVIOUS
  <2>1. segments[k].i \in Nat
    <3>1. segments[k] \in NewSegments
      OBVIOUS
    <3> QED BY <3>1 DEF NewSegments
  <2>2. segments[k].i < next
    BY DEF Gathered
  <2> QED BY <1>0, <2>1, <2>2
<1>4. \A i \in 1 .. next' - 1 : Accounted(i)'
  <2> SUFFICES ASSUME NEW i \in 1 .. next' - 1 PROVE Accounted(i)'
    OBVIOUS
  <2>1. i \in 1 .. next - 1 \/ (next' = next + 1 /\ i = this)
    BY <1>0
  <2>2. CASE i \in 1 .. next - 1
    <3>1. Accounted(i)
      BY <2>2 DEF Gathered
    <3>2. Len(segments') \in Nat
      BY <1>0
    <3> QED BY <1>0, <1>1, <3>1, <3>2, AccountedKeeps
  <2>3. CASE next' = next + 1 /\ i = this
    <3>1. next' # next
      BY <1>0, <2>3
    <3> QED BY <2>3, <3>1
  <2> QED BY <2>1, <2>2, <2>3
<1> QED BY <1>2, <1>3, <1>4 DEF Gathered

\* The segment in turn is added.
LEMMA GatheredAdds ==
  ASSUME InputInv, ReaderInv, ArrayInv, Gathered, UNCHANGED <<stream, warned>>, next' = next + 1,
         NEW seg \in NewSegments, NEW this, this = next, IsOf(seg, this),
         NEW then, Added(seg, then)
  PROVE  Gathered'
<1>0. Len(segments) \in Nat /\ next \in Nat /\ next >= 1
  BY StreamTypes DEF ReaderInv, ArrayInv
<1>1. /\ Len(segments') = Len(segments) + 1 /\ nomem' = nomem
      /\ segments'[Len(segments) + 1] = seg
      /\ \A k \in 1 .. Len(segments) : segments'[k] = segments[k]
  BY AddedEffect
<1>2. Extended
  BY <1>0, <1>1 DEF Extended
<1>3. PICK n \in Nat : n = Len(segments)
  BY <1>0
<1>4. seg.i = this /\ this \in Nat /\ this >= 1
  BY <1>0 DEF IsOf
<1>5. \A k \in 1 .. n : segments'[k].i < this /\ segments'[k].i \in Nat
  <2>1. \A k \in 1 .. n : segments[k] \in NewSegments
    BY <1>3 DEF ArrayInv
  <2> QED BY <1>1, <1>3, <2>1 DEF Gathered, NewSegments
<1>6. segments'[n + 1].i = this /\ Len(segments') = n + 1
  BY <1>1, <1>3, <1>4
<1>7. Ordered(Len(segments))'
  <2>1. Ordered(n)'
    BY <1>0, <1>2, <1>3, OrderedKeeps DEF Gathered
  <2>2. SUFFICES ASSUME NEW k \in 1 .. n + 1
                 PROVE  segments'[k].i >= 1 /\ \A j \in 1 .. k - 1 : segments'[j].i < segments'[k].i
    BY <1>6 DEF Ordered
  <2>3. CASE k \in 1 .. n
    BY <2>1, <2>3 DEF Ordered
  <2>4. CASE k = n + 1
    <3>1. \A j \in 1 .. k - 1 : j \in 1 .. n
      BY <2>4
    <3> QED BY <1>4, <1>5, <1>6, <2>4, <3>1
  <2>5. k \in 1 .. n \/ k = n + 1
    OBVIOUS
  <2> QED BY <2>3, <2>4, <2>5
<1>8. \A k \in 1 .. Len(segments') : segments'[k].i < next'
  <2> SUFFICES ASSUME NEW k \in 1 .. n + 1 PROVE segments'[k].i < this + 1
    BY <1>6
  <2>1. k \in 1 .. n \/ k = n + 1
    OBVIOUS
  <2> QED BY <1>4, <1>5, <1>6, <2>1
<1>9. \A i \in 1 .. next' - 1 : Accounted(i)'
  <2> SUFFICES ASSUME NEW i \in 1 .. next' - 1 PROVE Accounted(i)'
    OBVIOUS
  <2>1. i \in 1 .. next - 1 \/ i = this
    BY <1>0
  <2>2. CASE i \in 1 .. next - 1
    <3>1. Accounted(i)
      BY <2>2 DEF Gathered
    <3>2. Len(segments') \in Nat
      BY <1>0, <1>1
    <3> QED BY <1>0, <1>1, <1>2, <3>1, <3>2, AccountedKeeps
  <2>3. CASE i = this
    <3>1. n + 1 \in 1 .. Len(segments')
      BY <1>6
    <3>2. IsOf(segments[n + 1], this)'
      BY <1>1, <1>3 DEF IsOf
    <3> QED BY <2>3, <3>1, <3>2 DEF Accounted
  <2> QED BY <2>1, <2>2, <2>3
<1> QED BY <1>7, <1>8, <1>9 DEF Gathered

\* The metadata is added last, unless memory runs out.
LEMMA GatheringEnds ==
  ASSUME InputInv, ReaderInv, ArrayInv, Gathered, UNCHANGED <<stream, warned>>,
         next > Len(stream.segs),
         NEW seg \in NewSegments, seg.i = 0, NEW then, Added(seg, then)
  PROVE  Complete'
<1>0. Len(segments) \in Nat /\ next = Len(stream.segs) + 1 /\ Len(stream.segs) \in Nat
  BY StreamTypes DEF ReaderInv, ArrayInv
<1>1. /\ Len(segments') = Len(segments) + 1 /\ nomem' = nomem
      /\ segments'[Len(segments) + 1] = seg
      /\ \A k \in 1 .. Len(segments) : segments'[k] = segments[k]
  BY AddedEffect
<1>2. Extended
  BY <1>0, <1>1 DEF Extended
<1>3. PICK n \in Nat : n = Len(segments)
  BY <1>0
<1>4. Ordered(n)'
  BY <1>0, <1>2, <1>3, OrderedKeeps DEF Gathered
<1>5. Len(segments') - 1 = n /\ Len(segments') >= 1 /\ segments'[Len(segments')].i = 0
  BY <1>1, <1>3
<1>6. Ordered(Len(segments) - 1)'
  BY <1>4, <1>5
<1>7. \A i \in 1 .. Len(stream'.segs) : Accounted(i)'
  <2> SUFFICES ASSUME NEW i \in 1 .. Len(stream.segs) PROVE Accounted(i)'
    OBVIOUS
  <2>1. i \in 1 .. next - 1
    BY <1>0
  <2>2. Accounted(i)
    BY <2>1 DEF Gathered
  <2>3. Len(segments') \in Nat
    BY <1>0, <1>1
  <2> QED BY <1>0, <1>1, <1>2, <2>2, <2>3, AccountedKeeps
<1> QED BY <1>5, <1>6, <1>7 DEF Complete

\* Planning a segment loses none.
LEMMA CompleteKeeps ==
  ASSUME Complete, UNCHANGED stream, nomem => nomem', warned \subseteq warned', Extended,
         Len(segments) \in Nat, Len(segments') = Len(segments)
  PROVE  Complete'
<1>1. CASE nomem
  BY <1>1 DEF Complete
<1>2. CASE ~nomem
  <2>1. PICK n \in Nat : n = Len(segments)
    OBVIOUS
  <2>2. n >= 1 /\ segments[n].i = 0
    BY <1>2, <2>1 DEF Complete
  <2>3. segments'[n].i = 0 /\ Len(segments') = n
    BY <2>1, <2>2 DEF Extended
  <2>4. Ordered(n - 1)'
    <3>1. Ordered(n - 1)
      BY <1>2, <2>1 DEF Complete
    <3>2. n - 1 \in Nat /\ n - 1 <= Len(segments)
      BY <2>1, <2>2
    <3> QED BY <3>1, <3>2, OrderedKeeps
  <2>5. \A i \in 1 .. Len(stream'.segs) : Accounted(i)'
    <3> SUFFICES ASSUME NEW i \in 1 .. Len(stream.segs) PROVE Accounted(i)'
      OBVIOUS
    <3>1. Accounted(i)
      BY <1>2 DEF Complete
    <3> QED BY <3>1, AccountedKeeps
  <2>6. Ordered(Len(segments) - 1)'
    BY <2>3, <2>4
  <2> QED BY <2>2, <2>3, <2>5, <2>6 DEF Complete
<1> QED BY <1>1, <1>2

\* Every segment is accounted for, and in order.
LEMMA GatherStep ==
  InputInv /\ ReaderInv /\ ArrayInv /\ LayoutInv /\ OutputInv /\ GatherInv /\ [Next]_vars
    => GatherInv'
<1> SUFFICES ASSUME InputInv, ReaderInv, ArrayInv, LayoutInv, OutputInv, GatherInv, [Next]_vars
             PROVE  GatherInv'
  OBVIOUS
<1>0. Len(segments) \in Nat /\ segments \in Seq(NewSegments)
  BY DEF ArrayInv
<1>1. CASE UNCHANGED vars
  BY <1>1 DEF vars, input, array, transformer, GatherInv, Gathering, Writing, Gathered,
              Complete, Ordered, Accounted, IsOf
<1>2. CASE ReaderStep
  <2>1. /\ UNCHANGED <<stream, segments, nomem, next, write_success>>
        /\ Gathering' => Gathering
        /\ ~Writing'
    BY <1>2, ReaderFrame DEF Gathering, Writing
  <2>2. warned \subseteq warned'
    <3> USE DEF transformer, prv_add_warning
    <3>1. CASE Open \/ prv_action_done
      BY <3>1 DEF Open, prv_action_done
    <3>2. CASE prv_read_all
      BY <3>2 DEF prv_read_all
    <3>3. CASE prv_action_read_elf_header
      BY <3>3 DEF prv_action_read_elf_header
    <3>4. CASE prv_action_skip_to_segment_headers
      BY <3>4 DEF prv_action_skip_to_segment_headers
    <3>5. CASE prv_action_prepare_segment_headers \/ prv_action_read_segment_headers
      BY <3>5 DEF prv_action_prepare_segment_headers, prv_action_read_segment_headers
    <3> QED BY <1>2, <3>1, <3>2, <3>3, <3>4, <3>5 DEF ReaderStep
  <2>3. Gathering' => Gathered'
    BY <1>0, <2>1, <2>2, GatheredKeeps DEF GatherInv
  <2>4. Extended
    BY <1>0, <2>1 DEF Extended
  <2>5. write_success' => Complete'
    BY <1>0, <2>1, <2>2, <2>4, CompleteKeeps DEF GatherInv
  <2> QED BY <2>1, <2>3, <2>5 DEF GatherInv
<1>3. CASE WriterStep
  <2>1. UNCHANGED <<stream, nomem, next, warned>>
    BY <1>3, WriterFrame
  <2>2. Extended /\ Len(segments') = Len(segments)
    BY <1>0, <1>3, WriterSegments DEF Extended
  <2>3. Writing' \/ write_success' => Writing \/ write_success
    BY <1>3, WriterFlow DEF Writing
  <2>4. Writing' \/ write_success' => Complete'
    BY <1>0, <2>1, <2>2, <2>3, CompleteKeeps DEF GatherInv
  <2>5. Gathering' => UNCHANGED segments
    <3>1. PlanSegment => ~Gathering'
      BY DEF PlanSegment, Gathering
    <3> QED BY <1>3, <3>1, OnlyPlanChanges
  <2>6. Gathering' => Gathered'
    <3> SUFFICES ASSUME Gathering' PROVE Gathered'
      OBVIOUS
    <3>1. Gathered
      BY <1>3, WriterFlow DEF GatherInv
    <3> QED BY <1>0, <2>1, <2>5, <3>1, GatheredKeeps
  <2> QED BY <2>4, <2>6 DEF GatherInv
<1>4. CASE TransformerStep
  <2>0. /\ UNCHANGED <<stream, write_success>> /\ ~write_success /\ Gathering /\ Gathered
        /\ pc' \in {"segment", "seek", "note", "ehdr", "crashed"}
    BY <1>4, TransformerFrame DEF OutputInv, GatherInv, Gathering
  <2>1. (Gathered' \/ ~Gathering') /\ (Complete' \/ ~Writing') => GatherInv'
    BY <2>0 DEF GatherInv
  <2>2. pc' \in {"segment", "seek", "note", "crashed"} => ~Writing'
    BY DEF Writing
  <2>3. pc' \in {"ehdr", "crashed"} => ~Gathering'
    BY DEF Gathering
  <2>4. PICK this : this = next
    OBVIOUS
  <2>5. CASE /\ pc' \in {"segment", "seek", "note"}
             /\ GoesOn /\ UNCHANGED <<nomem, next, warned>>
    <3>1. Gathered'
      BY <1>0, <2>0, <2>5, GatheredKeeps DEF GoesOn
    <3> QED BY <2>1, <2>2, <2>5, <3>1
  <2>6. CASE /\ GoesOn /\ pc' = "segment"
             /\ NextWithWarning
    <3>1. warned \subseteq warned' /\ this \in warned' /\ next' = next + 1
      BY <2>4, <2>6 DEF NextWithWarning
    <3>2. Accounted(this)'
      BY <3>1 DEF Accounted
    <3>3. UNCHANGED segments /\ (nomem => nomem')
      BY <2>6 DEF GoesOn, array
    <3>4. Gathered'
      BY <1>0, <2>0, <2>4, <3>1, <3>2, <3>3, GatheredKeeps
    <3> QED BY <2>1, <2>2, <2>6, <3>4
  <2>7. CASE GoesOn /\ nomem' = TRUE /\ pc' = "segment" /\ NextSegment
    <3>1. UNCHANGED warned /\ next' = next + 1
      BY <2>7 DEF NextSegment
    <3>2. Accounted(this)'
      BY <2>7 DEF Accounted
    <3>3. UNCHANGED segments /\ (nomem => nomem')
      BY <2>7 DEF GoesOn
    <3>4. Gathered'
      BY <1>0, <2>0, <2>4, <3>1, <3>2, <3>3, GatheredKeeps
    <3> QED BY <2>1, <2>2, <2>7, <3>4
  <2>8. CASE pc' = "crashed"
    BY <2>1, <2>2, <2>3, <2>8
  <2>9. ASSUME NEW seg \in NewSegments, IsOf(seg, this), Added(seg, "segment"), NextSegment
        PROVE  GatherInv'
    <3>1. UNCHANGED warned /\ next' = next + 1
      BY <2>9 DEF NextSegment
    <3>2. Gathered'
      BY <1>0, <2>0, <2>4, <2>9, <3>1, GatheredAdds
    <3>3. pc' \in {"segment", "crashed"}
      BY <2>9, AddedEffect
    <3> QED BY <2>1, <2>2, <3>2, <3>3
  <2>10. CASE /\ next <= Len(stream.segs) /\ pc = "note" /\ left = 0
              /\ Added(Segment(next, segment.filesz, segment.align, FALSE, piped - segment.filesz),
                       "segment")
              /\ NextSegment
    <3>1. PICK seg : seg = Segment(next, segment.filesz, segment.align, FALSE, piped - segment.filesz)
      OBVIOUS
    <3>2. seg \in NewSegments
      BY <2>10, <3>1, NewSegmentTypes
    <3>3. /\ seg.i = this /\ seg.filesz = stream.segs[this].filesz
          /\ seg.from = piped - stream.segs[this].filesz
      BY <2>4, <3>1 DEF Segment, segment
    <3>4. stream.segs[this].filesz > 0 => seg.from = stream.segs[this].offset
      <4>1. this \in 1 .. Len(stream.segs)
        BY <2>4, <2>10, StreamTypes DEF ReaderInv
      <4>2. stream.segs[this].filesz \in Nat /\ stream.segs[this].offset \in Nat
        BY <4>1, StreamTypes
      <4>3. stream.segs[this].filesz > 0 =>
              stream_pos + left = stream.segs[this].offset + stream.segs[this].filesz
        BY <2>4, <2>10 DEF ReaderInv, segment
      <4>4. stream_pos = piped /\ piped \in Int
        BY StreamTypes DEF ReaderInv
      <4> QED BY <2>10, <3>3, <4>2, <4>3, <4>4
    <3>5. IsOf(seg, this)
      BY <3>3, <3>4 DEF IsOf
    <3> QED BY <2>9, <2>10, <3>1, <3>2, <3>5
  <2>11. CASE /\ next <= Len(stream.segs) /\ segment.type = "LOAD"
              /\ Added(Segment(next, segment.filesz, segment.align, TRUE, 0), "segment")
              /\ NextSegment
    <3>1. PICK seg : seg = Segment(next, segment.filesz, segment.align, TRUE, 0)
      OBVIOUS
    <3>2. seg \in NewSegments
      BY <2>11, <3>1, NewSegmentTypes
    <3>3. IsOf(seg, this)
      BY <2>4, <2>11, <3>1 DEF Segment, segment, IsOf
    <3> QED BY <2>9, <2>11, <3>1, <3>2, <3>3
  <2>12. CASE /\ next > Len(stream.segs) /\ UNCHANGED warned
              /\ Added(Segment(0, ticos_core_elf_note_calculate_size, 0, FALSE, 0), "ehdr")
    <3>1. PICK seg : seg = Segment(0, ticos_core_elf_note_calculate_size, 0, FALSE, 0)
      OBVIOUS
    <3>2. seg \in NewSegments /\ seg.i = 0
      BY <3>1, NewSegmentTypes DEF Segment
    <3>3. Complete'
      BY <2>0, <2>12, <3>1, <3>2, GatheringEnds
    <3>4. pc' \in {"ehdr", "crashed"}
      BY <2>12, <3>1, <3>2, AddedEffect
    <3> QED BY <2>1, <2>3, <3>3, <3>4
  <2>13. CASE nomem' = TRUE /\ pc' = "ehdr"
    <3>1. Complete'
      BY <2>13 DEF Complete
    <3> QED BY <2>1, <2>3, <2>13, <3>1
  <2> QED BY <1>4, <2>5, <2>6, <2>7, <2>8, <2>10, <2>11, <2>12, <2>13, TransformerEffect
<1> QED BY <1>1, <1>2, <1>3, <1>4 DEF Next

-----------------------------------------------------------------------------
(* The places of the segments *)

\* What has been planned and placed stays so while the table does.
LEMMA SamePlaces ==
  ASSUME UNCHANGED segments, NEW n
  PROVE  /\ EndOf(n)' = EndOf(n) /\ Planned(n)' = Planned(n) /\ AllPlanned' = AllPlanned
         /\ UNCHANGED placed => Placed(n)' = Placed(n)
<1>1. EndOf(n)' = EndOf(n) /\ Planned(n)' = Planned(n) /\ AllPlanned' = AllPlanned
  BY DEF EndOf, Planned, AllPlanned
<1>2. UNCHANGED placed => Placed(n)' = Placed(n)
  BY DEF Placed
<1> QED BY <1>1, <1>2

\* A step that touches neither the table nor the offsets, and ends or does not.
LEMMA LayoutKeeps ==
  ASSUME LayoutInv, segments \in Seq(NewSegments),
         UNCHANGED <<segments, idx, segment_data_offset, write_offset, rest, placed, block>>,
         \/ UNCHANGED <<pc, write_success>>
         \/ /\ pc' \in {"done", "ended", "crashed", "finish"}
            /\ pc' = "finish" => pc \in {"sync", "finish"}
            /\ write_success' => write_success \/ pc \in {"sync", "finish"}
         \/ Gathering /\ Gathering' /\ UNCHANGED write_success
  PROVE  LayoutInv'
<1>1. PICK n : n = idx
  OBVIOUS
<1>2. PICK m : m = Len(segments)
  OBVIOUS
<1>3. /\ idx' \in 0 .. Len(segments') + 1 /\ segment_data_offset' \in Nat /\ write_offset' \in Nat
      /\ rest' \in Nat /\ placed' \in Seq(Nat) /\ block' \in Nat
  BY DEF LayoutInv
<1>4. /\ Gathering' \/ pc' = "ehdr" => idx' = 1 /\ write_offset' = 0 /\ placed' = <<>> /\ rest' = 0
      /\ pc' = "ehdr" => block' = Ehdr
  BY DEF LayoutInv, Gathering
<1>5. ASSUME pc' = "plan"
      PROVE  /\ idx' >= 1 /\ placed' = <<>> /\ rest' = 0
             /\ write_offset' + block' = Ehdr + Phdr * (idx' - 1)
             /\ segment_data_offset' = EndOf(idx - 1)'
             /\ (\A k \in 1 .. idx - 1 : Planned(k))'
  <2>1. pc = "plan"
    BY <1>5 DEF Gathering
  <2>2. segment_data_offset' = EndOf(n - 1)' /\ \A k \in 1 .. n - 1 : Planned(k)'
    BY <1>1, <2>1, SamePlaces DEF LayoutInv
  <2>3. n = idx'
    BY <1>1
  <2> QED BY <2>1, <2>2, <2>3 DEF LayoutInv
<1>6. ASSUME pc' = "data"
      PROVE  /\ idx' <= Len(segments') /\ AllPlanned' /\ Placed(idx)'
             /\ idx' = 0 => rest' = 0 /\ write_offset' + block' = EndOf(0)'
  <2>1. pc = "data"
    BY <1>6 DEF Gathering
  <2>2. AllPlanned' /\ Placed(n)' /\ EndOf(0)' = EndOf(0)
    BY <1>1, <2>1, SamePlaces DEF LayoutInv
  <2>3. n = idx'
    BY <1>1
  <2> QED BY <2>1, <2>2, <2>3 DEF LayoutInv
<1>7. ASSUME pc' = "pad"
      PROVE  /\ idx' \in 1 .. Len(segments') /\ AllPlanned' /\ Placed(idx - 1)'
             /\ write_offset' + block' + rest' = segments'[idx'].offset
  <2>1. pc = "pad"
    BY <1>7 DEF Gathering
  <2>2. AllPlanned' /\ Placed(n - 1)'
    BY <1>1, <2>1, SamePlaces DEF LayoutInv
  <2>3. n = idx'
    BY <1>1
  <2> QED BY <2>1, <2>2, <2>3 DEF LayoutInv
<1>8. ASSUME pc' \in {"sync", "finish"} \/ write_success'
      PROVE  AllPlanned' /\ Placed(Len(segments))' /\ write_offset' = EndOf(Len(segments))'
  <2>1. pc \in {"sync", "finish"} \/ write_success
    BY <1>8 DEF Gathering
  <2>2. AllPlanned' /\ Placed(m)' /\ write_offset' = EndOf(m)'
    BY <1>2, <2>1, SamePlaces DEF LayoutInv
  <2>3. m = Len(segments')
    BY <1>2
  <2> QED BY <2>2, <2>3
<1> QED BY <1>3, <1>4, <1>5, <1>6, <1>7, <1>8 DEF LayoutInv

\* The header is written: the table is next.
LEMMA LayoutHeader ==
  ASSUME ArrayInv, LayoutInv, OutputInv, HeaderWritten
  PROVE  LayoutInv'
<1>0. /\ pc = "ehdr" /\ pc' = "plan" /\ idx = 1 /\ write_offset = 0 /\ block = Ehdr /\ ~write_success
      /\ placed = <<>> /\ rest = 0
      /\ UNCHANGED <<segments, idx, rest, placed, write_success>> /\ block' = 0
      /\ write_offset' = write_offset + block
      /\ segment_data_offset' = write_offset + block + Phdr * Len(segments)
  BY DEF HeaderWritten, LayoutInv, OutputInv, array, transformer
<1>1. Len(segments) \in Nat /\ Phdr * Len(segments) \in Nat /\ Ehdr \in Nat /\ Phdr * 0 = 0
  BY Sizes DEF ArrayInv
<1>2. write_offset' = Ehdr /\ segment_data_offset' = Ehdr + Phdr * Len(segments)
  BY <1>0, <1>1
<1>3. segment_data_offset' = EndOf(0)'
  BY <1>0, <1>2 DEF EndOf
<1>4. idx' - 1 = 0 /\ write_offset' + block' = Ehdr + Phdr * (idx' - 1)
  BY <1>0, <1>1, <1>2
<1>5. /\ idx' \in 0 .. Len(segments') + 1 /\ segment_data_offset' \in Nat /\ write_offset' \in Nat
      /\ rest' \in Nat /\ placed' \in Seq(Nat) /\ block' \in Nat /\ idx' >= 1
  BY <1>0, <1>1, <1>2
<1>6. segment_data_offset' = EndOf(idx - 1)' /\ (\A n \in 1 .. idx - 1 : Planned(n))'
  BY <1>3, <1>4
<1>7. ~Gathering'
  BY <1>0 DEF Gathering
<1> QED BY <1>0, <1>4, <1>5, <1>6, <1>7 DEF LayoutInv

\* The next row of the table: its segment follows the one before.
LEMMA LayoutPlanRow ==
  ASSUME ArrayInv, LayoutInv, OutputInv, PlanSegment, idx <= Len(segments)
  PROVE  LayoutInv'
<1>0. /\ pc = "plan" /\ pc' = "plan" /\ ~write_success /\ idx' = idx + 1 /\ placed' = <<>>
      /\ rest = 0
      /\ UNCHANGED <<rest, write_success>> /\ block' = Phdr /\ write_offset' = write_offset + block
  BY DEF PlanSegment, LayoutInv, OutputInv, StartBlock, transformer
<1>1. /\ idx \in 1 .. Len(segments) /\ PlannedOffset \in Nat
      /\ segments' \in Seq(NewSegments) /\ Len(segments') = Len(segments)
      /\ \A k \in 1 .. Len(segments) :
           /\ k # idx => segments'[k] = segments[k]
           /\ k = idx => segments'[k] = [segments[k] EXCEPT !.offset = PlannedOffset]
  BY PlanEffect
<1>2. PICK n \in Nat, len \in Nat : n = idx /\ len = Len(segments)
  BY <1>1 DEF ArrayInv
<1>3. PICK off \in Nat : off = PlannedOffset
  BY <1>1
<1>4. n \in 1 .. len /\ n - 1 \in Nat /\ idx' = n + 1 /\ Len(segments') = len
  BY <1>0, <1>1, <1>2
<1>5. PICK s \in NewSegments : s = segments[n]
  <2>1. \A k \in 1 .. Len(segments) : segments[k] \in NewSegments
    BY DEF ArrayInv
  <2> QED BY <1>2, <1>4, <2>1
<1>6. /\ segments'[n].offset = off /\ segments'[n].filesz = s.filesz /\ segments'[n].align = s.align
      /\ s.filesz \in Nat /\ s.align \in Nat
  <2>1. segments'[n] = [s EXCEPT !.offset = off]
    BY <1>1, <1>2, <1>3, <1>5
  <2> QED BY <1>5, <2>1, AlignIsSmall DEF NewSegments
<1>7. segment_data_offset' = off + s.filesz
  BY <1>2, <1>3, <1>5 DEF PlanSegment, PlannedOffset
<1>8. EndOf(n)' = segment_data_offset'
  BY <1>4, <1>6, <1>7 DEF EndOf
<1>9. /\ \A k \in 0 .. n - 1 : EndOf(k)' = EndOf(k)
      /\ \A k \in 1 .. n - 1 : segments'[k] = segments[k]
  <2>1. \A k \in 1 .. n - 1 : k \in 1 .. Len(segments) /\ k # idx
    BY <1>2, <1>4
  <2>2. \A k \in 1 .. n - 1 : segments'[k] = segments[k]
    BY <1>1, <2>1
  <2>3. \A k \in 0 .. n - 1 : k = 0 \/ k \in 1 .. n - 1
    BY <1>4
  <2>4. Len(segments') = Len(segments)
    BY <1>1
  <2> QED BY <2>2, <2>3, <2>4 DEF EndOf
<1>10. PICK d \in Nat : d = segment_data_offset /\ d = EndOf(n - 1)
  BY <1>0, <1>2 DEF LayoutInv
<1>11. PICK p \in Nat : /\ off = d + p
                        /\ s.align > 1 => (d + p) % s.align = 0 /\ p < s.align
                        /\ s.align <= 1 => p = 0
  <2>1. PICK p : p = prv_calc_padding(d, s.align)
    OBVIOUS
  <2>2. /\ p \in Nat
        /\ s.align > 1 => (d + p) % s.align = 0 /\ p < s.align
        /\ s.align <= 1 => p = 0
    BY <1>6, <2>1, PaddingEffect
  <2>3. off = d + p
    BY <1>2, <1>3, <1>5, <1>10, <2>1 DEF PlannedOffset
  <2> QED BY <2>2, <2>3
<1>12. Planned(n)'
  <2>1. EndOf(n - 1)' = d
    BY <1>4, <1>9, <1>10
  <2>2. off >= d /\ off - d = p
    BY <1>11
  <2>3. IF s.align > 1 THEN off % s.align = 0 /\ off - d < s.align ELSE off = d
    BY <1>6, <1>11, <2>2
  <2> QED BY <1>6, <2>1, <2>2, <2>3 DEF Planned
<1>13. \A k \in 1 .. n - 1 : Planned(k)'
  <2> SUFFICES ASSUME NEW k \in 1 .. n - 1 PROVE Planned(k)'
    OBVIOUS
  <2>1. Planned(k)
    BY <1>0, <1>2 DEF LayoutInv
  <2>2. EndOf(k - 1)' = EndOf(k - 1) /\ segments'[k] = segments[k]
    <3>1. k - 1 \in 0 .. n - 1
      OBVIOUS
    <3> QED BY <1>9, <3>1
  <2> QED BY <2>1, <2>2 DEF Planned
<1>14. \A k \in 1 .. n : Planned(k)'
  <2>1. \A k \in 1 .. n : k \in 1 .. n - 1 \/ k = n
    OBVIOUS
  <2> QED BY <1>12, <1>13, <2>1
<1>15. idx' - 1 = n
  BY <1>4
<1>16. segment_data_offset' = EndOf(idx - 1)' /\ (\A k \in 1 .. idx - 1 : Planned(k))'
  BY <1>8, <1>14, <1>15
<1>17. write_offset' + block' = Ehdr + Phdr * (idx' - 1)
  <2>1. write_offset + block = Ehdr + Phdr * (n - 1) /\ write_offset \in Nat /\ block \in Nat
    BY <1>0, <1>2 DEF LayoutInv
  <2>2. Phdr * n = Phdr * (n - 1) + Phdr /\ Phdr * n \in Nat /\ Phdr * (n - 1) \in Nat
    BY <1>4, Sizes
  <2> QED BY <1>0, <1>15, <2>1, <2>2, Sizes
<1>18. /\ idx' \in 0 .. Len(segments') + 1 /\ segment_data_offset' \in Nat /\ write_offset' \in Nat
       /\ rest' \in Nat /\ placed' \in Seq(Nat) /\ block' \in Nat /\ idx' >= 1
  <2>1. idx' \in 0 .. Len(segments') + 1 /\ idx' >= 1
    BY <1>4
  <2>2. segment_data_offset' \in Nat
    BY <1>6, <1>7
  <2>3. write_offset' \in Nat /\ block' \in Nat
    BY <1>0, Sizes DEF LayoutInv
  <2> QED BY <1>0, <2>1, <2>2, <2>3
<1>19. ~Gathering'
  BY <1>0 DEF Gathering
<1> QED BY <1>0, <1>16, <1>17, <1>18, <1>19 DEF LayoutInv

\* The table is written: the data begins where it ends.
LEMMA LayoutPlanEnds ==
  ASSUME ArrayInv, LayoutInv, OutputInv, PlanSegment, ~(idx <= Len(segments))
  PROVE  LayoutInv'
<1>0. /\ pc = "plan" /\ pc' = "data" /\ ~write_success /\ idx' = 0 /\ placed' = <<>>
      /\ rest = 0
      /\ UNCHANGED <<rest, write_success, segments, segment_data_offset>> /\ block' = 0
      /\ write_offset' = write_offset + block
  BY DEF PlanSegment, LayoutInv, OutputInv, StartBlock, transformer
<1>1. Len(segments) \in Nat /\ idx = Len(segments) + 1 /\ write_offset \in Nat /\ block \in Nat
  BY DEF ArrayInv, LayoutInv
<1>2. PICK len \in Nat : len = Len(segments) /\ idx - 1 = len
  BY <1>1
<1>3. write_offset' + block' = EndOf(0)'
  <2>1. write_offset + block = Ehdr + Phdr * len
    BY <1>0, <1>2 DEF LayoutInv
  <2> QED BY <1>0, <1>1, <1>2, <2>1 DEF EndOf
<1>4. AllPlanned'
  <2>1. AllPlanned
    BY <1>0, <1>2 DEF LayoutInv, AllPlanned
  <2> QED BY <1>0, <2>1, SamePlaces
<1>5. Placed(idx)'
  BY <1>0 DEF Placed
<1>6. /\ idx' \in 0 .. Len(segments') + 1 /\ segment_data_offset' \in Nat /\ write_offset' \in Nat
      /\ rest' \in Nat /\ placed' \in Seq(Nat) /\ block' \in Nat /\ idx' <= Len(segments')
  BY <1>0, <1>1 DEF LayoutInv
<1>7. ~Gathering'
  BY <1>0 DEF Gathering
<1> QED BY <1>0, <1>3, <1>4, <1>5, <1>6, <1>7 DEF LayoutInv

\* A number below the modulus is what it is.
LEMMA SmallModulo == \A x \in Nat, m \in Nat : x < m => x % m = x
OBVIOUS

\* The end of a segment is compared with the table; the padding leads to the
\* place of the next one.
LEMMA LayoutSegment ==
  ASSUME ArrayInv, LayoutInv, OutputInv, SegmentWritten
  PROVE  LayoutInv'
<1>0. /\ pc = "data" /\ ~write_success /\ rest = 0
      /\ UNCHANGED <<write_success, segments, segment_data_offset, placed>> /\ block' = 0
      /\ write_offset' = write_offset + block /\ write_offset \in Nat /\ block \in Nat
      /\ segment_data_offset \in Nat /\ placed \in Seq(Nat)
  BY DEF SegmentWritten, LayoutInv, OutputInv, StartBlock, transformer, array
<1>1. PICK n \in Nat, len \in Nat, e \in Nat :
        n = idx /\ len = Len(segments) /\ e = write_offset + block /\ n <= len
  BY <1>0 DEF ArrayInv, LayoutInv
<1>2. AllPlanned' /\ Placed(n)'
  <2>1. AllPlanned /\ Placed(n)
    BY <1>0, <1>1 DEF LayoutInv
  <2> QED BY <1>0, <2>1, SamePlaces
<1>3. ~(n > 0 /\ e # segments[n].offset + segments[n].filesz) => e = EndOf(n)
  <2>1. CASE n = 0
    BY <1>0, <1>1, <2>1 DEF LayoutInv
  <2>2. CASE n > 0
    BY <1>1, <2>2 DEF EndOf
  <2> QED BY <1>1, <2>1, <2>2
<1>4. Len(segments') = len /\ EndOf(n)' = EndOf(n)
  BY <1>0, <1>1, SamePlaces
<1>5. /\ segment_data_offset' \in Nat /\ write_offset' \in Nat /\ placed' \in Seq(Nat)
      /\ block' \in Nat
  BY <1>0
<1>6. \/ UNCHANGED <<idx, rest>> /\ pc' = "done"
      \/ /\ UNCHANGED <<idx, rest>> /\ pc' = "sync" /\ n = len
         /\ ~(n > 0 /\ e # segments[n].offset + segments[n].filesz)
      \/ /\ ~(n > 0 /\ e # segments[n].offset + segments[n].filesz) /\ n # len
         /\ pc' = "pad" /\ idx' = n + 1 /\ rest' = (segments[n + 1].offset - e) % SizeMod
  BY <1>1 DEF SegmentWritten
<1>7. CASE UNCHANGED <<idx, rest>> /\ pc' = "done"
  <2>1. idx' \in 0 .. Len(segments') + 1 /\ rest' \in Nat
    BY <1>0, <1>1, <1>4, <1>7
  <2>2. ~Gathering'
    BY <1>7 DEF Gathering
  <2> QED BY <1>0, <1>5, <1>7, <2>1, <2>2 DEF LayoutInv
<1>8. CASE /\ UNCHANGED <<idx, rest>> /\ pc' = "sync" /\ n = len
           /\ ~(n > 0 /\ e # segments[n].offset + segments[n].filesz)
  <2>1. idx' \in 0 .. Len(segments') + 1 /\ rest' \in Nat
    BY <1>0, <1>1, <1>4, <1>8
  <2>2. ~Gathering'
    BY <1>8 DEF Gathering
  <2>3. write_offset' = EndOf(n)'
    BY <1>0, <1>1, <1>3, <1>4, <1>8
  <2>4. AllPlanned' /\ Placed(Len(segments))' /\ write_offset' = EndOf(Len(segments))'
    BY <1>2, <1>4, <1>8, <2>3
  <2> QED BY <1>5, <1>8, <2>1, <2>2, <2>4 DEF LayoutInv
<1>9. CASE /\ ~(n > 0 /\ e # segments[n].offset + segments[n].filesz) /\ n # len
           /\ pc' = "pad" /\ idx' = n + 1 /\ rest' = (segments[n + 1].offset - e) % SizeMod
  <2>1. n + 1 \in 1 .. len
    BY <1>1, <1>9
  <2>2. PICK o \in Nat, a \in Nat : o = segments[n + 1].offset /\ a = segments[n + 1].align /\ a <= 65536
    <3>1. segments[n + 1] \in NewSegments
      BY <1>1, <2>1 DEF ArrayInv
    <3> QED BY <3>1, AlignIsSmall DEF NewSegments
  <2>3. (n + 1) - 1 = n
    OBVIOUS
  <2>4. o >= e /\ (o - e < a \/ o = e)
    <3>1. Planned(n + 1)
      BY <1>0, <1>1, <2>1 DEF LayoutInv, AllPlanned
    <3>2. e = EndOf(n)
      BY <1>3, <1>9
    <3> QED BY <2>2, <2>3, <3>1, <3>2 DEF Planned
  <2>5. o - e \in Nat /\ o - e < SizeMod
    BY <1>1, <2>2, <2>4, Sizes
  <2>6. rest' = o - e
    BY <1>9, <2>2, <2>5, SmallModulo, Sizes
  <2>7. segments'[idx'].offset = o
    BY <1>0, <1>9, <2>2
  <2>8. write_offset' + block' + rest' = segments'[idx'].offset
    BY <1>0, <1>1, <2>2, <2>6, <2>7
  <2>9. /\ idx' \in 0 .. Len(segments') + 1 /\ rest' \in Nat /\ idx' \in 1 .. Len(segments')
        /\ idx' - 1 = n
    BY <1>4, <1>9, <2>1, <2>5, <2>6
  <2>10. AllPlanned' /\ Placed(idx - 1)'
    BY <1>2, <2>9
  <2>11. ~Gathering'
    BY <1>9 DEF Gathering
  <2> QED BY <1>0, <1>5, <1>9, <2>8, <2>9, <2>10, <2>11 DEF LayoutInv
<1> QED BY <1>6, <1>7, <1>8, <1>9

\* The data starts where the padding ends.
LEMMA LayoutPadding ==
  ASSUME ArrayInv, LayoutInv, OutputInv, prv_write_padding
  PROVE  LayoutInv'
<1>0. /\ pc = "pad" /\ ~write_success /\ rest \in Nat
      /\ UNCHANGED <<write_success, segments, segment_data_offset, idx>>
      /\ write_offset' = write_offset + block /\ write_offset \in Nat /\ block \in Nat
      /\ segment_data_offset \in Nat /\ placed \in Seq(Nat)
  BY DEF prv_write_padding, LayoutInv, OutputInv, transformer, array
<1>1. PICK n \in Nat, len \in Nat : n = idx /\ len = Len(segments) /\ n \in 1 .. len
  BY <1>0 DEF ArrayInv, LayoutInv
<1>2. AllPlanned' /\ Placed(n - 1)
  <2>1. AllPlanned /\ Placed(n - 1)
    BY <1>0, <1>1 DEF LayoutInv
  <2> QED BY <1>0, <2>1, SamePlaces
<1>3. Len(segments') = len /\ idx' = n
  BY <1>0, <1>1
<1>4. segments[n] \in NewSegments
  BY <1>1 DEF ArrayInv
<1>5. PICK o \in Nat, f \in Nat : o = segments[n].offset /\ f = segments[n].filesz
  BY <1>4 DEF NewSegments
<1>6. write_offset + block + rest = o
  BY <1>0, <1>1, <1>5 DEF LayoutInv
<1>7. CASE /\ rest > 0 /\ block' = MIN(rest, Chunk) /\ rest' = rest - MIN(rest, Chunk)
           /\ UNCHANGED <<pc, placed>>
  <2>1. MIN(rest, Chunk) \in Nat /\ rest - MIN(rest, Chunk) \in Nat
    BY <1>0, Sizes DEF MIN
  <2>2. write_offset' + block' + rest' = o
    <3>1. \A w, b, r, x \in Nat : w + b + r = o /\ r - x \in Nat => (w + b) + x + (r - x) = o
      OBVIOUS
    <3>2. (write_offset + block) + MIN(rest, Chunk) + (rest - MIN(rest, Chunk)) = o
      BY <1>0, <1>6, <2>1, <3>1
    <3> QED BY <1>0, <1>7, <3>2
  <2>3. /\ idx' \in 0 .. Len(segments') + 1 /\ idx' \in 1 .. Len(segments') /\ rest' \in Nat
        /\ block' \in Nat /\ write_offset' \in Nat
    BY <1>0, <1>1, <1>3, <1>7, <2>1
  <2>4. AllPlanned' /\ Placed(idx - 1)' /\ segments'[idx'].offset = o
    <3>1. Placed(n - 1)'
      BY <1>0, <1>2, <1>7, SamePlaces
    <3> QED BY <1>0, <1>2, <1>3, <1>5, <3>1
  <2>5. ~Gathering' /\ pc' = "pad"
    BY <1>0, <1>7 DEF Gathering
  <2> QED BY <1>0, <1>7, <2>2, <2>3, <2>4, <2>5 DEF LayoutInv
<1>8. CASE /\ rest = 0 /\ placed' = Append(placed, write_offset + block) /\ pc' = "data"
           /\ rest' \in {0, f} /\ block' \in {0, f}
  <2>1. placed' = Append(placed, o)
    BY <1>0, <1>6, <1>8
  <2>2. Len(placed) = n - 1 /\ \A k \in 1 .. n - 1 : placed[k] = segments[k].offset
    BY <1>2 DEF Placed
  <2>3. /\ placed' \in Seq(Nat) /\ Len(placed') = n /\ placed'[n] = o
        /\ \A k \in 1 .. n - 1 : placed'[k] = placed[k]
    BY <1>0, <1>1, <2>1, <2>2
  <2>4. Placed(n)'
    <3>1. \A k \in 1 .. n : k \in 1 .. n - 1 \/ k = n
      OBVIOUS
    <3> QED BY <1>0, <1>5, <2>2, <2>3, <3>1 DEF Placed
  <2>5. Placed(idx)' /\ idx' # 0
    BY <1>1, <1>3, <2>4
  <2>6. /\ idx' \in 0 .. Len(segments') + 1 /\ idx' <= Len(segments') /\ rest' \in Nat
        /\ block' \in Nat /\ write_offset' \in Nat
    BY <1>0, <1>1, <1>3, <1>8
  <2>7. ~Gathering'
    BY <1>8 DEF Gathering
  <2> QED BY <1>0, <1>2, <1>8, <2>3, <2>5, <2>6, <2>7 DEF LayoutInv
<1> QED BY <1>1, <1>5, <1>7, <1>8 DEF prv_write_padding, StartBlock

\* A chunk of memory is written.
LEMMA LayoutChunk ==
  ASSUME ArrayInv, LayoutInv, OutputInv, prv_write_load_segment_data_cb
  PROVE  LayoutInv'
<1>0. /\ pc = "data" /\ pc' = "data" /\ ~write_success /\ rest \in Nat /\ rest > 0
      /\ UNCHANGED <<write_success, segments, segment_data_offset, idx, placed>>
      /\ write_offset' = write_offset + block /\ write_offset \in Nat /\ block \in Nat
  BY DEF prv_write_load_segment_data_cb, LayoutInv, OutputInv, transformer, array
<1>1. PICK n : n = idx
  OBVIOUS
<1>2. n # 0 /\ AllPlanned' /\ Placed(n)'
  <2>1. AllPlanned /\ Placed(n)
    BY <1>0, <1>1 DEF LayoutInv
  <2>2. rest # 0
    BY <1>0
  <2>3. n # 0
    BY <1>0, <1>1, <2>2 DEF LayoutInv
  <2> QED BY <1>0, <2>1, <2>3, SamePlaces
<1>3. /\ block' \in {MIN(rest, Chunk), 1} /\ rest' = rest - block'
  BY DEF prv_write_load_segment_data_cb, StartBlock
<1>4. rest' \in Nat /\ block' \in Nat /\ write_offset' \in Nat
  <2>1. MIN(rest, Chunk) \in Nat /\ MIN(rest, Chunk) <= rest
    BY <1>0, Sizes DEF MIN
  <2>2. block' \in Nat /\ block' <= rest
    BY <1>0, <1>3, <2>1
  <2>3. rest' = rest - block'
    BY <1>3
  <2>4. \A r, b \in Nat : b <= r => r - b \in Nat
    OBVIOUS
  <2>5. rest' \in Nat
    BY <1>0, <2>2, <2>3, <2>4, Zenon
  <2>6. write_offset' \in Nat
    BY <1>0
  <2> QED BY <2>2, <2>5, <2>6
<1>5. idx' # 0 /\ Placed(idx)'
  BY <1>0, <1>1, <1>2
<1>6. ~Gathering'
  BY <1>0 DEF Gathering
<1> QED BY <1>0, <1>2, <1>4, <1>5, <1>6 DEF LayoutInv

\* The places announced in the table are those reached.
LEMMA LayoutStep ==
  InputInv /\ ReaderInv /\ ArrayInv /\ LayoutInv /\ OutputInv /\ [Next]_vars => LayoutInv'
<1> SUFFICES ASSUME InputInv, ReaderInv, ArrayInv, LayoutInv, OutputInv, [Next]_vars
             PROVE  LayoutInv'
  OBVIOUS
<1>0. segments \in Seq(NewSegments) /\ Len(segments) \in Nat
  BY DEF ArrayInv
<1>1. CASE UNCHANGED vars
  BY <1>0, <1>1, LayoutKeeps DEF vars, array, layout, io, transformer
<1>2. CASE ReaderStep
  BY <1>0, <1>2, ReaderFrame, LayoutKeeps
<1>3. CASE TransformerStep
  <2>1. /\ UNCHANGED <<idx, segment_data_offset, write_offset, rest, placed, write_success>>
        /\ pc \in {"segment", "seek", "note"}
        /\ pc' \in {"segment", "seek", "note", "ehdr", "crashed"}
        /\ UNCHANGED block \/ block' = Ehdr
        /\ pc' = "ehdr" => block' = Ehdr
    BY <1>3, TransformerFrame DEF StartBlock
  <2>2. /\ idx' = 1 /\ write_offset' = 0 /\ placed' = <<>> /\ rest' = 0 /\ ~write_success'
        /\ segment_data_offset' \in Nat /\ block' \in Nat
    BY <2>1, Sizes DEF LayoutInv, Gathering, OutputInv
  <2>3. Len(segments') \in Nat
    <3>1. ASSUME NEW seg \in NewSegments, NEW then, Added(seg, then)
          PROVE  Len(segments') \in Nat
      BY <1>0, <3>1, AddedEffect
    <3> QED BY <1>0, <1>3, <3>1, TransformerEffect, NewSegmentTypes DEF GoesOn
  <2>4. idx' \in 0 .. Len(segments') + 1 /\ write_offset' \in Nat /\ rest' \in Nat
        /\ placed' \in Seq(Nat)
    BY <2>2, <2>3
  <2> QED BY <2>1, <2>2, <2>4 DEF LayoutInv
<1>4. CASE prv_io_write_all
  <2>1. /\ UNCHANGED <<segments, idx, segment_data_offset, write_offset, rest, placed, block,
                       write_success>>
        /\ UNCHANGED pc \/ pc' = "done"
    BY <1>4 DEF prv_io_write_all, WriteFails, array, layout, transformer
  <2> QED BY <1>0, <2>1, LayoutKeeps
<1>5. CASE prv_write
  BY <1>0, <1>5, LayoutKeeps DEF prv_write, array, layout, transformer
<1>6. CASE HeaderWritten
  BY <1>6, LayoutHeader
<1>7. CASE PlanSegment
  BY <1>7, LayoutPlanRow, LayoutPlanEnds
<1>8. CASE SegmentWritten
  BY <1>8, LayoutSegment
<1>9. CASE prv_write_padding
  BY <1>9, LayoutPadding
<1>10. CASE prv_write_load_segment_data_cb
  BY <1>10, LayoutChunk
<1>11. CASE prv_fio_sync
  BY <1>0, <1>11, LayoutKeeps DEF prv_fio_sync, array, layout, io, transformer
<1>12. CASE prv_sync
  BY <1>0, <1>12, LayoutKeeps DEF prv_sync, array, layout, transformer
<1> QED BY <1>1, <1>2, <1>3, <1>4, <1>5, <1>6, <1>7, <1>8, <1>9, <1>10, <1>11, <1>12
        DEF Next, WriterStep

-----------------------------------------------------------------------------
(* What is on its way into the file *)

\* The next block begins when the one before is in the file.
LEMMA OutputStarts ==
  ASSUME OutputInv, LayoutInv, pc \in {"ehdr", "plan", "pad", "data"}, BlockDone,
         NEW n \in Nat, StartBlock(n), write_offset' = write_offset + block,
         UNCHANGED <<gzip, write_success>>, pc' \in {"plan", "pad", "data", "sync", "done"},
         pc' \in {"sync", "done"} => n = 0
  PROVE  OutputInv'
<1>0. /\ ~write_success /\ ~write_success' /\ Writing /\ avail_in = 0 /\ todo = 0 /\ ~Gathering'
      /\ block' = n /\ pc' \notin {"ended", "finish"}
      /\ UNCHANGED <<pending, length>>
  BY DEF OutputInv, Writing, BlockDone, StartBlock, Gathering
<1>1. /\ gzip => avail_in' = n /\ todo' = 0
      /\ ~gzip => avail_in' = 0 /\ todo' = n
  BY DEF StartBlock
<1>2. avail_in' \in Nat /\ todo' \in Nat /\ pending' \in Nat /\ length' \in Nat
  BY <1>0, <1>1 DEF OutputInv
<1>3. pc' \in {"sync", "done"} => avail_in' = 0 /\ todo' = 0 /\ block' = 0
  BY <1>0, <1>1
<1>4. ~gzip => avail_in' = 0 /\ length' + todo' = write_offset' + block'
  <2>1. ~gzip => length + todo = write_offset + block
    BY <1>0 DEF OutputInv
  <2>2. write_offset \in Nat /\ block \in Nat /\ length \in Nat
    BY DEF OutputInv, LayoutInv
  <2> QED BY <1>0, <1>1, <2>1, <2>2
<1>5. write_success' \in BOOLEAN
  BY DEF OutputInv
<1> QED BY <1>0, <1>2, <1>3, <1>4, <1>5 DEF OutputInv

\* write() takes some of a block, or fails.
LEMMA OutputWrites ==
  ASSUME OutputInv, LayoutInv, prv_io_write_all
  PROVE  OutputInv'
<1>0. /\ ~write_success /\ ~write_success' /\ todo > 0
      /\ UNCHANGED <<gzip, write_success, write_offset>>
  BY DEF OutputInv, prv_io_write_all, input, transformer, layout, Writing
<1>1. todo \in Nat /\ length \in Nat /\ avail_in \in Nat /\ pending \in Nat
      /\ write_offset \in Nat /\ block \in Nat
  BY DEF OutputInv, LayoutInv
<1>2. \/ /\ UNCHANGED <<pc, block, avail_in, pending>>
         /\ \E n \in Nat : n <= todo /\ todo' = todo - n /\ length' = length + n
      \/ pc' = "done" /\ avail_in' = 0 /\ todo' = 0 /\ UNCHANGED <<block, pending, length>>
  <2>1. CASE \E n \in {todo, (todo + 1) \div 2} :
               todo' = todo - n /\ length' = length + n /\ UNCHANGED <<pc, block, avail_in, pending>>
    <3>1. PICK n \in {todo, (todo + 1) \div 2} :
            todo' = todo - n /\ length' = length + n /\ UNCHANGED <<pc, block, avail_in, pending>>
      BY <2>1
    <3>2. (todo + 1) \div 2 \in Nat /\ (todo + 1) \div 2 <= todo
      BY <1>0, <1>1
    <3>3. n \in Nat /\ n <= todo
      BY <1>1, <3>2
    <3> QED BY <3>1, <3>3
  <2>2. CASE UNCHANGED <<pc, block, avail_in, todo, pending, length>>
    <3>1. 0 \in Nat /\ 0 <= todo /\ todo' = todo - 0 /\ length' = length + 0
      BY <1>1, <2>2
    <3> QED BY <2>2, <3>1
  <2>3. CASE WriteFails /\ UNCHANGED length
    BY <2>3 DEF WriteFails
  <2> QED BY <2>1, <2>2, <2>3 DEF prv_io_write_all
<1>3. CASE pc' = "done" /\ avail_in' = 0 /\ todo' = 0 /\ UNCHANGED <<block, pending, length>>
  <2>1. ~Gathering' /\ ~Writing'
    BY <1>3 DEF Gathering, Writing
  <2> QED BY <1>0, <1>1, <1>3, <2>1 DEF OutputInv
<1>4. CASE /\ UNCHANGED <<pc, block, avail_in, pending>>
           /\ \E n \in Nat : n <= todo /\ todo' = todo - n /\ length' = length + n
  <2>1. todo' \in Nat /\ length' \in Nat /\ length' + todo' = length + todo
    BY <1>1, <1>4
  <2>2. Gathering' = Gathering /\ Writing' = Writing
    BY <1>4 DEF Gathering, Writing
  <2>3. ~Gathering /\ pc \notin {"sync", "done", "ended"}
    BY <1>0 DEF OutputInv
  <2> QED BY <1>0, <1>1, <1>4, <2>1, <2>2, <2>3 DEF OutputInv
<1> QED BY <1>2, <1>3, <1>4

\* deflate takes the data of a block.
LEMMA OutputDeflates ==
  ASSUME OutputInv, LayoutInv, prv_write
  PROVE  OutputInv' /\ todo' <= Chunk
<1>0. /\ ~write_success /\ ~write_success' /\ avail_in > 0 /\ avail_in' = 0
      /\ UNCHANGED <<pc, gzip, write_success, write_offset, block, length>>
      /\ ~Gathering /\ pc \notin {"sync", "done", "ended", "finish"} /\ pc # "crashed"
  BY DEF OutputInv, prv_write, input, transformer, layout
<1>1. PICK held : held = pending + avail_in \div 4
  OBVIOUS
<1>2. held \in Nat
  BY <1>0, <1>1 DEF OutputInv
<1>3. todo' \in {0, MIN(held, Chunk)} /\ pending' = held - todo'
  BY <1>1 DEF prv_write
<1>4. MIN(held, Chunk) \in Nat /\ MIN(held, Chunk) <= held /\ MIN(held, Chunk) <= Chunk
  BY <1>2, Sizes DEF MIN
<1>5. todo' \in Nat /\ todo' <= held /\ todo' <= Chunk
  BY <1>2, <1>3, <1>4, Sizes
<1>6. \A h, t \in Nat : t <= h => h - t \in Nat
  OBVIOUS
<1>7. pending' \in Nat
  BY <1>2, <1>3, <1>5, <1>6, Zenon
<1>8. ~gzip => ~Writing
  BY <1>0 DEF OutputInv
<1>9. Gathering' = Gathering /\ Writing' = Writing
  BY <1>0 DEF Gathering, Writing
<1>10. length' \in Nat /\ avail_in' \in Nat
  BY <1>0 DEF OutputInv
<1> QED BY <1>0, <1>5, <1>7, <1>8, <1>9, <1>10 DEF OutputInv

\* deflate gives out the last it holds.
LEMMA OutputFinishes ==
  ASSUME OutputInv, LayoutInv, prv_sync
  PROVE  OutputInv' /\ todo' <= Chunk
<1>0. /\ ~write_success /\ avail_in = 0 /\ todo = 0 /\ block = 0 /\ gzip
      /\ UNCHANGED <<gzip, write_offset, block, length, avail_in>>
      /\ pc \in {"sync", "finish"} /\ pc' \in {"finish", "done"} /\ length \in Nat
  BY DEF OutputInv, prv_sync, input, layout
<1>1. PICK held : held = pending + (IF pc = "sync" THEN 8 ELSE 0)
  OBVIOUS
<1>2. held \in Nat /\ pending \in Nat
  BY <1>1 DEF OutputInv
<1>3. ~Gathering' /\ (pc' = "done" => ~Writing')
  BY <1>0 DEF Gathering, Writing
<1>4. CASE /\ pc' = "finish" /\ todo' = MIN(held, Chunk) /\ pending' = held - MIN(held, Chunk)
           /\ UNCHANGED write_success
  <2>1. MIN(held, Chunk) \in Nat /\ held - MIN(held, Chunk) \in Nat /\ MIN(held, Chunk) <= Chunk
    BY <1>2, Sizes DEF MIN
  <2> QED BY <1>0, <1>3, <1>4, <2>1 DEF OutputInv
<1>5. CASE held = 0 /\ pc' = "done" /\ write_success' = TRUE /\ UNCHANGED <<todo, pending>>
  <2>1. pending = 0
    BY <1>1, <1>5 DEF OutputInv
  <2> QED BY <1>0, <1>2, <1>3, <1>5, <2>1, Sizes DEF OutputInv
<1> QED BY <1>1, <1>4, <1>5 DEF prv_sync

\* What was handed to the stages and what reached the file add up.
LEMMA OutputStep ==
  InputInv /\ ReaderInv /\ ArrayInv /\ LayoutInv /\ OutputInv /\ [Next]_vars => OutputInv'
<1> SUFFICES ASSUME InputInv, ReaderInv, ArrayInv, LayoutInv, OutputInv, [Next]_vars
             PROVE  OutputInv'
  OBVIOUS
<1>1. CASE UNCHANGED vars
  BY <1>1 DEF vars, input, layout, io, transformer, OutputInv, Gathering, Writing
<1>2. CASE ReaderStep
  <2>1. /\ UNCHANGED <<gzip, write_offset, block, avail_in, todo, pending, length, write_success>>
        /\ Gathering \/ pc = "done"
        /\ Gathering' => Gathering
        /\ Gathering' \/ pc' \in {"done", "ended", "crashed"}
    BY <1>2, ReaderFrame
  <2>2. ~Writing' /\ pc' \notin {"sync", "finish"}
    BY <2>1 DEF Gathering, Writing
  <2>3. avail_in = 0 /\ todo = 0
    BY <2>1 DEF OutputInv
  <2>4. write_success => pc' \in {"done", "ended", "crashed"}
    BY <2>1 DEF OutputInv, Gathering
  <2> QED BY <2>1, <2>2, <2>3, <2>4 DEF OutputInv
<1>3. CASE TransformerStep
  <2>1. /\ UNCHANGED <<gzip, write_offset, pending, length, write_success>>
        /\ Gathering
        /\ \/ pc' \in {"segment", "seek", "note", "crashed"}
              /\ UNCHANGED <<block, avail_in, todo>>
           \/ pc' \in {"ehdr", "crashed"} /\ StartBlock(Ehdr)
    BY <1>3, TransformerFrame DEF Gathering
  <2>2. /\ ~write_success /\ avail_in = 0 /\ todo = 0 /\ length = 0 /\ block = 0 /\ write_offset = 0
        /\ pending \in Nat /\ write_success' \in BOOLEAN
    BY <2>1 DEF OutputInv, LayoutInv, Gathering
  <2>3. CASE /\ pc' \in {"segment", "seek", "note", "crashed"}
             /\ UNCHANGED <<block, avail_in, todo>>
    <3>1. ~Writing' /\ pc' \notin {"sync", "finish"}
      BY <2>3 DEF Writing
    <3> QED BY <2>1, <2>2, <2>3, <3>1 DEF OutputInv
  <2>4. CASE pc' \in {"ehdr", "crashed"} /\ StartBlock(Ehdr)
    <3>1. ~Gathering'
      BY <2>4 DEF Gathering
    <3>2. /\ block' = Ehdr /\ avail_in' \in {0, Ehdr} /\ todo' \in {0, Ehdr}
          /\ ~gzip => avail_in' = 0 /\ todo' = Ehdr
      BY <2>4 DEF StartBlock
    <3>3. ~gzip => length' + todo' = write_offset' + block'
      BY <2>1, <2>2, <3>2, Sizes
    <3>4. avail_in' \in Nat /\ todo' \in Nat /\ length' \in Nat /\ pending' \in Nat
      BY <2>1, <2>2, <3>2, Sizes
    <3> QED BY <2>1, <2>2, <2>4, <3>1, <3>2, <3>3, <3>4 DEF OutputInv
  <2> QED BY <2>1, <2>3, <2>4
<1>4. CASE prv_io_write_all
  BY <1>4, OutputWrites
<1>5. CASE prv_write
  BY <1>5, OutputDeflates
<1>6. CASE HeaderWritten
  <2>1. /\ pc = "ehdr" /\ pc' = "plan" /\ BlockDone /\ write_offset' = write_offset + block
        /\ UNCHANGED <<gzip, write_success>>
    BY <1>6 DEF HeaderWritten, input, transformer
  <2>2. StartBlock(0)
    BY <1>6 DEF HeaderWritten, BlockDone, StartBlock
  <2> QED BY <2>1, <2>2, OutputStarts
<1>7. CASE PlanSegment
  <2>1. /\ pc = "plan" /\ pc' \in {"plan", "data"} /\ BlockDone /\ write_offset' = write_offset + block
        /\ UNCHANGED <<gzip, write_success>> /\ (StartBlock(Phdr) \/ StartBlock(0))
    BY <1>7 DEF PlanSegment, input, transformer
  <2> QED BY <2>1, OutputStarts, Sizes
<1>8. CASE SegmentWritten
  <2>1. /\ pc = "data" /\ pc' \in {"done", "sync", "pad"} /\ BlockDone
        /\ write_offset' = write_offset + block
        /\ UNCHANGED <<gzip, write_success>> /\ StartBlock(0)
    BY <1>8 DEF SegmentWritten, input, transformer
  <2> QED BY <2>1, OutputStarts
<1>9. CASE prv_write_padding
  <2>1. /\ pc = "pad" /\ pc' \in {"pad", "data"} /\ BlockDone
        /\ write_offset' = write_offset + block /\ UNCHANGED <<gzip, write_success>>
    BY <1>9 DEF prv_write_padding, input, transformer
  <2>2. PICK n : n \in {MIN(rest, Chunk), 0, segments[idx].filesz} /\ StartBlock(n)
    BY <1>9 DEF prv_write_padding
  <2>3. n \in Nat
    <3>1. MIN(rest, Chunk) \in Nat
      BY Sizes DEF LayoutInv, MIN
    <3>2. segments[idx] \in NewSegments
      BY <2>1 DEF LayoutInv, ArrayInv
    <3> QED BY <2>2, <3>1, <3>2 DEF NewSegments
  <2> QED BY <2>1, <2>2, <2>3, OutputStarts
<1>10. CASE prv_write_load_segment_data_cb
  <2>1. /\ pc = "data" /\ pc' = "data" /\ BlockDone
        /\ write_offset' = write_offset + block /\ UNCHANGED <<gzip, write_success>>
    BY <1>10 DEF prv_write_load_segment_data_cb, input, transformer
  <2>2. PICK n : n \in {MIN(rest, Chunk), 1} /\ StartBlock(n)
    BY <1>10 DEF prv_write_load_segment_data_cb
  <2>3. n \in Nat
    BY <2>2, Sizes DEF LayoutInv, MIN
  <2> QED BY <2>1, <2>2, <2>3, OutputStarts
<1>11. CASE prv_fio_sync
  <2>1. /\ pc = "sync" /\ pc' = "done" /\ ~gzip
        /\ UNCHANGED <<gzip, write_offset, block, avail_in, todo, pending, length>>
        /\ write_success' = TRUE \/ UNCHANGED write_success
    BY <1>11 DEF prv_fio_sync, input, layout, io
  <2>2. /\ avail_in = 0 /\ todo = 0 /\ block = 0 /\ length + todo = write_offset + block
        /\ write_success' \in BOOLEAN
    BY <2>1 DEF OutputInv, Writing
  <2>3. ~Gathering' /\ ~Writing'
    BY <2>1 DEF Gathering, Writing
  <2> QED BY <2>1, <2>2, <2>3 DEF OutputInv
<1>12. CASE prv_sync
  BY <1>12, OutputFinishes
<1> QED BY <1>1, <1>2, <1>3, <1>4, <1>5, <1>6, <1>7, <1>8, <1>9, <1>10, <1>11, <1>12
        DEF Next, WriterStep

-----------------------------------------------------------------------------
(* The limit: arithmetic modulo the size of a size_t *)

\* Multiples of m are at least m apart.
LEMMA Times ==
  \A d \in Int, m \in Nat \ {0} :
    /\ d >= 1 => d * m >= m
    /\ d <= -1 => d * m <= -m
OBVIOUS

\* What the modulo of an integer is.
LEMMA Division == \A x \in Int, m \in Nat \ {0} :
  x \div m \in Int /\ x % m \in 0 .. m - 1 /\ x = (x \div m) * m + (x % m)
OBVIOUS

\* There is only one remainder.
LEMMA Remainder ==
  ASSUME NEW x \in Int, NEW m \in Nat \ {0}, NEW q \in Int, NEW r \in 0 .. m - 1, x = q * m + r
  PROVE  x % m = r
<1>1. PICK p \in Int, s \in 0 .. m - 1 : s = x % m /\ x = p * m + s
  BY Division
<1>2. (q - p) * m = q * m - p * m
  OBVIOUS
<1>3. PICK d \in Int : d = q - p
  OBVIOUS
<1>4. d * m = s - r
  <2>1. PICK a \in Int, b \in Int : a = q * m /\ b = p * m
    OBVIOUS
  <2> QED BY <1>1, <1>2, <1>3, <2>1
<1>5. ~(d >= 1) /\ ~(d <= -1)
  BY <1>4, Times
<1>6. d = 0
  BY <1>5
<1>7. s - r = 0
  BY <1>4, <1>6
<1> QED BY <1>1, <1>7

\* A remainder may be taken first.
LEMMA ModuloAdds ==
  ASSUME NEW w \in Int, NEW t \in Int, NEW m \in Nat \ {0}
  PROVE  ((w % m) + t) % m = (w + t) % m
<1>1. PICK p \in Int, s \in 0 .. m - 1 : s = w % m /\ w = p * m + s
  BY Division
<1>2. PICK u \in Int, v \in Int : u = s + t /\ v = w + t
  OBVIOUS
<1>3. PICK q \in Int, r \in 0 .. m - 1 : r = u % m /\ u = q * m + r
  BY Division
<1>4. PICK k \in Int : k = p + q
  OBVIOUS
<1>5. v = k * m + r
  <2>1. k * m = p * m + q * m
    BY <1>4
  <2>2. PICK a \in Int, b \in Int, c \in Int : a = q * m /\ b = p * m /\ c = k * m
    OBVIOUS
  <2>3. c = b + a /\ w = b + s /\ u = a + r
    BY <1>1, <1>3, <2>1, <2>2
  <2>4. v = c + r
    BY <1>2, <2>3
  <2> QED BY <2>2, <2>4
<1>6. v % m = r
  BY <1>5, Remainder
<1> QED BY <1>1, <1>2, <1>3, <1>6

\* A whole turn changes no remainder: -1 as a size_t takes one away.
LEMMA ModuloShift ==
  ASSUME NEW x \in Int, NEW m \in Nat \ {0}
  PROVE  (x + m) % m = x % m
<1>1. PICK p \in Int, s \in 0 .. m - 1 : s = x % m /\ x = p * m + s
  BY Division
<1>2. PICK k \in Int, y \in Int : k = p + 1 /\ y = x + m
  OBVIOUS
<1>3. y = k * m + s
  <2>1. k * m = p * m + m
    BY <1>2
  <2>2. PICK a \in Int, b \in Int : a = p * m /\ b = k * m
    OBVIOUS
  <2>3. b = a + m /\ x = a + s
    BY <1>1, <2>1, <2>2
  <2>4. y = b + s
    BY <1>2, <2>3
  <2> QED BY <2>2, <2>4
<1>4. y % m = s
  BY <1>3, Remainder
<1> QED BY <1>1, <1>2, <1>4

\* prv_fio_write goes ahead only if the file stays within the limit.
LEMMA FitsInLimit ==
  ASSUME NEW l \in Nat, NEW i \in Nat, NEW t \in Nat, NEW n \in Nat, NEW max \in Nat,
         NEW m \in Nat \ {0}, n <= t, max + t < m, l <= max + i,
         ~((((l - i) % m) + t) % m > max)
  PROVE  l + n <= max + i
<1>1. PICK w \in Int : w = l - i
  OBVIOUS
<1>2. ((w % m) + t) % m = (w + t) % m
  <2>1. t \in Int
    OBVIOUS
  <2> QED BY <2>1, ModuloAdds
<1>3. CASE w + t < 0
  BY <1>1, <1>3
<1>4. CASE w + t >= 0
  <2>1. PICK s \in Nat : s = w + t
    BY <1>4
  <2>2. s < m
    BY <1>1, <2>1
  <2>3. s % m = s
    BY <2>1, <2>2, SmallModulo
  <2>4. ~(s > max)
    BY <1>1, <1>2, <2>1, <2>3
  <2> QED BY <1>1, <2>1, <2>4
<1> QED BY <1>1, <1>3, <1>4

\* Every block and the limit add up to a size_t.
LEMMA BlockFits ==
  ASSUME InputInv
  PROVE  /\ max_size \in Nat /\ max_size < SizeMod
         /\ max_size + Ehdr < SizeMod /\ max_size + Phdr < SizeMod /\ max_size + Chunk < SizeMod
         /\ max_size + (128 + serial) < SizeMod
         /\ \A i \in 1 .. Len(stream.segs) :
              stream.segs[i].type = "NOTE" => max_size + stream.segs[i].filesz < SizeMod
<1>1. max_size \in MaxSizes /\ stream \in Streams /\ serial \in Serials
  BY DEF InputInv
<1>2. max_size \in Nat /\ max_size < SizeMod
  BY <1>1, SizesAssumption, Sizes
<1>3. \A n \in {Ehdr, Phdr, Chunk} \cup {128 + k : k \in Serials} : max_size + n < SizeMod
  BY <1>1, BlocksAssumption
<1>4. \A i \in 1 .. Len(stream.segs) :
        stream.segs[i].type = "NOTE" => max_size + stream.segs[i].filesz < SizeMod
  BY <1>1, BlocksAssumption
<1>5. 128 + serial \in {128 + k : k \in Serials}
  BY <1>1
<1> QED BY <1>2, <1>3, <1>4, <1>5

\* A block begins, or deflate gives out some: the file is not touched yet.
LEMMA LimitKeeps ==
  ASSUME LimitInv, ArrayInv,
         UNCHANGED <<max_size, written_size, length, interrupted>>,
         Gathering' \/ Writing' => Gathering \/ Writing,
         max_size + todo' < SizeMod,
         Len(segments') = Len(segments),
         \A k \in 1 .. Len(segments) :
           /\ segments'[k].filesz = segments[k].filesz
           /\ segments'[k].callback = segments[k].callback
  PROVE  LimitInv'
<1>1. \A k \in 1 .. Len(segments') :
        ~segments'[k].callback => max_size' + segments'[k].filesz < SizeMod
  BY DEF LimitInv
<1> QED BY <1>1 DEF LimitInv

\* One write(), or the refusal to.
LEMMA LimitWrites ==
  ASSUME InputInv, PlaceInv, ArrayInv, OutputInv, LimitInv, prv_io_write_all
  PROVE  LimitInv'
<1>0. /\ length \in Nat /\ todo \in Nat /\ interrupted \in Nat /\ max_size \in Nat /\ todo > 0
      /\ SizeMod \in Nat \ {0} /\ max_size + todo < SizeMod /\ length <= max_size + interrupted
      /\ written_size \in 0 .. SizeMod - 1
      /\ UNCHANGED <<max_size, segments>>
  BY BlockFits, Sizes DEF OutputInv, LimitInv, prv_io_write_all, input, array
<1>1. written_size = (length - interrupted) % SizeMod
  <2>1. Gathering \/ Writing
    <3>1. pc # "crashed" /\ pc \notin {"done", "ended"}
      BY <1>0 DEF prv_io_write_all, OutputInv
    <3> QED BY <3>1 DEF PlaceInv
  <2> QED BY <2>1 DEF LimitInv
<1>2. \A k \in 1 .. Len(segments') :
        ~segments'[k].callback => max_size' + segments'[k].filesz < SizeMod
  BY <1>0 DEF LimitInv
<1>3. PICK w \in Int : w = length - interrupted
  BY <1>0
<1>4. CASE /\ ~Exceeds /\ UNCHANGED interrupted
           /\ \E n \in {todo, (todo + 1) \div 2} :
                /\ todo' = todo - n /\ length' = length + n
                /\ written_size' = (written_size + n) % SizeMod
  <2>1. PICK n \in {todo, (todo + 1) \div 2} :
          /\ todo' = todo - n /\ length' = length + n
          /\ written_size' = (written_size + n) % SizeMod
    BY <1>4
  <2>2. n \in Nat /\ n <= todo
    BY <1>0
  <2>3. length + n <= max_size + interrupted
    <3>1. ~((((length - interrupted) % SizeMod) + todo) % SizeMod > max_size)
      BY <1>1, <1>4 DEF Exceeds
    <3> QED BY <1>0, <2>2, <3>1, FitsInLimit
  <2>4. written_size' = (length' - interrupted') % SizeMod
    <3>1. ((w % SizeMod) + n) % SizeMod = (w + n) % SizeMod
      <4>1. n \in Int
        BY <2>2
      <4> QED BY <1>0, <4>1, ModuloAdds
    <3>2. w + n = length' - interrupted'
      BY <1>0, <1>3, <1>4, <2>1, <2>2
    <3>3. written_size = w % SizeMod
      BY <1>1, <1>3
    <3> QED BY <2>1, <3>1, <3>2, <3>3
  <2>5. written_size' \in 0 .. SizeMod - 1
    <3>1. PICK v \in Int : v = length' - interrupted'
      BY <1>0, <1>4, <2>1, <2>2
    <3> QED BY <1>0, <2>4, <3>1
  <2>6. length' <= max_size' + interrupted' /\ max_size' + todo' < SizeMod /\ interrupted' \in Nat
    BY <1>0, <1>4, <2>1, <2>2, <2>3
  <2> QED BY <1>2, <2>4, <2>5, <2>6 DEF LimitInv
<1>5. CASE /\ written_size' = (written_size + SizeMod - 1) % SizeMod
           /\ interrupted' = interrupted + 1 /\ UNCHANGED <<todo, length>>
  <2>1. written_size' = (length' - interrupted') % SizeMod
    <3>1. PICK t \in Int, v \in Int : t = SizeMod - 1 /\ v = w - 1
      BY <1>0
    <3>2. ((w % SizeMod) + t) % SizeMod = (w + t) % SizeMod
      BY <1>0, ModuloAdds
    <3>3. (v + SizeMod) % SizeMod = v % SizeMod
      BY <1>0, ModuloShift
    <3>4. w + t = v + SizeMod
      BY <1>0, <3>1
    <3>5. v = length' - interrupted'
      BY <1>0, <1>3, <1>5, <3>1
    <3>6. written_size + SizeMod - 1 = (w % SizeMod) + t
      BY <1>0, <1>1, <1>3, <3>1
    <3> QED BY <1>5, <3>2, <3>3, <3>4, <3>5, <3>6
  <2>2. written_size' \in 0 .. SizeMod - 1
    <3>1. PICK v \in Int : v = length' - interrupted'
      BY <1>0, <1>5
    <3> QED BY <1>0, <2>1, <3>1
  <2>3. length' <= max_size' + interrupted' /\ max_size' + todo' < SizeMod /\ interrupted' \in Nat
    BY <1>0, <1>5
  <2> QED BY <1>2, <2>1, <2>2, <2>3 DEF LimitInv
<1>6. CASE /\ pc' = "done" /\ todo' = 0 /\ UNCHANGED <<length, interrupted>>
           /\ written_size' \in {written_size, (written_size + SizeMod - 1) % SizeMod}
  <2>1. written_size' \in 0 .. SizeMod - 1
    <3>1. PICK u \in Int : u = written_size + SizeMod - 1
      BY <1>0
    <3>2. u % SizeMod \in 0 .. SizeMod - 1
      BY <1>0
    <3> QED BY <1>0, <1>6, <3>1, <3>2
  <2>2. length' <= max_size' + interrupted' /\ max_size' + todo' < SizeMod /\ interrupted' \in Nat
    BY <1>0, <1>6
  <2>3. ~Gathering' /\ ~Writing'
    BY <1>6 DEF Gathering, Writing
  <2> QED BY <1>2, <2>1, <2>2, <2>3 DEF LimitInv
<1> QED BY <1>4, <1>5, <1>6 DEF prv_io_write_all, WriteFails

\* The size that prv_fio_write keeps is right up to one per interrupted write.
LEMMA LimitStep ==
  IInv /\ [Next]_vars => LimitInv'
<1> SUFFICES ASSUME IInv, [Next]_vars PROVE LimitInv'
  OBVIOUS
<1> USE DEF IInv
<1>0. /\ segments \in Seq(NewSegments) /\ Len(segments) \in Nat /\ max_size \in Nat
      /\ max_size + todo < SizeMod /\ max_size < SizeMod /\ SizeMod \in Nat
  BY BlockFits, Sizes DEF ArrayInv, LimitInv
<1>1. CASE UNCHANGED vars
  BY <1>0, <1>1, LimitKeeps DEF vars, input, array, io, Gathering, Writing
<1>2. CASE ReaderStep
  <2>1. /\ UNCHANGED <<max_size, written_size, length, interrupted, todo, segments>>
        /\ Gathering' \/ Writing' => Gathering \/ Writing
    BY <1>2, ReaderFrame DEF Gathering, Writing
  <2> QED BY <1>0, <2>1, LimitKeeps
<1>3. CASE TransformerStep
  <2>1. /\ UNCHANGED <<max_size, written_size, length, interrupted>> /\ Gathering
        /\ UNCHANGED todo \/ todo' \in {0, Ehdr}
    BY <1>3, TransformerFrame DEF StartBlock, Gathering
  <2>2. max_size' + todo' < SizeMod
    BY <1>0, <2>1, BlockFits
  <2>3. \A k \in 1 .. Len(segments') :
          ~segments'[k].callback => max_size + segments'[k].filesz < SizeMod
    <3>1. CASE UNCHANGED segments
      BY <3>1 DEF LimitInv
    <3>2. ASSUME NEW seg \in NewSegments, NEW then, Added(seg, then),
                 ~seg.callback => max_size + seg.filesz < SizeMod
          PROVE  \A k \in 1 .. Len(segments') :
                   ~segments'[k].callback => max_size + segments'[k].filesz < SizeMod
      <4> SUFFICES ASSUME NEW k \in 1 .. Len(segments'), ~segments'[k].callback
                   PROVE  max_size + segments'[k].filesz < SizeMod
        OBVIOUS
      <4>1. /\ Len(segments') = Len(segments) + 1
            /\ segments'[Len(segments) + 1] = seg
            /\ \A j \in 1 .. Len(segments) : segments'[j] = segments[j]
        BY <3>2, AddedEffect
      <4>2. k \in 1 .. Len(segments) \/ k = Len(segments) + 1
        BY <1>0, <4>1
      <4>3. CASE k \in 1 .. Len(segments)
        BY <4>1, <4>3 DEF LimitInv
      <4>4. CASE k = Len(segments) + 1
        BY <3>2, <4>1, <4>4
      <4> QED BY <4>2, <4>3, <4>4
    <3>3. CASE /\ next <= Len(stream.segs) /\ pc = "note" /\ left = 0
               /\ Added(Segment(next, segment.filesz, segment.align, FALSE, piped - segment.filesz),
                        "segment")
      <4>1. next \in 1 .. Len(stream.segs) /\ segment.type = "NOTE"
        BY <3>3, StreamTypes DEF ReaderInv
      <4>2. max_size + segment.filesz < SizeMod
        BY <4>1, BlockFits DEF segment
      <4>3. PICK seg : seg = Segment(next, segment.filesz, segment.align, FALSE,
                                     piped - segment.filesz)
        OBVIOUS
      <4>4. seg \in NewSegments /\ seg.filesz = segment.filesz
        BY <3>3, <4>3, NewSegmentTypes DEF Segment
      <4> QED BY <3>2, <3>3, <4>2, <4>3, <4>4
    <3>4. CASE /\ next <= Len(stream.segs)
               /\ Added(Segment(next, segment.filesz, segment.align, TRUE, 0), "segment")
      <4>1. PICK seg : seg = Segment(next, segment.filesz, segment.align, TRUE, 0)
        OBVIOUS
      <4>2. seg \in NewSegments /\ seg.callback
        BY <3>4, <4>1, NewSegmentTypes DEF Segment
      <4> QED BY <3>2, <3>4, <4>1, <4>2
    <3>5. CASE Added(Segment(0, ticos_core_elf_note_calculate_size, 0, FALSE, 0), "ehdr")
      <4>1. PICK seg : seg = Segment(0, ticos_core_elf_note_calculate_size, 0, FALSE, 0)
        OBVIOUS
      <4>2. PICK n \in Nat : n = ticos_core_elf_note_calculate_size /\ n <= 128 + serial
        BY NewSegmentTypes
      <4>3. seg \in NewSegments /\ seg.filesz = n
        BY <4>1, <4>2, NewSegmentTypes DEF Segment
      <4>4. max_size + n < SizeMod
        <5>1. serial \in Nat /\ max_size + (128 + serial) < SizeMod
          BY BlockFits, BoundsAssumption DEF InputInv
        <5> QED BY <1>0, <4>2, <5>1
      <4> QED BY <3>2, <3>5, <4>1, <4>3, <4>4
    <3> QED BY <1>3, <3>1, <3>3, <3>4, <3>5, TransformerEffect DEF GoesOn
  <2> QED BY <2>1, <2>2, <2>3 DEF LimitInv
<1>4. CASE prv_io_write_all
  BY <1>4, LimitWrites
<1>5. CASE WriterStep /\ ~prv_io_write_all
  <2>1. /\ Len(segments') = Len(segments)
        /\ \A k \in 1 .. Len(segments) :
             /\ segments'[k].filesz = segments[k].filesz
             /\ segments'[k].callback = segments[k].callback
    BY <1>5, WriterSegments
  <2>2. Gathering' \/ Writing' => Gathering \/ Writing
    BY <1>5, WriterFlow
  <2>3. ASSUME NEW n, StartBlock(n), n = 0 \/ max_size + n < SizeMod
        PROVE  /\ max_size + todo' < SizeMod
               /\ UNCHANGED <<written_size, length, interrupted>>
    BY <1>0, <2>3 DEF StartBlock
  <2>4. \A r \in Nat : MIN(r, Chunk) <= Chunk /\ MIN(r, Chunk) \in Nat
    BY Sizes DEF MIN
  <2>5. \A n \in Nat : n <= Chunk => max_size + n < SizeMod
    BY <1>0, BlockFits, Sizes
  <2>6. rest \in Nat
    BY DEF LayoutInv
  <2>7. /\ max_size + todo' < SizeMod
        /\ UNCHANGED <<max_size, written_size, length, interrupted>>
    <3>0. UNCHANGED max_size
      BY <1>5, WriterFrame
    <3>1. CASE prv_write
      <4>1. todo' \in Nat /\ todo' <= Chunk
        BY <3>1, OutputDeflates DEF OutputInv
      <4> QED BY <2>5, <3>0, <3>1, <4>1 DEF prv_write
    <3>2. CASE HeaderWritten
      BY <1>0, <3>0, <3>2 DEF HeaderWritten
    <3>3. CASE PlanSegment
      BY <2>3, <3>0, <3>3, BlockFits DEF PlanSegment
    <3>4. CASE SegmentWritten
      BY <2>3, <3>0, <3>4 DEF SegmentWritten
    <3>5. CASE prv_write_padding
      <4>1. idx \in 1 .. Len(segments)
        BY <3>5 DEF prv_write_padding, LayoutInv
      <4>2. ~segments[idx].callback => max_size + segments[idx].filesz < SizeMod
        BY <4>1 DEF LimitInv
      <4>3. \/ StartBlock(MIN(rest, Chunk))
            \/ StartBlock(0)
            \/ ~segments[idx].callback /\ StartBlock(segments[idx].filesz)
        BY <3>5 DEF prv_write_padding
      <4>4. max_size + MIN(rest, Chunk) < SizeMod
        BY <2>4, <2>5, <2>6
      <4> QED BY <2>3, <3>0, <4>2, <4>3, <4>4
    <3>6. CASE prv_write_load_segment_data_cb
      <4>1. StartBlock(MIN(rest, Chunk)) \/ StartBlock(1)
        BY <3>6 DEF prv_write_load_segment_data_cb
      <4>2. max_size + MIN(rest, Chunk) < SizeMod /\ max_size + 1 < SizeMod
        BY <2>4, <2>5, <2>6, Sizes
      <4> QED BY <2>3, <3>0, <4>1, <4>2
    <3>7. CASE prv_fio_sync
      BY <1>0, <3>0, <3>7 DEF prv_fio_sync, io
    <3>8. CASE prv_sync
      <4>1. todo' \in Nat /\ todo' <= Chunk
        BY <3>8, OutputFinishes DEF OutputInv
      <4> QED BY <2>5, <3>0, <3>8, <4>1 DEF prv_sync
    <3> QED BY <1>5, <3>1, <3>2, <3>3, <3>4, <3>5, <3>6, <3>7, <3>8 DEF WriterStep
  <2> QED BY <2>1, <2>2, <2>7, LimitKeeps
<1> QED BY <1>1, <1>2, <1>3, <1>4, <1>5 DEF Next

-----------------------------------------------------------------------------
(* The inductive invariant, and what follows from it *)

\* The invariant holds before the first read,
LEMMA InvInit == Init => IInv
<1> SUFFICES ASSUME Init PROVE IInv
  OBVIOUS
<1>1. InputInv
  BY DEF Init, InputInv
<1>0. stream.length \in Nat /\ Len(stream.segs) \in Nat
  BY <1>1, StreamTypes
<1>2. PlaceInv /\ ErrnoInv /\ Gathering /\ ~Writing /\ ~write_success /\ pc = "open"
  BY DEF Init, PlaceInv, ErrnoInv, Gathering, Writing
<1>3. ReaderInv
  <2>1. 0 \in 0 .. stream.length /\ 1 \in 1 .. Len(stream.segs) + 1
    BY <1>0
  <2>2. piped = 0 /\ stream_pos = 0 /\ left = 0 /\ next = 1 /\ broken \in BOOLEAN
    BY DEF Init
  <2>3. ~(pc \in {"seek", "note"}) /\ pc # "seek" /\ pc # "note"
    BY <1>2
  <2> QED BY <2>1, <2>2, <2>3 DEF ReaderInv
<1>4. ArrayInv
  <2>1. segments = <<>> /\ segments_max = 0 /\ allocated = 0 /\ nomem = FALSE /\ next = 1
    BY DEF Init
  <2>2. <<>> \in Seq(NewSegments) /\ Len(<<>>) = 0
    OBVIOUS
  <2>3. segments \in Seq(NewSegments) /\ Len(segments) = 0
    BY <2>1, <2>2
  <2>4. nomem \in BOOLEAN
    BY <2>1
  <2> QED BY <2>1, <2>3, <2>4 DEF ArrayInv
<1>5. WarningInv
  BY BoundsAssumption DEF Init, WarningInv, MIN
<1>6. GatherInv
  BY <1>2 DEF Init, GatherInv, Gathered, Ordered
<1>7. LayoutInv
  BY <1>2 DEF Init, LayoutInv
<1>8. OutputInv
  BY <1>2 DEF Init, OutputInv
<1>9. LimitInv
  <2>1. (0 - 0) % SizeMod = 0
    BY Sizes
  <2> QED BY <1>1, <2>1, BlockFits, Sizes DEF Init, LimitInv
<1> QED BY <1>1, <1>2, <1>3, <1>4, <1>5, <1>6, <1>7, <1>8, <1>9 DEF IInv

\* and every step keeps it.
LEMMA InvStep == IInv /\ [Next]_vars => IInv'
BY InputStep, PlaceStep, ErrnoStep, ReaderInvStep, ArrayStep, WarningStep, GatherStep, LayoutStep,
   OutputStep, LimitStep DEF IInv

\* Every variable has its type in every reachable state: in particular no
\* segment is read behind the table, the index into the array of warnings
\* stops one behind its end, and the sizes that the writer computes are never
\* negative (prv_handle_segments, prv_add_warning, ticos_core_elf_writer_write).
THEOREM TypeCorrect == Spec => []TypeOK
<1>1. IInv => TypeOK
  <2> SUFFICES ASSUME IInv PROVE TypeOK
    OBVIOUS
  <2> USE DEF IInv
  <2>1. stream.length \in Nat /\ Len(stream.segs) \in Nat
    BY StreamTypes
  <2>2. /\ stream_pos \in Nat /\ piped \in 0 .. stream.length /\ left \in Nat
        /\ next \in 1 .. Len(stream.segs) + 1
    BY <2>1 DEF ReaderInv
  <2>3. broken \in BOOLEAN /\ write_success \in BOOLEAN
    BY DEF ReaderInv, OutputInv
  <2>4. next_warning_idx \in 0 .. MaxWarnings + 1
    BY BoundsAssumption DEF WarningInv, MIN
  <2>5. Len(segments) <= Len(stream.segs) + 1
    <3>1. Len(segments) \in Nat /\ Len(segments) <= next
      BY DEF ArrayInv
    <3> QED BY <2>1, <2>2, <3>1
  <2>6. /\ idx \in 0 .. Len(segments) + 1
        /\ {segment_data_offset, write_offset, rest, block, avail_in, todo, pending, length}
             \subseteq Nat
    BY DEF LayoutInv, OutputInv
  <2>7. written_size \in 0 .. SizeMod - 1
    BY DEF LimitInv
  <2>8. pc \in {"open", "header", "skip", "prepare", "table", "segment", "seek", "note", "ehdr",
                "plan", "pad", "data", "sync", "finish", "done", "ended", "crashed"}
    BY DEF PlaceInv, Gathering, Writing
  <2> QED BY <2>2, <2>3, <2>4, <2>5, <2>6, <2>7, <2>8 DEF TypeOK, ErrnoInv
<1> QED BY <1>1, InvInit, InvStep, PTL DEF Spec

\* A file that the transformer reports as a success is whole, whatever the
\* core dump and however often reads and writes fell short or were
\* interrupted: the data lies where the segment table, which was written
\* before it, says (ticos_core_elf_writer_write, prv_io_write_all).
THEOREM WholeFile == Spec => []WholeIfSuccess
<1>1. IInv => WholeIfSuccess
  <2> SUFFICES ASSUME IInv, write_success PROVE WholeIfSuccess
    BY DEF WholeIfSuccess
  <2> USE DEF IInv
  <2>1. /\ AllPlanned /\ Placed(Len(segments)) /\ write_offset = EndOf(Len(segments))
        /\ write_offset \in Nat
    BY DEF LayoutInv
  <2>2. segments \in Seq(NewSegments) /\ Len(segments) \in Nat
    BY DEF ArrayInv
  <2>3. IF gzip THEN pending = 0 /\ todo = 0 ELSE length = write_offset
    BY <2>1 DEF OutputInv
  <2>4. write_offset = IF segments = <<>> THEN Ehdr
                       ELSE segments[Len(segments)].offset + segments[Len(segments)].filesz
    <3>1. CASE segments = <<>>
      <4>1. Len(segments) = 0
        BY <3>1
      <4>2. Phdr * 0 = 0
        BY Sizes
      <4> QED BY <2>1, <3>1, <4>1, <4>2, Sizes DEF EndOf
    <3>2. CASE segments # <<>>
      <4>1. Len(segments) # 0
        BY <2>2, <3>2
      <4> QED BY <2>1, <3>2, <4>1 DEF EndOf
    <3> QED BY <3>1, <3>2
  <2>5. ASSUME NEW i \in 1 .. Len(segments),
               NEW begin, begin = IF i = 1 THEN Ehdr + Phdr * Len(segments)
                                  ELSE segments[i - 1].offset + segments[i - 1].filesz
        PROVE  /\ segments[i].offset = placed[i] /\ segments[i].offset >= begin
               /\ segments[i].align > 1 =>
                    /\ segments[i].offset % segments[i].align = 0
                    /\ segments[i].offset - begin < segments[i].align
    <3>1. begin = EndOf(i - 1)
      <4>1. i - 1 = 0 <=> i = 1
        BY <2>2
      <4> QED BY <2>5, <4>1 DEF EndOf
    <3>2. Planned(i)
      BY <2>1 DEF AllPlanned
    <3>3. segments[i].offset = placed[i]
      BY <2>1 DEF Placed
    <3> QED BY <3>1, <3>2, <3>3 DEF Planned
  <2> QED BY <2>1, <2>3, <2>4, <2>5 DEF WholeIfSuccess, Placed
<1> QED BY <1>1, InvInit, InvStep, PTL DEF Spec

\* The file never grows beyond the limit by more than one byte per
\* interrupted write, although prv_fio_write adds the -1 of a failed write()
\* to the size it compares with the limit, and although that size is a size_t
\* which wraps around (prv_fio_write).
THEOREM FileWithinLimit == Spec => []WithinLimit
<1>1. IInv => WithinLimit
  BY DEF IInv, LimitInv, WithinLimit
<1> QED BY <1>1, InvInit, InvStep, PTL DEF Spec

\* A file that is reported as a success holds every segment of the core dump
\* that there was no warning about, in order, each once and from its own place
\* in the stream, unless memory ran out (prv_handle_segments).
THEOREM NothingLost == Spec => []NothingMissing
<1>1. IInv => NothingMissing
  <2> SUFFICES ASSUME IInv, write_success, ~nomem
               PROVE  /\ segments[Len(segments)].i = 0
                      /\ \A i \in 1 .. Len(stream.segs) :
                           \/ i \in warned
                           \/ \E k \in 1 .. Len(segments) :
                                /\ segments[k].i = i
                                /\ segments[k].filesz = stream.segs[i].filesz
                                /\ stream.segs[i].type = "NOTE" /\ stream.segs[i].filesz > 0 =>
                                     segments[k].from = stream.segs[i].offset
                                /\ \A j \in 1 .. k - 1 : segments[j].i \in 1 .. i - 1
    BY DEF NothingMissing
  <2> USE DEF IInv
  <2>1. /\ Len(segments) >= 1 /\ segments[Len(segments)].i = 0
        /\ Ordered(Len(segments) - 1)
        /\ \A i \in 1 .. Len(stream.segs) : Accounted(i)
    BY DEF GatherInv, Complete
  <2>2. /\ Len(segments) \in Nat
        /\ \A k \in 1 .. Len(segments) : segments[k].i \in Nat
    <3>1. segments \in Seq(NewSegments)
      BY DEF ArrayInv
    <3>2. \A k \in 1 .. Len(segments) : segments[k] \in NewSegments
      BY <3>1
    <3> QED BY <3>1, <3>2 DEF NewSegments
  <2>3. ASSUME NEW i \in 1 .. Len(stream.segs), i \notin warned
        PROVE  \E k \in 1 .. Len(segments) :
                 IsOf(segments[k], i) /\ \A j \in 1 .. k - 1 : segments[j].i \in 1 .. i - 1
    <3>0. i \in Nat /\ i # 0
      BY <2>3, StreamTypes
    <3>1. PICK k \in 1 .. Len(segments) : IsOf(segments[k], i)
      BY <2>1, <2>3 DEF Accounted
    <3>2. segments[k].i = i
      BY <3>1 DEF IsOf
    <3>3. k \in 1 .. Len(segments) - 1
      BY <2>1, <2>2, <3>0, <3>2
    <3>4. ASSUME NEW j \in 1 .. k - 1 PROVE segments[j].i \in 1 .. i - 1
      <4>1. segments[j].i < segments[k].i
        BY <2>1, <3>3, <3>4 DEF Ordered
      <4>2. j \in 1 .. Len(segments) - 1 /\ j \in 1 .. Len(segments)
        BY <2>2, <3>3, <3>4
      <4>3. segments[j].i >= 1 /\ segments[j].i \in Nat
        BY <2>1, <2>2, <4>2 DEF Ordered
      <4> QED BY <3>0, <3>2, <4>1, <4>3
    <3> QED BY <3>1, <3>4
  <2> QED BY <2>1, <2>3 DEF IsOf
<1> QED BY <1>1, InvInit, InvStep, PTL DEF Spec

\* The daemon is not brought down by a core dump that gives at most
\* MaxWarnings warnings, as long as the array of segments could be enlarged
\* (prv_add_warning, prv_alloc_next_segment, prv_handle_done).
THEOREM Survives == Spec => []SurvivesUnlessExceeded
<1>1. IInv => SurvivesUnlessExceeded
  BY DEF IInv, WarningInv, SurvivesUnlessExceeded
<1> QED BY <1>1, InvInit, InvStep, PTL DEF Spec
=============================================================================
