------------------------------ MODULE MCCoreElf ------------------------------
\* CoreElf for TLC: core dumps as the kernel writes them, whole and cut off,
\* and unusual ones, in small.
EXTENDS CoreElf

Seg(type, offset, filesz, align) ==
  [type |-> type, offset |-> offset, filesz |-> filesz, align |-> align]
Stream(phoff, segs, size) ==
  [valid |-> TRUE, phoff |-> phoff, segs |-> segs, length |-> size]

KernelSegs ==
  <<Seg("NOTE", 232, 300, 0), Seg("LOAD", 4096, 5000, 4096), Seg("LOAD", 12288, 0, 4096)>>
\* A note twice, one ahead, and types that the kernel does not use.
OddSegs ==
  <<Seg("other", 0, 10, 0), Seg("NOTE", 344, 20, 4), Seg("NOTE", 344, 20, 4),
    Seg("NOTE", 400, 4, 4), Seg("other", 0, 10, 1)>>

CoreDumps ==
  {Stream(64, KernelSegs, 12288), Stream(64, KernelSegs, 400), Stream(64, KernelSegs, 64),
   Stream(64, OddSegs, 404), Stream(72, KernelSegs, 12288), Stream(32, KernelSegs, 12288),
   [Stream(64, <<>>, 64) EXCEPT !.valid = FALSE], Stream(64, <<>>, 64),
   Stream(64, <<Seg("NOTE", 0, 0, 0)>>, 120), Stream(64, <<Seg("NOTE", 200, 0, 0)>>, 130)}
=============================================================================
