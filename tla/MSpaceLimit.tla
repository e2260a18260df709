----------------------------- MODULE MSpaceLimit -----------------------------
(***************************************************************************)
(* What of dlmalloc keeps a pool from growing: size_t arithmetic, the      *)
(* footprint limit and sys_alloc, which malloc turns to when no chunk of   *)
(* the pool fits.  It may map a large chunk alone (mmap_alloc) or a new    *)
(* segment; either is checked against the limit first.                     *)
(*                                                                         *)
(* Sizes are counted in words of size_t.  MALLOC_ALIGNMENT is two words.   *)
(***************************************************************************)
EXTENDS Integers

CONSTANTS
  SizeBits,     \* bits of a size: 61 in the code
  SegmentWords, \* sizeof(struct malloc_segment)
  PageWords, Granularity, MmapThreshold \* mparams

\* init_mparams aborts where these are not powers of two of at least a page;
\* the threshold is DEFAULT_MMAP_THRESHOLD.
ASSUME LimitAssumption ==
  /\ SizeBits \in Nat /\ 2^SizeBits \in Nat \ {0}
  /\ SegmentWords \in Nat
  /\ PageWords \in Nat \ {0} /\ Granularity \in Nat \ {0}
  /\ Granularity % PageWords = 0
  /\ MmapThreshold \in Nat /\ MmapThreshold >= Granularity

Alignment    == 2 \* MALLOC_ALIGNMENT
Overhead     == 1 \* CHUNK_OVERHEAD
MinChunkSize == 4 \* MIN_CHUNK_SIZE
MaxSizeT     == 2^SizeBits - 1
MaxRequest   == 2^SizeBits - 4 * MinChunkSize

\* size_t arithmetic.
Add(a, b) == (a + b) % 2^SizeBits
Sub(a, b) == (a - b) % 2^SizeBits
RoundDownTo(unit, size) == size - (size % unit)
AlignTo(unit, size) == RoundDownTo(unit, Add(size, unit - 1))

PadRequest(words) ==
  LET padded == words + Overhead + Alignment - 1
  IN  padded - (padded % Alignment)
RequestToSize(words) ==
  IF words < MinChunkSize - Overhead THEN MinChunkSize ELSE PadRequest(words)
TopFootSize == PadRequest(SegmentWords) + MinChunkSize
SysAllocPadding == TopFootSize + Alignment

NoBlock == 0
Outside == -1 \* a block of memory that is not in the pool
Refused(s) == [space |-> s, mem |-> NoBlock]
OrElse(g, h) == IF g.mem # NoBlock THEN g ELSE h

SetFootprintLimit(s, size) ==
  [s EXCEPT !.footprintLimit = AlignTo(Granularity, size)]

\* Mutant: only the wrap around is looked at.
WithinAnyLimit(s, size) == Add(s.footprint, size) > s.footprint
\* Whether this much may still be mapped beside the pool.
WithinLimit(s, size) ==
  LET fp == Add(s.footprint, size)
  IN  s.footprintLimit = 0 \/ (fp > s.footprint /\ fp <= s.footprintLimit)

Grown(s, size) ==
  [space |-> [s EXCEPT !.footprint = Add(@, size)], mem |-> Outside]

MmapAlloc(s, nb) ==
  LET mmsize == AlignTo(PageWords, Add(nb, 6 + Alignment))
  IN  IF WithinLimit(s, mmsize) /\ mmsize > nb THEN Grown(s, mmsize)
      ELSE Refused(s)

\* What the mapping is merged with is left out: it is never made.
MapMore(s, nb, asize) ==
  IF asize <= nb \/ ~WithinLimit(s, asize) THEN Refused(s)
  ELSE Grown(s, asize)
SysAlloc(s, nb) ==
  OrElse(IF nb >= MmapThreshold /\ s.topsize # 0 THEN MmapAlloc(s, nb)
         ELSE Refused(s),
         MapMore(s, nb, AlignTo(Granularity, Add(nb, SysAllocPadding))))
=============================================================================
