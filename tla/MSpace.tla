-------------------------------- MODULE MSpace --------------------------------
(***************************************************************************)
(* The blocks of a memory pool: malloc, realloc and free of dlmalloc's     *)
(* mspaces as memory_pool.c uses them, on memory it maps itself            *)
(* (create_mspace_with_base) and shall never grow beyond.  The interpreter *)
(* asks for blocks, and NULL is what ends an evaluation with the memory    *)
(* quota (mruby_engine_allocf).                                            *)
(*                                                                         *)
(* The operators map a space to the space after a call.  No lock is taken  *)
(* (create_mspace_with_base is called with locked = 0): a call is a step.  *)
(***************************************************************************)
EXTENDS MSpaceBins

CONSTANTS
  PoolSizes,     \* bound: the rounded capacities of pools
  StateSize,     \* pad_request(sizeof(struct malloc_state))
  PoolWords,     \* sizeof(struct me_memory_pool)
  TrimThreshold, \* mparams.trim_threshold
  Asks,          \* bound: the words that the interpreter asks for
  MaxBlocks      \* bound: the blocks that it holds at a time

\* A pool has room for its own block and more; CAPACITY_MIN is 2^15 words.
\* Sizes of smallbins are below MAX_REQUEST.
ASSUME PoolAssumption ==
  /\ NSmallbins <= MaxRequest
  /\ StateSize \in Nat /\ StateSize >= MinChunkSize
  /\ PoolWords \in Nat /\ TrimThreshold \in Nat /\ MaxBlocks \in Nat
  /\ Asks \subseteq Nat
  /\ \A n \in PoolSizes :
       /\ n \in Nat /\ n % PageWords = 0 /\ n >= MmapThreshold
       /\ n + Granularity <= 2^SizeBits
       /\ n >= StateSize + RequestToSize(PoolWords) + SysAllocPadding + 8

VARIABLES
  space,  \* the pool: its words, its bins and struct malloc_state
  blocks  \* the blocks that were given out: address and words asked for
poolVars == <<space, blocks>>

MaxSmallRequest == NSmallbins - Alignment - Overhead
Given(s, p) == [space |-> s, mem |-> ChunkToMem(p)]

(***************************************************************************)
(* create_mspace_with_base: the first chunk holds the malloc_state, all    *)
(* the rest but TOP_FOOT_SIZE is top.                                      *)
(***************************************************************************)
InitUserMstate(capacity) ==
  LET topsize == capacity - StateSize - TopFootSize
      s == [word |-> [a \in 0..(capacity - 1) |-> Junk],
            smallbins |-> [i \in 0..(NSmallbins - 1) |-> <<>>],
            treebins |-> [i \in 0..(NTreebins - 1) |-> NoTrie],
            smallmap |-> {}, treemap |-> {},
            dv |-> 0, dvsize |-> 0, top |-> 0, topsize |-> 0,
            footprint |-> capacity, footprintLimit |-> 0,
            trimCheck |-> TrimThreshold, extern |-> TRUE]
      t == SetTop(SetHead(s, 0, StateSize, InuseBits), StateSize, topsize)
  IN  SetHead(t, StateSize + topsize, TopFootSize, {})

(***************************************************************************)
(* malloc                                                                  *)
(***************************************************************************)
\* A chunk of a smallbin that fits without a remainder.
FromSmallbin(s, i) ==
  LET p == Head(s.smallbins[i])
  IN  Given(SetInuseAndPinuse(UnlinkSmallChunk(s, p, i), p, i), p)

\* Chunk p, already unlinked, gives nb words; Keep has the rest.
SplitFor(s, p, nb, rest, Keep(_, _, _)) ==
  IF rest < MinChunkSize
  THEN Given(SetInuseAndPinuse(s, p, nb + rest), p)
  ELSE Given(Keep(SetSizeAndPinuseOfFreeChunk(
                    SetSizeAndPinuseOfInuseChunk(s, p, nb), p + nb, rest),
                  p + nb, rest),
             p)

SplitSmall(s, p, i, nb) ==
  SplitFor(UnlinkSmallChunk(s, p, i), p, nb, i - nb, ReplaceDv)
SplitFirst(s, i, nb) == SplitSmall(s, Head(s.smallbins[i]), i, nb)
FromNextSmallbin(s, nb) == SplitFirst(s, Min({j \in s.smallmap : j > nb}), nb)

SplitLarge(s, v, nb, Keep(_, _, _)) ==
  SplitFor(UnlinkLargeChunk(s, v), v, nb, ChunkSize(s, v) - nb, Keep)

\* The chunk with the least remainder, which below zero is a huge one.
Remainder(s, v, nb) == Sub(ChunkSize(s, v), nb)
BestOf(s, chunks, nb) ==
  CHOOSE v \in chunks : \A w \in chunks :
    Remainder(s, v, nb) <= Remainder(s, w, nb)

LeftmostIn(trie) == {Member(trie, q) : q \in LeftmostPath(trie, <<>>)}
TmallocSmall(s, nb) ==
  SplitLarge(s, BestOf(s, LeftmostIn(s.treebins[Min(s.treemap)]), nb), nb,
             ReplaceDv)

\* The nodes on the way to a size, as far as that size if it is there.
Upto(trie, place) ==
  {q \in DOMAIN trie : \E d \in 0..Len(place) : q = SubSeq(place, 1, d)}
NodesTowards(s, trie, nb, i) == Upto(trie, PlaceOf(s, trie, nb, i))

\* Mutant: the untaken subtrees are forgotten.
NoDeepestRight(trie, way, nb, i) == {}
\* rst: the right subtree not taken that is deepest on the way to a size.
DeepestRight(trie, way, nb, i) ==
  LET untaken == {q \in way : ChildOf(nb, i, Len(q)) = 0
                                /\ Append(q, 1) \in DOMAIN trie}
  IN  IF untaken = {} THEN {}
      ELSE LeftmostPath(trie,
             Append(CHOOSE q \in untaken :
                      \A r \in untaken : Len(r) <= Len(q), 1))

\* What tmalloc_large looks at in bin i, and finds large enough.
NodesSeen(s, trie, way, nb, i) ==
  way \cup (IF \E q \in way : SizeAt(s, trie, q) = nb THEN {}
            ELSE DeepestRight(trie, way, nb, i))
\* rsize is -nb at first, more than any true remainder.
FitsSeen(s, trie, nb, i) ==
  {v \in {Member(trie, q) :
            q \in NodesSeen(s, trie, NodesTowards(s, trie, nb, i), nb, i)} :
     Remainder(s, v, nb) < Sub(0, nb)}
\* Every chunk of a later bin is large enough: the smallest of the next one.
LaterBins(s, i) == {j \in s.treemap : j > i}
FitsLater(s, i) ==
  IF LaterBins(s, i) = {} THEN {}
  ELSE LeftmostIn(s.treebins[Min(LaterBins(s, i))])
UnlessDvFits(s, v, nb) ==
  IF Remainder(s, v, nb) >= Sub(s.dvsize, nb) THEN Refused(s)
  ELSE SplitLarge(s, v, nb, InsertChunk)
SplitBest(s, here, later, nb) ==
  IF here # {} THEN UnlessDvFits(s, BestOf(s, here, nb), nb)
  ELSE IF later # {} THEN UnlessDvFits(s, BestOf(s, later, nb), nb)
  ELSE Refused(s)
LargeFromBin(s, nb, i) ==
  SplitBest(s, FitsSeen(s, s.treebins[i], nb, i), FitsLater(s, i), nb)
TmallocLarge(s, nb) == LargeFromBin(s, nb, TreeIndex(nb))

FromDv(s, nb) ==
  LET rest == s.dvsize - nb
      AsDv(t, r, size) == [t EXCEPT !.dv = r, !.dvsize = size]
  IN  SplitFor([s EXCEPT !.dv = 0, !.dvsize = 0], s.dv, nb, rest, AsDv)

FromTop(s, nb) ==
  Given(SetSizeAndPinuseOfInuseChunk(
          SetTop(s, s.top + nb, s.topsize - nb), s.top, nb),
        s.top)

FromDvOrTop(s, nb) ==
  IF nb <= s.dvsize THEN FromDv(s, nb)
  ELSE IF nb < s.topsize THEN FromTop(s, nb)
  ELSE SysAlloc(s, nb)

MallocSmall(s, nb) ==
  IF nb \in s.smallmap THEN FromSmallbin(s, nb)
  ELSE IF nb + 1 \in s.smallmap THEN FromSmallbin(s, nb + 1)
  ELSE IF nb <= s.dvsize THEN FromDv(s, nb)
  ELSE IF \E j \in s.smallmap : j > nb THEN FromNextSmallbin(s, nb)
  ELSE IF s.treemap # {} THEN TmallocSmall(s, nb)
  ELSE FromDvOrTop(s, nb)

MallocLarge(s, nb) ==
  OrElse(IF s.treemap = {} THEN Refused(s) ELSE TmallocLarge(s, nb),
         FromDvOrTop(s, nb))

MspaceMalloc(s, words) ==
  IF words <= MaxSmallRequest THEN MallocSmall(s, RequestToSize(words))
  ELSE IF words >= MaxRequest THEN FromDvOrTop(s, MaxSizeT)
  ELSE MallocLarge(s, PadRequest(words))

(***************************************************************************)
(* free                                                                    *)
(***************************************************************************)
IntoTop(s, p, size) ==
  [SetTop(s, p, s.topsize + size)
     EXCEPT !.dv = IF p = s.dv THEN 0 ELSE @,
            !.dvsize = IF p = s.dv THEN 0 ELSE @]
IntoDv(s, p, size) ==
  [SetSizeAndPinuseOfFreeChunk(s, p, s.dvsize + size)
     EXCEPT !.dv = p, !.dvsize = @ + size]
KeepFree(s, p, size) ==
  IF p = s.dv THEN [s EXCEPT !.dvsize = size] ELSE InsertChunk(s, p, size)
WithNext(s, p, size, next, nsize) ==
  KeepFree(SetSizeAndPinuseOfFreeChunk(UnlinkChunk(s, next, nsize), p,
                                       size + nsize),
           p, size + nsize)

ConsolidateForward(s, p, size, next) ==
  IF Cinuse(s, next)
  THEN InsertChunk(SetFreeWithPinuse(s, p, size, next), p, size)
  ELSE IF next = s.top THEN IntoTop(s, p, size)
  ELSE IF next = s.dv THEN IntoDv(s, p, size)
  ELSE WithNext(s, p, size, next, ChunkSize(s, next))

\* From start on all is free up to next; what precedes p is unlinked.
Consolidate(s, start, p, next) ==
  IF start = s.dv /\ InuseBits \subseteq s.word[next + 1].bits
  THEN [SetFreeWithPinuse(s, start, next - start, next)
          EXCEPT !.dvsize = next - start]
  ELSE ConsolidateForward(
         IF start \in {p, s.dv} THEN s ELSE UnlinkChunk(s, start, p - start),
         start, next - start, next)

\* dispose_chunk, and free but for the trimming.
DisposeChunk(s, p, size) ==
  Consolidate(s, IF Pinuse(s, p) THEN p ELSE p - PrevFoot(s, p), p, p + size)

\* Nothing is unmapped of memory that was handed in; trimming is then off.
SysTrim(s) ==
  LET extra == ((s.topsize - TopFootSize + Granularity - 1) \div Granularity
                 - 1) * Granularity
      released == IF s.topsize > TopFootSize /\ ~s.extern THEN extra ELSE 0
  IN  IF released # 0
      THEN [s EXCEPT !.footprint = @ - released, !.topsize = @ - released,
                     !.trimCheck = TrimThreshold]
      ELSE IF s.topsize > s.trimCheck THEN [s EXCEPT !.trimCheck = MaxSizeT]
      ELSE s

Trimmed(s, topsize) ==
  IF s.topsize # topsize /\ s.topsize > s.trimCheck THEN SysTrim(s) ELSE s
FreeChunk(s, p) == Trimmed(DisposeChunk(s, p, ChunkSize(s, p)), s.topsize)
MspaceFree(s, mem) == FreeChunk(s, MemToChunk(mem))

(***************************************************************************)
(* realloc                                                                 *)
(***************************************************************************)
InPlace(s) == [space |-> s, done |-> TRUE]
NotInPlace(s) == [space |-> s, done |-> FALSE]

\* The first nb words of a chunk stay in use, the rest is let go.
LetGo(s, p, nb, rest) ==
  DisposeChunk(SetInuse(SetInuse(s, p, nb), p + nb, rest), p + nb, rest)

Shrink(s, p, nb, size) ==
  InPlace(IF size - nb >= MinChunkSize THEN LetGo(s, p, nb, size - nb) ELSE s)

ExtendIntoTop(s, p, nb, size) ==
  IF size + s.topsize > nb
  THEN InPlace(SetTop(SetInuse(s, p, nb), p + nb, size + s.topsize - nb))
  ELSE NotInPlace(s)

ExtendIntoDv(s, p, nb, size) ==
  LET all  == size + s.dvsize
      rest == all - nb
  IN  IF all < nb THEN NotInPlace(s)
      ELSE IF rest >= MinChunkSize
      THEN InPlace([ClearPinuse(SetSizeAndPinuseOfFreeChunk(
                                  SetInuse(s, p, nb), p + nb, rest), p + all)
                      EXCEPT !.dv = p + nb, !.dvsize = rest])
      ELSE InPlace([SetInuse(s, p, all) EXCEPT !.dv = 0, !.dvsize = 0])

WithinChunk(s, p, nb, all) ==
  InPlace(IF all - nb < MinChunkSize THEN SetInuse(s, p, all)
          ELSE LetGo(s, p, nb, all - nb))
ExtendIntoNext(s, p, nb, size, nsize) ==
  IF size + nsize < nb THEN NotInPlace(s)
  ELSE WithinChunk(UnlinkChunk(s, p + size, nsize), p, nb, size + nsize)

TryReallocChunk(s, p, nb) ==
  LET size == ChunkSize(s, p)
      next == p + size
  IN  IF size >= nb THEN Shrink(s, p, nb, size)
      ELSE IF next = s.top THEN ExtendIntoTop(s, p, nb, size)
      ELSE IF next = s.dv THEN ExtendIntoDv(s, p, nb, size)
      ELSE IF ~Cinuse(s, next)
      THEN ExtendIntoNext(s, p, nb, size, ChunkSize(s, next))
      ELSE NotInPlace(s)

Copied(s, from, to, n) ==
  [s EXCEPT !.word = [a \in DOMAIN s.word |->
    IF a \in to .. to + n - 1 THEN s.word[from + a - to] ELSE s.word[a]]]

UsableSize(s, mem) == ChunkSize(s, MemToChunk(mem)) - Overhead
\* Mutant: the old chunk is freed before it is copied.
FreedBeforeCopied(g, mem, words) ==
  IF g.mem \in {NoBlock, Outside} THEN g
  ELSE [space |-> Copied(MspaceFree(g.space, mem), mem, g.mem,
                         Min({UsableSize(g.space, mem), words})),
        mem |-> g.mem]
MoveTo(g, mem, words) ==
  IF g.mem \in {NoBlock, Outside} THEN g
  ELSE [space |-> MspaceFree(Copied(g.space, mem, g.mem,
                                    Min({UsableSize(g.space, mem), words})),
                             mem),
        mem |-> g.mem]
InPlaceOrMoved(s, t, mem, words) ==
  IF t.done THEN Given(t.space, MemToChunk(mem))
  ELSE MoveTo(MspaceMalloc(s, words), mem, words)

MspaceRealloc(s, mem, words) ==
  IF words >= MaxRequest THEN Refused(s)
  ELSE InPlaceOrMoved(
         s, TryReallocChunk(s, MemToChunk(mem), RequestToSize(words)), mem,
         words)

\* internal_mallinfo: uordblks, the allocation that stat reports.
Free(s) == {p \in Chunks(s) : ~Cinuse(s, p)}
Uordblks(s) == s.footprint - (s.topsize + TopFootSize + SizeSum(s, Free(s)))

(***************************************************************************)
(* The interpreter                                                         *)
(***************************************************************************)
\* An owner writes its words from the k-th on; what is behind them in the
\* chunk is nobody's.
Written(s, mem, k, words) ==
  LET last == mem + ChunkSize(s, MemToChunk(mem)) - Overhead - 1
  IN  [s EXCEPT !.word = [a \in DOMAIN s.word |->
        IF a \in mem + k .. mem + words - 1 THEN Data(a - mem)
        ELSE IF a \in mem + words .. last THEN Junk
        ELSE s.word[a]]]

Block(mem, words) == [mem |-> mem, words |-> words]
\* struct me_memory_pool, the first block.
OwnBlock == Block(ChunkToMem(StateSize), PoolWords)

\* me_memory_pool_new
NewSpace(capacity) ==
  MspaceMalloc(SetFootprintLimit(InitUserMstate(capacity), capacity),
               PoolWords)
PoolInit ==
  \E n \in PoolSizes :
    LET g == NewSpace(n)
    IN  /\ space = Written(g.space, g.mem, 0, PoolWords)
        /\ blocks = {Block(g.mem, PoolWords)}

\* What a call answers: g, to a request of words, in the place of others.
Answer(g, words, kept, others, old) ==
  IF g.mem \in {NoBlock, Outside}
  THEN space' = g.space /\ blocks' = others \cup old
  ELSE /\ space' = Written(g.space, g.mem, kept, words)
       /\ blocks' = others \cup {Block(g.mem, words)}

AllocateBlock(words) ==
  /\ Cardinality(blocks) < MaxBlocks
  /\ Answer(MspaceMalloc(space, words), words, 0, blocks, {})

ReallocateBlock(b, words) ==
  /\ b # OwnBlock
  /\ Answer(MspaceRealloc(space, b.mem, words), words,
            Min({b.words, words}), blocks \ {b}, {b})

\* The words of a block that was freed are nobody's.
ReleaseBlock(b) ==
  /\ b # OwnBlock
  /\ space' = MspaceFree(Written(space, b.mem, 0, 0), b.mem)
  /\ blocks' = blocks \ {b}

PoolNext ==
  \/ \E words \in Asks : AllocateBlock(words)
  \/ \E b \in blocks, words \in Asks : ReallocateBlock(b, words)
  \/ \E b \in blocks : ReleaseBlock(b)

PoolSpec == PoolInit /\ [][PoolNext]_poolVars

(***************************************************************************)
(* Properties                                                              *)
(***************************************************************************)
Binned(s, i) == Range(s.smallbins[i])
InTrie(s, i) == UNION {Range(s.treebins[i][q]) : q \in DOMAIN s.treebins[i]}

ChunksTile(s) ==
  /\ \A p \in Chunks(s) :
       LET next == p + ChunkSize(s, p)
       IN  /\ s.word[p + 1].is = "head" /\ next \in Chunks(s) \cup {s.top}
           /\ Cinuse(s, p) = Pinuse(s, next)
           /\ ~Cinuse(s, p) =>
                s.word[next] = Foot(ChunkSize(s, p)) /\ Cinuse(s, next)
  /\ ChunkSize(s, s.top) = s.topsize /\ s.topsize > 0
  /\ s.top + s.topsize + TopFootSize = Cardinality(DOMAIN s.word)

SmallbinsAreRight(s) ==
  \A i \in s.smallmap :
    /\ s.smallbins[i] # <<>> /\ IsInjective(s.smallbins[i])
    /\ \A p \in Binned(s, i) :
         ChunkSize(s, p) = i /\ s.word[p + 2] = Link /\ s.word[p + 3] = Link

TriesAreRight(s) ==
  \A i \in DOMAIN s.treebins :
    LET trie == s.treebins[i]
    IN  /\ (trie = NoTrie) = (i \notin s.treemap)
        /\ \A q \in DOMAIN trie :
             /\ q # <<>> => Front(q) \in DOMAIN trie
             /\ IsInjective(trie[q])
             /\ \A p \in Range(trie[q]) :
                  /\ TreeIndex(ChunkSize(s, p)) = i
                  /\ q = PathOf(ChunkSize(s, p), i, Len(q))
                  /\ \A a \in p + 2 .. p + 7 : s.word[a] = Link
        /\ \A q, r \in DOMAIN trie :
             SizeAt(s, trie, q) = SizeAt(s, trie, r) => q = r

FreeAreFound(s) ==
  LET dv == IF s.dvsize = 0 THEN {} ELSE {s.dv}
      small == UNION {Binned(s, i) : i \in s.smallmap}
      large == UNION {InTrie(s, i) : i \in s.treemap}
  IN  /\ Free(s) = dv \cup small \cup large
      /\ dv \cap (small \cup large) = {} /\ small \cap large = {}
      /\ s.dvsize # 0 => ChunkSize(s, s.dv) = s.dvsize

\* Chunks tile the pool, each knows truly whether the one before is in use,
\* no two free ones meet, and every free one is in the one bin, and at the
\* one place in it, where a request would look for it: the boundary tags,
\* bins and tries of dlmalloc after any sequence of calls.
HeapIsWellFormed ==
  /\ ChunksTile(space) /\ SmallbinsAreRight(space) /\ TriesAreRight(space)
  /\ FreeAreFound(space)

\* Every block that the interpreter holds lies in a chunk of its own that is
\* not larger than it need be, with every word as its owner wrote it, moved
\* along by realloc; and no chunk is in use but for these: nothing the
\* allocator writes reaches a block, and nothing leaks.
BlocksKeepTheirData ==
  /\ \A b \in blocks :
       LET size == ChunkSize(space, MemToChunk(b.mem))
       IN  /\ size - RequestToSize(b.words) \in 0..(MinChunkSize - 1)
           /\ \A k \in 0..(b.words - 1) : space.word[b.mem + k] = Data(k)
  /\ Chunks(space) \ Free(space) = {0} \cup {MemToChunk(b.mem) : b \in blocks}
  /\ \A b, c \in blocks : b.mem = c.mem => b = c

\* The pool neither grows nor shrinks, whatever is asked of it, and the
\* allocation that stat reports is what the blocks take up and the
\* malloc_state (me_memory_pool_info).
PoolIsTheLimit ==
  /\ space.footprint = Cardinality(DOMAIN space.word)
  /\ Uordblks(space) =
       StateSize + SizeSum(space, {MemToChunk(b.mem) : b \in blocks})

SizeFor(words) ==
  IF words >= MaxRequest THEN MaxSizeT ELSE RequestToSize(words)
FitsBest(nb, fits, mem, p) ==
  /\ mem = NoBlock => space.topsize <= nb
  /\ mem = NoBlock \/ p = space.top => fits = {}
  /\ mem # NoBlock /\ p # space.top =>
       /\ p \in fits
       /\ ~IsSmall(nb) => \A r \in fits :
            ChunkSize(space, p) <= ChunkSize(space, r)

\* malloc answers NULL, which is the memory quota, only when no free chunk is
\* large enough; it takes from top only then; and a large request gets the
\* chunk that fits best, as tmalloc_large promises.
FitIsFound ==
  \A words \in Asks :
    \E mem \in {MspaceMalloc(space, words).mem} :
      FitsBest(SizeFor(words),
               {p \in Free(space) : ChunkSize(space, p) >= SizeFor(words)},
               mem, MemToChunk(mem))
==============================================================================
