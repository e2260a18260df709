---------------------------- MODULE MSpaceChunks ----------------------------
(***************************************************************************)
(* The memory of a pool as dlmalloc sees it (dlmalloc.c): words, chunks    *)
(* that tile them, and the fields before and after a chunk.  A chunk p     *)
(* has its head at p + 1, its block from p + 2 on, and lends the word      *)
(* after it, prev_foot of the next chunk, to its owner while it is in use. *)
(*                                                                         *)
(* Addresses and sizes are counted in words of size_t, requests rounded up *)
(* to words.  SIZE_T_SIZE is 8 bytes, MALLOC_ALIGNMENT 16.                 *)
(***************************************************************************)
EXTENDS MSpaceLimit, Sequences, FiniteSets

CONSTANTS
  TreebinShift, \* TREEBIN_SHIFT: 5 in the code
  NTreebins     \* NTREEBINS: 32 in the code

(***************************************************************************)
(* A word is a head, a foot, a link of a bin, a word of its owner, or      *)
(* nothing that anybody may rely on.  An owner's k-th word knows its       *)
(* place.                                                                  *)
(***************************************************************************)
AWord(is, size, bits) == [is |-> is, size |-> size, bits |-> bits]
HeadWord(size, bits) == AWord("head", size, bits)
Foot(size) == AWord("foot", size, {})
Link == AWord("link", 0, {})
Data(k) == AWord("data", k, {})
Junk == AWord("junk", 0, {})

ChunkToMem(p) == p + 2
MemToChunk(mem) == mem - 2
ChunkSize(s, p) == s.word[p + 1].size
PrevFoot(s, p) == s.word[p].size
Cinuse(s, p) == "cinuse" \in s.word[p + 1].bits
Pinuse(s, p) == "pinuse" \in s.word[p + 1].bits
InuseBits == {"cinuse", "pinuse"}

SetHead(s, p, size, bits) == [s EXCEPT !.word[p + 1] = HeadWord(size, bits)]
SetPinuse(s, p) == [s EXCEPT !.word[p + 1].bits = @ \cup {"pinuse"}]
ClearPinuse(s, p) == [s EXCEPT !.word[p + 1].bits = @ \ {"pinuse"}]

\* What is inside a free chunk is nobody's.
Blank(s, p, size) ==
  [s EXCEPT !.word = [a \in DOMAIN s.word |->
    IF a \in p + 2 .. p + size - 1 THEN Junk ELSE s.word[a]]]

SetInuse(s, p, size) ==
  SetPinuse(SetHead(s, p, size,
                    {"cinuse"} \cup (s.word[p + 1].bits \cap {"pinuse"})),
            p + size)
SetInuseAndPinuse(s, p, size) ==
  SetPinuse(SetHead(s, p, size, InuseBits), p + size)
SetSizeAndPinuseOfInuseChunk(s, p, size) == SetHead(s, p, size, InuseBits)
SetSizeAndPinuseOfFreeChunk(s, p, size) ==
  [SetHead(Blank(s, p, size), p, size, {"pinuse"})
     EXCEPT !.word[p + size] = Foot(size)]
SetFreeWithPinuse(s, p, size, next) ==
  SetSizeAndPinuseOfFreeChunk(ClearPinuse(s, next), p, size)
SetTop(s, p, size) ==
  [SetHead(Blank(s, p, size), p, size, {"pinuse"})
     EXCEPT !.top = p, !.topsize = size]

\* The walk of internal_mallinfo over all chunks before top, in the order of
\* addresses: the chunks, and the sum of the sizes of some.
AtEnd(s, p) == p >= s.top \/ ChunkSize(s, p) = 0
Chunks(s) ==
  LET from[p \in Nat] ==
        IF AtEnd(s, p) THEN {} ELSE {p} \cup from[p + ChunkSize(s, p)]
  IN from[0]
SizeSum(s, chunks) ==
  LET sum[p \in Nat] ==
        IF AtEnd(s, p) THEN 0
        ELSE (IF p \in chunks THEN ChunkSize(s, p) ELSE 0)
             + sum[p + ChunkSize(s, p)]
  IN sum[0]
=============================================================================
