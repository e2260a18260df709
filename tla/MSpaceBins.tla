----------------------------- MODULE MSpaceBins -----------------------------
(***************************************************************************)
(* Where dlmalloc keeps its free chunks: lists of small chunks of one size *)
(* (smallbins), bitwise tries of larger ones (treebins), each with a map   *)
(* of the bins that are not empty.  A list or a ring of equal sizes is a   *)
(* sequence in the order of fd; a trie maps the path to each of its nodes, *)
(* a sequence of child indices, to the node's ring.                        *)
(***************************************************************************)
EXTENDS MSpaceChunks, SequencesExt

\* A large chunk has room for the fields of struct malloc_tree_chunk, and
\* every bin is for sizes that there are.  The second part, which is true of
\* all powers, is what the provers know of them.
ASSUME BinsAssumption ==
  /\ TreebinShift \in Nat /\ TreebinShift >= 3 /\ NTreebins \in Nat \ {0}
  /\ NTreebins \div 2 + TreebinShift <= SizeBits
ASSUME PowersAssumption ==
  2^0 = 1 /\ \A k \in 0..SizeBits : 2^k \in Nat /\ 2^(k + 1) = 2 * 2^k

NSmallbins == 2^TreebinShift \* SMALLBIN_SHIFT is a word
IsSmall(size) == size < NSmallbins
NoTrie == [q \in {} |-> <<>>]

\* The words of a chunk's fields fd, bk and, in a trie, child, parent, index.
WriteLinks(s, p, n) ==
  [s EXCEPT !.word = [a \in DOMAIN s.word |->
    IF a \in p + 2 .. p + 1 + n THEN Link ELSE s.word[a]]]
SmallLinks == 2
TreeLinks  == 6

Without(list, p) ==
  RemoveAt(list, CHOOSE i \in DOMAIN list : list[i] = p)

InsertSmallChunk(s, p, size) ==
  [WriteLinks(s, p, SmallLinks) EXCEPT
    !.smallbins[size] = <<p>> \o (IF size \in s.smallmap THEN @ ELSE <<>>),
    !.smallmap = @ \cup {size}]

UnlinkSmallChunk(s, p, size) ==
  [s EXCEPT !.smallbins[size] = Without(@, p),
            !.smallmap = IF s.smallbins[size] = <<p>> THEN @ \ {size} ELSE @]

\* Used only when dvsize is known to be small.
ReplaceDv(s, p, size) ==
  LET t == IF s.dvsize # 0 THEN InsertSmallChunk(s, s.dv, s.dvsize) ELSE s
  IN  [t EXCEPT !.dv = p, !.dvsize = size]

Log2(x) == Max({k \in 0..SizeBits : 2^k <= x})
IndexWithLog(size, k) == 2 * k + ((size \div 2^(k + TreebinShift - 1)) % 2)
\* compute_tree_index
TreeIndex(size) ==
  IF size < 2^TreebinShift THEN 0
  ELSE IF size >= 2^(NTreebins \div 2 + TreebinShift) THEN NTreebins - 1
  ELSE IndexWithLog(size, Log2(size \div 2^TreebinShift))

\* The bit of a size that chooses the child at a depth of bin i.
BitForDepth(i, depth) ==
  (IF i = NTreebins - 1 THEN SizeBits - 1 ELSE i \div 2 + TreebinShift - 2)
    - depth
BitOf(size, bit) == IF bit < 0 THEN 0 ELSE (size \div 2^bit) % 2
ChildOf(size, i, depth) == BitOf(size, BitForDepth(i, depth))
PathOf(size, i, depth) == [d \in 1..depth |-> ChildOf(size, i, d - 1)]

\* The chunk of a node that is in the trie itself, and its size.
Member(trie, q) == Head(trie[q])
SizeAt(s, trie, q) == ChunkSize(s, Member(trie, q))

Stored(trie, q, ring) ==
  [r \in DOMAIN trie \cup {q} |-> IF r = q THEN ring ELSE trie[r]]
Cut(trie, q) == [r \in DOMAIN trie \ {q} |-> trie[r]]

\* The first node on the size's path that has this size, or is yet missing.
IsPlaceFor(s, trie, size, q) ==
  q \notin DOMAIN trie \/ SizeAt(s, trie, q) = size
PlaceOf(s, trie, size, i) ==
  PathOf(size, i,
    Min({d \in 0..Cardinality(DOMAIN trie) :
           IsPlaceFor(s, trie, size, PathOf(size, i, d))}))

\* A chunk of a size that is there already comes next in its ring.
JoinRing(trie, q, x) ==
  Stored(trie, q, IF q \in DOMAIN trie
                  THEN <<Head(trie[q]), x>> \o Tail(trie[q]) ELSE <<x>>)
Inserted(s, trie, x, size, i) == JoinRing(trie, PlaceOf(s, trie, size, i), x)
InsertInBin(s, x, size, i) ==
  [WriteLinks(s, x, TreeLinks) EXCEPT
    !.treebins[i] =
      Inserted(s, IF i \in s.treemap THEN @ ELSE NoTrie, x, size, i),
    !.treemap = @ \cup {i}]
InsertLargeChunk(s, x, size) == InsertInBin(s, x, size, TreeIndex(size))

\* Below a node, on the way that takes a child `first` wherever there is one.
\* Longest is its end, a leaf.
OnTheWay(trie, q, first, r) ==
  /\ Len(q) <= Len(r) /\ SubSeq(r, 1, Len(q)) = q
  /\ \A d \in Len(q) + 1 .. Len(r) :
       r[d] = first \/ Append(SubSeq(r, 1, d - 1), first) \notin DOMAIN trie
Way(trie, q, first) == {r \in DOMAIN trie : OnTheWay(trie, q, first, r)}
Longest(way) == CHOOSE r \in way : \A t \in way : Len(t) <= Len(r)
\* The rightmost leaf under a node.
RightmostLeaf(trie, q) == Longest(Way(trie, q, 1))

\* Mutant: a child takes the node's place, not a leaf below it.
ChildAsReplacement(trie, q) ==
  IF Append(q, 1) \in DOMAIN trie THEN Append(q, 1)
  ELSE IF Append(q, 0) \in DOMAIN trie THEN Append(q, 0) ELSE q
\* Which node takes the place of one that is unlinked: itself if it is a leaf.
Replacement(trie, q) == RightmostLeaf(trie, q)

\* The ring of x without x: its bk, the last, takes its place in the trie.
RingWithout(ring, x) ==
  IF x = Head(ring)
  THEN <<ring[Len(ring)]>> \o SubSeq(ring, 2, Len(ring) - 1)
  ELSE Without(ring, x)

ReplacedBy(trie, q, leaf) ==
  IF leaf = q THEN Cut(trie, q) ELSE Cut(Stored(trie, q, trie[leaf]), leaf)
UnlinkedAt(trie, q, x) ==
  IF Len(trie[q]) > 1 THEN Stored(trie, q, RingWithout(trie[q], x))
  ELSE ReplacedBy(trie, q, Replacement(trie, q))
UnlinkedTrie(trie, x) ==
  UnlinkedAt(trie, CHOOSE q \in DOMAIN trie : x \in Range(trie[q]), x)

IsLast(trie, x) == DOMAIN trie = {<<>>} /\ trie[<<>>] = <<x>>
UnlinkFromBin(s, x, i) ==
  [s EXCEPT !.treebins[i] = UnlinkedTrie(@, x),
            !.treemap = IF IsLast(s.treebins[i], x) THEN @ \ {i} ELSE @]
UnlinkLargeChunk(s, x) == UnlinkFromBin(s, x, TreeIndex(ChunkSize(s, x)))

InsertChunk(s, p, size) ==
  IF IsSmall(size) THEN InsertSmallChunk(s, p, size)
  ELSE InsertLargeChunk(s, p, size)
UnlinkChunk(s, p, size) ==
  IF IsSmall(size) THEN UnlinkSmallChunk(s, p, size)
  ELSE UnlinkLargeChunk(s, p)

\* leftmost_child until there is none: the smallest size is on the way.
LeftmostPath(trie, q) == Way(trie, q, 0)
=============================================================================
