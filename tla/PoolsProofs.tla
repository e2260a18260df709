----------------------------- MODULE PoolsProofs -----------------------------
(***************************************************************************)
(* The blocks of a pool, for every size of pool and every number of bins:  *)
(* the heap passes the allocator's own checks after every call, blocks     *)
(* keep their data, the pool is the limit, and nothing is refused that a   *)
(* free chunk would hold.  And the objects that own engines and pools, for *)
(* every set of objects and addresses, every page size and limits of the   *)
(* capacity, and both builds.                                              *)
(*                                                                         *)
(* malloc, free and realloc each take a settled heap, in which bins hold   *)
(* every free chunk, to a settled heap, and say which chunks are newly in  *)
(* use and no longer so; the blocks of PoolInv follow from that.           *)
(***************************************************************************)
EXTENDS EngineObjects, MSpace, MSpaceBinsProofs

------------------------------------------------------------------------------
(* malloc.                                                                  *)

\* Chunk p of d is newly in use, for nb words, and no other changes.
Taken(w, t, x, d, p, nb) ==
  /\ p \in d /\ p \notin Users(w, t) /\ Used(x, p)
  /\ Size(x, p) - nb \in 0..(MinChunkSize - 1)
  /\ Changes(w, t, x, d, {}, {p})

\* No chunk starts inside of another.
LEMMA ChunkAlone ==
  ASSUME NEW s, NEW n, NEW t, NEW g, NEW l, Heap(s, n, t, g, l), NEW p \in t,
         NEW q \in t, q \in p..(p + Size(s.word, p) - 1)
  PROVE  q = p
<1>1. p \in Nat /\ q \in Nat /\ Size(s.word, p) \in Nat
  BY ChunkFacts
<1>2. p < q => p + Size(s.word, p) <= q
  BY DEF Heap, Tiled
<1> QED
  BY <1>1, <1>2

\* A free chunk that is gone is no chunk in use that is gone.
LEMMA NoneGone ==
  ASSUME NEW w, NEW t, NEW x, NEW d, NEW gone, NEW new,
         Changes(w, t, x, d, gone, new), \A q \in t : q \in gone => ~Used(w, q)
  PROVE  Changes(w, t, x, d, {}, new)
<1>1. Users(w, t) \ gone = Users(w, t) \ {}
  BY DEF Users
<1> QED
  BY <1>1 DEF Changes

\* Nothing that is taken is lost while bins change.
LEMMA StillTaken ==
  ASSUME NEW w, NEW t, NEW x, NEW d, NEW p, NEW nb, Taken(w, t, x, d, p, nb),
         NEW y, Changes(x, d, y, d, {}, {}),
         \A q \in d : y[q + 1] = x[q + 1]
  PROVE  Taken(w, t, y, d, p, nb)
<1>1. Changes(w, t, y, d, {}, {p})
  BY ThenNothing DEF Taken
<1> QED
  BY <1>1 DEF Taken, Used, Size

\* The words of a chunk that is split: its first part in use, the rest free.
LEMMA SplitWords ==
  ASSUME NEW n \in Nat, NEW s \in Spaces(n), NEW p \in Nat, NEW nb \in Nat,
         NEW rest \in Nat, nb >= 4, rest >= 4, p + nb + rest < n
  PROVE  LET u == SetSizeAndPinuseOfFreeChunk(
                    SetSizeAndPinuseOfInuseChunk(s, p, nb), p + nb, rest)
         IN  /\ u \in Spaces(n) /\ OnlyWords(s, u)
             /\ UsedChunk(u.word, p, nb) /\ PrevUsed(u.word, p)
             /\ UnusedChunk(u.word, p + nb, rest) /\ PrevUsed(u.word, p + nb)
             /\ u.word[p + nb + rest] = Foot(rest)
             /\ Same(s.word, u.word, n, p + 1 .. p + nb + rest)
<1> DEFINE r == SetHead(s, p, nb, InuseBits)
           m == p + nb
           u == SetSizeAndPinuseOfFreeChunk(r, m, rest)
<1>1. InuseBits \in SUBSET InuseBits /\ "cinuse" \in InuseBits
      /\ "pinuse" \in InuseBits
  BY DEF InuseBits
<1>2. p + 1 < n /\ p + 1 < m + 1 /\ m \in Nat /\ m + rest < n /\ rest >= 2
  OBVIOUS
<1>3. /\ r \in Spaces(n) /\ OnlyWords(s, r)
      /\ r.word[p + 1] = HeadWord(nb, InuseBits)
      /\ Same(s.word, r.word, n, {p + 1})
  BY <1>1, <1>2, HeadIsSet
<1> HIDE DEF r, m
<1>4. /\ u \in Spaces(n) /\ OnlyWords(r, u)
      /\ UnusedChunk(u.word, m, rest) /\ PrevUsed(u.word, m)
      /\ u.word[m + rest] = Foot(rest)
      /\ Same(r.word, u.word, n, m + 1 .. m + rest)
  BY <1>2, <1>3, FreeIsSet
<1>5. SetSizeAndPinuseOfFreeChunk(
        SetSizeAndPinuseOfInuseChunk(s, p, nb), p + nb, rest) = u
  BY DEF SetSizeAndPinuseOfInuseChunk, r, m
<1> HIDE DEF u
<1>6. OnlyWords(s, u)
  BY <1>3, <1>4 DEF OnlyWords, SameBins, SameDv, SameTop, SameLimit
<1>7. u.word[p + 1] = HeadWord(nb, InuseBits)
  BY <1>2, <1>3, <1>4 DEF Same
<1>8. UsedChunk(u.word, p, nb) /\ PrevUsed(u.word, p)
  BY <1>1, <1>7, WordsAre DEF UsedChunk, Size, Used, PrevUsed
<1>9. Same(s.word, u.word, n, p + 1 .. m + rest)
  BY <1>2, <1>3, <1>4 DEF Same, m
<1> QED
  BY <1>4, <1>5, <1>6, <1>8, <1>9 DEF m

\* A chunk in the hands of a call is free between two in use.
FreeFrom(s, n, t, g, p, size) ==
  LET b == p + size
  IN  /\ p \in t \ {0} /\ p # s.top /\ p # s.dv /\ p \notin g
      /\ ~Used(s.word, p) /\ PrevUsed(s.word, p)
      /\ b \in t /\ Used(s.word, b) /\ ~PrevUsed(s.word, b)
      /\ p \in Nat /\ size \in Nat /\ size >= 4 /\ n \in Nat
      /\ b + 5 <= n /\ b < End(n)
      /\ \A q \in t : q \in p..(b - 1) => q = p
      /\ s \in Spaces(n) /\ g \subseteq t /\ DvHolds(s, t)

\* A chunk in hand is free, and its neighbours are in use.
LEMMA InHand ==
  ASSUME NEW s, NEW n, NEW t, NEW g, NEW l, Heap(s, n, t, g, l), NEW p \in l,
         NEW size, size = Size(s.word, p)
  PROVE  FreeFrom(s, n, t, g, p, size)
<1> DEFINE b == p + size
           end == End(n)
<1>1. /\ p \in t /\ p # s.top /\ p # s.dv /\ p \notin g /\ ~Used(s.word, p)
      /\ s \in Spaces(n) /\ g \subseteq t /\ DvHolds(s, t)
  BY DEF Heap
<1>2. /\ p \in Nat /\ n \in Nat /\ size \in Nat /\ size >= 4 /\ b \in t
      /\ end + 4 <= n /\ Ends(s.word, p, b, end)
  BY <1>1, ChunkFacts
<1>3. b < end /\ end \in Nat /\ p < b
  <2>1. p < b
    BY <1>2
  <2> QED
    BY <1>1, <1>2, <2>1, BeforeTop
<1>4. PrevUsed(s.word, p) /\ p # 0 /\ Used(s.word, b)
  BY <1>1, FreeAreApart
<1>5. \A q \in t : q \in p..(b - 1) => q = p
  <2> SUFFICES ASSUME NEW q \in t, q \in p..(b - 1)
               PROVE  q = p
    OBVIOUS
  <2>1. p < q => p + Size(s.word, p) <= q
    BY <1>1 DEF Heap, Tiled
  <2>2. q \in Nat
    BY DEF Heap, Tiled
  <2> QED
    BY <1>2, <2>1, <2>2
<1>6. ~PrevUsed(s.word, b)
  BY <1>1, <1>2 DEF Ends, Used, PrevUsed
<1>7. b + 5 <= n
  <2> HIDE DEF end
  <2> QED
    BY <1>2, <1>3
<1> QED
  BY <1>1, <1>2, <1>3, <1>4, <1>5, <1>6, <1>7 DEF FreeFrom

\* A free chunk p in the hands of malloc is large enough.
LEMMA WholeIsTaken ==
  ASSUME NEW s, NEW n, NEW t, NEW g, NEW p, Holding(s, n, t, g, p),
         NEW size, size = Size(s.word, p), NEW nb \in Nat, nb <= size,
         size - nb < MinChunkSize
  PROVE  LET u == SetInuseAndPinuse(s, p, size)
         IN  \E d : Settled(u, n, d) /\ Taken(s.word, t, u.word, d, p, nb)
<1> DEFINE u == SetInuseAndPinuse(s, p, size)
           b == p + size
           end == End(n)
<1> DEFINE l == {p}
<1>0. Heap(s, n, t, g, l) /\ p \in l
  BY DEF Holding
<1> HIDE DEF l, b, u
<1>a. FreeFrom(s, n, t, g, p, size)
  BY <1>0, InHand
<1>1. /\ p \in t \ {0} /\ p # s.top /\ p # s.dv /\ p \notin g
      /\ ~Used(s.word, p) /\ PrevUsed(s.word, p)
      /\ b \in t /\ Used(s.word, b) /\ ~PrevUsed(s.word, b)
      /\ p \in Nat /\ size \in Nat /\ size >= 4 /\ n \in Nat
      /\ b + 5 <= n /\ b < End(n) /\ b = p + size
      /\ \A q \in t : q \in p..(b - 1) => q = p
      /\ s \in Spaces(n) /\ g \subseteq t /\ DvHolds(s, t)
  BY <1>a DEF FreeFrom, b
<1>2. p < b /\ b \in Nat
  BY <1>1
<1>5. /\ u \in Spaces(n) /\ OnlyWords(s, u)
      /\ UsedChunk(u.word, p, size) /\ PrevUsed(u.word, p)
      /\ SameBehind(s.word, u.word, b) /\ PrevUsed(u.word, b)
      /\ Same(s.word, u.word, n, {p + 1, b + 1})
  <2>1. size \in Nat \ {0} /\ p + size + 1 < n
    BY <1>1
  <2> QED
    BY <1>1, <2>1, InuseAndPinuseAreSet DEF b, u
<1>7. Same(s.word, u.word, n, p + 1 .. b + 1)
  BY <1>1, <1>2, <1>5 DEF Same
<1>8. UsedChunk(u.word, p, b - p)
  BY <1>1, <1>5
<1>9. DvMoves(s, u, p, b, {})
  <2>1. s.dv \notin p..(b - 1) \/ s.dvsize = 0
    BY <1>1 DEF DvHolds
  <2>2. s.dvsize = 0 => u.dv = 0 /\ u.dvsize = 0
    BY <1>1, <1>5 DEF DvHolds, OnlyWords, SameDv
  <2> QED
    BY <1>5, <2>1, <2>2 DEF DvMoves, OnlyWords
<1>10. l \subseteq p..(b - 1) /\ g \cap (p..(b - 1)) = {} /\ p \in t \ {0}
  BY <1>1, <1>2 DEF l
<1> DEFINE d == Replaced(t, p, b, {p})
<1>11. Heap(u, n, d, g, {}) /\ Changes(s.word, t, u.word, d, p..(b - 1), {p})
  <2>1. SameBins(s, u) /\ SameLimit(s, u) /\ SameTop(s, u)
    BY <1>5 DEF OnlyWords
  <2>2. PrevUsed(u.word, p) = PrevUsed(s.word, p)
    BY <1>1, <1>5 DEF PrevUsed
  <2> QED
    BY <1>0, <1>1, <1>2, <1>5, <1>7, <1>8, <1>9, <1>10, <2>1, <2>2, BecomesUsed
<1>12. Changes(s.word, t, u.word, d, {}, {p})
  BY <1>1, <1>11, NoneGone
<1>13. Taken(s.word, t, u.word, d, p, nb)
  <2>1. p \in d
    BY DEF Replaced
  <2>2. Size(u.word, p) - nb \in 0..(MinChunkSize - 1) /\ Used(u.word, p)
    BY <1>1, <1>5 DEF MinChunkSize, UsedChunk
  <2> HIDE DEF d
  <2> QED
    BY <1>1, <1>12, <2>1, <2>2 DEF Taken, Users
<1> QED
  BY <1>11, <1>13 DEF u, Settled

\* The chunk p is cut in two.
SplitAt(s, p, nb, rest) ==
  SetSizeAndPinuseOfFreeChunk(SetSizeAndPinuseOfInuseChunk(s, p, nb),
                              p + nb, rest)
\* The chunk p is split: nb words are taken, the rest is in hand.
FirstTaken(s, n, t, g, p, nb, rest) ==
  LET u == SplitAt(s, p, nb, rest)
  IN  /\ SameDv(s, u) /\ Size(u.word, p + nb) = rest
      /\ \E d : Holding(u, n, d, g, p + nb)
                  /\ Taken(s.word, t, u.word, d, p, nb)

\* A chunk in hand is split: its first words are taken, the rest is in hand.
LEMMA FirstIsTaken ==
  ASSUME NEW s, NEW n, NEW t, NEW g, NEW p, Holding(s, n, t, g, p),
         NEW size, size = Size(s.word, p), NEW nb \in Nat, nb >= MinChunkSize,
         NEW rest \in Nat, rest >= MinChunkSize, size = nb + rest
  PROVE  FirstTaken(s, n, t, g, p, nb, rest)
<1> DEFINE u == SplitAt(s, p, nb, rest)
           m == p + nb
           b == p + size
<1> DEFINE l == {p}
<1>0. Heap(s, n, t, g, l) /\ p \in l
  BY DEF Holding
<1> HIDE DEF l, b, u
<1>a. FreeFrom(s, n, t, g, p, size)
  BY <1>0, InHand
<1>1. /\ p \in t \ {0} /\ p # s.top /\ p # s.dv /\ p \notin g
      /\ ~Used(s.word, p) /\ PrevUsed(s.word, p)
      /\ b \in t /\ Used(s.word, b) /\ ~PrevUsed(s.word, b)
      /\ p \in Nat /\ size \in Nat /\ size >= 4 /\ n \in Nat
      /\ b + 5 <= n /\ b < End(n) /\ b = p + size
      /\ \A q \in t : q \in p..(b - 1) => q = p
      /\ s \in Spaces(n) /\ g \subseteq t /\ DvHolds(s, t)
  <2> HIDE DEF u, m
  <2> QED
    BY <1>a DEF FreeFrom, b
<1>2. p < b /\ b \in Nat
  BY <1>1
<1>b. nb >= 4 /\ rest >= 4 /\ p + nb + rest = b /\ m + rest = b /\ m \in Nat
      /\ b + 1 < n /\ p + nb + rest < n
  BY <1>1 DEF MinChunkSize
<1>5. /\ u \in Spaces(n) /\ OnlyWords(s, u)
      /\ UsedChunk(u.word, p, nb) /\ PrevUsed(u.word, p)
      /\ UnusedChunk(u.word, m, rest) /\ PrevUsed(u.word, m)
      /\ u.word[p + nb + rest] = Foot(rest)
      /\ Same(s.word, u.word, n, p + 1 .. p + nb + rest)
  BY <1>1, <1>2, <1>b, SplitWords DEF u, SplitAt
<1>6. u.word[b + 1] = s.word[b + 1]
  BY <1>1, <1>2, <1>5, <1>b DEF Same
<1>7. SameBehind(s.word, u.word, b) /\ ~PrevUsed(u.word, b)
  BY <1>1, <1>6 DEF SameBehind, Used, PrevUsed
<1>8. Same(s.word, u.word, n, p + 1 .. b + 1)
  BY <1>1, <1>2, <1>5, <1>b DEF Same
<1>9. DvMoves(s, u, p, b, {})
  <2>1. s.dv \notin p..(b - 1) \/ s.dvsize = 0
    BY <1>1 DEF DvHolds
  <2>2. s.dvsize = 0 => u.dv = 0 /\ u.dvsize = 0
    BY <1>1, <1>5 DEF DvHolds, OnlyWords, SameDv
  <2> QED
    BY <1>5, <2>1, <2>2 DEF DvMoves, OnlyWords
<1>10. l \subseteq p..(b - 1) /\ g \cap (p..(b - 1)) = {} /\ p \in t \ {0}
  BY <1>1, <1>2 DEF l
<1>11. u.dv # m
  <2>1. u.dv = s.dv
    BY <1>5 DEF OnlyWords, SameDv
  <2>2. CASE s.dvsize = 0
    BY <1>1, <1>2, <1>b, <2>1, <2>2 DEF DvHolds
  <2>3. CASE s.dvsize # 0
    <3>1. s.dv \in t
      BY <1>1, <2>3 DEF DvHolds
    <3>2. m \in p..(b - 1) /\ m # p
      BY <1>1, <1>2, <1>b
    <3> QED
      BY <1>1, <2>1, <3>1, <3>2
  <2> QED
    BY <2>2, <2>3
<1> DEFINE d == Replaced(t, p, b, {p, m})
<1>12. Heap(u, n, d, g, {m}) /\ Changes(s.word, t, u.word, d, p..(b - 1), {p})
  <2>1. SameBins(s, u) /\ SameLimit(s, u) /\ SameTop(s, u)
    BY <1>5 DEF OnlyWords
  <2>2. PrevUsed(u.word, p) = PrevUsed(s.word, p)
    BY <1>1, <1>5 DEF PrevUsed
  <2>3. p + 4 <= m /\ m + 4 <= b /\ m - p = nb /\ b - m = rest
    BY <1>1, <1>2, <1>b
  <2>4. DvMoves(s, u, p, b, {m})
    BY <1>9 DEF DvMoves
  <2>5. /\ UsedChunk(u.word, p, m - p) /\ UnusedChunk(u.word, m, b - m)
        /\ u.word[b] = Foot(b - m)
    BY <1>5, <1>b, <2>3
  <2> HIDE DEF m, d
  <2>6. /\ Heap(u, n, Replaced(t, p, b, {p, m}), g, IF u.dv = m THEN {} ELSE {m})
        /\ Changes(s.word, t, u.word, Replaced(t, p, b, {p, m}), p..(b - 1), {p})
    BY <1>0, <1>1, <1>2, <1>5, <1>7, <1>8, <1>10, <1>b, <2>1, <2>2, <2>3, <2>4, <2>5,
       BecomesUsedAndFree
  <2> QED
    BY <1>11, <2>6 DEF d
<1>13. Changes(s.word, t, u.word, d, {}, {p})
  BY <1>1, <1>12, NoneGone
<1>14. Taken(s.word, t, u.word, d, p, nb)
  <2>1. p \in d
    BY DEF Replaced
  <2>2. Size(u.word, p) - nb \in 0..(MinChunkSize - 1) /\ Used(u.word, p)
    BY <1>5 DEF MinChunkSize, UsedChunk
  <2> HIDE DEF d
  <2> QED
    BY <1>1, <1>13, <2>1, <2>2 DEF Taken, Users
<1>15. SameDv(s, u) /\ Size(u.word, m) = rest
  BY <1>5 DEF OnlyWords, UnusedChunk
<1> QED
  BY <1>12, <1>14, <1>15 DEF u, m, FirstTaken, Holding
\* What malloc answers: a chunk that was not in use, large enough.
Gives(s, n, t, g, nb) ==
  \E d : \E p \in d :
    /\ g.mem = ChunkToMem(p) /\ Settled(g.space, n, d)
    /\ Taken(s.word, t, g.space.word, d, p, nb)

\* A chunk that is newly in use in a settled heap answers the request.
LEMMA GivenGives ==
  ASSUME NEW s, NEW n, NEW t, NEW nb, NEW u, NEW d, NEW p, Settled(u, n, d),
         Taken(s.word, t, u.word, d, p, nb)
  PROVE  Gives(s, n, t, Given(u, p), nb)
<1>1. p \in d
  BY DEF Taken
<1>2. Given(u, p).mem = ChunkToMem(p) /\ Given(u, p).space = u
  BY DEF Given
<1> QED
  BY <1>1, <1>2 DEF Gives

\* A chunk in hand that is too small to split is given as it is.
LEMMA WholeIsGiven ==
  ASSUME NEW s, NEW n, NEW t, NEW g, NEW p, Holding(s, n, t, g, p),
         NEW size, size = Size(s.word, p), NEW nb \in Nat, nb <= size,
         size - nb < MinChunkSize
  PROVE  Gives(s, n, t, Given(SetInuseAndPinuse(s, p, size), p), nb)
<1> DEFINE u == SetInuseAndPinuse(s, p, size)
<1>1. PICK d : Settled(u, n, d) /\ Taken(s.word, t, u.word, d, p, nb)
  BY WholeIsTaken
<1> HIDE DEF u
<1>2. Gives(s, n, t, Given(u, p), nb)
  BY <1>1, GivenGives
<1> QED
  BY <1>2 DEF u

\* The rest of a chunk is kept in a bin.
LEMMA SplitInserts ==
  ASSUME NEW s, NEW n, NEW t, NEW g, NEW p, Holding(s, n, t, g, p),
         NEW size \in Nat, size = Size(s.word, p),
         NEW nb \in Nat, nb >= MinChunkSize, nb <= size
  PROVE  Gives(s, n, t, SplitFor(s, p, nb, size - nb, InsertChunk), nb)
<1> DEFINE rest == size - nb
           m == p + nb
           u == SplitAt(s, p, nb, rest)
<1>1. rest \in Nat /\ size = nb + rest
  OBVIOUS
<1>2. CASE rest < MinChunkSize
  <2>1. SplitFor(s, p, nb, rest, InsertChunk)
          = Given(SetInuseAndPinuse(s, p, nb + rest), p)
    BY <1>2 DEF SplitFor
  <2>2. Gives(s, n, t, Given(SetInuseAndPinuse(s, p, size), p), nb)
    BY <1>2, WholeIsGiven
  <2> HIDE DEF rest
  <2> QED
    BY <1>1, <2>1, <2>2 DEF rest
<1>3. CASE ~(rest < MinChunkSize)
  <2>1. rest >= MinChunkSize
    BY <1>1, <1>3 DEF MinChunkSize
  <2>2. SplitFor(s, p, nb, rest, InsertChunk) = Given(InsertChunk(u, m, rest), p)
    BY <1>3 DEF SplitFor, SplitAt
  <2> HIDE DEF rest
  <2>a. FirstTaken(s, n, t, g, p, nb, rest)
    BY <1>1, <2>1, FirstIsTaken
  <2>3. PICK d : Holding(u, n, d, g, m) /\ Taken(s.word, t, u.word, d, p, nb)
    BY <2>a DEF FirstTaken
  <2>4. rest = Size(u.word, m)
    BY <2>a DEF FirstTaken
  <2> HIDE DEF u, m
  <2> DEFINE x == InsertChunk(u, m, rest)
  <2>5. /\ Settled(x, n, d) /\ Changes(u.word, d, x.word, d, {}, {})
        /\ \A q \in d : x.word[q + 1] = u.word[q + 1]
    BY <2>3, <2>4, InsertSettles
  <2> HIDE DEF x
  <2>6. Taken(s.word, t, x.word, d, p, nb)
    BY <2>3, <2>5, StillTaken
  <2>7. Gives(s, n, t, Given(x, p), nb)
    BY <2>5, <2>6, GivenGives
  <2>8. SplitFor(s, p, nb, rest, InsertChunk) = Given(x, p)
    BY <2>2 DEF x
  <2> QED
    BY <2>7, <2>8 DEF rest
<1> QED
  BY <1>2, <1>3

\* The rest of a chunk becomes dv in the place of one that is small.
LEMMA SplitReplaces ==
  ASSUME NEW s, NEW n, NEW t, NEW g, NEW p, Holding(s, n, t, g, p),
         NEW size \in Nat, size = Size(s.word, p),
         NEW nb \in Nat, nb >= MinChunkSize, nb <= size, IsSmall(s.dvsize)
  PROVE  Gives(s, n, t, SplitFor(s, p, nb, size - nb, ReplaceDv), nb)
<1> DEFINE rest == size - nb
           m == p + nb
           u == SplitAt(s, p, nb, rest)
<1>1. rest \in Nat /\ size = nb + rest
  OBVIOUS
<1>2. CASE rest < MinChunkSize
  <2>1. SplitFor(s, p, nb, rest, ReplaceDv)
          = Given(SetInuseAndPinuse(s, p, nb + rest), p)
    BY <1>2 DEF SplitFor
  <2>2. Gives(s, n, t, Given(SetInuseAndPinuse(s, p, size), p), nb)
    BY <1>2, WholeIsGiven
  <2> HIDE DEF rest
  <2> QED
    BY <1>1, <2>1, <2>2 DEF rest
<1>3. CASE ~(rest < MinChunkSize)
  <2>1. rest >= MinChunkSize
    BY <1>1, <1>3 DEF MinChunkSize
  <2>2. SplitFor(s, p, nb, rest, ReplaceDv) = Given(ReplaceDv(u, m, rest), p)
    BY <1>3 DEF SplitFor, SplitAt
  <2> HIDE DEF rest
  <2>a. FirstTaken(s, n, t, g, p, nb, rest)
    BY <1>1, <2>1, FirstIsTaken
  <2>3. PICK d : Holding(u, n, d, g, m) /\ Taken(s.word, t, u.word, d, p, nb)
    BY <2>a DEF FirstTaken
  <2>4. rest = Size(u.word, m) /\ SameDv(s, u)
    BY <2>a DEF FirstTaken
  <2> HIDE DEF u, m
  <2> DEFINE x == ReplaceDv(u, m, rest)
  <2>5. IsSmall(u.dvsize)
    BY <2>4 DEF SameDv
  <2>6. /\ Settled(x, n, d) /\ Changes(u.word, d, x.word, d, {}, {})
        /\ \A q \in d : x.word[q + 1] = u.word[q + 1]
    BY <2>3, <2>4, <2>5, DvReplaced
  <2> HIDE DEF x
  <2>7. Taken(s.word, t, x.word, d, p, nb)
    BY <2>3, <2>6, StillTaken
  <2>8. Gives(s, n, t, Given(x, p), nb)
    BY <2>6, <2>7, GivenGives
  <2>9. SplitFor(s, p, nb, rest, ReplaceDv) = Given(x, p)
    BY <2>2 DEF x
  <2> QED
    BY <2>8, <2>9 DEF rest
<1> QED
  BY <1>2, <1>3

\* A request is answered from the designated victim when that is large enough.
LEMMA FromDvGives ==
  ASSUME NEW s, NEW n, NEW t, Settled(s, n, t), NEW nb \in Nat,
         nb >= MinChunkSize, nb <= s.dvsize
  PROVE  Gives(s, n, t, FromDv(s, nb), nb)
<1> DEFINE v == [s EXCEPT !.dv = 0, !.dvsize = 0]
           p == s.dv
           size == s.dvsize
           rest == size - nb
           m == p + nb
           u == SplitAt(v, p, nb, rest)
<1>1. PICK g : Heap(s, n, t, g, {})
  BY DEF Settled
<1>2. s \in Spaces(n) /\ DvHolds(s, t)
  BY <1>1 DEF Heap
<1>3. size \in Nat
  BY <1>2 DEF Spaces
<1>4. rest \in Nat /\ size = nb + rest /\ size # 0
  BY <1>3 DEF MinChunkSize
<1>5. /\ Heap(v, n, t, g, Plus({}, s.dv)) /\ v.word = s.word
      /\ v.dv = 0 /\ v.dvsize = 0
  BY <1>1, <1>4, DvDropped
<1>6. Holding(v, n, t, g, p) /\ size = Size(v.word, p)
  <2>1. size = Size(s.word, p)
    BY <1>2, <1>4 DEF DvHolds
  <2>2. Plus({}, s.dv) = {p}
    BY DEF Plus
  <2> HIDE DEF v
  <2>3. Holding(v, n, t, g, p)
    BY <1>5, <2>2 DEF Holding
  <2> QED
    BY <1>5, <2>1, <2>3
<1>7. FromDv(s, nb) = IF rest < MinChunkSize
                      THEN Given(SetInuseAndPinuse(v, p, nb + rest), p)
                      ELSE Given([u EXCEPT !.dv = m, !.dvsize = rest], p)
  BY DEF FromDv, SplitFor, SplitAt
<1> HIDE DEF v, p, size
<1>8. CASE rest < MinChunkSize
  <2>1. Gives(v, n, t, Given(SetInuseAndPinuse(v, p, size), p), nb)
    BY <1>3, <1>4, <1>6, <1>8, WholeIsGiven
  <2> HIDE DEF rest
  <2>2. Gives(v, n, t, FromDv(s, nb), nb)
    BY <1>4, <1>7, <1>8, <2>1
  <2> QED
    BY <1>5, <2>2 DEF Gives
<1>9. CASE ~(rest < MinChunkSize)
  <2>1. rest >= MinChunkSize
    BY <1>4, <1>9 DEF MinChunkSize
  <2> HIDE DEF rest
  <2>a. FirstTaken(v, n, t, g, p, nb, rest)
    BY <1>4, <1>6, <2>1, FirstIsTaken
  <2>2. PICK d : Holding(u, n, d, g, m) /\ Taken(v.word, t, u.word, d, p, nb)
    BY <2>a DEF FirstTaken
  <2>3. rest = Size(u.word, m) /\ SameDv(v, u)
    BY <2>a DEF FirstTaken
  <2> HIDE DEF u, m
  <2> DEFINE x == [u EXCEPT !.dv = m, !.dvsize = rest]
  <2>4. u \in Spaces(n) /\ u.dvsize = 0 /\ m \in Nat /\ d \subseteq Nat
    <3>1. u \in Spaces(n) /\ Tiled(u.word, d, End(n)) /\ m \in d
      BY <2>2 DEF Holding, Heap
    <3>2. d \subseteq Nat
      BY <3>1 DEF Tiled
    <3> QED
      BY <1>5, <2>3, <3>1, <3>2 DEF SameDv
  <2>5. /\ x \in Spaces(n) /\ x.word = u.word /\ SameBins(u, x)
        /\ SameTop(u, x) /\ SameLimit(u, x) /\ x.dv = m /\ x.dvsize = rest
    BY <1>4, <2>4 DEF Spaces, SameBins, SameTop, SameLimit
  <2> HIDE DEF x
  <2> DEFINE l == {m}
  <2>a1. Heap(u, n, d, g, l) /\ m \in l
    BY <2>2 DEF Holding
  <2> HIDE DEF l
  <2>6. Heap(x, n, d, g, Less(l, m))
    BY <2>a1, <2>3, <2>4, <2>5, DvTaken
  <2>7. Settled(x, n, d)
    <3>1. Less(l, m) = {}
      BY DEF l, Less
    <3> QED
      BY <2>6, <3>1 DEF Settled
  <2>8. Taken(s.word, t, x.word, d, p, nb)
    BY <1>5, <2>2, <2>5
  <2>9. Gives(s, n, t, Given(x, p), nb)
    BY <2>7, <2>8, GivenGives
  <2>10. FromDv(s, nb) = Given(x, p)
    BY <1>7, <1>9 DEF x
  <2> QED
    BY <2>9, <2>10
<1> QED
  BY <1>8, <1>9

\* What malloc takes is in a bin.
LEMMA SmallestIsThere ==
  ASSUME NEW S \in SUBSET Nat, S # {}
  PROVE  Min(S) \in S
<1>1. \E x \in S : \A y \in S : x =< y
  BY HasSmallest
<1> QED
  BY <1>1 DEF Min

\* The smallest of some chunks is one of them.
LEMMA BestIsThere ==
  ASSUME NEW s, NEW nb \in Nat, NEW chunks, chunks # {},
         \A v \in chunks : ChunkSize(s, v) \in Nat
  PROVE  BestOf(s, chunks, nb) \in chunks
<1>1. 2^SizeBits \in Nat \ {0}
  BY LimitAssumption
<1> DEFINE r(v) == Remainder(s, v, nb)
           T == {r(v) : v \in chunks}
<1>2. \A v \in chunks : r(v) \in Nat
  <2>1. ASSUME NEW x \in Nat, NEW y \in Nat, NEW m \in Nat \ {0}
        PROVE  (x - y) % m \in Nat
    OBVIOUS
  <2> QED
    BY <1>1, <2>1 DEF Remainder, Sub
<1> HIDE DEF r
<1>3. T \in SUBSET Nat /\ T # {}
  BY <1>2
<1>4. \E x \in T : \A y \in T : x <= y
  BY <1>3, HasSmallest
<1>5. \E v \in chunks : \A w \in chunks : r(v) <= r(w)
  BY <1>4
<1>6. \E v \in chunks : \A w \in chunks :
        Remainder(s, v, nb) <= Remainder(s, w, nb)
  BY <1>5 DEF r
<1> QED
  BY <1>6 DEF BestOf

\* The chunks among which tmalloc_small looks are in the trie.
LEMMA LeftmostAreHeld ==
  ASSUME NEW w, NEW trie, NEW i, NEW c, Holds(w, trie, i, c), c # {}
  PROVE  LeftmostIn(trie) # {} /\ LeftmostIn(trie) \subseteq c
<1>1. /\ IsTrie(trie)
      /\ \A q \in DOMAIN trie :
           trie[q] # <<>> /\ \A p \in Range(trie[q]) : p \in c
      /\ \E q \in DOMAIN trie : TRUE
  BY DEF Holds
<1>2. \A q \in DOMAIN trie : Member(trie, q) \in c
  <2> SUFFICES ASSUME NEW q \in DOMAIN trie
               PROVE  Member(trie, q) \in c
    OBVIOUS
  <2>1. trie[q] \in Seq(Nat)
    BY <1>1 DEF IsTrie
  <2>2. Head(trie[q]) \in Range(trie[q])
    BY <1>1, <2>1, HeadIsAMember
  <2> QED
    BY <1>1, <2>2 DEF Member
<1>3. <<>> \in DOMAIN trie
  <2>1. PICK q \in DOMAIN trie : TRUE
    BY <1>1
  <2>2. q \in Seq(Bits) /\ 0 \in 0..Len(q)
    BY <1>1 DEF IsTrie
  <2>3. SubSeq(q, 1, 0) = <<>>
    BY <2>2
  <2> QED
    BY <1>1, <2>2, <2>3 DEF IsTrie
<1>4. OnTheWay(trie, <<>>, 0, <<>>)
  <2>1. Len(<<>>) = 0 /\ SubSeq(<<>>, 1, 0) = <<>>
    OBVIOUS
  <2> QED
    BY <2>1 DEF OnTheWay
<1>5. Member(trie, <<>>) \in LeftmostIn(trie)
  BY <1>3, <1>4 DEF LeftmostIn, LeftmostPath, Way
<1>6. LeftmostIn(trie) \subseteq c
  BY <1>2 DEF LeftmostIn, LeftmostPath, Way
<1> QED
  BY <1>5, <1>6

\* Nothing that tmalloc_large finds large enough is too small.
LEMMA SeenAreLargeEnough ==
  ASSUME NEW s, NEW trie, NEW i, NEW c, Holds(s.word, trie, i, c),
         \A v \in c : Size(s.word, v) \in Nat, NEW nb \in Nat, nb # 0,
         nb < 2^SizeBits
  PROVE  \A v \in FitsSeen(s, trie, nb, i) : v \in c /\ nb <= Size(s.word, v)
<1> SUFFICES ASSUME NEW v \in FitsSeen(s, trie, nb, i)
             PROVE  v \in c /\ nb <= Size(s.word, v)
  OBVIOUS
<1>1. /\ IsTrie(trie)
      /\ \A q \in DOMAIN trie :
           trie[q] # <<>> /\ \A p \in Range(trie[q]) : p \in c
  BY DEF Holds
<1>2. \A q \in DOMAIN trie : Member(trie, q) \in c
  <2> SUFFICES ASSUME NEW q \in DOMAIN trie
               PROVE  Member(trie, q) \in c
    OBVIOUS
  <2>1. trie[q] \in Seq(Nat)
    BY <1>1 DEF IsTrie
  <2>2. Head(trie[q]) \in Range(trie[q])
    BY <1>1, <2>1, HeadIsAMember
  <2> QED
    BY <1>1, <2>2 DEF Member
<1> DEFINE way == NodesTowards(s, trie, nb, i)
<1>3. way \subseteq DOMAIN trie
  BY DEF NodesTowards, Upto
<1> HIDE DEF way
<1>4. DeepestRight(trie, way, nb, i) \subseteq DOMAIN trie
  BY DEF DeepestRight, LeftmostPath, Way
<1>5. NodesSeen(s, trie, way, nb, i) \subseteq DOMAIN trie
  BY <1>3, <1>4 DEF NodesSeen
<1>6. /\ v \in {Member(trie, q) : q \in NodesSeen(s, trie, way, nb, i)}
      /\ Remainder(s, v, nb) < Sub(0, nb)
  BY DEF FitsSeen, way
<1>7. v \in c
  BY <1>2, <1>5, <1>6
<1>8. ASSUME NEW m \in Nat, NEW x \in Nat, NEW y \in Nat, x < y, y < m
      PROVE  ~((x - y) % m < (0 - y) % m)
  <2>1. x - y \in Int /\ (x - y) % m = x - y + m
    BY <1>8
  <2>2. (0 - y) % m = 0 - y + m
    BY <1>8
  <2> QED
    BY <1>8, <2>1, <2>2
<1>9. Remainder(s, v, nb) = (Size(s.word, v) - nb) % 2^SizeBits
      /\ Sub(0, nb) = (0 - nb) % 2^SizeBits
  BY DEF Remainder, Sub, ChunkSize, Size
<1>10. ~(Size(s.word, v) < nb)
  BY <1>6, <1>7, <1>8, <1>9, LimitAssumption
<1> QED
  BY <1>7, <1>10

\* Chunks of later bins are larger.
LEMMA LaterAreLargeEnough ==
  ASSUME NEW s, NEW g, Listed(s, g), \A v \in g : Size(s.word, v) \in Nat,
         NEW nb \in Nat, LaterBins(s, TreeIndex(nb)) # {}
  PROVE  LET later == FitsLater(s, TreeIndex(nb))
         IN  /\ later # {}
             /\ \A v \in later : /\ v \in g /\ ~IsSmall(Size(s.word, v))
                                 /\ nb <= Size(s.word, v)
<1> DEFINE i == TreeIndex(nb)
           j == Min(LaterBins(s, i))
           c == Large(s.word, g, j)
<1>1. s.treemap \subseteq 0..(NTreebins - 1) /\ NTreebins \in Nat
  BY BinsAssumption DEF Listed
<1>2. j \in s.treemap /\ j > i
  <2>1. LaterBins(s, i) \in SUBSET Nat
    BY <1>1 DEF LaterBins
  <2>2. j \in LaterBins(s, i)
    BY <2>1, SmallestIsThere
  <2> HIDE DEF j
  <2> QED
    BY <2>2 DEF LaterBins
<1>3. FitsLater(s, i) = LeftmostIn(s.treebins[j])
  BY DEF FitsLater
<1> HIDE DEF i, j
<1>4. Holds(s.word, s.treebins[j], j, c) /\ c # {}
  BY <1>1, <1>2 DEF Listed
<1>5. FitsLater(s, i) # {} /\ FitsLater(s, i) \subseteq c
  BY <1>3, <1>4, LeftmostAreHeld
<1>6. ASSUME NEW v \in c
      PROVE  v \in g /\ ~IsSmall(Size(s.word, v)) /\ nb <= Size(s.word, v)
  <2>1. v \in g /\ ~IsSmall(Size(s.word, v)) /\ TreeIndex(Size(s.word, v)) = j
    BY DEF Large
  <2>2. Size(s.word, v) \in Nat
    BY <2>1
  <2>3. Size(s.word, v) <= nb => j <= i
    BY <2>1, <2>2, IndexIncreases DEF i
  <2>4. i \in Nat /\ j \in Nat
    BY <1>1, <1>2, IndexIsABin DEF i
  <2> QED
    BY <1>2, <2>1, <2>2, <2>3, <2>4
<1> QED
  BY <1>5, <1>6 DEF i

\* unlink_chunk takes a chunk from its bin into the hands of the call.
LEMMA TakenOut ==
  ASSUME NEW s, NEW n, NEW t, NEW g, Heap(s, n, t, g, {}), NEW p \in g,
         NEW size, size = Size(s.word, p)
  PROVE  LET v == UnlinkChunk(s, p, size)
         IN  /\ Holding(v, n, t, Less(g, p), p) /\ OnlyBins(s, v)
             /\ size \in Nat /\ size = Size(v.word, p)
<1> DEFINE v == UnlinkChunk(s, p, size)
           l == {}
           h == Less(g, p)
<1>1. Heap(s, n, t, g, l)
  OBVIOUS
<1>2. p \in t
  BY DEF Heap
<1>3. size \in Nat
  BY <1>2, ChunkFacts
<1> HIDE DEF l, v, h
<1>4. Heap(v, n, t, h, Plus(l, p)) /\ OnlyBins(s, v)
  BY <1>1, ChunkUnlinked DEF v, h
<1>5. Plus(l, p) = {p}
  BY DEF Plus, l
<1>6. Holding(v, n, t, h, p)
  BY <1>4, <1>5 DEF Holding
<1>7. size = Size(v.word, p)
  BY <1>4 DEF OnlyBins
<1> QED
  BY <1>3, <1>4, <1>6, <1>7 DEF v, h

\* What an answer says depends on the words before the call only.
LEMMA GivesFrom ==
  ASSUME NEW s, NEW v, v.word = s.word, NEW n, NEW t, NEW a, NEW nb,
         Gives(v, n, t, a, nb)
  PROVE  Gives(s, n, t, a, nb)
BY DEF Gives

\* The first chunk of a smallbin that is marked is free and has the size of
\* the bin.
LEMMA HeadOfBin ==
  ASSUME NEW s, NEW g, Listed(s, g), NEW n, s \in Spaces(n), NEW i \in s.smallmap
  PROVE  /\ Head(s.smallbins[i]) \in g
         /\ Size(s.word, Head(s.smallbins[i])) = i
         /\ i \in Nat /\ IsSmall(i)
<1> DEFINE list == s.smallbins[i]
<1>1. i \in 0..(NSmallbins - 1) /\ list # <<>> /\ Range(list) = Small(s.word, g, i)
  BY DEF Listed
<1>2. i \in Nat /\ IsSmall(i)
  BY <1>1, SmallbinsAreNumbered DEF IsSmall
<1>3. list \in Seq(Nat)
  BY <1>1 DEF Spaces
<1> HIDE DEF list
<1>4. Head(list) \in Range(list)
  BY <1>1, <1>3, HeadIsAMember
<1> QED
  BY <1>1, <1>2, <1>4 DEF Small, list

\* A request is answered from the smallbin of its size or of the next.
LEMMA FromSmallbinGives ==
  ASSUME NEW s, NEW n, NEW t, Settled(s, n, t), NEW i \in s.smallmap,
         NEW nb \in Nat, nb <= i, i - nb < MinChunkSize
  PROVE  Gives(s, n, t, FromSmallbin(s, i), nb)
<1> DEFINE p == Head(s.smallbins[i])
           v == UnlinkChunk(s, p, i)
<1>1. PICK g : Heap(s, n, t, g, {})
  BY DEF Settled
<1>2. s \in Spaces(n) /\ Listed(s, g)
  BY <1>1 DEF Heap
<1>3. p \in g /\ Size(s.word, p) = i /\ i \in Nat /\ IsSmall(i)
  BY <1>2, HeadOfBin
<1>4. FromSmallbin(s, i) = Given(SetInuseAndPinuse(v, p, i), p)
  BY <1>3 DEF FromSmallbin, UnlinkChunk
<1> HIDE DEF p, v
<1> DEFINE h == Less(g, p)
<1>5. Holding(v, n, t, h, p) /\ OnlyBins(s, v) /\ i = Size(v.word, p)
  BY <1>1, <1>3, TakenOut DEF v
<1> HIDE DEF h
<1>6. Gives(v, n, t, Given(SetInuseAndPinuse(v, p, i), p), nb)
  BY <1>3, <1>5, WholeIsGiven
<1>7. v.word = s.word
  BY <1>5 DEF OnlyBins
<1> QED
  BY <1>4, <1>6, <1>7, GivesFrom

\* A request is answered from a larger smallbin, the rest becoming dv.
LEMMA FromNextSmallbinGives ==
  ASSUME NEW s, NEW n, NEW t, Settled(s, n, t), NEW nb \in Nat,
         nb >= MinChunkSize, \E j \in s.smallmap : j > nb, IsSmall(s.dvsize)
  PROVE  Gives(s, n, t, FromNextSmallbin(s, nb), nb)
<1> DEFINE bins == {j \in s.smallmap : j > nb}
           i == Min(bins)
           p == Head(s.smallbins[i])
           v == UnlinkChunk(s, p, i)
<1>1. PICK g : Heap(s, n, t, g, {})
  BY DEF Settled
<1>2. s \in Spaces(n) /\ Listed(s, g)
  BY <1>1 DEF Heap
<1>3. s.smallmap \subseteq Nat
  BY <1>2 DEF Spaces
<1>4. i \in s.smallmap /\ i > nb
  <2>1. bins \in SUBSET Nat /\ bins # {}
    BY <1>3
  <2>2. i \in bins
    BY <2>1, SmallestIsThere
  <2> HIDE DEF i
  <2> QED
    BY <2>2
<1>5. FromNextSmallbin(s, nb) = SplitFirst(s, i, nb)
  BY DEF FromNextSmallbin
<1> HIDE DEF i
<1>6. p \in g /\ Size(s.word, p) = i /\ i \in Nat /\ IsSmall(i)
  BY <1>2, <1>4, HeadOfBin
<1>7. SplitFirst(s, i, nb) = SplitFor(v, p, nb, i - nb, ReplaceDv)
  BY <1>6 DEF SplitFirst, SplitSmall, UnlinkChunk
<1> HIDE DEF p, v
<1> DEFINE h == Less(g, p)
<1>8. Holding(v, n, t, h, p) /\ OnlyBins(s, v) /\ i = Size(v.word, p)
  BY <1>1, <1>6, TakenOut DEF v
<1> HIDE DEF h
<1>9. v.word = s.word /\ IsSmall(v.dvsize) /\ nb <= i
  BY <1>4, <1>6, <1>8 DEF OnlyBins, SameDv
<1>10. Gives(v, n, t, SplitFor(v, p, nb, i - nb, ReplaceDv), nb)
  BY <1>6, <1>8, <1>9, SplitReplaces
<1> QED
  BY <1>5, <1>7, <1>9, <1>10, GivesFrom

\* A large chunk gives what it is asked for.
LEMMA SplitLargeGives ==
  ASSUME NEW s, NEW n, NEW t, NEW g, Heap(s, n, t, g, {}), NEW p \in g,
         ~IsSmall(Size(s.word, p)), NEW nb \in Nat, nb >= MinChunkSize,
         nb <= Size(s.word, p)
  PROVE  /\ Gives(s, n, t, SplitLarge(s, p, nb, InsertChunk), nb)
         /\ IsSmall(s.dvsize) =>
              Gives(s, n, t, SplitLarge(s, p, nb, ReplaceDv), nb)
<1> DEFINE size == Size(s.word, p)
           v == UnlinkChunk(s, p, size)
           rest == size - nb
<1>1. /\ UnlinkLargeChunk(s, p) = v
      /\ ChunkSize(s, p) = size
  BY DEF UnlinkChunk, ChunkSize, Size
<1>2. /\ SplitLarge(s, p, nb, InsertChunk)
           = SplitFor(v, p, nb, rest, InsertChunk)
      /\ SplitLarge(s, p, nb, ReplaceDv) = SplitFor(v, p, nb, rest, ReplaceDv)
  <2> HIDE DEF v, size
  <2> QED
    BY <1>1 DEF SplitLarge
<1>3. size = Size(s.word, p)
  OBVIOUS
<1> HIDE DEF size
<1> DEFINE h == Less(g, p)
<1>4. Holding(v, n, t, h, p) /\ OnlyBins(s, v) /\ size \in Nat /\ size = Size(v.word, p)
  BY <1>3, TakenOut
<1> HIDE DEF v, h
<1>5. v.word = s.word /\ v.dvsize = s.dvsize /\ nb <= size
  BY <1>3, <1>4 DEF OnlyBins, SameDv
<1>6. Gives(v, n, t, SplitFor(v, p, nb, rest, InsertChunk), nb)
  BY <1>4, <1>5, SplitInserts
<1>7. IsSmall(s.dvsize) =>
        Gives(v, n, t, SplitFor(v, p, nb, rest, ReplaceDv), nb)
  BY <1>4, <1>5, SplitReplaces
<1> HIDE DEF rest
<1> QED
  BY <1>2, <1>5, <1>6, <1>7, GivesFrom

\* tmalloc_small answers when any trie is not empty.
LEMMA TmallocSmallGives ==
  ASSUME NEW s, NEW n, NEW t, Settled(s, n, t), NEW nb \in Nat,
         nb >= MinChunkSize, IsSmall(nb), IsSmall(s.dvsize), s.treemap # {}
  PROVE  Gives(s, n, t, TmallocSmall(s, nb), nb)
<1> DEFINE i == Min(s.treemap)
           chunks == LeftmostIn(s.treebins[i])
           v == BestOf(s, chunks, nb)
<1>1. PICK g : Heap(s, n, t, g, {})
  BY DEF Settled
<1>2. Listed(s, g) /\ \A p \in g : Size(s.word, p) \in Nat
  BY <1>1, ChunkFacts DEF Heap
<1>3. s.treemap \subseteq 0..(NTreebins - 1) /\ NTreebins \in Nat
  BY <1>2, BinsAssumption DEF Listed
<1>4. i \in s.treemap
  BY <1>3, SmallestIsThere
<1>5. TmallocSmall(s, nb) = SplitLarge(s, v, nb, ReplaceDv)
  BY DEF TmallocSmall
<1> HIDE DEF i
<1> DEFINE d == Large(s.word, g, i)
<1>6. Holds(s.word, s.treebins[i], i, d) /\ d # {}
  BY <1>2, <1>3, <1>4 DEF Listed
<1>7. chunks # {} /\ chunks \subseteq d
  <2> HIDE DEF d
  <2> QED
    BY <1>6, LeftmostAreHeld
<1>8. d \subseteq g /\ \A p \in d : ~IsSmall(Size(s.word, p))
  BY DEF Large
<1> HIDE DEF d, chunks
<1>9. v \in chunks
  <2>1. \A p \in chunks : ChunkSize(s, p) \in Nat
    BY <1>2, <1>7, <1>8 DEF ChunkSize, Size
  <2> QED
    BY <1>7, <2>1, BestIsThere
<1> HIDE DEF v
<1>10. v \in g /\ ~IsSmall(Size(s.word, v)) /\ nb <= Size(s.word, v)
  <2>1. v \in g /\ ~IsSmall(Size(s.word, v)) /\ Size(s.word, v) \in Nat
    BY <1>2, <1>7, <1>8, <1>9
  <2> QED
    BY <2>1, SmallbinsAreNumbered DEF IsSmall
<1>11. Gives(s, n, t, SplitLarge(s, v, nb, ReplaceDv), nb)
  BY <1>1, <1>10, SplitLargeGives
<1> QED
  BY <1>5, <1>11

\* malloc answers NULL and changes nothing, or it gives a chunk.
Answers(s, n, t, a, nb) == a = Refused(s) \/ Gives(s, n, t, a, nb)

\* tmalloc_large answers or leaves the heap alone.
LEMMA TmallocLargeAnswers ==
  ASSUME NEW s, NEW n, NEW t, Settled(s, n, t), NEW nb \in Nat,
         nb >= MinChunkSize, nb < 2^SizeBits
  PROVE  Answers(s, n, t, TmallocLarge(s, nb), nb)
<1> DEFINE i == TreeIndex(nb)
           here == FitsSeen(s, s.treebins[i], nb, i)
           later == FitsLater(s, i)
<1>1. PICK g : Heap(s, n, t, g, {})
  BY DEF Settled
<1>2. Listed(s, g) /\ \A p \in g : Size(s.word, p) \in Nat
  BY <1>1, ChunkFacts DEF Heap
<1>3. TmallocLarge(s, nb) = SplitBest(s, here, later, nb)
  BY DEF TmallocLarge, LargeFromBin
<1> DEFINE Enough(v) == v \in g /\ ~IsSmall(Size(s.word, v)) /\ nb <= Size(s.word, v)
<1>4. \A v \in here : Enough(v)
  <2> DEFINE c == Large(s.word, g, i)
  <2>1. i \in 0..(NTreebins - 1)
    BY IndexIsABin
  <2> HIDE DEF i
  <2>2. Holds(s.word, s.treebins[i], i, c)
    BY <1>2, <2>1 DEF Listed
  <2>3. \A v \in c : v \in g /\ ~IsSmall(Size(s.word, v)) /\ Size(s.word, v) \in Nat
    BY <1>2 DEF Large
  <2>4. nb # 0
    BY DEF MinChunkSize
  <2> HIDE DEF c
  <2>5. \A v \in here : v \in c /\ nb <= Size(s.word, v)
    BY <2>2, <2>3, <2>4, SeenAreLargeEnough
  <2> HIDE DEF here
  <2> QED
    BY <2>3, <2>5
<1>5. \A v \in later : Enough(v)
  <2>1. CASE LaterBins(s, i) = {}
    BY <2>1 DEF FitsLater
  <2>2. CASE LaterBins(s, i) # {}
    BY <1>2, <2>2, LaterAreLargeEnough
  <2> QED
    BY <2>1, <2>2
<1> HIDE DEF here, later
<1>6. ASSUME NEW chunks, chunks # {}, \A v \in chunks : Enough(v)
      PROVE  Answers(s, n, t, UnlessDvFits(s, BestOf(s, chunks, nb), nb), nb)
  <2> DEFINE v == BestOf(s, chunks, nb)
  <2>1. v \in chunks
    <3>1. \A p \in chunks : ChunkSize(s, p) \in Nat
      BY <1>2, <1>6 DEF ChunkSize, Size
    <3> QED
      BY <1>6, <3>1, BestIsThere
  <2> HIDE DEF v
  <2>2. Enough(v)
    BY <1>6, <2>1
  <2>3. Gives(s, n, t, SplitLarge(s, v, nb, InsertChunk), nb)
    BY <1>1, <2>2, SplitLargeGives
  <2>4. Answers(s, n, t, UnlessDvFits(s, v, nb), nb)
    BY <2>3 DEF UnlessDvFits, Answers
  <2> QED
    BY <2>4 DEF v
<1> HIDE DEF Enough
<1>7. CASE here # {}
  <2>1. SplitBest(s, here, later, nb) = UnlessDvFits(s, BestOf(s, here, nb), nb)
    BY <1>7 DEF SplitBest
  <2> QED
    BY <1>3, <1>4, <1>6, <1>7, <2>1
<1>8. CASE here = {} /\ later # {}
  <2>1. SplitBest(s, here, later, nb) = UnlessDvFits(s, BestOf(s, later, nb), nb)
    BY <1>8 DEF SplitBest
  <2> QED
    BY <1>3, <1>5, <1>6, <1>8, <2>1
<1>9. CASE here = {} /\ later = {}
  BY <1>3, <1>9 DEF SplitBest, Answers
<1> QED
  BY <1>7, <1>8, <1>9

\* Where top lies: it is the last chunk, and free.
LEMMA TopFacts ==
  ASSUME NEW s, NEW n, NEW t, NEW g, NEW l, Heap(s, n, t, g, l)
  PROVE  /\ s.top \in t \ {0} /\ s.top \in Nat /\ s.topsize \in Nat \ {0}
         /\ s.top + s.topsize = End(n) /\ PrevUsed(s.word, s.top)
         /\ ~Used(s.word, s.top) /\ Size(s.word, s.top) = s.topsize
         /\ s.top \notin g \cup l /\ End(n) + 4 <= n /\ n \in Nat
         /\ s \in Spaces(n) /\ End(n) \in Nat
         /\ \A p \in t : p # s.top => p < s.top /\ p \in Nat
         /\ s.dvsize # 0 => s.dv < s.top
         /\ s.dvsize = 0 => s.dv = 0
<1>1. /\ s.top \in t /\ s.top + s.topsize = End(n) /\ ~Used(s.word, s.top)
      /\ Size(s.word, s.top) = s.topsize /\ s \in Spaces(n)
  BY DEF Heap, TopHolds
<1>2. s.top \in Nat /\ s.topsize \in Nat \ {0} /\ End(n) + 4 <= n /\ n \in Nat
      /\ End(n) \in Nat
  <2>1. Roomy(n)
    BY DEF Heap
  <2>2. s.top \in Nat /\ Size(s.word, s.top) \in Nat \ {0}
    BY <1>1, ChunkFacts
  <2> QED
    BY <1>1, <2>1, <2>2, EndIsInside
<1>3. PrevUsed(s.word, s.top) /\ s.top # 0
  BY <1>1, FreeAreApart
<1>4. s.top \notin g \cup l
  BY DEF Heap
<1>5. ASSUME NEW p \in t, p # s.top
      PROVE  p < s.top /\ p \in Nat
  <2>1. p \in Nat /\ p + Size(s.word, p) <= s.top /\ Size(s.word, p) \in Nat \ {0}
    BY <1>5, ChunkFacts
  <2> QED
    BY <1>2, <2>1
<1>6. /\ s.dvsize # 0 => s.dv \in t /\ s.dv # s.top
      /\ s.dvsize = 0 => s.dv = 0
  BY DEF Heap, DvHolds
<1> QED
  BY <1>1, <1>2, <1>3, <1>4, <1>5, <1>6

\* A request is answered from top when that has more words.
LEMMA FromTopGives ==
  ASSUME NEW s, NEW n, NEW t, Settled(s, n, t), NEW nb \in Nat,
         nb >= MinChunkSize, nb < s.topsize
  PROVE  Gives(s, n, t, FromTop(s, nb), nb)
<1> DEFINE a == s.top
           m == a + nb
           end == End(n)
           r == SetTop(s, m, s.topsize - nb)
           u == SetSizeAndPinuseOfInuseChunk(r, a, nb)
           l == {}
<1>1. PICK g : Heap(s, n, t, g, l)
  BY DEF Settled
<1>2. /\ a \in t \ {0} /\ a \in Nat /\ s.topsize \in Nat \ {0}
      /\ a + s.topsize = end /\ PrevUsed(s.word, a)
      /\ ~Used(s.word, a) /\ Size(s.word, a) = s.topsize
      /\ a \notin g \cup l /\ end + 4 <= n /\ n \in Nat
      /\ s \in Spaces(n) /\ end \in Nat
      /\ \A p \in t : p # a => p < a /\ p \in Nat
      /\ s.dvsize # 0 => s.dv < a
      /\ s.dvsize = 0 => s.dv = 0
  BY <1>1, TopFacts
<1>3. FromTop(s, nb) = Given(u, a)
  BY DEF FromTop
<1>4. s.topsize - nb \in Nat /\ nb >= 4
  BY <1>2 DEF MinChunkSize
<1>5. g \subseteq t
  BY <1>1 DEF Heap
<1> HIDE DEF l, end
<1> DEFINE size == s.topsize - nb
<1>6. m \in Nat /\ a + 4 <= m /\ m < end /\ m + size = end /\ m + 1 < n
      /\ a + 1 < n /\ m - a = nb /\ size = end - m
  BY <1>2, <1>4
<1> HIDE DEF m, size, a
<1>7. /\ r \in Spaces(n) /\ OnlyWordsAndTop(s, r)
      /\ r.top = m /\ r.topsize = size
      /\ UnusedChunk(r.word, m, size) /\ PrevUsed(r.word, m)
      /\ Same(s.word, r.word, n, {m + 1} \cup (m + 1 .. m + size - 1))
  BY <1>2, <1>4, <1>6, TopIsSet DEF size
<1> HIDE DEF r
<1>8. InuseBits \in SUBSET InuseBits
  OBVIOUS
<1>9. /\ u \in Spaces(n) /\ OnlyWords(r, u)
      /\ u.word[a + 1] = HeadWord(nb, InuseBits)
      /\ Same(r.word, u.word, n, {a + 1})
  <2>1. u = SetHead(r, a, nb, InuseBits)
    BY DEF SetSizeAndPinuseOfInuseChunk
  <2> HIDE DEF u
  <2> DEFINE bits == InuseBits
  <2>2. bits \in SUBSET InuseBits /\ u = SetHead(r, a, nb, bits)
    BY <1>8, <2>1
  <2> HIDE DEF bits
  <2>3. /\ u \in Spaces(n) /\ OnlyWords(r, u)
        /\ u.word[a + 1] = HeadWord(nb, bits)
        /\ Same(r.word, u.word, n, {a + 1})
    <3>1. n \in Nat /\ r \in Spaces(n) /\ a \in Nat /\ a + 1 < n
      BY <1>2, <1>6, <1>7
    <3> QED
      BY <2>2, <3>1, HeadIsSet
  <2> QED
    BY <2>3 DEF bits
<1> HIDE DEF u
<1>10. HeadWord(nb, InuseBits).is = "head" /\ HeadWord(nb, InuseBits).size = nb
       /\ HeadWord(nb, InuseBits).bits = InuseBits
  BY <1>8, WordsAre
<1>11. UsedChunk(u.word, a, m - a) /\ PrevUsed(u.word, a) = PrevUsed(s.word, a)
  BY <1>2, <1>6, <1>9, <1>10 DEF UsedChunk, Used, PrevUsed, Size, InuseBits
<1>12. u.word[m + 1] = r.word[m + 1]
  BY <1>2, <1>6, <1>9 DEF Same
<1>13. UnusedChunk(u.word, m, end - m) /\ PrevUsed(u.word, m)
  BY <1>6, <1>7, <1>12 DEF UnusedChunk, Used, PrevUsed, Size
<1>14. Same(s.word, u.word, n, a + 1 .. end)
  <2>1. \A i \in 0..(n - 1) : i \notin a + 1 .. end =>
          i \notin {a + 1} /\ i \notin {m + 1} \cup (m + 1 .. m + size - 1)
    BY <1>2, <1>6
  <2> QED
    BY <1>7, <1>9, <2>1 DEF Same
<1>15. /\ u.top = m /\ u.topsize = end - m
       /\ SameBins(s, u) /\ SameLimit(s, u) /\ SameDv(s, u)
  BY <1>6, <1>7, <1>9
     DEF OnlyWords, OnlyWordsAndTop, SameTop, SameBins, SameLimit, SameDv
<1>16. DvMoves(s, u, a, end, {})
  <2>1. CASE s.dvsize = 0
    BY <1>2, <1>15, <2>1 DEF DvMoves, SameDv
  <2>2. CASE s.dvsize # 0
    <3>1. s.dv \in Nat
      BY <1>2 DEF Spaces
    <3> QED
      BY <1>2, <1>15, <2>2, <3>1 DEF DvMoves
  <2> QED
    BY <2>1, <2>2
<1>17. g \cap (a..(end - 1)) = {} /\ l \subseteq a..(end - 1)
  BY <1>2, <1>5 DEF l
<1> DEFINE d == Replaced(t, a, end, {a, m})
<1>18. Heap(u, n, d, g, {}) /\ Changes(s.word, t, u.word, d, a..(end - 1), {a})
  <2> HIDE DEF d
  <2>1. /\ Heap(u, n, Replaced(t, a, end, {a, m}), g, {})
        /\ Changes(s.word, t, u.word, Replaced(t, a, end, {a, m}),
                   a..(end - 1), {a})
    BY <1>1, <1>2, <1>6, <1>9, <1>11, <1>13, <1>14, <1>15, <1>16, <1>17,
       BecomesUsedAndTop DEF end
  <2> QED
    BY <2>1 DEF d
<1>19. Changes(s.word, t, u.word, d, {}, {a})
  <2>1. \A q \in t : q \in a..(end - 1) => ~Used(s.word, q)
    BY <1>2
  <2> HIDE DEF d
  <2> QED
    BY <1>18, <2>1, NoneGone
<1>20. Taken(s.word, t, u.word, d, a, nb)
  <2>1. a \in d
    BY DEF Replaced
  <2>2. Size(u.word, a) - nb \in 0..(MinChunkSize - 1) /\ Used(u.word, a)
    BY <1>6, <1>11 DEF MinChunkSize, UsedChunk
  <2> HIDE DEF d
  <2> QED
    BY <1>2, <1>19, <2>1, <2>2 DEF Taken, Users
<1>21. Settled(u, n, d)
  BY <1>18 DEF Settled
<1> HIDE DEF d
<1>22. Gives(s, n, t, Given(u, a), nb)
  BY <1>20, <1>21, GivenGives
<1> QED
  BY <1>3, <1>22 DEF a

\* sys_alloc of a settled pool answers NULL and changes nothing.
LEMMA PoolMapsNothing ==
  ASSUME NEW s, NEW n, NEW t, Settled(s, n, t), NEW nb \in Sizes
  PROVE  SysAlloc(s, nb) = Refused(s)
<1>1. Roomy(n) /\ Limited(s, n)
  BY DEF Settled, Heap
<1>2. n \in Nat /\ n + Granularity <= 2^SizeBits /\ n >= SysAllocPadding + 8
  BY <1>1 DEF Roomy
<1>3. End(n) \in Nat /\ End(n) + 4 <= n
  BY <1>1, EndIsInside
<1>4. n \in Nat \ {0} /\ n >= SysAllocPadding + 6 + Alignment
  <2>1. SysAllocPadding \in Int
    <3>1. SegmentWords + Overhead + Alignment - 1 \in Nat
      BY LimitAssumption DEF Overhead, Alignment
    <3>2. PadRequest(SegmentWords) \in Int
      BY <3>1 DEF PadRequest, Alignment
    <3> QED
      BY <3>2 DEF SysAllocPadding, TopFootSize, MinChunkSize, Alignment
  <2> QED
    BY <1>2, <1>3, <2>1 DEF Alignment
<1> QED
  BY <1>1, <1>2, <1>4, NothingIsMapped

\* The end of malloc: dv, top, or NULL for what does not fit.
LEMMA FromDvOrTopAnswers ==
  ASSUME NEW s, NEW n, NEW t, Settled(s, n, t), NEW nb \in Sizes,
         nb >= MinChunkSize
  PROVE  /\ Answers(s, n, t, FromDvOrTop(s, nb), nb)
         /\ nb = MaxSizeT => FromDvOrTop(s, nb) = Refused(s)
<1>1. nb \in Nat
  BY LimitAssumption DEF Sizes, MaxSizeT
<1>2. SysAlloc(s, nb) = Refused(s)
  BY PoolMapsNothing
<1>3. PICK g : Heap(s, n, t, g, {})
  BY DEF Settled
<1>4. s.dvsize < MaxSizeT /\ s.topsize < MaxSizeT
  <2>1. Roomy(n) /\ DvHolds(s, t) /\ s \in Spaces(n)
    BY <1>3 DEF Heap
  <2>2. s.dvsize \in Nat /\ s.topsize \in Nat /\ s.top \in Nat /\ s.dv \in Nat
    BY <2>1 DEF Spaces
  <2>3. End(n) \in Nat /\ End(n) + 4 <= n /\ n \in Nat
    BY <2>1, EndIsInside
  <2>4. s.topsize <= End(n)
    BY <1>3, <2>2, <2>3, TopFacts
  <2>5. s.dvsize <= End(n)
    <3>1. CASE s.dvsize = 0
      BY <2>3, <3>1
    <3>2. CASE s.dvsize # 0
      <4>1. s.dv \in t /\ Size(s.word, s.dv) = s.dvsize
        BY <2>1, <3>2 DEF DvHolds
      <4>2. s.dv + s.dvsize <= End(n)
        BY <1>3, <4>1, ChunkFacts
      <4> QED
        BY <2>2, <2>3, <4>2
    <3> QED
      BY <3>1, <3>2
  <2>6. n + Granularity <= 2^SizeBits /\ Granularity \in Nat \ {0}
        /\ 2^SizeBits \in Nat
    BY <2>1, LimitAssumption DEF Roomy
  <2> QED
    BY <2>2, <2>3, <2>4, <2>5, <2>6 DEF MaxSizeT
<1>5. s.dvsize \in Nat /\ s.topsize \in Nat
  BY <1>3 DEF Heap, Spaces
<1>6. nb = MaxSizeT => ~(nb <= s.dvsize) /\ ~(nb < s.topsize)
  BY <1>1, <1>4, <1>5
<1>7. CASE nb <= s.dvsize
  BY <1>1, <1>6, <1>7, FromDvGives DEF FromDvOrTop, Answers
<1>8. CASE ~(nb <= s.dvsize) /\ nb < s.topsize
  BY <1>1, <1>6, <1>8, FromTopGives DEF FromDvOrTop, Answers
<1>9. CASE ~(nb <= s.dvsize) /\ ~(nb < s.topsize)
  BY <1>2, <1>9 DEF FromDvOrTop, Answers
<1> QED
  BY <1>7, <1>8, <1>9

\* malloc, for requests that smallbins serve.
LEMMA MallocSmallAnswers ==
  ASSUME NEW s, NEW n, NEW t, Settled(s, n, t), NEW nb \in Sizes,
         nb >= MinChunkSize, IsSmall(nb)
  PROVE  Answers(s, n, t, MallocSmall(s, nb), nb)
<1>1. nb \in Nat /\ s.dvsize \in Nat
  BY LimitAssumption DEF Sizes, MaxSizeT, Settled, Heap, Spaces
<1>2. CASE nb \in s.smallmap
  BY <1>1, <1>2, FromSmallbinGives DEF MallocSmall, Answers, MinChunkSize
<1>3. CASE nb \notin s.smallmap /\ nb + 1 \in s.smallmap
  <2>1. nb <= nb + 1 /\ (nb + 1) - nb < MinChunkSize
    BY <1>1 DEF MinChunkSize
  <2>2. Gives(s, n, t, FromSmallbin(s, nb + 1), nb)
    BY <1>1, <1>3, <2>1, FromSmallbinGives
  <2> QED
    BY <1>3, <2>2 DEF MallocSmall, Answers
<1>4. CASE nb \notin s.smallmap /\ nb + 1 \notin s.smallmap /\ nb <= s.dvsize
  BY <1>1, <1>4, FromDvGives DEF MallocSmall, Answers
<1>5. CASE nb \notin s.smallmap /\ nb + 1 \notin s.smallmap /\ ~(nb <= s.dvsize)
  <2>1. IsSmall(s.dvsize)
    BY <1>1, <1>5, SmallbinsAreNumbered DEF IsSmall
  <2>2. CASE \E j \in s.smallmap : j > nb
    <3>1. MallocSmall(s, nb) = FromNextSmallbin(s, nb)
      BY <1>5, <2>2 DEF MallocSmall
    <3> QED
      BY <1>1, <2>1, <2>2, <3>1, FromNextSmallbinGives DEF Answers
  <2>3. CASE ~(\E j \in s.smallmap : j > nb) /\ s.treemap # {}
    <3>1. MallocSmall(s, nb) = TmallocSmall(s, nb)
      BY <1>5, <2>3 DEF MallocSmall
    <3> QED
      BY <1>1, <2>1, <2>3, <3>1, TmallocSmallGives DEF Answers
  <2>4. CASE ~(\E j \in s.smallmap : j > nb) /\ s.treemap = {}
    <3>1. MallocSmall(s, nb) = FromDvOrTop(s, nb)
      BY <1>5, <2>4 DEF MallocSmall
    <3> QED
      BY <3>1, FromDvOrTopAnswers
  <2> QED
    BY <2>2, <2>3, <2>4
<1> QED
  BY <1>2, <1>3, <1>4, <1>5

\* malloc, for requests that tries serve.
LEMMA MallocLargeAnswers ==
  ASSUME NEW s, NEW n, NEW t, Settled(s, n, t), NEW nb \in Sizes,
         nb >= MinChunkSize
  PROVE  Answers(s, n, t, MallocLarge(s, nb), nb)
<1>1. nb \in Nat /\ nb < 2^SizeBits
  BY LimitAssumption DEF Sizes, MaxSizeT
<1> DEFINE a == IF s.treemap = {} THEN Refused(s) ELSE TmallocLarge(s, nb)
<1>2. Answers(s, n, t, a, nb)
  BY <1>1, TmallocLargeAnswers DEF Answers
<1>3. MallocLarge(s, nb) = OrElse(a, FromDvOrTop(s, nb))
  BY DEF MallocLarge
<1> HIDE DEF a
<1>4. Answers(s, n, t, FromDvOrTop(s, nb), nb)
  BY FromDvOrTopAnswers
<1> QED
  BY <1>2, <1>3, <1>4 DEF OrElse

\* A padded request has room for the words asked for and a head.
LEMMA RequestsArePadded ==
  ASSUME NEW words \in Nat
  PROVE  LET nb == RequestToSize(words)
         IN  /\ nb \in Nat /\ nb >= MinChunkSize /\ nb >= words + 1
             /\ words >= 3 => nb = PadRequest(words) /\ nb <= words + 2
<1>1. CASE words < 3
  BY <1>1 DEF RequestToSize, MinChunkSize, Overhead
<1>2. CASE words >= 3
  <2>1. RequestToSize(words) = (words + 2) - ((words + 2) % 2)
    BY <1>2 DEF RequestToSize, PadRequest, MinChunkSize, Overhead, Alignment
  <2>2. RequestToSize(words) = PadRequest(words)
    BY <1>2 DEF RequestToSize, MinChunkSize, Overhead
  <2>3. (words + 2) % 2 \in {0, 1}
    OBVIOUS
  <2>4. (words + 2) % 2 = 0 => words # 3 
    OBVIOUS
  <2> QED
    BY <1>2, <2>1, <2>2, <2>3, <2>4 DEF MinChunkSize
<1> QED
  BY <1>1, <1>2

\* malloc refuses, and nothing changes, or it gives a chunk that was not in
\* use and is at most a little larger than it need be.
THEOREM MallocAnswers ==
  ASSUME NEW s, NEW n, NEW t, Settled(s, n, t), NEW words \in Nat
  PROVE  Answers(s, n, t, MspaceMalloc(s, words), RequestToSize(words))
<1> DEFINE nb == RequestToSize(words)
<1>1. /\ nb \in Nat /\ nb >= MinChunkSize
      /\ words >= 3 => nb = PadRequest(words) /\ nb <= words + 2
      /\ words < 3 => nb = 4
  BY RequestsArePadded DEF RequestToSize, MinChunkSize, Overhead
<1>2. NSmallbins \in Nat /\ NSmallbins >= 8 /\ NSmallbins <= 2^SizeBits
  <2>1. TreebinShift \in Nat /\ SizeBits \in Nat /\ TreebinShift <= SizeBits
    BY SmallbinsAreNumbered, BinsAssumption, LimitAssumption
  <2>2. 2^TreebinShift <= 2^SizeBits
    BY <2>1, PowersIncrease
  <2> QED
    BY <2>2, SmallbinsAreNumbered DEF NSmallbins
<1>3. 2^SizeBits \in Nat
  BY LimitAssumption
<1> HIDE DEF nb
<1>4. CASE words <= MaxSmallRequest
  <2>1. nb < NSmallbins
    BY <1>1, <1>2, <1>4 DEF MaxSmallRequest, Alignment, Overhead
  <2>2. nb \in Sizes /\ IsSmall(nb)
    BY <1>1, <1>2, <1>3, <2>1 DEF Sizes, MaxSizeT, IsSmall
  <2>3. MspaceMalloc(s, words) = MallocSmall(s, nb)
    BY <1>4 DEF MspaceMalloc, nb
  <2> QED
    BY <1>1, <2>2, <2>3, MallocSmallAnswers DEF nb
<1>5. CASE ~(words <= MaxSmallRequest) /\ words >= MaxRequest
  <2>1. MspaceMalloc(s, words) = FromDvOrTop(s, MaxSizeT)
    BY <1>5 DEF MspaceMalloc
  <2>2. MaxSizeT \in Sizes /\ MaxSizeT >= MinChunkSize
    BY <1>2, <1>3 DEF Sizes, MaxSizeT, MinChunkSize
  <2>3. FromDvOrTop(s, MaxSizeT) = Refused(s)
    BY <2>2, FromDvOrTopAnswers
  <2> QED
    BY <2>1, <2>3 DEF Answers
<1>6. CASE ~(words <= MaxSmallRequest) /\ ~(words >= MaxRequest)
  <2>1. words >= 3
    BY <1>2, <1>6 DEF MaxSmallRequest, Alignment, Overhead
  <2>2. nb \in Sizes
    BY <1>1, <1>3, <1>6, <2>1 DEF MaxRequest, MinChunkSize, Sizes, MaxSizeT
  <2>3. MspaceMalloc(s, words) = MallocLarge(s, nb)
    BY <1>1, <1>6, <2>1 DEF MspaceMalloc
  <2> QED
    BY <1>1, <2>2, <2>3, MallocLargeAnswers DEF nb
<1> QED
  BY <1>4, <1>5, <1>6

------------------------------------------------------------------------------
(* free.                                                                    *)

\* Where one free chunk shall be: at a in front of the used one at b.
Region(s, n, t, g, l, a, b) ==
  /\ Heap(s, n, t, g, l) /\ a \in t \ {0} /\ b \in t /\ a < b
  /\ l \subseteq a..(b - 1) /\ g \cap (a..(b - 1)) = {}
  /\ PrevUsed(s.word, a) /\ Used(s.word, b)

\* The words from a to b are one free chunk.
FreeWords(w, x, n, a, b) ==
  /\ Same(w, x, n, a + 1 .. b + 1)
  /\ UnusedChunk(x, a, b - a) /\ PrevUsed(x, a) /\ x[b] = Foot(b - a)
  /\ SameBehind(w, x, b) /\ ~PrevUsed(x, b)

\* The words of a free chunk, when the next already knows.
LEMMA FreeInFrontOfFree ==
  ASSUME NEW n \in Nat, NEW s \in Spaces(n), NEW a \in Nat, NEW b \in Nat,
         a + 2 <= b, b + 1 < n, ~PrevUsed(s.word, b),
         NEW size, size = b - a
  PROVE  LET u == SetSizeAndPinuseOfFreeChunk(s, a, size)
         IN  /\ u \in Spaces(n) /\ OnlyWords(s, u)
             /\ FreeWords(s.word, u.word, n, a, b)
<1> DEFINE u == SetSizeAndPinuseOfFreeChunk(s, a, size)
<1>1. size \in Nat /\ size >= 2 /\ a + size < n /\ a + size = b
  OBVIOUS
<1>2. /\ u \in Spaces(n) /\ OnlyWords(s, u)
      /\ UnusedChunk(u.word, a, size) /\ PrevUsed(u.word, a)
      /\ u.word[a + size] = Foot(size)
      /\ Same(s.word, u.word, n, a + 1 .. a + size)
  BY <1>1, FreeIsSet
<1> HIDE DEF u
<1>3. Same(s.word, u.word, n, a + 1 .. b + 1) /\ u.word[b + 1] = s.word[b + 1]
  BY <1>1, <1>2 DEF Same
<1>4. SameBehind(s.word, u.word, b) /\ ~PrevUsed(u.word, b)
  BY <1>3 DEF SameBehind, Used, PrevUsed
<1>5. u.word[b] = Foot(size)
  BY <1>1, <1>2
<1>6. FreeWords(s.word, u.word, n, a, b)
  BY <1>2, <1>3, <1>4, <1>5 DEF FreeWords
<1> QED
  BY <1>2, <1>6 DEF u

\* The words of a free chunk, when the next has to be told.
LEMMA FreeInFrontOfUsed ==
  ASSUME NEW n \in Nat, NEW s \in Spaces(n), NEW a \in Nat, NEW b \in Nat,
         a + 2 <= b, b + 1 < n, NEW size, size = b - a
  PROVE  LET u == SetFreeWithPinuse(s, a, size, b)
         IN  /\ u \in Spaces(n) /\ OnlyWords(s, u)
             /\ FreeWords(s.word, u.word, n, a, b)
<1> DEFINE r == ClearPinuse(s, b)
           u == SetSizeAndPinuseOfFreeChunk(r, a, size)
<1>1. /\ r \in Spaces(n) /\ OnlyWords(s, r)
      /\ SameBehind(s.word, r.word, b) /\ ~PrevUsed(r.word, b)
      /\ Same(s.word, r.word, n, {b + 1})
  BY PinuseIsCleared
<1> HIDE DEF r
<1>2. /\ u \in Spaces(n) /\ OnlyWords(r, u)
      /\ FreeWords(r.word, u.word, n, a, b)
  BY <1>1, FreeInFrontOfFree
<1> HIDE DEF u
<1>3. OnlyWords(s, u)
  BY <1>1, <1>2 DEF OnlyWords, SameBins, SameDv, SameTop, SameLimit
<1>4. Same(s.word, u.word, n, a + 1 .. b + 1)
  BY <1>1, <1>2 DEF FreeWords, Same
<1>5. SameBehind(s.word, u.word, b)
  BY <1>1, <1>2 DEF FreeWords, SameBehind
<1>6. FreeWords(s.word, u.word, n, a, b)
  BY <1>2, <1>4, <1>5 DEF FreeWords
<1> QED
  BY <1>2, <1>3, <1>6 DEF u, r, SetFreeWithPinuse

\* A call ends with all free chunks in their place.
Ended(w, t, u, n, gone, new) ==
  \E d : Settled(u, n, d) /\ Changes(w, t, u.word, d, gone, new)

\* The one free chunk is dv, or it comes into a bin.
LEMMA FreeIsDv ==
  ASSUME NEW s, NEW n, NEW t, NEW g, NEW l, NEW a, NEW b,
         Region(s, n, t, g, l, a, b), NEW u \in Spaces(n),
         SameBins(s, u), SameLimit(s, u), SameTop(s, u),
         FreeWords(s.word, u.word, n, a, b),
         u.dv = a, u.dvsize = b - a, s.dvsize = 0 \/ s.dv \in a..(b - 1)
  PROVE  Ended(s.word, t, u, n, a..(b - 1), {})
<1>1. /\ Heap(s, n, t, g, l) /\ a \in t \ {0} /\ b \in t /\ a < b
      /\ l \subseteq a..(b - 1) /\ g \cap (a..(b - 1)) = {}
      /\ PrevUsed(s.word, a) /\ Used(s.word, b)
  BY DEF Region
<1>2. /\ Same(s.word, u.word, n, a + 1 .. b + 1)
      /\ UnusedChunk(u.word, a, b - a) /\ PrevUsed(u.word, a)
      /\ u.word[b] = Foot(b - a)
      /\ SameBehind(s.word, u.word, b) /\ ~PrevUsed(u.word, b)
  BY DEF FreeWords
<1>3. a \in Nat /\ b \in Nat /\ b - a >= 4 /\ a # s.top
  BY <1>1, BeforeTop
<1>4. DvMoves(s, u, a, b, {a})
  <2>1. u.dv # u.top /\ u.dvsize # 0
    BY <1>3 DEF SameTop
  <2>2. ~Used(u.word, u.dv) /\ Size(u.word, u.dv) = u.dvsize
    BY <1>2 DEF UnusedChunk
  <2> QED
    BY <2>1, <2>2 DEF DvMoves
<1> DEFINE d == Replaced(t, a, b, {a})
<1>5. /\ Heap(u, n, Replaced(t, a, b, {a}), g, UnlessDv(u, a))
      /\ Changes(s.word, t, u.word, Replaced(t, a, b, {a}), a..(b - 1), {})
  BY <1>1, <1>2, <1>3, <1>4, BecomesFree
<1>6. Settled(u, n, d) /\ Changes(s.word, t, u.word, d, a..(b - 1), {})
  BY <1>5 DEF Settled, UnlessDv
<1> HIDE DEF d
<1> QED
  BY <1>6 DEF Ended

\* The words between a and b become one free chunk in its bin.
LEMMA FreeIsListed ==
  ASSUME NEW s, NEW n, NEW t, NEW g, NEW l, NEW a, NEW b,
         Region(s, n, t, g, l, a, b), NEW u \in Spaces(n), OnlyWords(s, u),
         FreeWords(s.word, u.word, n, a, b), s.dv # a,
         s.dv \notin a..(b - 1), NEW size, size = b - a
  PROVE  Ended(s.word, t, InsertChunk(u, a, size), n, a..(b - 1), {})
<1>1. /\ Heap(s, n, t, g, l) /\ a \in t \ {0} /\ b \in t /\ a < b
      /\ l \subseteq a..(b - 1) /\ g \cap (a..(b - 1)) = {}
      /\ PrevUsed(s.word, a) /\ Used(s.word, b)
  BY DEF Region
<1>2. /\ Same(s.word, u.word, n, a + 1 .. b + 1)
      /\ UnusedChunk(u.word, a, b - a) /\ PrevUsed(u.word, a)
      /\ u.word[b] = Foot(b - a)
      /\ SameBehind(s.word, u.word, b) /\ ~PrevUsed(u.word, b)
  BY DEF FreeWords
<1>3. a \in Nat /\ b \in Nat /\ b - a >= 4 /\ a # s.top
  BY <1>1, BeforeTop
<1>4. /\ SameBins(s, u) /\ SameLimit(s, u) /\ SameTop(s, u)
      /\ SameDv(s, u) /\ u.dv # a
  BY DEF OnlyWords, SameDv
<1>5. DvMoves(s, u, a, b, {a})
  BY <1>4 DEF DvMoves
<1> DEFINE d == Replaced(t, a, b, {a})
           x == InsertChunk(u, a, size)
<1>6. /\ Heap(u, n, Replaced(t, a, b, {a}), g, UnlessDv(u, a))
      /\ Changes(s.word, t, u.word, Replaced(t, a, b, {a}), a..(b - 1), {})
  BY <1>1, <1>2, <1>3, <1>4, <1>5, BecomesFree
<1>7. Holding(u, n, d, g, a) /\ Changes(s.word, t, u.word, d, a..(b - 1), {})
  BY <1>4, <1>6 DEF Holding, UnlessDv
<1>8. size = Size(u.word, a)
  BY <1>2 DEF UnusedChunk
<1> HIDE DEF d, x
<1>9. Settled(x, n, d) /\ Changes(u.word, d, x.word, d, {}, {})
  BY <1>7, <1>8, InsertSettles DEF x
<1>10. Changes(s.word, t, x.word, d, a..(b - 1), {})
  BY <1>7, <1>9, ThenNothing
<1> QED
  BY <1>9, <1>10 DEF Ended, x

\* What is said of chunks in use does not depend on the free ones beside them.
LEMMA OnlyUsedGo ==
  ASSUME NEW w, NEW t, NEW u, NEW n, NEW gone, NEW new,
         Ended(w, t, u, n, gone, new), NEW lost,
         \A q \in t : Used(w, q) => (q \in gone <=> q \in lost)
  PROVE  Ended(w, t, u, n, lost, new)
<1>1. PICK d : Settled(u, n, d) /\ Changes(w, t, u.word, d, gone, new)
  BY DEF Ended
<1>2. Users(w, t) \ gone = Users(w, t) \ lost
  BY DEF Users
<1>3. Changes(w, t, u.word, d, lost, new)
  BY <1>1, <1>2 DEF Changes
<1> QED
  BY <1>1, <1>3 DEF Ended

\* All is to be free from start to next, which is found out about now.
Merging(s, n, t, g, l, start, next) ==
  /\ Heap(s, n, t, g, l) /\ start \in t \ {0} /\ next \in t /\ start < next
  /\ l \subseteq start..(next - 1) /\ g \cap (start..(next - 1)) = {}
  /\ PrevUsed(s.word, start)
  /\ s.dv \in start..(next - 1) => s.dv = start
  /\ Used(s.word, next) => s.dv # start

\* The free chunk after it.
FreeNext(s, n, t, g, l, start, next, b) ==
  /\ start \in Nat /\ next \in Nat /\ b \in Nat /\ n \in Nat
  /\ b \in t /\ next < b /\ start + 4 <= next /\ b + 1 < n
  /\ Used(s.word, b) /\ ~PrevUsed(s.word, b) /\ s \in Spaces(n)
  /\ \A q \in t : q \in start..(b - 1) => q \in start..(next - 1) \/ q = next

\* The chunk after those in hand is free and has one in use behind it.
LEMMA NextIsFree ==
  ASSUME NEW s, NEW n, NEW t, NEW g, NEW l, NEW start, NEW next,
         Merging(s, n, t, g, l, start, next), ~Used(s.word, next),
         next # s.top, NEW b, b = next + Size(s.word, next)
  PROVE  FreeNext(s, n, t, g, l, start, next, b)
<1>1. /\ Heap(s, n, t, g, l) /\ start \in t \ {0} /\ next \in t /\ start < next
  BY DEF Merging
<1> DEFINE size == Size(s.word, next)
<1>2. /\ next \in Nat /\ n \in Nat /\ size \in Nat \ {0} /\ b \in t
      /\ Ends(s.word, next, b, End(n))
  BY <1>1, ChunkFacts
<1>3. Used(s.word, b)
  BY <1>1, FreeAreApart
<1>4. ~PrevUsed(s.word, b)
  BY <1>2 DEF Ends, Used, PrevUsed
<1>5. start \in Nat /\ next - start >= 4 /\ s \in Spaces(n)
  BY <1>1, BeforeTop
<1>6. b \in Nat /\ next < b
  BY <1>2
<1>7. b < End(n) /\ End(n) + 4 <= n /\ End(n) \in Nat
  BY <1>1, <1>2, <1>6, BeforeTop
<1>8. \A q \in t : next < q => b <= q
  BY <1>1 DEF Heap, Tiled
<1>9. t \subseteq Nat
  BY <1>1 DEF Heap, Tiled
<1>10. \A q \in t : q \in start..(b - 1) => q \in start..(next - 1) \/ q = next
  BY <1>2, <1>5, <1>6, <1>8, <1>9
<1> QED
  BY <1>2, <1>3, <1>4, <1>5, <1>6, <1>7, <1>10 DEF FreeNext

\* A free chunk that is merged is no loss to any owner.
LEMMA FreeNextIsGone ==
  ASSUME NEW s, NEW n, NEW t, NEW g, NEW l, NEW start, NEW next, NEW b,
         FreeNext(s, n, t, g, l, start, next, b), ~Used(s.word, next),
         NEW u, Ended(s.word, t, u, n, start..(b - 1), {})
  PROVE  Ended(s.word, t, u, n, start..(next - 1), {})
<1>1. \A q \in t : Used(s.word, q) =>
                     (q \in start..(b - 1) <=> q \in start..(next - 1))
  BY DEF FreeNext
<1> DEFINE gone == start..(b - 1)
           lost == start..(next - 1)
<1>2. \A q \in t : Used(s.word, q) => (q \in gone <=> q \in lost)
  BY <1>1
<1> HIDE DEF gone, lost
<1>3. Ended(s.word, t, u, n, gone, {})
  BY DEF gone
<1>4. Ended(s.word, t, u, n, lost, {})
  BY <1>2, <1>3, OnlyUsedGo
<1> QED
  BY <1>4 DEF lost

\* Freeing in front of a chunk in use.
LEMMA FreedBeforeUsed ==
  ASSUME NEW s, NEW n, NEW t, NEW g, NEW l, NEW start, NEW next,
         Merging(s, n, t, g, l, start, next), Used(s.word, next),
         NEW size, size = next - start
  PROVE  Ended(s.word, t, ConsolidateForward(s, start, size, next), n,
               start..(next - 1), {})
<1>1. /\ Heap(s, n, t, g, l) /\ start \in t \ {0} /\ next \in t /\ start < next
      /\ s.dv \notin start..(next - 1) /\ s.dv # start
  BY DEF Merging
<1>2. Region(s, n, t, g, l, start, next)
  BY <1>1 DEF Merging, Region
<1>3. /\ start \in Nat /\ next \in Nat /\ n \in Nat /\ s \in Spaces(n)
      /\ next < End(n) /\ End(n) + 4 <= n /\ End(n) \in Nat /\ next - start >= 4
  BY <1>1, BeforeTop
<1>4. start + 2 <= next /\ next + 1 < n
  BY <1>3
<1> DEFINE u == SetFreeWithPinuse(s, start, size, next)
<1>5. /\ u \in Spaces(n) /\ OnlyWords(s, u)
      /\ FreeWords(s.word, u.word, n, start, next)
  BY <1>3, <1>4, FreeInFrontOfUsed
<1>6. ConsolidateForward(s, start, size, next) = InsertChunk(u, start, size)
  BY DEF ConsolidateForward, Cinuse, Used
<1> HIDE DEF u
<1>7. Ended(s.word, t, InsertChunk(u, start, size), n, start..(next - 1), {})
  BY <1>1, <1>2, <1>5, FreeIsListed
<1> QED
  BY <1>6, <1>7

\* Freeing in front of the designated victim, which grows.
LEMMA FreedBeforeDv ==
  ASSUME NEW s, NEW n, NEW t, NEW g, NEW l, NEW start, NEW next,
         Merging(s, n, t, g, l, start, next), next = s.dv,
         NEW size, size = next - start
  PROVE  Ended(s.word, t, ConsolidateForward(s, start, size, next), n,
               start..(next - 1), {})
<1> DEFINE b == next + Size(s.word, next)
<1>1. /\ Heap(s, n, t, g, l) /\ start \in t \ {0} /\ next \in t /\ start < next
      /\ l \subseteq start..(next - 1) /\ g \cap (start..(next - 1)) = {}
      /\ PrevUsed(s.word, start) /\ next # 0
  <2>1. t \subseteq Nat
    BY DEF Merging, Heap, Tiled
  <2> QED
    BY <2>1 DEF Merging
<1>2. /\ ~Used(s.word, next) /\ next # s.top /\ Size(s.word, next) = s.dvsize
      /\ next \notin g
  BY <1>1 DEF Heap, DvHolds
<1>3. FreeNext(s, n, t, g, l, start, next, b)
  BY <1>2, NextIsFree
<1> HIDE DEF b
<1>4. /\ start \in Nat /\ next \in Nat /\ b \in Nat /\ n \in Nat
      /\ b \in t /\ next < b /\ start + 4 <= next /\ b + 1 < n
      /\ Used(s.word, b) /\ ~PrevUsed(s.word, b) /\ s \in Spaces(n)
      /\ \A q \in t : q \in start..(b - 1) => q \in start..(next - 1) \/ q = next
  BY <1>3 DEF FreeNext
<1>5. g \subseteq t
  BY <1>1 DEF Heap
<1>6. l \subseteq start..(b - 1) /\ g \cap (start..(b - 1)) = {} /\ start < b
      /\ next \in start..(b - 1)
  BY <1>1, <1>2, <1>4, <1>5
<1>7. Region(s, n, t, g, l, start, b)
  BY <1>1, <1>4, <1>6 DEF Region
<1>8. s.dvsize \in Nat /\ b = next + s.dvsize
  BY <1>2, <1>4 DEF Spaces, b
<1> DEFINE all == s.dvsize + size
           r == SetSizeAndPinuseOfFreeChunk(s, start, all)
           u == [r EXCEPT !.dv = start, !.dvsize = @ + size]
<1>9. all = b - start /\ start + 2 <= b /\ all \in Nat
  BY <1>4, <1>8
<1>10. ConsolidateForward(s, start, size, next) = u
  BY <1>2 DEF ConsolidateForward, Cinuse, Used, IntoDv
<1> HIDE DEF all
<1>11. /\ r \in Spaces(n) /\ OnlyWords(s, r)
       /\ FreeWords(s.word, r.word, n, start, b)
  BY <1>4, <1>9, FreeInFrontOfFree
<1> HIDE DEF r
<1>12. r.dvsize + size = all
  BY <1>11 DEF OnlyWords, SameDv, all
<1>13. u = [r EXCEPT !.dv = start, !.dvsize = all]
  BY <1>12
<1> HIDE DEF u
<1>14. /\ u \in Spaces(n) /\ u.dv = start /\ u.dvsize = all
       /\ u.word = r.word /\ SameBins(r, u) /\ SameLimit(r, u) /\ SameTop(r, u)
  BY <1>4, <1>9, <1>11, <1>13 DEF Spaces, SameBins, SameLimit, SameTop
<1>15. SameBins(s, u) /\ SameLimit(s, u) /\ SameTop(s, u)
  BY <1>11, <1>14 DEF OnlyWords, SameBins, SameLimit, SameTop
<1>16. FreeWords(s.word, u.word, n, start, b) /\ u.dvsize = b - start
       /\ s.dv \in start..(b - 1)
  BY <1>6, <1>9, <1>11, <1>14
<1>17. Ended(s.word, t, u, n, start..(b - 1), {})
  BY <1>7, <1>14, <1>15, <1>16, FreeIsDv
<1> QED
  BY <1>2, <1>3, <1>10, <1>17, FreeNextIsGone

\* Freeing in front of a free chunk, which leaves its bin.
LEMMA FreedBeforeListed ==
  ASSUME NEW s, NEW n, NEW t, NEW g, NEW l, NEW start, NEW next,
         Merging(s, n, t, g, l, start, next), ~Used(s.word, next),
         next # s.top, next # s.dv, NEW size, size = next - start
  PROVE  Ended(s.word, t, ConsolidateForward(s, start, size, next), n,
               start..(next - 1), {})
<1> DEFINE b == next + Size(s.word, next)
           nsize == Size(s.word, next)
           x == UnlinkChunk(s, next, nsize)
           h == Less(g, next)
           m == Plus(l, next)
<1>1. /\ Heap(s, n, t, g, l) /\ start \in t \ {0} /\ next \in t /\ start < next
      /\ l \subseteq start..(next - 1) /\ g \cap (start..(next - 1)) = {}
      /\ PrevUsed(s.word, start)
      /\ s.dv \in start..(next - 1) => s.dv = start
  BY DEF Merging
<1>2. FreeNext(s, n, t, g, l, start, next, b)
  BY NextIsFree
<1>3. /\ start \in Nat /\ next \in Nat /\ b \in Nat /\ n \in Nat
      /\ b \in t /\ next < b /\ start + 4 <= next /\ b + 1 < n
      /\ Used(s.word, b) /\ ~PrevUsed(s.word, b) /\ s \in Spaces(n)
      /\ \A q \in t : q \in start..(b - 1) => q \in start..(next - 1) \/ q = next
  BY <1>2 DEF FreeNext
<1>4. nsize \in Nat /\ b = next + nsize
  BY <1>1, ChunkFacts
<1>5. next \in g
  <2>1. next \in g \cup l
    BY <1>1 DEF Heap
  <2>2. next \notin start..(next - 1)
    BY <1>3
  <2> QED
    BY <1>1, <2>1, <2>2
<1>6. Heap(x, n, t, h, m) /\ x \in Spaces(n) /\ OnlyBins(s, x)
  BY <1>1, <1>5, ChunkUnlinked
<1>7. s.dv # 0 => s.dv \in t
  BY <1>1 DEF Heap, DvHolds
<1>8. g \subseteq t
  BY <1>1 DEF Heap
<1> DEFINE all == size + nsize
           r == SetSizeAndPinuseOfFreeChunk(x, start, all)
           u == KeepFree(r, start, all)
<1>9. ConsolidateForward(s, start, size, next) = u
  BY DEF ConsolidateForward, WithNext, Cinuse, Used, ChunkSize, Size
<1> HIDE DEF b, nsize, x, h, m
<1>10. all = b - start /\ all \in Nat /\ start + 2 <= b
  BY <1>3, <1>4
<1> HIDE DEF all
<1>11. start < b /\ m \subseteq start..(b - 1) /\ h \cap (start..(b - 1)) = {}
  <2>1. \A q \in h : q \in g /\ q # next
    BY DEF h, Less
  <2>2. \A q \in m : q \in l \/ q = next
    BY DEF m, Plus
  <2>3. start < b /\ next \in start..(b - 1)
    BY <1>3
  <2>4. \A q \in start..(next - 1) : q \in start..(b - 1)
    BY <1>3
  <2>5. m \subseteq start..(b - 1)
    BY <1>1, <2>2, <2>3, <2>4
  <2>6. ASSUME NEW q \in h, q \in start..(b - 1) PROVE FALSE
    <3>1. q \in g /\ q # next /\ q \in t
      BY <1>8, <2>1
    <3>2. q \in start..(next - 1)
      BY <1>3, <2>6, <3>1
    <3> QED
      BY <1>1, <3>1, <3>2
  <2> QED
    BY <2>3, <2>5, <2>6
<1>12. x.word = s.word /\ x.dv = s.dv
  BY <1>6 DEF OnlyBins, SameDv
<1>13. Region(x, n, t, h, m, start, b)
  BY <1>1, <1>3, <1>6, <1>11, <1>12 DEF Region
<1>14. /\ r \in Spaces(n) /\ OnlyWords(x, r)
       /\ FreeWords(x.word, r.word, n, start, b)
  BY <1>3, <1>6, <1>10, <1>12, FreeInFrontOfFree
<1> HIDE DEF r
<1>15. r.dv = s.dv
  BY <1>12, <1>14 DEF OnlyWords, SameDv
<1>16. s.dv \in start..(b - 1) => s.dv = start
  <2>1. s.dv \in start..(b - 1) => s.dv # 0
    BY <1>1, <1>3
  <2> QED
    BY <1>1, <1>3, <1>7, <2>1
<1>17. CASE start = s.dv
  <2>1. u = [r EXCEPT !.dvsize = all]
    BY <1>15, <1>17 DEF KeepFree
  <2> HIDE DEF u
  <2>2. /\ u \in Spaces(n) /\ u.dv = start /\ u.dvsize = all
        /\ u.word = r.word /\ SameBins(r, u) /\ SameLimit(r, u) /\ SameTop(r, u)
    BY <1>10, <1>14, <1>15, <1>17, <2>1 DEF Spaces, SameBins, SameLimit, SameTop
  <2>3. SameBins(x, u) /\ SameLimit(x, u) /\ SameTop(x, u)
    BY <1>14, <2>2 DEF OnlyWords, SameBins, SameLimit, SameTop
  <2>4. FreeWords(x.word, u.word, n, start, b) /\ u.dvsize = b - start
        /\ x.dv \in start..(b - 1)
    BY <1>3, <1>10, <1>11, <1>12, <1>14, <1>17, <2>2
  <2>5. Ended(x.word, t, u, n, start..(b - 1), {})
    BY <1>13, <2>2, <2>3, <2>4, FreeIsDv
  <2>6. Ended(s.word, t, u, n, start..(b - 1), {})
    BY <1>12, <2>5
  <2> QED
    BY <1>2, <1>9, <2>6, FreeNextIsGone
<1>18. CASE start # s.dv
  <2>1. u = InsertChunk(r, start, all)
    BY <1>15, <1>18 DEF KeepFree
  <2> HIDE DEF u
  <2>2. x.dv # start /\ x.dv \notin start..(b - 1)
    BY <1>12, <1>16, <1>18
  <2>3. Ended(x.word, t, InsertChunk(r, start, all), n, start..(b - 1), {})
    BY <1>10, <1>13, <1>14, <2>2, FreeIsListed
  <2>4. Ended(s.word, t, u, n, start..(b - 1), {})
    BY <1>12, <2>1, <2>3
  <2> QED
    BY <1>2, <1>9, <2>4, FreeNextIsGone
<1> QED
  BY <1>17, <1>18

\* Freeing in front of top, which grows.
LEMMA FreedBeforeTop ==
  ASSUME NEW s, NEW n, NEW t, NEW g, NEW l, NEW start, NEW next,
         Merging(s, n, t, g, l, start, next), next = s.top,
         NEW size, size = next - start
  PROVE  Ended(s.word, t, ConsolidateForward(s, start, size, next), n,
               start..(next - 1), {})
<1> DEFINE end == End(n)
           all == s.topsize + size
           r == SetTop(s, start, all)
           u == [r EXCEPT !.dv = IF start = s.dv THEN 0 ELSE @,
                          !.dvsize = IF start = s.dv THEN 0 ELSE @]
<1>1. /\ Heap(s, n, t, g, l) /\ start \in t \ {0} /\ next \in t /\ start < next
      /\ l \subseteq start..(next - 1) /\ g \cap (start..(next - 1)) = {}
      /\ PrevUsed(s.word, start)
      /\ s.dv \in start..(next - 1) => s.dv = start
  BY DEF Merging
<1>2. /\ next \in Nat /\ s.topsize \in Nat \ {0}
      /\ next + s.topsize = end /\ ~Used(s.word, next)
      /\ next \notin g \cup l /\ end + 4 <= n /\ n \in Nat
      /\ s \in Spaces(n) /\ end \in Nat
      /\ \A p \in t : p # next => p < next /\ p \in Nat
      /\ s.dvsize # 0 => s.dv < next
      /\ s.dvsize = 0 => s.dv = 0
  BY <1>1, TopFacts
<1>3. ConsolidateForward(s, start, size, next) = u
  BY <1>2 DEF ConsolidateForward, IntoTop, Cinuse, Used
<1>4. g \subseteq t
  BY <1>1 DEF Heap
<1>e. end = End(n)
  OBVIOUS
<1> HIDE DEF end
<1>5. start \in Nat
  BY <1>1, <1>2
<1>6. all \in Nat /\ start + all = end /\ all = end - start /\ start + 1 < n
      /\ start < end
  BY <1>1, <1>2, <1>5
<1> HIDE DEF all
<1>7. /\ r \in Spaces(n) /\ OnlyWordsAndTop(s, r)
      /\ r.top = start /\ r.topsize = all
      /\ UnusedChunk(r.word, start, all) /\ PrevUsed(r.word, start)
      /\ Same(s.word, r.word, n, {start + 1} \cup (start + 1 .. start + all - 1))
  <2>1. n \in Nat /\ s \in Spaces(n) /\ start + 1 < n /\ all \in Nat
    BY <1>2, <1>6
  <2> QED
    BY <1>5, <2>1, TopIsSet
<1> HIDE DEF r
<1>8. /\ u \in Spaces(n) /\ u.word = r.word /\ u.top = start /\ u.topsize = all
      /\ SameBins(r, u) /\ SameLimit(r, u)
      /\ start = s.dv => u.dv = 0 /\ u.dvsize = 0
      /\ start # s.dv => SameDv(r, u)
  BY <1>7 DEF Spaces, SameBins, SameLimit, SameDv
<1> HIDE DEF u
<1>9. /\ SameBins(s, u) /\ SameLimit(s, u)
      /\ start # s.dv => SameDv(s, u)
  BY <1>7, <1>8 DEF OnlyWordsAndTop, SameBins, SameLimit, SameDv
<1>10. DvMoves(s, u, start, end, {})
  <2>1. CASE start = s.dv
    <3>1. s.dv \in start..(end - 1)
      BY <1>5, <1>6, <2>1
    <3> QED
      BY <1>8, <2>1, <3>1 DEF DvMoves
  <2>2. CASE start # s.dv
    <3>1. s.dv \notin start..(end - 1)
      <4>1. s.dv \in Nat
        BY <1>2 DEF Spaces
      <4> QED
        BY <1>1, <1>2, <1>5, <2>2, <4>1
    <3> QED
      BY <1>9, <2>2, <3>1 DEF DvMoves
  <2> QED
    BY <2>1, <2>2
<1>11. Same(s.word, u.word, n, start + 1 .. end)
  <2>1. \A i \in 0..(n - 1) : i \notin start + 1 .. end =>
          i \notin {start + 1} \cup (start + 1 .. start + all - 1)
    BY <1>2, <1>5, <1>6
  <2> QED
    BY <1>7, <1>8, <2>1 DEF Same
<1>12. l \subseteq start..(end - 1)
  <2>1. \A q \in start..(next - 1) : q \in start..(end - 1)
    BY <1>2, <1>5
  <2> QED
    BY <1>1, <2>1
<1>13. g \cap (start..(end - 1)) = {}
  <2>1. ASSUME NEW q \in g, q \in start..(end - 1) PROVE FALSE
    <3>1. q < next /\ q \in Nat
      BY <1>2, <1>4
    <3>2. q \in start..(next - 1)
      BY <1>2, <1>5, <2>1, <3>1
    <3> QED
      BY <1>1, <3>2
  <2> QED
    BY <2>1
<1>14. /\ UnusedChunk(u.word, start, end - start) /\ PrevUsed(u.word, start)
       /\ u.top = start /\ u.topsize = end - start
  BY <1>6, <1>7, <1>8
<1> DEFINE d == Replaced(t, start, end, {start})
<1>15. Heap(u, n, d, g, {}) /\ Changes(s.word, t, u.word, d, start..(end - 1), {})
  <2> HIDE DEF d
  <2>1. /\ Heap(u, n, Replaced(t, start, End(n), {start}), g, {})
        /\ Changes(s.word, t, u.word, Replaced(t, start, End(n), {start}),
                   start..(End(n) - 1), {})
    BY <1>1, <1>8, <1>9, <1>10, <1>11, <1>12, <1>13, <1>14, <1>e, BecomesTop
  <2> QED
    BY <2>1, <1>e DEF d
<1> DEFINE gone == start..(end - 1)
           lost == start..(next - 1)
<1>16. Ended(s.word, t, u, n, gone, {})
  <2> HIDE DEF d
  <2> QED
    BY <1>15 DEF Ended, Settled
<1>17. \A q \in t : Used(s.word, q) => (q \in gone <=> q \in lost)
  BY <1>2, <1>5
<1> HIDE DEF gone, lost
<1>18. Ended(s.word, t, u, n, lost, {})
  BY <1>16, <1>17, OnlyUsedGo
<1> QED
  BY <1>3, <1>18 DEF lost

\* The forward half of free, whatever the next chunk is.
LEMMA ForwardConsolidated ==
  ASSUME NEW s, NEW n, NEW t, NEW g, NEW l, NEW start, NEW next,
         Merging(s, n, t, g, l, start, next), NEW size, size = next - start
  PROVE  Ended(s.word, t, ConsolidateForward(s, start, size, next), n,
               start..(next - 1), {})
<1>1. CASE Used(s.word, next)
  BY <1>1, FreedBeforeUsed
<1>2. CASE ~Used(s.word, next) /\ next = s.top
  BY <1>2, FreedBeforeTop
<1>3. CASE ~Used(s.word, next) /\ next # s.top /\ next = s.dv
  BY <1>3, FreedBeforeDv
<1>4. CASE ~Used(s.word, next) /\ next # s.top /\ next # s.dv
  BY <1>4, FreedBeforeListed
<1> QED
  BY <1>1, <1>2, <1>3, <1>4

\* What free finds around a chunk p in use: the free one before it, or itself.
LEMMA StartOf ==
  ASSUME NEW s, NEW n, NEW t, NEW g, NEW l, Heap(s, n, t, g, l),
         NEW p \in t \ {0}, Used(s.word, p),
         NEW start, start = IF Pinuse(s, p) THEN p ELSE p - PrevFoot(s, p)
  PROVE  /\ start \in t \ {0} /\ PrevUsed(s.word, start) /\ start <= p
         /\ start \in Nat /\ p \in Nat /\ start # s.top
         /\ start # p => ~Used(s.word, start) /\ start + Size(s.word, start) = p
<1>1. p \in Nat /\ p # s.top /\ t \subseteq Nat
  BY DEF Heap, Tiled, TopHolds
<1>2. CASE Pinuse(s, p)
  BY <1>1, <1>2 DEF Pinuse, PrevUsed
<1>3. CASE ~Pinuse(s, p)
  <2>1. PICK q \in t : q + Size(s.word, q) = p
    BY DEF Heap, Tiled
  <2>2. /\ q \in Nat /\ Size(s.word, q) \in Nat \ {0}
        /\ Ends(s.word, q, p, End(n))
    BY <2>1, ChunkFacts
  <2>3. p # End(n)
    BY <1>1, ChunkFacts
  <2>4. ~Used(s.word, q) /\ s.word[p] = Foot(Size(s.word, q))
    BY <1>3, <2>2, <2>3 DEF Ends, Pinuse, PrevUsed
  <2>5. PrevFoot(s, p) = Size(s.word, q)
    BY <2>4 DEF PrevFoot, Foot, AWord
  <2>6. start = q
    BY <1>1, <1>3, <2>1, <2>2, <2>5
  <2>7. PrevUsed(s.word, q) /\ q # 0
    BY <2>4, FreeAreApart
  <2>8. q # s.top
    BY <2>1, <2>3 DEF Heap, TopHolds
  <2> QED
    BY <1>1, <2>1, <2>2, <2>4, <2>6, <2>7, <2>8
<1> QED
  BY <1>2, <1>3

\* Around p there are, from start on, two chunks or one.
Around(s, n, t, g, p, start, next) ==
  /\ Heap(s, n, t, g, {}) /\ start \in t \ {0} /\ next \in t /\ p \in t
  /\ start \in Nat /\ p \in Nat /\ next \in Nat /\ start <= p /\ p < next
  /\ PrevUsed(s.word, start) /\ PrevUsed(s.word, next) /\ start # s.top
  /\ Used(s.word, p)
  /\ start # p => ~Used(s.word, start) /\ start + Size(s.word, start) = p
  /\ \A q \in t : q \in start..(next - 1) => q = start \/ q = p
  /\ s.dv \in start..(next - 1) => s.dv = start /\ s.dv # p
  /\ p # s.dv /\ p \notin g
  /\ s \in Spaces(n) /\ n \in Nat /\ start + 4 <= next /\ next + 1 < n

\* What lies around a chunk that is freed: at most one free chunk before it.
LEMMA FoundAround ==
  ASSUME NEW s, NEW n, NEW t, NEW g, Heap(s, n, t, g, {}),
         NEW p \in t \ {0}, Used(s.word, p),
         NEW start, start = IF Pinuse(s, p) THEN p ELSE p - PrevFoot(s, p),
         NEW next, next = p + Size(s.word, p)
  PROVE  Around(s, n, t, g, p, start, next)
<1> DEFINE l == {}
<1>0. Heap(s, n, t, g, l)
  OBVIOUS
<1> HIDE DEF l
<1>1. /\ start \in t \ {0} /\ PrevUsed(s.word, start) /\ start <= p
      /\ start \in Nat /\ p \in Nat /\ start # s.top
      /\ start # p => ~Used(s.word, start) /\ start + Size(s.word, start) = p
  BY <1>0, StartOf
<1>2. p # s.top /\ p # s.dv /\ p \notin g
  BY <1>0 DEF Heap, TopHolds, DvHolds
<1>3. /\ next \in t /\ Size(s.word, p) \in Nat \ {0}
      /\ Ends(s.word, p, next, End(n))
  BY <1>0, <1>2, ChunkFacts
<1>4. PrevUsed(s.word, next)
  BY <1>3 DEF Ends
<1>5. next \in Nat /\ p < next
  BY <1>1, <1>3
<1>6. \A q, r \in t : q < r => q + Size(s.word, q) <= r
  BY <1>0 DEF Heap, Tiled
<1>7. t \subseteq Nat
  BY <1>0 DEF Heap, Tiled
<1>8. ASSUME NEW q \in t, q \in start..(next - 1)
      PROVE  q = start \/ q = p
  <2>1. p < q => next <= q
    BY <1>6
  <2>2. start < q => start + Size(s.word, start) <= q
    BY <1>1, <1>6
  <2> QED
    BY <1>1, <1>5, <1>7, <1>8, <2>1, <2>2
<1>9. s.dv # 0 => s.dv \in t
  BY <1>0 DEF Heap, DvHolds
<1>10. s.dv \in start..(next - 1) => s.dv = start /\ s.dv # p
  BY <1>1, <1>2, <1>8, <1>9
<1>11. /\ n \in Nat /\ s \in Spaces(n) /\ next - start >= 4
       /\ next < End(n) /\ End(n) + 4 <= n /\ End(n) \in Nat
  BY <1>0, <1>1, <1>3, <1>5, BeforeTop
<1>12. start + 4 <= next /\ next + 1 < n
  BY <1>1, <1>5, <1>11
<1> QED
  BY <1>0, <1>1, <1>2, <1>3, <1>4, <1>5, <1>8, <1>10, <1>11, <1>12
     DEF Around, l

\* A freed chunk behind the designated victim and in front of one in use joins
\* dv.
LEMMA DvGrows ==
  ASSUME NEW s, NEW n, NEW t, NEW g, NEW p, NEW start, NEW next,
         Around(s, n, t, g, p, start, next), start = s.dv, Used(s.word, next),
         NEW size, size = next - start
  PROVE  LET u == [SetFreeWithPinuse(s, start, size, next) EXCEPT !.dvsize = size]
         IN  Ended(s.word, t, u, n, start..(next - 1), {})
<1> DEFINE r == SetFreeWithPinuse(s, start, size, next)
           u == [r EXCEPT !.dvsize = size]
           l == {}
<1>1. /\ Heap(s, n, t, g, l) /\ start \in t \ {0} /\ next \in t
      /\ start \in Nat /\ next \in Nat /\ p \in Nat /\ start <= p /\ p < next
      /\ PrevUsed(s.word, start) /\ p \notin g
      /\ \A q \in t : q \in start..(next - 1) => q = start \/ q = p
      /\ s \in Spaces(n) /\ n \in Nat /\ start + 4 <= next /\ next + 1 < n
  BY DEF Around
<1>2. g \subseteq t /\ start \notin g
  BY <1>1 DEF Heap, DvHolds
<1>3. g \cap (start..(next - 1)) = {}
  BY <1>1, <1>2
<1>4. Region(s, n, t, g, l, start, next)
  <2>1. l \subseteq start..(next - 1) /\ start < next
    BY <1>1
  <2> HIDE DEF l
  <2> QED
    BY <1>1, <1>3, <2>1 DEF Region
<1> HIDE DEF l
<1>5. /\ r \in Spaces(n) /\ OnlyWords(s, r)
      /\ FreeWords(s.word, r.word, n, start, next)
  <2>1. start + 2 <= next
    BY <1>1
  <2> QED
    BY <1>1, <2>1, FreeInFrontOfUsed
<1> HIDE DEF r
<1>6. size \in Nat /\ r.dv = start
  BY <1>1, <1>5 DEF OnlyWords, SameDv
<1>7. /\ u \in Spaces(n) /\ u.dv = start /\ u.dvsize = size
      /\ u.word = r.word /\ SameBins(r, u) /\ SameLimit(r, u) /\ SameTop(r, u)
  BY <1>5, <1>6 DEF Spaces, SameBins, SameLimit, SameTop
<1> HIDE DEF u
<1>8. SameBins(s, u) /\ SameLimit(s, u) /\ SameTop(s, u)
  BY <1>5, <1>7 DEF OnlyWords, SameBins, SameLimit, SameTop
<1>9. s.dv \in start..(next - 1)
  BY <1>1
<1>10. FreeWords(s.word, u.word, n, start, next)
  BY <1>5, <1>7
<1>11. Ended(s.word, t, u, n, start..(next - 1), {})
  BY <1>4, <1>7, <1>8, <1>9, <1>10, FreeIsDv
<1> QED
  BY <1>11 DEF u, r

\* Freeing, with the free chunk before it or without.
LEMMA OnesAreMerged ==
  ASSUME NEW s, NEW n, NEW t, NEW g, NEW p, NEW start, NEW next,
         Around(s, n, t, g, p, start, next),
         ~(start = s.dv /\ Used(s.word, next)),
         NEW size, size = next - start, NEW before, before = p - start
  PROVE  LET v == IF start \in {p, s.dv} THEN s ELSE UnlinkChunk(s, start, before)
         IN  Ended(s.word, t, ConsolidateForward(v, start, size, next), n,
                   start..(next - 1), {})
<1> DEFINE l == {}
<1>1. /\ Heap(s, n, t, g, l) /\ start \in t \ {0} /\ next \in t
      /\ start \in Nat /\ next \in Nat /\ p \in Nat /\ start <= p /\ p < next
      /\ PrevUsed(s.word, start) /\ p \notin g /\ start # s.top
      /\ start # p => ~Used(s.word, start) /\ start + Size(s.word, start) = p
      /\ \A q \in t : q \in start..(next - 1) => q = start \/ q = p
      /\ s.dv \in start..(next - 1) => s.dv = start /\ s.dv # p
  BY DEF Around
<1>2. g \subseteq t
  BY <1>1 DEF Heap
<1>3. start < next /\ start \in start..(next - 1)
  BY <1>1
<1>4. CASE start \in {p, s.dv}
  <2>1. start \notin g
    BY <1>1, <1>4 DEF Heap, DvHolds
  <2>2. g \cap (start..(next - 1)) = {} /\ l \subseteq start..(next - 1)
    BY <1>1, <1>2, <2>1
  <2> HIDE DEF l
  <2>3. Merging(s, n, t, g, l, start, next)
    BY <1>1, <1>3, <2>2 DEF Merging
  <2>4. Ended(s.word, t, ConsolidateForward(s, start, size, next), n,
              start..(next - 1), {})
    BY <2>3, ForwardConsolidated
  <2> QED
    BY <1>4, <2>4
<1>5. CASE start \notin {p, s.dv}
  <2> DEFINE v == UnlinkChunk(s, start, before)
             h == Less(g, start)
             m == Plus(l, start)
  <2>1. start \in g
    BY <1>1, <1>5 DEF Heap
  <2>2. Size(s.word, start) \in Nat
    BY <1>1, ChunkFacts
  <2>3. before = Size(s.word, start)
    BY <1>1, <1>5, <2>2
  <2>4. m = {start}
    BY DEF Plus
  <2> HIDE DEF l
  <2>5. Heap(v, n, t, h, m) /\ OnlyBins(s, v)
    BY <1>1, <2>1, <2>3, ChunkUnlinked
  <2> HIDE DEF v
  <2>6. v.word = s.word /\ v.dv = s.dv
    BY <2>5 DEF OnlyBins, SameDv
  <2>7. h \cap (start..(next - 1)) = {}
    BY <1>1, <1>2 DEF Less
  <2>8. m \subseteq start..(next - 1)
    BY <1>3, <2>4
  <2> HIDE DEF h, m
  <2>9. Merging(v, n, t, h, m, start, next)
    BY <1>1, <1>3, <1>5, <2>5, <2>6, <2>7, <2>8 DEF Merging
  <2>10. Ended(v.word, t, ConsolidateForward(v, start, size, next), n,
               start..(next - 1), {})
    BY <2>9, ForwardConsolidated
  <2> QED
    BY <1>5, <2>6, <2>10 DEF v
<1> QED
  BY <1>4, <1>5

\* The chunk p is free afterwards, alone or with its neighbours.
LEMMA ChunkDisposed ==
  ASSUME NEW s, NEW n, NEW t, Settled(s, n, t), NEW p \in t \ {0},
         Used(s.word, p), NEW size, size = Size(s.word, p)
  PROVE  Ended(s.word, t, DisposeChunk(s, p, size), n, {p}, {})
<1> DEFINE start == IF Pinuse(s, p) THEN p ELSE p - PrevFoot(s, p)
           next == p + size
           u == DisposeChunk(s, p, size)
           gone == start..(next - 1)
           lost == {p}
<1>1. PICK g : Heap(s, n, t, g, {})
  BY DEF Settled
<1>2. u = Consolidate(s, start, p, next)
  BY DEF DisposeChunk
<1>3. Around(s, n, t, g, p, start, next)
  BY <1>1, FoundAround
<1> HIDE DEF start, next
<1>4. /\ start \in t /\ p \in t /\ start \in Nat /\ p \in Nat /\ next \in Nat
      /\ start <= p /\ p < next
      /\ start # p => ~Used(s.word, start)
      /\ \A q \in t : q \in start..(next - 1) => q = start \/ q = p
      /\ PrevUsed(s.word, next)
  BY <1>3 DEF Around
<1>5. InuseBits \subseteq s.word[next + 1].bits <=> Used(s.word, next)
  BY <1>4 DEF InuseBits, Used, PrevUsed
<1> DEFINE all == next - start
           before == p - start
           v == IF start \in {p, s.dv} THEN s ELSE UnlinkChunk(s, start, before)
<1>6. CASE start = s.dv /\ Used(s.word, next)
  <2>1. u = [SetFreeWithPinuse(s, start, all, next) EXCEPT !.dvsize = all]
    BY <1>2, <1>5, <1>6 DEF Consolidate
  <2> HIDE DEF u, all, gone
  <2>2. Ended(s.word, t, u, n, start..(next - 1), {})
    BY <1>3, <1>6, <2>1, DvGrows DEF all
  <2> QED
    <3>1. Ended(s.word, t, u, n, gone, {})
      BY <2>2 DEF gone
    <3>2. \A q \in t : Used(s.word, q) => (q \in gone <=> q \in lost)
      BY <1>4 DEF gone
    <3> HIDE DEF lost
    <3>3. Ended(s.word, t, u, n, lost, {})
      BY <3>1, <3>2, OnlyUsedGo
    <3> QED
      BY <3>3 DEF lost, u
<1>7. CASE ~(start = s.dv /\ Used(s.word, next))
  <2>1. u = ConsolidateForward(v, start, all, next)
    BY <1>2, <1>5, <1>7 DEF Consolidate
  <2> HIDE DEF u, gone
  <2>2. Ended(s.word, t, u, n, start..(next - 1), {})
    BY <1>3, <1>7, <2>1, OnesAreMerged
  <2> QED
    <3>1. Ended(s.word, t, u, n, gone, {})
      BY <2>2 DEF gone
    <3>2. \A q \in t : Used(s.word, q) => (q \in gone <=> q \in lost)
      BY <1>4 DEF gone
    <3> HIDE DEF lost
    <3>3. Ended(s.word, t, u, n, lost, {})
      BY <3>1, <3>2, OnlyUsedGo
    <3> QED
      BY <3>3 DEF lost, u
<1> QED
  BY <1>6, <1>7

\* Nothing is released of memory that was handed in.
LEMMA NothingIsTrimmed ==
  ASSUME NEW s, NEW n, NEW t, Settled(s, n, t), NEW topsize
  PROVE  LET u == Trimmed(s, topsize)
         IN  Settled(u, n, t) /\ u.word = s.word
<1> DEFINE u == Trimmed(s, topsize)
<1>1. PICK g : Heap(s, n, t, g, {})
  BY DEF Settled
<1>2. s.extern /\ s \in Spaces(n)
  BY <1>1 DEF Heap
<1>3. u = s \/ u = [s EXCEPT !.trimCheck = MaxSizeT]
  BY <1>2 DEF Trimmed, SysTrim
<1> HIDE DEF u
<1>4. CASE u = s
  BY <1>4 DEF u
<1>5. CASE u = [s EXCEPT !.trimCheck = MaxSizeT]
  <2>1. MaxSizeT \in Nat
    BY LimitAssumption DEF MaxSizeT
  <2>2. /\ u \in Spaces(n) /\ u.word = s.word
        /\ SameBins(s, u) /\ SameDv(s, u) /\ SameTop(s, u) /\ SameLimit(s, u)
    BY <1>2, <1>5, <2>1 DEF Spaces, SameBins, SameDv, SameTop, SameLimit
  <2>3. Heap(u, n, t, g, {})
    BY <1>1, <2>2
       DEF Heap, SameBins, SameDv, SameTop, SameLimit, TopHolds, DvHolds,
           Limited, Listed
  <2> QED
    BY <2>2, <2>3 DEF Settled, u
<1> QED
  BY <1>3, <1>4, <1>5

\* mspace_free: the chunk is no longer in use, every other one is as it was.
THEOREM Freed ==
  ASSUME NEW s, NEW n, NEW t, Settled(s, n, t), NEW p \in t \ {0},
         Used(s.word, p)
  PROVE  Ended(s.word, t, MspaceFree(s, ChunkToMem(p)), n, {p}, {})
<1> DEFINE size == Size(s.word, p)
           x == DisposeChunk(s, p, size)
           u == Trimmed(x, s.topsize)
           gone == {p}
<1>1. p \in Nat
  BY DEF Settled, Heap, Tiled
<1>2. MspaceFree(s, ChunkToMem(p)) = u
  BY <1>1 DEF MspaceFree, FreeChunk, MemToChunk, ChunkToMem, ChunkSize, Size
<1>3. Ended(s.word, t, x, n, gone, {})
  BY ChunkDisposed
<1> HIDE DEF x, gone
<1>4. PICK d : Settled(x, n, d) /\ Changes(s.word, t, x.word, d, gone, {})
  BY <1>3 DEF Ended
<1>5. Settled(u, n, d) /\ u.word = x.word
  BY <1>4, NothingIsTrimmed
<1> HIDE DEF u
<1>6. Ended(s.word, t, u, n, gone, {})
  BY <1>4, <1>5 DEF Ended
<1> QED
  BY <1>2, <1>6 DEF gone

------------------------------------------------------------------------------
(* realloc.                                                                 *)

\* The chunk p has its new size in the same place, and all words that fit.
Resized(w, t, u, n, p, nb) ==
  \E d : /\ Settled(u, n, d) /\ Changes(w, t, u.word, d, {p}, {p})
         /\ Size(u.word, p) - nb \in 0..(MinChunkSize - 1)
         /\ \A a \in p + 2 .. p + Size(w, p) :
              a <= p + Size(u.word, p) => u.word[a] = w[a]

\* Up to b there is nothing but p that is in use.
Grabbed(s, n, t, g, l, p, b) ==
  /\ Heap(s, n, t, g, l) /\ p \in t \ {0} /\ b \in t /\ p < b
  /\ l \subseteq p..(b - 1) /\ g \cap (p..(b - 1)) = {} /\ Used(s.word, p)
  /\ \A q \in t : q \in p..(b - 1) => q = p \/ ~Used(s.word, q)

\* Where a chunk lies whose words and next words realloc has in hand.
LEMMA GrabbedFacts ==
  ASSUME NEW s, NEW n, NEW t, NEW g, NEW l, NEW p, NEW b,
         Grabbed(s, n, t, g, l, p, b)
  PROVE  /\ Heap(s, n, t, g, l) /\ p \in t \ {0} /\ b \in t /\ p < b
         /\ l \subseteq p..(b - 1) /\ g \cap (p..(b - 1)) = {} /\ Used(s.word, p)
         /\ p \in Nat /\ b \in Nat /\ n \in Nat /\ b + 1 < n /\ b - p >= 4
         /\ s \in Spaces(n) /\ Size(s.word, p) \in Nat
         /\ p + Size(s.word, p) <= b /\ t \subseteq Nat
         /\ \A q \in t : Used(s.word, q) => (q \in p..(b - 1) <=> q = p)
<1>1. /\ Heap(s, n, t, g, l) /\ p \in t \ {0} /\ b \in t /\ p < b
      /\ l \subseteq p..(b - 1) /\ g \cap (p..(b - 1)) = {} /\ Used(s.word, p)
      /\ \A q \in t : q \in p..(b - 1) => q = p \/ ~Used(s.word, q)
  BY DEF Grabbed
<1>2. /\ p \in Nat /\ b \in Nat /\ n \in Nat /\ b - p >= 4 /\ s \in Spaces(n)
      /\ b < End(n) /\ End(n) + 4 <= n /\ End(n) \in Nat
  BY <1>1, BeforeTop
<1>3. b + 1 < n
  BY <1>2
<1>4. p + Size(s.word, p) <= b /\ t \subseteq Nat
  BY <1>1 DEF Heap, Tiled
<1>5. Size(s.word, p) \in Nat
  BY <1>1, ChunkFacts
<1>6. p \in p..(b - 1)
  BY <1>1, <1>2
<1> QED
  BY <1>1, <1>2, <1>3, <1>4, <1>5, <1>6

\* All of it becomes the chunk's.
LEMMA AllIsUsed ==
  ASSUME NEW s, NEW n, NEW t, NEW g, NEW l, NEW p, NEW b,
         Grabbed(s, n, t, g, l, p, b), NEW u \in Spaces(n),
         SameBins(s, u), SameLimit(s, u), SameTop(s, u), DvMoves(s, u, p, b, {}),
         u.word = SetInuse(s, p, b - p).word,
         NEW nb \in Nat, nb <= b - p, b - p < nb + MinChunkSize
  PROVE  Resized(s.word, t, u, n, p, nb)
<1> DEFINE size == b - p
           r == SetInuse(s, p, size)
<1>1. /\ Heap(s, n, t, g, l) /\ p \in t \ {0} /\ b \in t /\ p < b
      /\ l \subseteq p..(b - 1) /\ g \cap (p..(b - 1)) = {} /\ Used(s.word, p)
      /\ p \in Nat /\ b \in Nat /\ n \in Nat /\ b + 1 < n /\ b - p >= 4
      /\ s \in Spaces(n) /\ Size(s.word, p) \in Nat
      /\ p + Size(s.word, p) <= b /\ t \subseteq Nat
      /\ \A q \in t : Used(s.word, q) => (q \in p..(b - 1) <=> q = p)
  BY GrabbedFacts
<1>2. size \in Nat \ {0} /\ p + size = b /\ p + size + 1 < n
  BY <1>1
<1> HIDE DEF size
<1>3. /\ r \in Spaces(n) /\ OnlyWords(s, r)
      /\ UsedChunk(r.word, p, size)
      /\ PrevUsed(r.word, p) = PrevUsed(s.word, p)
      /\ SameBehind(s.word, r.word, p + size) /\ PrevUsed(r.word, p + size)
      /\ Same(s.word, r.word, n, {p + 1, p + size + 1})
  BY <1>1, <1>2, InuseIsSet
<1>4. u.word = r.word
  BY DEF size
<1> HIDE DEF r
<1>5. /\ UsedChunk(u.word, p, b - p)
      /\ PrevUsed(u.word, p) = PrevUsed(s.word, p)
      /\ SameBehind(s.word, u.word, b) /\ PrevUsed(u.word, b)
  BY <1>2, <1>3, <1>4 DEF size
<1>6. \A a \in 0..(n - 1) : a # p + 1 /\ a # b + 1 => u.word[a] = s.word[a]
  BY <1>2, <1>3, <1>4 DEF Same
<1>7. Same(s.word, u.word, n, p + 1 .. b + 1)
  BY <1>1, <1>6 DEF Same
<1> DEFINE d == Replaced(t, p, b, {p})
           gone == p..(b - 1)
           lost == {p}
<1>8. Heap(u, n, d, g, {}) /\ Changes(s.word, t, u.word, d, gone, lost)
  BY <1>1, <1>5, <1>7, BecomesUsed
<1> HIDE DEF d, gone
<1>9. Changes(s.word, t, u.word, d, lost, lost)
  <2>1. Users(s.word, t) \ gone = Users(s.word, t) \ lost
    BY <1>1 DEF gone, Users
  <2> QED
    BY <1>8, <2>1 DEF Changes
<1>10. Size(u.word, p) = b - p
  BY <1>5 DEF UsedChunk
<1>11. Size(u.word, p) - nb \in 0..(MinChunkSize - 1)
  BY <1>1, <1>10 DEF MinChunkSize
<1>12. \A a \in p + 2 .. p + Size(s.word, p) : u.word[a] = s.word[a]
  BY <1>1, <1>6
<1> QED
  BY <1>8, <1>9, <1>11, <1>12 DEF Resized, Settled

------------------------------------------------------------------------------
(* realloc, and the blocks of a pool.                                       *)

\* A chunk in use from p to m.
InuseWords(w, x, n, p, m) ==
  /\ UsedChunk(x, p, m - p) /\ PrevUsed(x, p) = PrevUsed(w, p)
  /\ SameBehind(w, x, m) /\ PrevUsed(x, m)
  /\ \A a \in 0..(n - 1) : a # p + 1 /\ a # m + 1 => x[a] = w[a]

\* SetInuse makes the words from p to m one chunk in use.
LEMMA InuseUpTo ==
  ASSUME NEW n \in Nat, NEW s \in Spaces(n), NEW p \in Nat, NEW m \in Nat,
         p < m, m + 1 < n, NEW size, size = m - p
  PROVE  LET t == SetInuse(s, p, size)
         IN  /\ t \in Spaces(n) /\ OnlyWords(s, t)
             /\ InuseWords(s.word, t.word, n, p, m)
<1> DEFINE t == SetInuse(s, p, size)
<1>1. size \in Nat \ {0} /\ p + size + 1 < n
  OBVIOUS
<1>2. p + size = m
  OBVIOUS
<1>3. /\ t \in Spaces(n) /\ OnlyWords(s, t)
      /\ UsedChunk(t.word, p, size)
      /\ PrevUsed(t.word, p) = PrevUsed(s.word, p)
      /\ SameBehind(s.word, t.word, p + size) /\ PrevUsed(t.word, p + size)
      /\ Same(s.word, t.word, n, {p + 1, p + size + 1})
  BY <1>1, InuseIsSet
<1> HIDE DEF t
<1>4. \A a \in 0..(n - 1) : a # p + 1 /\ a # m + 1 => t.word[a] = s.word[a]
  BY <1>2, <1>3 DEF Same
<1>5. InuseWords(s.word, t.word, n, p, m)
  BY <1>2, <1>3, <1>4 DEF InuseWords
<1> QED
  BY <1>3, <1>5 DEF t

\* The first nb words stay, the rest is a chunk of its own, used until it is
\* let go.
RestLeft(s, x, n, t, g, p, m, b) ==
  /\ \E d : /\ Settled(x, n, d) /\ p \in d /\ m \in d
            /\ Changes(s.word, t, x.word, d, p..(b - 1), {p, m})
  /\ UsedChunk(x.word, p, m - p) /\ UsedChunk(x.word, m, b - m)
  /\ \A a \in 0..(n - 1) :
       a # p + 1 /\ a # m + 1 /\ a # b + 1 => x.word[a] = s.word[a]

\* The first words stay in use, the rest is a used chunk of its own.
LEMMA RestIsLeft ==
  ASSUME NEW s, NEW n, NEW t, NEW g, NEW l, NEW p, NEW b,
         Grabbed(s, n, t, g, l, p, b), s.dv \notin p..(b - 1),
         NEW nb \in Nat, nb >= MinChunkSize,
         NEW rest \in Nat, rest >= MinChunkSize,
         NEW m, m = p + nb, m + rest = b
  PROVE  RestLeft(s, SetInuse(SetInuse(s, p, nb), m, rest), n, t, g, p, m, b)
<1> DEFINE y == SetInuse(s, p, nb)
           x == SetInuse(y, m, rest)
<1>1. /\ Heap(s, n, t, g, l) /\ p \in t \ {0} /\ b \in t /\ p < b
      /\ l \subseteq p..(b - 1) /\ g \cap (p..(b - 1)) = {} /\ Used(s.word, p)
      /\ p \in Nat /\ b \in Nat /\ n \in Nat /\ b + 1 < n /\ s \in Spaces(n)
  BY GrabbedFacts
<1>2. /\ nb >= 4 /\ rest >= 4 /\ m \in Nat /\ p + 4 <= m /\ m + 4 <= b
      /\ nb \in Nat \ {0} /\ rest \in Nat \ {0} /\ nb = m - p /\ rest = b - m
      /\ p + nb + 1 < n /\ m + rest + 1 < n
  BY <1>1 DEF MinChunkSize
<1>3. /\ y \in Spaces(n) /\ OnlyWords(s, y) /\ InuseWords(s.word, y.word, n, p, m)
  <2>1. m + 1 < n /\ p < m /\ n \in Nat /\ m \in Nat /\ p \in Nat /\ s \in Spaces(n)
        /\ nb = m - p
    BY <1>1, <1>2
  <2> QED
    BY <2>1, InuseUpTo
<1>4. PrevUsed(y.word, m) /\ PrevUsed(y.word, p) = PrevUsed(s.word, p)
      /\ UsedChunk(y.word, p, nb)
  BY <1>2, <1>3 DEF InuseWords
<1>5. \A a \in 0..(n - 1) : a # p + 1 /\ a # m + 1 => y.word[a] = s.word[a]
  BY <1>3 DEF InuseWords
<1> HIDE DEF y
<1>6. /\ x \in Spaces(n) /\ OnlyWords(y, x) /\ InuseWords(y.word, x.word, n, m, b)
  <2>1. b + 1 < n /\ m < b /\ n \in Nat /\ m \in Nat /\ b \in Nat /\ y \in Spaces(n)
        /\ rest = b - m
    BY <1>1, <1>2, <1>3
  <2> QED
    BY <2>1, InuseUpTo
<1>7. \A a \in 0..(n - 1) : a # m + 1 /\ a # b + 1 => x.word[a] = y.word[a]
  BY <1>6 DEF InuseWords
<1>8. SameBehind(y.word, x.word, b) /\ PrevUsed(x.word, b)
      /\ PrevUsed(x.word, m) = PrevUsed(y.word, m)
      /\ UsedChunk(x.word, m, b - m)
  BY <1>6 DEF InuseWords
<1> HIDE DEF x
<1>9. OnlyWords(s, x)
  BY <1>3, <1>6 DEF OnlyWords, SameBins, SameDv, SameTop, SameLimit
<1>10. x.word[p + 1] = y.word[p + 1] /\ y.word[b + 1] = s.word[b + 1]
  BY <1>1, <1>2, <1>5, <1>7
<1>11. UsedChunk(x.word, p, m - p)
  BY <1>2, <1>4, <1>10 DEF UsedChunk, Used, Size
<1>12. UsedChunk(x.word, m, b - m)
  BY <1>8
<1>13. PrevUsed(x.word, p) = PrevUsed(s.word, p)
  BY <1>4, <1>10 DEF PrevUsed
<1>14. SameBehind(s.word, x.word, b)
  BY <1>8, <1>10 DEF SameBehind, Used
<1>15. PrevUsed(x.word, m)
  BY <1>4, <1>8
<1>16. \A a \in 0..(n - 1) :
         a # p + 1 /\ a # m + 1 /\ a # b + 1 => x.word[a] = s.word[a]
  BY <1>5, <1>7
<1>17. Same(s.word, x.word, n, p + 1 .. b + 1)
  BY <1>1, <1>2, <1>16 DEF Same
<1>18. /\ SameBins(s, x) /\ SameLimit(s, x) /\ SameTop(s, x)
       /\ DvMoves(s, x, p, b, {})
  BY <1>9 DEF OnlyWords, DvMoves
<1> DEFINE d == Replaced(t, p, b, {p, m})
<1>19. Heap(x, n, d, g, {}) /\ Changes(s.word, t, x.word, d, p..(b - 1), {p, m})
  BY <1>1, <1>2, <1>6, <1>11, <1>12, <1>13, <1>14, <1>15, <1>8, <1>17, <1>18,
     BecomesUsedTwice
<1>20. p \in d /\ m \in d
  BY DEF Replaced
<1> HIDE DEF d
<1>21. \E e : /\ Settled(x, n, e) /\ p \in e /\ m \in e
              /\ Changes(s.word, t, x.word, e, p..(b - 1), {p, m})
  BY <1>19, <1>20 DEF Settled
<1>22. RestLeft(s, x, n, t, g, p, m, b)
  BY <1>11, <1>12, <1>16, <1>21 DEF RestLeft
<1> QED
  BY <1>22 DEF x, y

\* The rest is let go, and the chunk has the size asked for.
LEMMA RestLetGo ==
  ASSUME NEW s, NEW n, NEW t, NEW g, NEW l, NEW p, NEW b,
         Grabbed(s, n, t, g, l, p, b), s.dv \notin p..(b - 1),
         NEW nb \in Nat, nb >= MinChunkSize,
         NEW rest \in Nat, rest >= MinChunkSize, p + nb + rest = b
  PROVE  Resized(s.word, t, LetGo(s, p, nb, rest), n, p, nb)
<1> DEFINE m == p + nb
           x == SetInuse(SetInuse(s, p, nb), m, rest)
           u == DisposeChunk(x, m, rest)
           was == p..(b - 1)
           left == {p, m}
           gone == {m}
           one == {p}
<1>1. /\ p \in Nat /\ b \in Nat /\ n \in Nat /\ b + 1 < n
      /\ Size(s.word, p) \in Nat /\ p + Size(s.word, p) <= b /\ t \subseteq Nat
      /\ \A q \in t : Used(s.word, q) => (q \in p..(b - 1) <=> q = p)
  BY GrabbedFacts
<1>2. LetGo(s, p, nb, rest) = u
  BY DEF LetGo
<1>3. m = p + nb /\ m + rest = b
  OBVIOUS
<1> HIDE DEF m
<1>4. RestLeft(s, x, n, t, g, p, m, b)
  BY <1>3, RestIsLeft
<1> HIDE DEF x
<1>5. m \in Nat /\ p < m /\ rest = b - m /\ nb = m - p
  BY <1>1, <1>3 DEF MinChunkSize
<1>6. /\ UsedChunk(x.word, p, nb) /\ UsedChunk(x.word, m, rest)
      /\ \A a \in 0..(n - 1) :
           a # p + 1 /\ a # m + 1 /\ a # b + 1 => x.word[a] = s.word[a]
  BY <1>4, <1>5 DEF RestLeft
<1>7. PICK d : /\ Settled(x, n, d) /\ p \in d /\ m \in d
               /\ Changes(s.word, t, x.word, d, was, left)
  BY <1>4 DEF RestLeft
<1>8. m \in d \ {0} /\ Used(x.word, m) /\ rest = Size(x.word, m)
  BY <1>1, <1>5, <1>6, <1>7 DEF UsedChunk
<1>9. Ended(x.word, d, u, n, gone, {})
  BY <1>7, <1>8, ChunkDisposed
<1> HIDE DEF u, was, left, gone
<1>10. PICK e : Settled(u, n, e) /\ Changes(x.word, d, u.word, e, gone, {})
  BY <1>9 DEF Ended
<1>11. p \in Users(x.word, d) \ gone
  BY <1>5, <1>6, <1>7 DEF Users, UsedChunk, gone
<1>12. Kept(x.word, u.word, p)
  BY <1>10, <1>11 DEF Changes
<1>13. /\ Size(u.word, p) = nb
       /\ \A a \in p + 2 .. p + nb : u.word[a] = x.word[a]
  BY <1>6, <1>12 DEF Kept, UsedChunk
<1>14. Changes(s.word, t, u.word, e, was \cup gone, (left \ gone) \cup {})
  BY <1>7, <1>10, ChangesFollow
<1>15. (left \ gone) \cup {} = one
  BY <1>5 DEF left, gone
<1>16. Users(s.word, t) \ (was \cup gone) = Users(s.word, t) \ one
  <2>1. m \in was /\ p \in was
    BY <1>1, <1>3, <1>5 DEF was, MinChunkSize
  <2> QED
    BY <1>1, <2>1 DEF Users, gone, was
<1>17. Changes(s.word, t, u.word, e, one, one)
  BY <1>14, <1>15, <1>16 DEF Changes
<1>18. Size(u.word, p) - nb \in 0..(MinChunkSize - 1)
  BY <1>13 DEF MinChunkSize
<1>19. ASSUME NEW a \in p + 2 .. p + Size(s.word, p), a <= p + Size(u.word, p)
       PROVE  u.word[a] = s.word[a]
  <2>1. a \in p + 2 .. p + nb
    BY <1>1, <1>13, <1>19
  <2>2. a \in 0..(n - 1) /\ a # p + 1 /\ a # m + 1 /\ a # b + 1
    BY <1>1, <1>3, <1>5, <2>1
  <2> QED
    BY <1>6, <1>13, <2>1, <2>2
<1>20. Resized(s.word, t, u, n, p, nb)
  BY <1>10, <1>17, <1>18, <1>19 DEF Resized
<1> QED
  BY <1>2, <1>20

\* A chunk in use, and the one after it.
Owned(s, n, t, g, p, next) ==
  /\ Heap(s, n, t, g, {}) /\ p \in t \ {0} /\ next \in t
  /\ Used(s.word, p) /\ p # s.top /\ p # s.dv /\ p \notin g
  /\ p \in Nat /\ next \in Nat /\ n \in Nat /\ p + 4 <= next /\ next + 1 < n
  /\ next = p + Size(s.word, p) /\ Size(s.word, p) \in Nat
  /\ s \in Spaces(n) /\ t \subseteq Nat /\ g \subseteq t
  /\ \A q \in t : q \in p..(next - 1) => q = p
  /\ s.dvsize = 0 => s.dv = 0
  /\ s.dvsize # 0 => s.dv \in t
  /\ s.dvsize \in Nat /\ s.dv \in Nat /\ s.top \in Nat

\* A chunk in use, seen from realloc.
LEMMA OwnedFacts ==
  ASSUME NEW s, NEW n, NEW t, NEW g, Heap(s, n, t, g, {}),
         NEW p \in t \ {0}, Used(s.word, p),
         NEW next, next = p + Size(s.word, p)
  PROVE  Owned(s, n, t, g, p, next)
<1> DEFINE l == {}
<1>0. Heap(s, n, t, g, l)
  OBVIOUS
<1> HIDE DEF l
<1>1. p # s.top /\ p # s.dv /\ p \notin g /\ t \subseteq Nat /\ g \subseteq t
  BY <1>0 DEF Heap, TopHolds, DvHolds, Tiled
<1>2. next \in t /\ Size(s.word, p) \in Nat /\ p < next
  <2>1. /\ p \in Nat /\ n \in Nat /\ Size(s.word, p) \in Nat \ {0}
        /\ p # s.top => p + Size(s.word, p) \in t
    BY <1>0, ChunkFacts
  <2> QED
    BY <1>1, <2>1
<1>3. /\ p \in Nat /\ next \in Nat /\ n \in Nat /\ End(n) \in Nat
      /\ next < End(n) /\ s.top \in Nat /\ next - p >= 4
      /\ End(n) + 4 <= n /\ s \in Spaces(n)
  BY <1>0, <1>2, BeforeTop
<1>4. p + 4 <= next /\ next + 1 < n
  BY <1>3
<1>5. \A q \in t : p < q => next <= q
  BY <1>0 DEF Heap, Tiled
<1>6. \A q \in t : q \in p..(next - 1) => q = p
  BY <1>1, <1>3, <1>5
<1>7. /\ s.dvsize = 0 => s.dv = 0
      /\ s.dvsize # 0 => s.dv \in t
  BY <1>0 DEF Heap, DvHolds
<1>8. s.dvsize \in Nat /\ s.dv \in Nat
  BY <1>3 DEF Spaces
<1> QED
  BY <1>0, <1>1, <1>2, <1>3, <1>4, <1>6, <1>7, <1>8 DEF Owned, l

\* What TryReallocChunk answers.
Reallocs(s, n, t, r, p, nb) ==
  \/ r.done /\ Resized(s.word, t, r.space, n, p, nb)
  \/ ~r.done /\ r.space = s

\* A chunk that is large enough shrinks in place, or stays.
LEMMA ShrinkReallocs ==
  ASSUME NEW s, NEW n, NEW t, NEW g, NEW p, NEW next,
         Owned(s, n, t, g, p, next), NEW nb \in Nat, nb >= MinChunkSize,
         NEW size, size = Size(s.word, p), nb <= size
  PROVE  Reallocs(s, n, t, Shrink(s, p, nb, size), p, nb)
<1> DEFINE l == {}
           rest == size - nb
           one == {p}
<1>1. /\ Heap(s, n, t, g, l) /\ p \in t \ {0} /\ next \in t
      /\ Used(s.word, p) /\ p # s.dv /\ p \notin g
      /\ p \in Nat /\ next \in Nat /\ n \in Nat /\ p + 4 <= next
      /\ next = p + size /\ size \in Nat
      /\ t \subseteq Nat /\ g \subseteq t
      /\ \A q \in t : q \in p..(next - 1) => q = p
      /\ s.dvsize = 0 => s.dv = 0
      /\ s.dvsize # 0 => s.dv \in t
  BY DEF Owned
<1>2. l \subseteq p..(next - 1)
  OBVIOUS
<1> HIDE DEF l
<1>3. rest \in Nat /\ p + nb + rest = next
  BY <1>1
<1> HIDE DEF rest
<1>4. CASE rest >= MinChunkSize
  <2>1. Shrink(s, p, nb, size) = [space |-> LetGo(s, p, nb, rest), done |-> TRUE]
    BY <1>4 DEF Shrink, InPlace, rest
  <2>2. g \cap (p..(next - 1)) = {} /\ p < next
    BY <1>1
  <2>3. s.dv \notin p..(next - 1)
    BY <1>1
  <2>4. Grabbed(s, n, t, g, l, p, next)
    BY <1>1, <1>2, <2>2 DEF Grabbed
  <2>5. Resized(s.word, t, LetGo(s, p, nb, rest), n, p, nb)
    BY <1>3, <1>4, <2>3, <2>4, RestLetGo
  <2> QED
    BY <2>1, <2>5 DEF Reallocs
<1>5. CASE ~(rest >= MinChunkSize)
  <2>1. Shrink(s, p, nb, size) = [space |-> s, done |-> TRUE]
    BY <1>5 DEF Shrink, InPlace, rest
  <2>2. Settled(s, n, t)
    BY <1>1 DEF Settled, l
  <2>3. p \in Users(s.word, t)
    BY <1>1 DEF Users
  <2>4. (Users(s.word, t) \ one) \cup one = Users(s.word, t)
    BY <2>3
  <2>5. Changes(s.word, t, s.word, t, one, one)
    BY <2>4 DEF Changes, Kept
  <2>6. Size(s.word, p) - nb \in 0..(MinChunkSize - 1)
    BY <1>1, <1>3, <1>5 DEF MinChunkSize, rest
  <2>7. Resized(s.word, t, s, n, p, nb)
    BY <2>2, <2>5, <2>6 DEF Resized
  <2> QED
    BY <2>1, <2>7 DEF Reallocs
<1> QED
  BY <1>4, <1>5

\* A chunk in front of top grows into it, or nothing happens.
LEMMA TopExtends ==
  ASSUME NEW s, NEW n, NEW t, NEW g, NEW p, NEW next,
         Owned(s, n, t, g, p, next), NEW nb \in Nat,
         NEW size, size = Size(s.word, p), size < nb, next = s.top
  PROVE  Reallocs(s, n, t, ExtendIntoTop(s, p, nb, size), p, nb)
<1> DEFINE l == {}
           end == End(n)
           m == p + nb
           more == size + s.topsize - nb
           y == SetInuse(s, p, nb)
           u == SetTop(y, m, more)
           one == {p}
<1>1. /\ Heap(s, n, t, g, l) /\ p \in t \ {0} /\ next \in t
      /\ Used(s.word, p) /\ p # s.dv /\ p \notin g
      /\ p \in Nat /\ next \in Nat /\ n \in Nat /\ p + 4 <= next
      /\ next = p + size /\ size \in Nat
      /\ s \in Spaces(n) /\ t \subseteq Nat /\ g \subseteq t
      /\ \A q \in t : q \in p..(next - 1) => q = p
      /\ s.dvsize = 0 => s.dv = 0
      /\ s.dvsize # 0 => s.dv \in t
      /\ s.dv \in Nat
  BY DEF Owned
<1>2. /\ s.topsize \in Nat \ {0} /\ next + s.topsize = end
      /\ ~Used(s.word, next) /\ next \notin g
      /\ end + 4 <= n /\ end \in Nat
      /\ \A q \in t : q # next => q < next
      /\ s.dvsize # 0 => s.dv < next
  <2>1. /\ s.topsize \in Nat \ {0} /\ s.top + s.topsize = End(n)
        /\ ~Used(s.word, s.top) /\ s.top \notin g \cup l
        /\ End(n) + 4 <= n /\ End(n) \in Nat
        /\ \A q \in t : q # s.top => q < s.top
        /\ s.dvsize # 0 => s.dv < s.top
    BY <1>1, TopFacts
  <2> QED
    BY <2>1
<1>e. end = End(n)
  OBVIOUS
<1> HIDE DEF end
<1>3. CASE ~(size + s.topsize > nb)
  BY <1>3 DEF Reallocs, ExtendIntoTop, NotInPlace
<1>4. CASE size + s.topsize > nb
  <2>1. ExtendIntoTop(s, p, nb, size) = [space |-> u, done |-> TRUE]
    BY <1>4 DEF ExtendIntoTop, InPlace
  <2>2. /\ m \in Nat /\ m + more = end /\ more \in Nat \ {0} /\ m < end
        /\ m + 1 < n /\ p + 4 <= m /\ p < m /\ nb = m - p /\ more = end - m
        /\ next < m
    BY <1>1, <1>2, <1>4
  <2> HIDE DEF m, more
  <2>3. y \in Spaces(n) /\ OnlyWords(s, y) /\ InuseWords(s.word, y.word, n, p, m)
    BY <1>1, <2>2, InuseUpTo
  <2> HIDE DEF y
  <2>4. /\ u \in Spaces(n) /\ OnlyWordsAndTop(y, u)
        /\ u.top = m /\ u.topsize = more
        /\ UnusedChunk(u.word, m, more) /\ PrevUsed(u.word, m)
        /\ Same(y.word, u.word, n, {m + 1} \cup (m + 1 .. m + more - 1))
    <3>1. more \in Nat /\ m \in Nat /\ m + 1 < n /\ n \in Nat
      BY <1>1, <2>2
    <3> QED
      BY <2>3, <3>1, TopIsSet
  <2> HIDE DEF u
  <2>5. \A a \in 0..(n - 1) : a \notin m + 1 .. end => u.word[a] = y.word[a]
    <3>1. \A a \in 0..(n - 1) : a \notin m + 1 .. end =>
            a \notin {m + 1} \cup (m + 1 .. m + more - 1)
      BY <1>2, <2>2
    <3> QED
      BY <2>4, <3>1 DEF Same
  <2>6. \A a \in 0..(n - 1) : a # p + 1 /\ a # m + 1 => y.word[a] = s.word[a]
    BY <2>3 DEF InuseWords
  <2>7. \A a \in 0..(n - 1) : a \notin p + 1 .. end => u.word[a] = s.word[a]
    BY <1>1, <1>2, <2>2, <2>5, <2>6
  <2>8. Same(s.word, u.word, n, p + 1 .. end)
    BY <2>7 DEF Same
  <2>9. u.word[p + 1] = y.word[p + 1]
    BY <1>1, <1>2, <2>2, <2>5
  <2>10. UsedChunk(u.word, p, m - p) /\ PrevUsed(u.word, p) = PrevUsed(s.word, p)
    BY <2>3, <2>9 DEF InuseWords, UsedChunk, PrevUsed, Used, Size
  <2>11. SameBins(s, u) /\ SameDv(s, u) /\ SameLimit(s, u)
    BY <2>3, <2>4 DEF OnlyWords, OnlyWordsAndTop, SameBins, SameDv, SameLimit
  <2>12. DvMoves(s, u, p, end, {})
    <3>1. s.dv \notin p..(end - 1)
      BY <1>1, <1>2
    <3> QED
      BY <2>11, <3>1 DEF DvMoves
  <2>13. l \subseteq p..(end - 1)
    OBVIOUS
  <2> HIDE DEF l
  <2>14. g \cap (p..(end - 1)) = {}
    BY <1>1, <1>2
  <2>15. /\ UnusedChunk(u.word, m, end - m) /\ u.top = m /\ u.topsize = end - m
    BY <2>2, <2>4
  <2> DEFINE d == Replaced(t, p, end, {p, m})
             gone == p..(end - 1)
  <2>16. Heap(u, n, d, g, {}) /\ Changes(s.word, t, u.word, d, gone, one)
    <3> HIDE DEF d, gone
    <3>1. /\ Heap(u, n, Replaced(t, p, End(n), {p, m}), g, {})
          /\ Changes(s.word, t, u.word, Replaced(t, p, End(n), {p, m}),
                     p..(End(n) - 1), {p})
      BY <1>1, <1>e, <2>2, <2>4, <2>8, <2>10, <2>11, <2>12, <2>13, <2>14, <2>15,
         BecomesUsedAndTop
    <3> QED
      BY <1>e, <3>1 DEF d, gone
  <2> HIDE DEF d
  <2>17. \A q \in t : Used(s.word, q) => (q \in gone <=> q \in one)
    BY <1>1, <1>2
  <2> HIDE DEF gone
  <2>18. Users(s.word, t) \ gone = Users(s.word, t) \ one
    BY <2>17 DEF Users
  <2> HIDE DEF one
  <2>19. Changes(s.word, t, u.word, d, one, one)
    BY <2>16, <2>18 DEF Changes
  <2>20. Size(u.word, p) = nb /\ Size(u.word, p) - nb \in 0..(MinChunkSize - 1)
    BY <2>2, <2>10 DEF UsedChunk, MinChunkSize
  <2>21. \A a \in p + 2 .. p + Size(s.word, p) : u.word[a] = s.word[a]
    BY <1>1, <1>2, <2>2, <2>5, <2>6
  <2>22. Resized(s.word, t, u, n, p, nb)
    BY <2>16, <2>19, <2>20, <2>21 DEF Resized, Settled, one
  <2> QED
    BY <2>1, <2>22 DEF Reallocs
<1> QED
  BY <1>3, <1>4

\* The free chunk after one in use, up to b.
FreeBehind(s, n, t, g, p, next, b) ==
  /\ b \in t /\ b \in Nat /\ next + 4 <= b /\ b + 1 < n /\ b <= s.top
  /\ Used(s.word, b) /\ ~PrevUsed(s.word, b)
  /\ ~Used(s.word, next) /\ next # s.top
  /\ \A q \in t : q \in p..(b - 1) => q = p \/ q = next

\* The free chunk behind one in use ends at one in use.
LEMMA FreeBehindFacts ==
  ASSUME NEW s, NEW n, NEW t, NEW g, NEW p, NEW next,
         Owned(s, n, t, g, p, next), ~Used(s.word, next), next # s.top,
         NEW b, b = next + Size(s.word, next)
  PROVE  FreeBehind(s, n, t, g, p, next, b)
<1> DEFINE l == {}
<1>1. /\ Heap(s, n, t, g, l) /\ p \in t /\ next \in t
      /\ p \in Nat /\ next \in Nat /\ n \in Nat /\ p + 4 <= next
      /\ t \subseteq Nat
      /\ \A q \in t : q \in p..(next - 1) => q = p
  BY DEF Owned
<1> HIDE DEF l
<1>2. /\ Size(s.word, next) \in Nat /\ b \in t /\ Ends(s.word, next, b, End(n))
      /\ Size(s.word, next) >= 4
  BY <1>1, ChunkFacts
<1>3. Used(s.word, b)
  BY <1>1, FreeAreApart
<1>4. ~PrevUsed(s.word, b)
  BY <1>2 DEF Ends, Used, PrevUsed
<1>5. b \in Nat /\ next + 4 <= b
  BY <1>1, <1>2
<1>6. b < End(n) /\ b <= s.top /\ End(n) + 4 <= n /\ End(n) \in Nat
  BY <1>1, <1>2, <1>5, BeforeTop
<1>7. \A q \in t : next < q => b <= q
  BY <1>1 DEF Heap, Tiled
<1>8. \A q \in t : q \in p..(b - 1) => q = p \/ q = next
  BY <1>1, <1>5, <1>7
<1>9. b + 1 < n
  BY <1>1, <1>5, <1>6
<1> QED
  BY <1>2, <1>3, <1>4, <1>5, <1>6, <1>8, <1>9 DEF FreeBehind

\* What is left of dv behind the chunk's new words.
LEMMA DvShrinks ==
  ASSUME NEW s, NEW n, NEW t, NEW g, NEW l, NEW p, NEW b,
         Grabbed(s, n, t, g, l, p, b), s.dv \in p..(b - 1), s.dv # 0,
         Used(s.word, b), ~PrevUsed(s.word, b), b <= s.top, s.top \in Nat,
         NEW nb \in Nat, nb >= MinChunkSize, Size(s.word, p) <= nb,
         NEW rest \in Nat, rest >= MinChunkSize,
         NEW m \in Nat, nb = m - p, rest = b - m
  PROVE  LET u == [ClearPinuse(SetSizeAndPinuseOfFreeChunk(SetInuse(s, p, nb),
                                                           m, rest), b)
                     EXCEPT !.dv = m, !.dvsize = rest]
         IN  Resized(s.word, t, u, n, p, nb)
<1> DEFINE y == SetInuse(s, p, nb)
           z == SetSizeAndPinuseOfFreeChunk(y, m, rest)
           v == ClearPinuse(z, b)
           u == [v EXCEPT !.dv = m, !.dvsize = rest]
<1>1. /\ Heap(s, n, t, g, l) /\ p \in t \ {0} /\ b \in t /\ p < b
      /\ l \subseteq p..(b - 1) /\ g \cap (p..(b - 1)) = {} /\ Used(s.word, p)
      /\ p \in Nat /\ b \in Nat /\ n \in Nat /\ b + 1 < n /\ s \in Spaces(n)
      /\ Size(s.word, p) \in Nat /\ t \subseteq Nat
      /\ \A q \in t : Used(s.word, q) => (q \in p..(b - 1) <=> q = p)
  BY GrabbedFacts
<1>2. /\ m \in Nat /\ p + 4 <= m /\ m + 4 <= b /\ p < m /\ m + 2 <= b
      /\ nb = m - p /\ rest = b - m /\ m + 1 < n /\ m < b
  BY <1>1 DEF MinChunkSize
<1>3. /\ y \in Spaces(n) /\ OnlyWords(s, y) /\ InuseWords(s.word, y.word, n, p, m)
  BY <1>1, <1>2, InuseUpTo
<1> HIDE DEF y
<1>4. \A a \in 0..(n - 1) : a # p + 1 /\ a # m + 1 => y.word[a] = s.word[a]
  BY <1>3 DEF InuseWords
<1>5. y.word[b + 1] = s.word[b + 1]
  BY <1>1, <1>2, <1>4
<1>6. ~PrevUsed(y.word, b)
  BY <1>5 DEF PrevUsed
<1>7. /\ z \in Spaces(n) /\ OnlyWords(y, z) /\ FreeWords(y.word, z.word, n, m, b)
  BY <1>1, <1>2, <1>3, <1>6, FreeInFrontOfFree
<1> HIDE DEF z
<1>8. \A a \in 0..(n - 1) : a \notin m + 1 .. b + 1 => z.word[a] = y.word[a]
  BY <1>7 DEF FreeWords, Same
<1>9. /\ UnusedChunk(z.word, m, b - m) /\ PrevUsed(z.word, m)
      /\ z.word[b] = Foot(b - m) /\ SameBehind(y.word, z.word, b)
  BY <1>7 DEF FreeWords
<1>10. /\ v \in Spaces(n) /\ OnlyWords(z, v) /\ SameBehind(z.word, v.word, b)
       /\ ~PrevUsed(v.word, b) /\ Same(z.word, v.word, n, {b + 1})
  BY <1>1, <1>7, PinuseIsCleared
<1> HIDE DEF v
<1>11. \A a \in 0..(n - 1) : a # b + 1 => v.word[a] = z.word[a]
  BY <1>10 DEF Same
<1>12. /\ u \in Spaces(n) /\ u.dv = m /\ u.dvsize = rest
       /\ u.word = v.word /\ SameBins(v, u) /\ SameLimit(v, u) /\ SameTop(v, u)
  BY <1>2, <1>10 DEF Spaces, SameBins, SameLimit, SameTop
<1> HIDE DEF u
<1>13. SameBins(s, u) /\ SameLimit(s, u) /\ SameTop(s, u)
  BY <1>3, <1>7, <1>10, <1>12 DEF OnlyWords, SameBins, SameLimit, SameTop
<1>14. u.word[p + 1] = y.word[p + 1] /\ u.word[m + 1] = z.word[m + 1]
       /\ u.word[b] = z.word[b]
  BY <1>1, <1>2, <1>8, <1>11, <1>12
<1>15. UsedChunk(u.word, p, m - p) /\ PrevUsed(u.word, p) = PrevUsed(s.word, p)
  BY <1>3, <1>14 DEF InuseWords, UsedChunk, PrevUsed, Used, Size
<1>16. /\ UnusedChunk(u.word, m, b - m) /\ PrevUsed(u.word, m)
       /\ u.word[b] = Foot(b - m)
  BY <1>9, <1>14 DEF UnusedChunk, PrevUsed, Used, Size
<1>17. SameBehind(s.word, u.word, b) /\ ~PrevUsed(u.word, b)
  BY <1>5, <1>9, <1>10, <1>12 DEF SameBehind, Used
<1>18. \A a \in 0..(n - 1) : a # p + 1 /\ a \notin m + 1 .. b + 1 =>
                               u.word[a] = s.word[a]
  BY <1>1, <1>2, <1>4, <1>8, <1>11, <1>12
<1>19. Same(s.word, u.word, n, p + 1 .. b + 1)
  BY <1>1, <1>2, <1>18 DEF Same
<1>20. DvMoves(s, u, p, b, {m})
  <2>1. u.dv # u.top
    BY <1>1, <1>2, <1>12, <1>13 DEF SameTop
  <2>2. u.dvsize # 0
    BY <1>1, <1>2, <1>12
  <2>3. ~Used(u.word, u.dv) /\ Size(u.word, u.dv) = u.dvsize
    BY <1>2, <1>12, <1>16 DEF UnusedChunk
  <2> QED
    BY <1>12, <2>1, <2>2, <2>3 DEF DvMoves
<1> DEFINE d == Replaced(t, p, b, {p, m})
           k == IF u.dv = m THEN {} ELSE {m}
           gone == p..(b - 1)
           one == {p}
<1>21. Heap(u, n, d, g, k) /\ Changes(s.word, t, u.word, d, gone, one)
  <2>1. /\ Heap(s, n, t, g, l) /\ p \in t \ {0} /\ b \in t /\ p < b
        /\ l \subseteq p..(b - 1) /\ g \cap (p..(b - 1)) = {}
        /\ m \in Nat /\ p + 4 <= m /\ m + 4 <= b /\ u \in Spaces(n)
    BY <1>1, <1>2, <1>12
  <2> HIDE DEF d, k, gone, one
  <2>2. /\ Heap(u, n, Replaced(t, p, b, {p, m}), g, IF u.dv = m THEN {} ELSE {m})
        /\ Changes(s.word, t, u.word, Replaced(t, p, b, {p, m}), p..(b - 1), {p})
    BY <1>13, <1>15, <1>16, <1>17, <1>19, <1>20, <2>1, BecomesUsedAndFree
  <2> QED
    BY <2>2 DEF d, k, gone, one
<1>22. k = {}
  BY <1>12
<1> HIDE DEF d, k
<1>23. Settled(u, n, d)
  BY <1>21, <1>22 DEF Settled
<1>24. Users(s.word, t) \ gone = Users(s.word, t) \ one
  BY <1>1 DEF Users
<1> HIDE DEF one, gone
<1>25. Changes(s.word, t, u.word, d, one, one)
  BY <1>21, <1>24 DEF Changes
<1>26. Size(u.word, p) - nb \in 0..(MinChunkSize - 1)
  BY <1>2, <1>15 DEF UsedChunk, MinChunkSize
<1>27. \A a \in p + 2 .. p + Size(s.word, p) : u.word[a] = s.word[a]
  BY <1>1, <1>2, <1>18
<1>28. Resized(s.word, t, u, n, p, nb)
  BY <1>23, <1>25, <1>26, <1>27 DEF Resized, one
<1> QED
  BY <1>28 DEF u, v, z, y

\* A chunk in front of the designated victim grows into it, or nothing
\* happens.
LEMMA DvExtends ==
  ASSUME NEW s, NEW n, NEW t, NEW g, NEW p, NEW next,
         Owned(s, n, t, g, p, next), NEW nb \in Nat, nb >= MinChunkSize,
         NEW size, size = Size(s.word, p), size < nb, next = s.dv
  PROVE  Reallocs(s, n, t, ExtendIntoDv(s, p, nb, size), p, nb)
<1> DEFINE l == {}
           all == size + s.dvsize
           rest == all - nb
           b == p + all
           m == p + nb
           v == SetInuse(s, p, all)
           u == [v EXCEPT !.dv = 0, !.dvsize = 0]
<1>1. /\ Heap(s, n, t, g, l) /\ p \in t \ {0} /\ next \in t
      /\ Used(s.word, p) /\ p # s.dv /\ p \notin g
      /\ p \in Nat /\ next \in Nat /\ n \in Nat /\ p + 4 <= next
      /\ next = p + size /\ size \in Nat
      /\ s \in Spaces(n) /\ t \subseteq Nat /\ g \subseteq t
      /\ s.dvsize = 0 => s.dv = 0
      /\ s.dvsize \in Nat /\ s.top \in Nat
  BY DEF Owned
<1>2. s.dv # 0 /\ s.dvsize # 0
  BY <1>1
<1>3. /\ ~Used(s.word, next) /\ next # s.top /\ Size(s.word, next) = s.dvsize
      /\ next \notin g
  BY <1>1, <1>2 DEF Heap, DvHolds
<1>4. b = next + Size(s.word, next) /\ all \in Nat
  BY <1>1, <1>3
<1>5. FreeBehind(s, n, t, g, p, next, b)
  BY <1>3, <1>4, FreeBehindFacts
<1>6. l \subseteq p..(b - 1)
  OBVIOUS
<1>7. all = b - p /\ m \in Nat
  BY <1>1, <1>4
<1> HIDE DEF l, b
<1>8. /\ b \in t /\ b \in Nat /\ next + 4 <= b /\ b + 1 < n /\ b <= s.top
      /\ Used(s.word, b) /\ ~PrevUsed(s.word, b)
      /\ \A q \in t : q \in p..(b - 1) => q = p \/ q = next
  BY <1>5 DEF FreeBehind
<1>9. p < b /\ next \in p..(b - 1)
  BY <1>1, <1>8
<1>10. g \cap (p..(b - 1)) = {}
  BY <1>1, <1>3, <1>8
<1>11. Grabbed(s, n, t, g, l, p, b)
  BY <1>1, <1>3, <1>6, <1>8, <1>9, <1>10 DEF Grabbed
<1>12. CASE all < nb
  BY <1>12 DEF Reallocs, ExtendIntoDv, NotInPlace
<1>13. CASE ~(all < nb) /\ rest >= MinChunkSize
  <2> DEFINE x == [ClearPinuse(SetSizeAndPinuseOfFreeChunk(SetInuse(s, p, nb),
                                                           m, rest), b)
                     EXCEPT !.dv = m, !.dvsize = rest]
  <2>1. ExtendIntoDv(s, p, nb, size) = [space |-> x, done |-> TRUE]
    BY <1>13 DEF ExtendIntoDv, InPlace, b
  <2>2. /\ rest \in Nat /\ nb = m - p /\ rest = b - m /\ m \in Nat
        /\ Size(s.word, p) <= nb
    BY <1>1, <1>4, <1>7, <1>13
  <2> HIDE DEF rest, m, all
  <2>3. s.dv \in p..(b - 1)
    BY <1>9
  <2>4. Resized(s.word, t, x, n, p, nb)
    BY <1>1, <1>2, <1>8, <1>11, <1>13, <2>2, <2>3, DvShrinks
  <2> QED
    BY <2>1, <2>4 DEF Reallocs
<1>14. CASE ~(all < nb) /\ ~(rest >= MinChunkSize)
  <2>1. ExtendIntoDv(s, p, nb, size) = [space |-> u, done |-> TRUE]
    BY <1>14 DEF ExtendIntoDv, InPlace
  <2>2. nb <= b - p /\ b - p < nb + MinChunkSize
    BY <1>4, <1>7, <1>14 DEF MinChunkSize
  <2> HIDE DEF all, rest
  <2>3. v \in Spaces(n) /\ OnlyWords(s, v)
    BY <1>1, <1>7, <1>8, <1>9, InuseUpTo
  <2>4. v.word = SetInuse(s, p, b - p).word
    BY <1>7
  <2> HIDE DEF v
  <2>5. /\ u \in Spaces(n) /\ u.word = v.word /\ u.dv = 0 /\ u.dvsize = 0
        /\ SameBins(v, u) /\ SameLimit(v, u) /\ SameTop(v, u)
    BY <2>3 DEF Spaces, SameBins, SameLimit, SameTop
  <2> HIDE DEF u
  <2>6. SameBins(s, u) /\ SameLimit(s, u) /\ SameTop(s, u)
    BY <2>3, <2>5 DEF OnlyWords, SameBins, SameLimit, SameTop
  <2>7. DvMoves(s, u, p, b, {})
    BY <1>9, <2>5 DEF DvMoves
  <2>8. u.word = SetInuse(s, p, b - p).word
    BY <2>4, <2>5
  <2>9. Resized(s.word, t, u, n, p, nb)
    BY <1>11, <2>2, <2>5, <2>6, <2>7, <2>8, AllIsUsed
  <2> QED
    BY <2>1, <2>9 DEF Reallocs
<1> QED
  BY <1>12, <1>13, <1>14

\* A chunk in front of a free one grows into it, or nothing happens.
LEMMA NextExtends ==
  ASSUME NEW s, NEW n, NEW t, NEW g, NEW p, NEW next,
         Owned(s, n, t, g, p, next), NEW nb \in Nat, nb >= MinChunkSize,
         NEW size, size = Size(s.word, p), next # s.top, next # s.dv,
         ~Used(s.word, next), NEW nsize, nsize = Size(s.word, next)
  PROVE  Reallocs(s, n, t, ExtendIntoNext(s, p, nb, size, nsize), p, nb)
<1> DEFINE l == {}
           all == size + nsize
           rest == all - nb
           b == next + nsize
           v == UnlinkChunk(s, next, nsize)
           h == Less(g, next)
           k == Plus(l, next)
           u == SetInuse(v, p, all)
<1>1. /\ Heap(s, n, t, g, l) /\ p \in t \ {0} /\ next \in t
      /\ Used(s.word, p) /\ p # s.dv /\ p \notin g
      /\ p \in Nat /\ next \in Nat /\ n \in Nat /\ p + 4 <= next
      /\ next = p + size /\ size \in Nat
      /\ s \in Spaces(n) /\ t \subseteq Nat /\ g \subseteq t
      /\ s.dvsize = 0 => s.dv = 0
      /\ s.dvsize # 0 => s.dv \in t
  BY DEF Owned
<1>2. next \in g
  BY <1>1 DEF Heap
<1>3. FreeBehind(s, n, t, g, p, next, b)
  BY FreeBehindFacts
<1>4. nsize \in Nat /\ all \in Nat /\ all = b - p /\ p + size = next
  <2>1. nsize \in Nat
    BY <1>1, ChunkFacts
  <2> QED
    BY <1>1, <2>1
<1>5. k = {next}
  BY DEF Plus
<1> HIDE DEF l, b
<1>6. /\ b \in t /\ b \in Nat /\ next + 4 <= b /\ b + 1 < n
      /\ \A q \in t : q \in p..(b - 1) => q = p \/ q = next
  BY <1>3 DEF FreeBehind
<1>7. p < b /\ next \in p..(b - 1)
  BY <1>1, <1>6
<1>8. Heap(v, n, t, h, k) /\ v \in Spaces(n) /\ OnlyBins(s, v)
  BY <1>1, <1>2, ChunkUnlinked
<1>9. CASE all < nb
  BY <1>9 DEF Reallocs, ExtendIntoNext, NotInPlace
<1>10. CASE ~(all < nb)
  <2>1. ExtendIntoNext(s, p, nb, size, nsize) = WithinChunk(v, p, nb, all)
    BY <1>4, <1>10 DEF ExtendIntoNext
  <2>2. v.word = s.word /\ v.dv = s.dv
    BY <1>8 DEF OnlyBins, SameDv
  <2>3. h \cap (p..(b - 1)) = {}
    BY <1>1, <1>6 DEF Less
  <2>4. k \subseteq p..(b - 1)
    BY <1>5, <1>7
  <2> HIDE DEF v, h, k
  <2>5. Grabbed(v, n, t, h, k, p, b)
    BY <1>1, <1>6, <1>7, <1>8, <2>2, <2>3, <2>4 DEF Grabbed
  <2>6. v.dv \notin p..(b - 1)
    BY <1>1, <1>6, <2>2
  <2>7. rest \in Nat /\ p + nb + rest = b
    BY <1>1, <1>4, <1>6, <1>10
  <2>8. CASE rest >= MinChunkSize
    <3>1. WithinChunk(v, p, nb, all) = [space |-> LetGo(v, p, nb, rest), done |-> TRUE]
      <4>1. ~(all - nb < MinChunkSize)
        BY <1>4, <2>7, <2>8 DEF MinChunkSize
      <4> QED
        BY <4>1 DEF WithinChunk, InPlace
    <3> HIDE DEF rest, all
    <3>2. Resized(v.word, t, LetGo(v, p, nb, rest), n, p, nb)
      BY <2>5, <2>6, <2>7, <2>8, RestLetGo
    <3> QED
      BY <2>1, <2>2, <3>1, <3>2 DEF Reallocs
  <2>9. CASE ~(rest >= MinChunkSize)
    <3>1. WithinChunk(v, p, nb, all) = [space |-> u, done |-> TRUE]
      <4>1. all - nb < MinChunkSize
        BY <1>4, <2>7, <2>9 DEF MinChunkSize
      <4> QED
        BY <4>1 DEF WithinChunk, InPlace
    <3>2. nb <= b - p /\ b - p < nb + MinChunkSize
      BY <1>4, <1>10, <2>9 DEF MinChunkSize
    <3>3. u.word = SetInuse(v, p, b - p).word
      BY <1>4
    <3> HIDE DEF rest, all
    <3>4. u \in Spaces(n) /\ OnlyWords(v, u)
      BY <1>1, <1>4, <1>6, <1>7, <1>8, InuseUpTo
    <3> HIDE DEF u
    <3>5. /\ SameBins(v, u) /\ SameLimit(v, u) /\ SameTop(v, u)
          /\ DvMoves(v, u, p, b, {})
      BY <2>6, <3>4 DEF OnlyWords, DvMoves
    <3>6. Resized(v.word, t, u, n, p, nb)
      BY <2>5, <3>2, <3>3, <3>4, <3>5, AllIsUsed
    <3> QED
      BY <2>1, <2>2, <3>1, <3>6 DEF Reallocs
  <2> QED
    BY <2>8, <2>9
<1> QED
  BY <1>9, <1>10

\* realloc in place: the chunk has its new size, with its words, or nothing
\* at all has happened.
LEMMA TriedInPlace ==
  ASSUME NEW s, NEW n, NEW t, Settled(s, n, t), NEW p \in t \ {0},
         Used(s.word, p), NEW nb \in Nat, nb >= MinChunkSize
  PROVE  Reallocs(s, n, t, TryReallocChunk(s, p, nb), p, nb)
<1> DEFINE size == Size(s.word, p)
           next == p + size
           nsize == Size(s.word, next)
<1>1. PICK g : Heap(s, n, t, g, {})
  BY DEF Settled
<1>2. Owned(s, n, t, g, p, next)
  BY <1>1, OwnedFacts
<1>3. size \in Nat
  BY <1>2 DEF Owned
<1>4. /\ ChunkSize(s, p) = size /\ ChunkSize(s, next) = nsize
      /\ Cinuse(s, next) = Used(s.word, next)
  BY DEF ChunkSize, Size, Cinuse, Used
<1>5. TryReallocChunk(s, p, nb) =
        IF size >= nb THEN Shrink(s, p, nb, size)
        ELSE IF next = s.top THEN ExtendIntoTop(s, p, nb, size)
        ELSE IF next = s.dv THEN ExtendIntoDv(s, p, nb, size)
        ELSE IF ~Used(s.word, next) THEN ExtendIntoNext(s, p, nb, size, nsize)
        ELSE NotInPlace(s)
  BY <1>4 DEF TryReallocChunk
<1> DEFINE r == TryReallocChunk(s, p, nb)
<1>6. r = TryReallocChunk(s, p, nb)
  OBVIOUS
<1>7. size = Size(s.word, p) /\ nsize = Size(s.word, next)
  OBVIOUS
<1> HIDE DEF size, next, nsize, r
<1>8. CASE size >= nb
  <2>1. nb <= size
    BY <1>3, <1>8
  <2> QED
    BY <1>2, <1>5, <1>7, <1>8, <2>1, ShrinkReallocs
<1>9. CASE ~(size >= nb) /\ next = s.top
  <2>1. size < nb
    BY <1>3, <1>9
  <2> QED
    BY <1>2, <1>5, <1>7, <1>9, <2>1, TopExtends
<1>10. CASE ~(size >= nb) /\ next # s.top /\ next = s.dv
  <2>1. size < nb
    BY <1>3, <1>10
  <2> QED
    BY <1>2, <1>5, <1>7, <1>10, <2>1, DvExtends
<1>11. CASE ~(size >= nb) /\ next # s.top /\ next # s.dv /\ ~Used(s.word, next)
  BY <1>2, <1>5, <1>7, <1>11, NextExtends
<1>12. CASE ~(size >= nb) /\ next # s.top /\ next # s.dv /\ Used(s.word, next)
  BY <1>5, <1>12 DEF Reallocs, NotInPlace
<1> QED
  BY <1>8, <1>9, <1>10, <1>11, <1>12

------------------------------------------------------------------------------
(* What an owner, or realloc, writes into a block.                          *)

\* Memory with other words.
Rewritten(s, x) == [s EXCEPT !.word = x]

\* The words that an owner may write are anything: nothing depends on them.
LEMMA InsideIsWritten ==
  ASSUME NEW s, NEW n, NEW t, Settled(s, n, t), NEW q \in t, Used(s.word, q),
         NEW x \in [0..(n - 1) -> Words], NEW m \in Nat,
         m <= q + Size(s.word, q), Same(s.word, x, n, q + 2 .. m),
         NEW one, one = {q}
  PROVE  LET u == Rewritten(s, x)
         IN  /\ Settled(u, n, t) /\ u.word = x
             /\ Changes(s.word, t, x, t, one, one)
             /\ Size(x, q) = Size(s.word, q) /\ Used(x, q)
<1> DEFINE u == Rewritten(s, x)
           l == {}
<1>1. PICK g : Heap(s, n, t, g, l)
  BY DEF Settled
<1>2. n \in Nat /\ s \in Spaces(n) /\ q \notin g
  BY <1>1 DEF Heap, Roomy
<1>3. u \in Spaces(n) /\ OnlyWords(s, u) /\ u.word = x
  BY <1>2, WordsAreSet DEF Rewritten
<1> HIDE DEF l, u
<1>4. /\ Heap(u, n, t, g, l)
      /\ \A p \in t : u.word[p + 1] = s.word[p + 1]
      /\ \A p \in t \ {q} : Kept(s.word, u.word, p)
  BY <1>1, <1>2, <1>3, InsideIsFree
<1>5. Settled(u, n, t)
  BY <1>4 DEF Settled, l
<1>6. \A p \in t : Used(x, p) = Used(s.word, p) /\ Size(x, p) = Size(s.word, p)
  BY <1>3, <1>4 DEF Used, Size
<1>7. Users(x, t) = (Users(s.word, t) \ one) \cup one
  <2>1. Users(x, t) = Users(s.word, t)
    BY <1>6 DEF Users
  <2>2. q \in Users(s.word, t)
    BY DEF Users
  <2> QED
    BY <2>1, <2>2
<1>8. Changes(s.word, t, x, t, one, one)
  <2>1. \A p \in Users(s.word, t) \ one : Kept(s.word, x, p)
    BY <1>3, <1>4 DEF Users
  <2> QED
    BY <1>7, <2>1 DEF Changes
<1> QED
  BY <1>3, <1>5, <1>6, <1>8 DEF u

\* The smaller of two numbers.
LEMMA SmallerOfTwo ==
  ASSUME NEW a \in Nat, NEW b \in Nat
  PROVE  Min({a, b}) \in Nat /\ Min({a, b}) <= a /\ Min({a, b}) <= b
         /\ \A j \in Nat : j < a /\ j < b => j < Min({a, b})
<1> DEFINE S == {a, b}
<1>1. \E x \in S : \A y \in S : x <= y
  BY DEF S
<1>2. Min(S) \in S /\ \A y \in S : Min(S) <= y
  <2> HIDE DEF S
  <2> QED
    BY <1>1 DEF Min
<1> DEFINE k == Min(S)
<1>3. (k = a \/ k = b) /\ k <= a /\ k <= b
  BY <1>2
<1> HIDE DEF k
<1> QED
  BY <1>3 DEF k, S

\* k words from one address are at another, and no other word changes.
CopyOf(s, c, x, n, from, to, k) ==
  /\ c = Rewritten(s, x)
  /\ Same(s.word, x, n, to .. to + k - 1)
  /\ \A j \in 0..(k - 1) : x[to + j] = s.word[from + j]

\* memcpy copies that many words and changes no other.
LEMMA WordsAreCopied ==
  ASSUME NEW n \in Nat, NEW s \in Spaces(n), NEW from \in Nat, NEW to \in Nat,
         NEW k \in Nat, from + k <= n, to + k <= n
  PROVE  \E x \in [0..(n - 1) -> Words] :
           CopyOf(s, Copied(s, from, to, k), x, n, from, to, k)
<1> DEFINE x == [a \in DOMAIN s.word |->
                   IF a \in to .. to + k - 1 THEN s.word[from + a - to]
                   ELSE s.word[a]]
<1>1. s.word \in [0..(n - 1) -> Words] /\ DOMAIN s.word = 0..(n - 1)
  BY DEF Spaces
<1>2. \A a \in to .. to + k - 1 : from + a - to \in 0..(n - 1)
  OBVIOUS
<1>3. x \in [0..(n - 1) -> Words]
  BY <1>1, <1>2
<1>4. Copied(s, from, to, k) = Rewritten(s, x)
  BY DEF Copied, Rewritten
<1>5. Same(s.word, x, n, to .. to + k - 1)
  BY <1>1 DEF Same
<1>6. ASSUME NEW j \in 0..(k - 1)
      PROVE  x[to + j] = s.word[from + j]
  <2>1. to + j \in 0..(n - 1) /\ to + j \in to .. to + k - 1
    OBVIOUS
  <2>2. x[to + j] = s.word[from + (to + j) - to]
    BY <1>1, <2>1
  <2>3. from + (to + j) - to = from + j
    OBVIOUS
  <2> QED
    BY <2>2, <2>3
<1> HIDE DEF x
<1>7. CopyOf(s, Copied(s, from, to, k), x, n, from, to, k)
  BY <1>4, <1>5, <1>6 DEF CopyOf
<1> QED
  BY <1>3, <1>7

\* A chunk q of the size asked for is new among those in use, or one of those
\* gone.
Answered(w, t, u, n, q, gone, nb) ==
  \E d : /\ Settled(u, n, d) /\ q \in d /\ Used(u.word, q)
         /\ Size(u.word, q) - nb \in 0..(MinChunkSize - 1)
         /\ q \notin Users(w, t) \ gone
         /\ Changes(w, t, u.word, d, gone, {q})
\* The words of p are the first words of q.
Brought(w, x, p, q, words) ==
  \A j \in 0..(words - 1) : j + 2 <= Size(w, p) => x[q + 2 + j] = w[p + 2 + j]

\* The chunk q takes the place of p.
TakesPlace(w, d, u, n, p, q) ==
  \E e : /\ Settled(u, n, e) /\ q \in e
         /\ Changes(w, d, u.word, e, {p, q}, {q})

\* The block is copied, and the one it was in is freed.
LEMMA CopiedAndFreed ==
  ASSUME NEW s, NEW n, NEW d, Settled(s, n, d), NEW p \in d \ {0},
         NEW q \in d, p # q, Used(s.word, p), Used(s.word, q),
         NEW words \in Nat, words + 1 <= Size(s.word, q),
         NEW k, k = Min({UsableSize(s, ChunkToMem(p)), words}),
         NEW u, u = MspaceFree(Copied(s, ChunkToMem(p), ChunkToMem(q), k),
                               ChunkToMem(p)),
         NEW one, one = {p}, NEW other, other = {q}
  PROVE  /\ TakesPlace(s.word, d, u, n, p, q)
         /\ Used(u.word, q) /\ Size(u.word, q) = Size(s.word, q)
         /\ Brought(s.word, u.word, p, q, words)
<1> DEFINE l == {}
<1>1. PICK g : Heap(s, n, d, g, l)
  BY DEF Settled
<1>2. p # s.top /\ q # s.top
  BY <1>1 DEF Heap, TopHolds
<1>3. /\ p \in Nat /\ n \in Nat /\ Size(s.word, p) \in Nat
      /\ Size(s.word, p) >= 4 /\ p + Size(s.word, p) <= End(n)
      /\ End(n) + 4 <= n
  BY <1>1, <1>2, ChunkFacts
<1>4. /\ q \in Nat /\ Size(s.word, q) \in Nat /\ q + Size(s.word, q) <= End(n)
      /\ Size(s.word, q) >= 4
  BY <1>1, <1>2, ChunkFacts
<1>5. s \in Spaces(n) /\ End(n) \in Nat
  BY <1>1, <1>3, EndIsInside DEF Heap
<1> HIDE DEF l
<1> DEFINE from == p + 2
           to == q + 2
           usable == Size(s.word, p) - 1
           m == to + k - 1
<1>6. /\ k = Min({usable, words}) /\ usable \in Nat
      /\ ChunkToMem(p) = from /\ ChunkToMem(q) = to
  <2>1. MemToChunk(ChunkToMem(p)) = p /\ usable \in Nat
    BY <1>3 DEF ChunkToMem, MemToChunk
  <2>2. UsableSize(s, ChunkToMem(p)) = usable
    BY <2>1 DEF UsableSize, ChunkSize, Size, Overhead
  <2> QED
    BY <2>1, <2>2 DEF ChunkToMem
<1> HIDE DEF usable
<1>7. /\ k \in Nat /\ k <= usable /\ k <= words
      /\ \A j \in Nat : j < usable /\ j < words => j < k
  BY <1>6, SmallerOfTwo
<1>8. /\ from + k <= n /\ to + k <= n /\ m <= q + Size(s.word, q) /\ m \in Nat
      /\ from \in Nat /\ to \in Nat /\ m = to + k - 1
  BY <1>3, <1>4, <1>5, <1>7 DEF usable
<1> DEFINE c == Copied(s, from, to, k)
<1>9. PICK x \in [0..(n - 1) -> Words] : CopyOf(s, c, x, n, from, to, k)
  <2> HIDE DEF from, to
  <2>1. /\ n \in Nat /\ s \in Spaces(n) /\ from \in Nat /\ to \in Nat /\ k \in Nat
        /\ from + k <= n /\ to + k <= n
    BY <1>3, <1>5, <1>7, <1>8
  <2> QED
    BY <2>1, WordsAreCopied
<1>10. Same(s.word, x, n, q + 2 .. m)
  BY <1>9 DEF CopyOf
<1>11. u = MspaceFree(c, ChunkToMem(p))
  BY <1>6
<1> HIDE DEF c, m, from, to
<1>12. /\ Settled(c, n, d) /\ c.word = x
       /\ Changes(s.word, d, x, d, other, other)
       /\ Size(x, q) = Size(s.word, q) /\ Used(x, q)
  <2>1. m \in Nat /\ m <= q + Size(s.word, q) /\ q \in d
    BY <1>8
  <2>2. c = Rewritten(s, x) /\ x \in [0..(n - 1) -> Words]
    BY <1>9 DEF CopyOf
  <2> QED
    BY <1>10, <2>1, <2>2, InsideIsWritten
<1>13. Kept(s.word, x, p)
  BY <1>12 DEF Changes, Users
<1>14. Used(c.word, p)
  BY <1>12, <1>13 DEF Kept
<1>15. Ended(c.word, d, u, n, one, {})
  BY <1>11, <1>12, <1>14, Freed
<1>16. PICK e : Settled(u, n, e) /\ Changes(c.word, d, u.word, e, one, {})
  BY <1>15 DEF Ended
<1>17. q \in Users(c.word, d) \ one
  BY <1>12 DEF Users
<1>18. Kept(x, u.word, q) /\ q \in Users(u.word, e)
  BY <1>12, <1>16, <1>17 DEF Changes
<1>19. Changes(s.word, d, u.word, e, other \cup one, (other \ one) \cup {})
  BY <1>12, <1>16, ChangesFollow
<1>20. ASSUME NEW j \in 0..(words - 1), j + 2 <= Size(s.word, p)
       PROVE  u.word[q + 2 + j] = s.word[p + 2 + j]
  <2>1. j < usable /\ j < words /\ j \in Nat
    BY <1>3, <1>20 DEF usable
  <2>2. j \in 0..(k - 1)
    <3>1. j < k /\ k \in Nat
      BY <1>7, <2>1
    <3> QED
      BY <2>1, <3>1
  <2>3. x[q + 2 + j] = s.word[p + 2 + j]
    BY <1>9, <2>2 DEF from, to, CopyOf
  <2>4. q + 2 + j \in q + 2 .. q + Size(x, q)
    BY <1>4, <1>7, <1>12, <2>2
  <2> QED
    BY <1>18, <2>3, <2>4 DEF Kept
<1>21. Brought(s.word, u.word, p, q, words)
  BY <1>20 DEF Brought
<1>22. Used(u.word, q) /\ Size(u.word, q) = Size(s.word, q) /\ q \in e
  BY <1>12, <1>18 DEF Kept, Users
<1>23. other \cup one = {p, q} /\ (other \ one) \cup {} = other
  OBVIOUS
<1>24. Changes(s.word, d, u.word, e, {p, q}, other)
  BY <1>19, <1>23
<1>25. TakesPlace(s.word, d, u, n, p, q)
  BY <1>16, <1>22, <1>24 DEF TakesPlace
<1> QED
  BY <1>21, <1>22, <1>25

\* What realloc answers to a request of words in place of chunk p: nothing has
\* happened, or a chunk of that size, with all words that were there before,
\* has taken its place.
ReallocAnswers(s, n, t, a, p, nb, words) ==
  \/ a = Refused(s)
  \/ \E q : /\ a.mem = ChunkToMem(q) /\ Answered(s.word, t, a.space, n, q, {p}, nb)
            /\ Brought(s.word, a.space.word, p, q, words)

\* A chunk that was resized in place answers the call.
LEMMA InPlaceAnswers ==
  ASSUME NEW s, NEW n, NEW t, NEW u, NEW p \in Nat, NEW nb \in Nat,
         NEW words \in Nat, words + 1 <= nb, Resized(s.word, t, u, n, p, nb),
         Size(s.word, p) \in Nat
  PROVE  ReallocAnswers(s, n, t, Given(u, p), p, nb, words)
<1> DEFINE one == {p}
           size == Size(u.word, p)
<1>1. PICK d : /\ Settled(u, n, d) /\ Changes(s.word, t, u.word, d, one, one)
               /\ size - nb \in 0..(MinChunkSize - 1)
               /\ \A a \in p + 2 .. p + Size(s.word, p) :
                    a <= p + size => u.word[a] = s.word[a]
  BY DEF Resized
<1>2. p \in d /\ Used(u.word, p)
  BY <1>1 DEF Changes, Users
<1>3. size \in Nat
  <2>1. PICK g : Heap(u, n, d, g, {})
    BY <1>1 DEF Settled
  <2> DEFINE l == {}
  <2>2. Heap(u, n, d, g, l)
    BY <2>1
  <2> HIDE DEF l
  <2> QED
    BY <1>2, <2>2, ChunkFacts
<1>4. p \notin Users(s.word, t) \ one
  OBVIOUS
<1>5. Answered(s.word, t, u, n, p, one, nb)
  BY <1>1, <1>2, <1>4 DEF Answered
<1> HIDE DEF size
<1>6. nb <= size
  BY <1>1, <1>3
<1>7. Brought(s.word, u.word, p, p, words)
  <2>1. ASSUME NEW j \in 0..(words - 1), j + 2 <= Size(s.word, p)
        PROVE  u.word[p + 2 + j] = s.word[p + 2 + j]
    <3>1. p + 2 + j \in p + 2 .. p + Size(s.word, p) /\ p + 2 + j <= p + size
      BY <1>3, <1>6, <2>1
    <3> QED
      BY <1>1, <3>1
  <2> QED
    BY <2>1 DEF Brought
<1> HIDE DEF one
<1>8. Given(u, p).mem = ChunkToMem(p) /\ Given(u, p).space = u
  BY DEF Given
<1> QED
  BY <1>5, <1>7, <1>8 DEF ReallocAnswers, one

\* A block that was copied to a new chunk answers the call.
LEMMA MovedAnswers ==
  ASSUME NEW s, NEW n, NEW t, Settled(s, n, t), NEW p \in t \ {0},
         Used(s.word, p), NEW nb \in Nat,
         NEW words \in Nat, words + 1 <= nb, NEW a, Answers(s, n, t, a, nb)
  PROVE  ReallocAnswers(s, n, t, MoveTo(a, ChunkToMem(p), words), p, nb, words)
<1> DEFINE one == {p}
           mem == ChunkToMem(p)
<1>1. CASE a = Refused(s)
  <2>1. MoveTo(a, mem, words) = a
    BY <1>1 DEF MoveTo, Refused
  <2> QED
    BY <1>1, <2>1 DEF ReallocAnswers
<1>2. CASE Gives(s, n, t, a, nb)
  <2> DEFINE v == a.space
  <2>1. PICK d : \E q \in d :
          /\ a.mem = ChunkToMem(q) /\ Settled(v, n, d)
          /\ Taken(s.word, t, v.word, d, q, nb)
    BY <1>2 DEF Gives
  <2>2. PICK q \in d : /\ a.mem = ChunkToMem(q) /\ Settled(v, n, d)
                       /\ Taken(s.word, t, v.word, d, q, nb)
    BY <2>1
  <2> DEFINE other == {q}
             k == Min({UsableSize(v, mem), words})
             c == Copied(v, mem, ChunkToMem(q), k)
             u == MspaceFree(c, mem)
  <2>3. /\ q \notin Users(s.word, t) /\ Used(v.word, q)
        /\ Size(v.word, q) - nb \in 0..(MinChunkSize - 1)
        /\ Changes(s.word, t, v.word, d, {}, other)
    BY <2>2 DEF Taken
  <2>4. p \in Users(s.word, t) /\ p # q /\ p \in Nat
    BY <2>3 DEF Users, Settled, Heap, Tiled
  <2>5. Kept(s.word, v.word, p) /\ p \in d
    BY <2>3, <2>4 DEF Changes, Users
  <2>6. Used(v.word, p) /\ Size(v.word, p) = Size(s.word, p)
    BY <2>4, <2>5 DEF Kept, Users
  <2>7. q \in Nat /\ Size(v.word, q) \in Nat
    <3>1. PICK g : Heap(v, n, d, g, {})
      BY <2>2 DEF Settled
    <3> DEFINE l == {}
    <3>2. Heap(v, n, d, g, l)
      BY <3>1
    <3> HIDE DEF l
    <3> QED
      BY <2>2, <3>2, ChunkFacts
  <2>8. words + 1 <= Size(v.word, q)
    BY <2>3, <2>7
  <2>9. MoveTo(a, mem, words) = [space |-> u, mem |-> a.mem]
    <3>1. a.mem # NoBlock /\ a.mem # Outside
      BY <2>2, <2>7 DEF ChunkToMem, NoBlock, Outside
    <3> QED
      BY <2>2, <3>1 DEF MoveTo
  <2>10. Size(s.word, p) \in Nat
    <3>1. PICK g : Heap(s, n, t, g, {})
      BY DEF Settled
    <3> DEFINE l == {}
    <3>2. Heap(s, n, t, g, l)
      BY <3>1
    <3> HIDE DEF l
    <3> QED
      BY <2>2, <3>2, ChunkFacts
  <2> HIDE DEF other, one
  <2>11. /\ TakesPlace(v.word, d, u, n, p, q)
         /\ Used(u.word, q) /\ Size(u.word, q) = Size(v.word, q)
         /\ Brought(v.word, u.word, p, q, words)
    <3>1. p \in d \ {0} /\ other = {q} /\ one = {p}
      BY <2>5 DEF other, one
    <3>2. /\ k = Min({UsableSize(v, ChunkToMem(p)), words})
          /\ u = MspaceFree(Copied(v, ChunkToMem(p), ChunkToMem(q), k),
                            ChunkToMem(p))
      OBVIOUS
    <3>3. /\ Settled(v, n, d) /\ q \in d /\ p # q
          /\ Used(v.word, p) /\ Used(v.word, q)
          /\ words + 1 <= Size(v.word, q)
      BY <2>2, <2>3, <2>4, <2>6, <2>8
    <3> HIDE DEF v, u, k, mem, c
    <3> QED
      BY <3>1, <3>2, <3>3, CopiedAndFreed
  <2> HIDE DEF u, v
  <2>12. PICK e : /\ Settled(u, n, e) /\ q \in e
                  /\ Changes(v.word, d, u.word, e, {p, q}, {q})
    BY <2>11 DEF TakesPlace
  <2>13. Changes(s.word, t, u.word, e, {} \cup {p, q}, (other \ {p, q}) \cup {q})
    BY <2>3, <2>12, ChangesFollow
  <2>14. /\ (other \ {p, q}) \cup {q} = other
         /\ Users(s.word, t) \ ({} \cup {p, q}) = Users(s.word, t) \ one
    BY <2>3, <2>4 DEF other, one
  <2>15. Changes(s.word, t, u.word, e, one, other)
    BY <2>13, <2>14 DEF Changes
  <2>16. Size(u.word, q) - nb \in 0..(MinChunkSize - 1)
    BY <2>3, <2>11
  <2>17. Answered(s.word, t, u, n, q, one, nb)
    BY <2>3, <2>11, <2>12, <2>15, <2>16 DEF Answered, other
  <2>18. Brought(s.word, u.word, p, q, words)
    <3>1. ASSUME NEW j \in 0..(words - 1), j + 2 <= Size(s.word, p)
          PROVE  u.word[q + 2 + j] = s.word[p + 2 + j]
      <4>1. u.word[q + 2 + j] = v.word[p + 2 + j]
        BY <2>6, <2>11, <3>1 DEF Brought
      <4>2. p + 2 + j \in p + 2 .. p + Size(s.word, p)
        BY <2>4, <2>10, <3>1
      <4> QED
        BY <2>5, <4>1, <4>2 DEF Kept
    <3> QED
      BY <3>1 DEF Brought
  <2> QED
    <3> DEFINE r == MoveTo(a, mem, words)
    <3>1. r.space = u /\ r.mem = ChunkToMem(q)
      BY <2>2, <2>9
    <3> HIDE DEF r
    <3>2. ReallocAnswers(s, n, t, r, p, nb, words)
      BY <2>17, <2>18, <3>1 DEF ReallocAnswers, one
    <3> QED
      BY <3>2 DEF r
<1> QED
  BY <1>1, <1>2 DEF Answers

\* realloc, for every request.
THEOREM ReallocIsAnswered ==
  ASSUME NEW s, NEW n, NEW t, Settled(s, n, t), NEW p \in t \ {0},
         Used(s.word, p), NEW words \in Nat
  PROVE  ReallocAnswers(s, n, t, MspaceRealloc(s, ChunkToMem(p), words), p,
                        RequestToSize(words), words)
<1> DEFINE nb == RequestToSize(words)
           mem == ChunkToMem(p)
           r == TryReallocChunk(s, p, nb)
<1>1. p \in Nat /\ MemToChunk(mem) = p /\ Size(s.word, p) \in Nat
  <2>1. PICK g : Heap(s, n, t, g, {})
    BY DEF Settled
  <2> DEFINE l == {}
  <2>2. Heap(s, n, t, g, l)
    BY <2>1
  <2> HIDE DEF l
  <2>3. p \in Nat /\ Size(s.word, p) \in Nat
    BY <2>2, ChunkFacts
  <2> QED
    BY <2>3 DEF MemToChunk, ChunkToMem
<1>2. nb \in Nat /\ nb >= MinChunkSize /\ nb >= words + 1
  BY RequestsArePadded
<1>3. words + 1 <= nb
  BY <1>2
<1>4. MspaceRealloc(s, mem, words) =
        IF words >= MaxRequest THEN Refused(s)
        ELSE InPlaceOrMoved(s, r, mem, words)
  BY <1>1 DEF MspaceRealloc
<1>5. Reallocs(s, n, t, r, p, nb)
  BY <1>2, TriedInPlace
<1> HIDE DEF nb, r
<1>6. CASE words >= MaxRequest
  BY <1>4, <1>6 DEF ReallocAnswers
<1>7. CASE ~(words >= MaxRequest) /\ r.done
  <2>1. MspaceRealloc(s, mem, words) = Given(r.space, p)
    BY <1>1, <1>4, <1>7 DEF InPlaceOrMoved
  <2>2. Resized(s.word, t, r.space, n, p, nb)
    BY <1>5, <1>7 DEF Reallocs
  <2>3. ReallocAnswers(s, n, t, Given(r.space, p), p, nb, words)
    BY <1>1, <1>2, <1>3, <2>2, InPlaceAnswers
  <2> QED
    BY <2>1, <2>3 DEF nb
<1>8. CASE ~(words >= MaxRequest) /\ ~r.done
  <2> DEFINE a == MspaceMalloc(s, words)
  <2>1. MspaceRealloc(s, mem, words) = MoveTo(a, mem, words)
    BY <1>4, <1>8 DEF InPlaceOrMoved
  <2>2. Answers(s, n, t, a, nb)
    BY MallocAnswers DEF nb
  <2> HIDE DEF a
  <2>3. ReallocAnswers(s, n, t, MoveTo(a, ChunkToMem(p), words), p, nb, words)
    BY <1>2, <1>3, <2>2, MovedAnswers
  <2> QED
    BY <2>1, <2>3 DEF nb
<1> QED
  BY <1>6, <1>7, <1>8

\* malloc, in the same words.
LEMMA MallocIsAnswered ==
  ASSUME NEW s, NEW n, NEW t, Settled(s, n, t), NEW words \in Nat,
         NEW a, a = MspaceMalloc(s, words)
  PROVE  \/ a = Refused(s)
         \/ \E q : /\ a.mem = ChunkToMem(q)
                   /\ Answered(s.word, t, a.space, n, q, {}, RequestToSize(words))
<1> DEFINE nb == RequestToSize(words)
           none == {}
<1>1. a = Refused(s) \/ Gives(s, n, t, a, nb)
  BY MallocAnswers DEF Answers
<1> HIDE DEF nb
<1>2. ASSUME Gives(s, n, t, a, nb)
      PROVE  \E q : /\ a.mem = ChunkToMem(q)
                    /\ Answered(s.word, t, a.space, n, q, none, nb)
  <2>1. PICK d : \E q \in d :
          /\ a.mem = ChunkToMem(q) /\ Settled(a.space, n, d)
          /\ Taken(s.word, t, a.space.word, d, q, nb)
    BY <1>2 DEF Gives
  <2>2. PICK q \in d : /\ a.mem = ChunkToMem(q) /\ Settled(a.space, n, d)
                       /\ Taken(s.word, t, a.space.word, d, q, nb)
    BY <2>1
  <2>3. /\ q \notin Users(s.word, t) \ none /\ Used(a.space.word, q)
        /\ Size(a.space.word, q) - nb \in 0..(MinChunkSize - 1)
        /\ Changes(s.word, t, a.space.word, d, none, {q})
    BY <2>2 DEF Taken
  <2> HIDE DEF none
  <2>4. Answered(s.word, t, a.space, n, q, none, nb)
    BY <2>2, <2>3 DEF Answered
  <2> QED
    BY <2>2, <2>4
<1> QED
  BY <1>1, <1>2 DEF nb

\* What an owner writes stays inside its chunk.
\* The owner of the chunk q has written its words from the k-th on.
Wrote(s, u, n, t, q, k, words, one) ==
  /\ Settled(u, n, t) /\ Changes(s.word, t, u.word, t, one, one)
  /\ Size(u.word, q) = Size(s.word, q) /\ Used(u.word, q)
  /\ \A j \in 0..(words - 1) :
       u.word[q + 2 + j] = IF j < k THEN s.word[q + 2 + j] ELSE Data(j)

\* An owner's words change nothing that the heap depends on.
LEMMA OwnerWrites ==
  ASSUME NEW s, NEW n, NEW t, Settled(s, n, t), NEW q \in t, Used(s.word, q),
         NEW k \in Nat, NEW words \in Nat, k <= words,
         words + 1 <= Size(s.word, q), NEW one, one = {q}
  PROVE  Wrote(s, Written(s, ChunkToMem(q), k, words), n, t, q, k, words, one)
<1> DEFINE mem == ChunkToMem(q)
           size == Size(s.word, q)
           last == mem + ChunkSize(s, MemToChunk(mem)) - Overhead - 1
           x == [a \in DOMAIN s.word |->
                  IF a \in mem + k .. mem + words - 1 THEN Data(a - mem)
                  ELSE IF a \in mem + words .. last THEN Junk
                  ELSE s.word[a]]
           m == q + size
<1>1. /\ q \in Nat /\ n \in Nat /\ size \in Nat /\ m < n /\ m \in Nat
      /\ s \in Spaces(n)
  <2>1. PICK g : Heap(s, n, t, g, {})
    BY DEF Settled
  <2> DEFINE l == {}
  <2>2. Heap(s, n, t, g, l)
    BY <2>1
  <2> HIDE DEF l
  <2>3. /\ q \in Nat /\ n \in Nat /\ size \in Nat
        /\ m <= End(n) /\ End(n) + 4 <= n
    BY <2>2, ChunkFacts
  <2>4. End(n) \in Nat /\ s \in Spaces(n)
    BY <2>2, EndIsInside DEF Heap
  <2> QED
    BY <2>3, <2>4
<1>2. mem = q + 2 /\ last = m /\ mem \in Nat
  <2>1. mem = q + 2 /\ MemToChunk(mem) = q
    BY <1>1 DEF ChunkToMem, MemToChunk
  <2>2. last = mem + size - Overhead - 1
    BY <2>1 DEF ChunkSize, Size
  <2> HIDE DEF last
  <2> QED
    BY <1>1, <2>1, <2>2 DEF Overhead
<1>3. Written(s, mem, k, words) = Rewritten(s, x)
  BY DEF Written, Rewritten
<1>4. DOMAIN s.word = 0..(n - 1) /\ s.word \in [0..(n - 1) -> Words]
  BY <1>1 DEF Spaces
<1> HIDE DEF last, m, mem, size
<1>5. x \in [0..(n - 1) -> Words]
  <2>1. \A a \in mem + k .. mem + words - 1 : a - mem \in Nat
    BY <1>2
  <2> QED
    BY <1>4, <2>1, WordsAre
<1>6. Same(s.word, x, n, q + 2 .. m)
  <2>1. \A a \in mem + k .. mem + words - 1 : a \in q + 2 .. m
    BY <1>1, <1>2 DEF m, size
  <2>2. \A a \in mem + words .. last : a \in q + 2 .. m
    BY <1>1, <1>2
  <2> QED
    BY <1>4, <2>1, <2>2 DEF Same
<1>7. ASSUME NEW j \in 0..(words - 1)
      PROVE  x[q + 2 + j] = IF j < k THEN s.word[q + 2 + j] ELSE Data(j)
  <2> DEFINE a == q + 2 + j
  <2>1. a \in 0..(n - 1) /\ a - mem = j /\ a \notin mem + words .. last
    BY <1>1, <1>2 DEF m, size
  <2>2. a \in mem + k .. mem + words - 1 <=> ~(j < k)
    BY <1>1, <1>2
  <2> HIDE DEF a
  <2>3. x[a] = IF j < k THEN s.word[a] ELSE Data(j)
    BY <1>4, <2>1, <2>2
  <2> QED
    BY <2>3 DEF a
<1> HIDE DEF x
<1>8. /\ Settled(Rewritten(s, x), n, t) /\ Rewritten(s, x).word = x
      /\ Changes(s.word, t, x, t, one, one)
      /\ Size(x, q) = Size(s.word, q) /\ Used(x, q)
  <2>1. m <= q + Size(s.word, q) /\ m \in Nat
    BY <1>1 DEF m, size
  <2> QED
    <3>1. Settled(Rewritten(s, x), n, t) /\ Rewritten(s, x).word = x
      BY <1>5, <1>6, <2>1, InsideIsWritten
    <3>2. Changes(s.word, t, x, t, one, one)
      BY <1>5, <1>6, <2>1, InsideIsWritten
    <3>3. Size(x, q) = Size(s.word, q)
      <4>1. x[q + 1] = s.word[q + 1]
        <5>1. q + 1 \in 0..(n - 1) /\ q + 1 \notin q + 2 .. m
          BY <1>1 DEF m, size
        <5> QED
          BY <1>6, <5>1 DEF Same
      <4> QED
        BY <4>1 DEF Size
    <3>4. Used(x, q)
      BY <3>2 DEF Changes, Users
    <3> QED
      BY <3>1, <3>2, <3>3, <3>4
<1> DEFINE u == Written(s, ChunkToMem(q), k, words)
<1>9. u = Rewritten(s, x)
  BY <1>3 DEF mem
<1> HIDE DEF u
<1>10. /\ Settled(u, n, t) /\ u.word = x
  BY <1>8, <1>9
<1> QED
  BY <1>7, <1>8, <1>10 DEF u, Wrote

------------------------------------------------------------------------------
(* The blocks that the interpreter holds.                                   *)

\* The chunk p is as large as words need, and has them all.
Owns(w, p, words) ==
  /\ Used(w, p) /\ Size(w, p) - RequestToSize(words) \in 0..(MinChunkSize - 1)
  /\ \A k \in 0..(words - 1) : w[p + 2 + k] = Data(k)
\* The block b has a chunk in use, with its words.
IsBlock(w, t, b) ==
  \E p \in t \ {0} : \E words \in Nat :
    b = Block(ChunkToMem(p), words) /\ Owns(w, p, words)
\* Blocks bs are all that is in use but for the malloc_state.
BlocksAre(w, t, bs) ==
  /\ \A b \in bs : IsBlock(w, t, b)
  /\ \A p \in Users(w, t) : p # 0 => \E b \in bs : b.mem = ChunkToMem(p)
  /\ \A b, c \in bs : b.mem = c.mem => b = c

\* Chunks have addresses and sizes.
Numbered(w, t) == \A p \in t : p \in Nat /\ Size(w, p) \in Nat

\* The chunks of a settled heap have addresses, and the first is in use.
LEMMA ChunksAreNumbered ==
  ASSUME NEW s, NEW n, NEW t, Settled(s, n, t)
  PROVE  Numbered(s.word, t) /\ 0 \in Users(s.word, t)
<1>1. PICK g : Heap(s, n, t, g, {})
  BY DEF Settled
<1> DEFINE l == {}
<1>2. Heap(s, n, t, g, l)
  BY <1>1
<1> HIDE DEF l
<1>3. \A p \in t : p \in Nat /\ Size(s.word, p) \in Nat
  BY <1>2, ChunkFacts
<1>4. 0 \in t /\ Used(s.word, 0)
  BY <1>2 DEF Heap, Tiled
<1> QED
  BY <1>3, <1>4 DEF Numbered, Users

\* A chunk that is kept has its owner's words.
LEMMA OwnedIsKept ==
  ASSUME NEW w, NEW x, NEW p \in Nat, Kept(w, x, p), NEW words \in Nat,
         Size(w, p) \in Nat, Owns(w, p, words)
  PROVE  Owns(x, p, words)
<1>1. RequestToSize(words) \in Nat /\ RequestToSize(words) >= words + 1
  BY RequestsArePadded
<1>2. words + 1 <= Size(w, p)
  BY <1>1 DEF Owns
<1>3. \A k \in 0..(words - 1) : p + 2 + k \in p + 2 .. p + Size(w, p)
  BY <1>2
<1>4. \A k \in 0..(words - 1) : x[p + 2 + k] = w[p + 2 + k]
  BY <1>3 DEF Kept
<1>5. \A k \in 0..(words - 1) : x[p + 2 + k] = Data(k)
  BY <1>4 DEF Owns
<1>6. Used(x, p) /\ Size(x, p) - RequestToSize(words) \in 0..(MinChunkSize - 1)
  BY DEF Owns, Kept
<1> QED
  BY <1>5, <1>6 DEF Owns

\* Chunks gone are those of the blocks old.
GoneWith(bs, t, old, gone) ==
  \A b \in bs : \A p \in t : b.mem = ChunkToMem(p) => (b \in old <=> p \in gone)

\* The blocks that the call does not end are where they were, with their
\* words.
LEMMA BlocksStay ==
  ASSUME NEW w, NEW t, NEW bs, BlocksAre(w, t, bs), Numbered(w, t),
         NEW x, NEW d, NEW gone, NEW new, Changes(w, t, x, d, gone, new),
         NEW old, GoneWith(bs, t, old, gone), NEW b \in bs \ old
  PROVE  /\ IsBlock(x, d, b)
         /\ \E p \in Users(w, t) \ gone : p \in Nat /\ b.mem = ChunkToMem(p)
<1>1. PICK p \in t \ {0} : \E words \in Nat :
           b = Block(ChunkToMem(p), words) /\ Owns(w, p, words)
  BY DEF BlocksAre, IsBlock
<1>2. PICK words \in Nat : b = Block(ChunkToMem(p), words) /\ Owns(w, p, words)
  BY <1>1
<1>3. b.mem = ChunkToMem(p) /\ p \in Nat /\ Size(w, p) \in Nat
  BY <1>2 DEF Block, Numbered
<1>4. p \in Users(w, t) \ gone
  BY <1>2, <1>3 DEF GoneWith, Users, Owns
<1>5. Kept(w, x, p) /\ p \in d
  BY <1>4 DEF Changes, Users
<1>6. Owns(x, p, words)
  BY <1>2, <1>3, <1>5, OwnedIsKept
<1>7. IsBlock(x, d, b)
  BY <1>2, <1>5, <1>6 DEF IsBlock
<1> QED
  BY <1>3, <1>4, <1>7

\* After a free, the chunks in use are those of the remaining blocks.
LEMMA BlocksGo ==
  ASSUME NEW w, NEW t, NEW bs, BlocksAre(w, t, bs), Numbered(w, t),
         NEW x, NEW d, NEW gone, Changes(w, t, x, d, gone, {}),
         NEW old, GoneWith(bs, t, old, gone)
  PROVE  BlocksAre(x, d, bs \ old)
<1>1. \A b \in bs \ old : IsBlock(x, d, b)
  <2> DEFINE new == {}
  <2>1. Changes(w, t, x, d, gone, new)
    OBVIOUS
  <2> HIDE DEF new
  <2> QED
    BY <2>1, BlocksStay
<1>2. ASSUME NEW p \in Users(x, d), p # 0
      PROVE  \E b \in bs \ old : b.mem = ChunkToMem(p)
  <2>1. p \in Users(w, t) \ gone
    BY DEF Changes
  <2>2. PICK b \in bs : b.mem = ChunkToMem(p)
    BY <1>2, <2>1 DEF BlocksAre
  <2>3. b \notin old
    BY <2>1, <2>2 DEF GoneWith, Users
  <2> QED
    BY <2>2, <2>3
<1>3. \A b, c \in bs \ old : b.mem = c.mem => b = c
  BY DEF BlocksAre
<1> QED
  BY <1>1, <1>2, <1>3 DEF BlocksAre

\* After an answer, the chunks in use are those of the blocks and the new one.
LEMMA BlocksCome ==
  ASSUME NEW w, NEW t, NEW bs, BlocksAre(w, t, bs), Numbered(w, t),
         NEW x, NEW d, NEW gone, NEW new, Changes(w, t, x, d, gone, new),
         NEW old, GoneWith(bs, t, old, gone),
         NEW q \in d \ {0}, q \in Nat, new = {q}, q \notin Users(w, t) \ gone,
         NEW words \in Nat, Owns(x, q, words), NEW b0,
         b0 = Block(ChunkToMem(q), words)
  PROVE  BlocksAre(x, d, (bs \ old) \cup {b0})
<1> DEFINE more == (bs \ old) \cup {b0}
<1>1. \A b \in bs \ old : IsBlock(x, d, b)
  BY BlocksStay
<1>2. IsBlock(x, d, b0) /\ b0.mem = ChunkToMem(q)
  BY DEF IsBlock, Block
<1>3. ASSUME NEW p \in Users(x, d), p # 0
      PROVE  \E b \in more : b.mem = ChunkToMem(p)
  <2>1. CASE p = q
    BY <1>2, <2>1
  <2>2. CASE p # q
    <3>1. p \in Users(w, t) \ gone
      BY <2>2 DEF Changes
    <3>2. PICK b \in bs : b.mem = ChunkToMem(p)
      BY <1>3, <3>1 DEF BlocksAre
    <3>3. b \notin old
      BY <3>1, <3>2 DEF GoneWith, Users
    <3> QED
      BY <3>2, <3>3
  <2> QED
    BY <2>1, <2>2
<1>4. ASSUME NEW b \in bs \ old PROVE b.mem # b0.mem
  <2>1. PICK p \in Users(w, t) \ gone : p \in Nat /\ b.mem = ChunkToMem(p)
    BY BlocksStay
  <2>2. p # q
    BY <2>1
  <2> QED
    BY <1>2, <2>1, <2>2 DEF ChunkToMem
<1>5. \A b, c \in more : b.mem = c.mem => b = c
  BY <1>4 DEF BlocksAre
<1> QED
  BY <1>1, <1>2, <1>3, <1>5 DEF BlocksAre

\* The chunk that was answered, after its owner has written into it.
OwnedAnswer(w, t, u, n, q, gone, words) ==
  \E d : /\ Settled(u, n, d) /\ q \in d \ {0} /\ q \in Nat
         /\ Changes(w, t, u.word, d, gone, {q}) /\ Owns(u.word, q, words)
         /\ q \notin Users(w, t) \ gone

\* The words asked for fit into the chunk that answers.
LEMMA AnswerIsOwned ==
  ASSUME NEW w, NEW t, NEW v, NEW n, NEW q, NEW gone, NEW words \in Nat,
         Answered(w, t, v, n, q, gone, RequestToSize(words)),
         0 \in Users(w, t) \ gone, NEW k \in Nat, k <= words,
         \A j \in 0..(k - 1) : v.word[q + 2 + j] = Data(j)
  PROVE  OwnedAnswer(w, t, Written(v, ChunkToMem(q), k, words), n, q, gone, words)
<1> DEFINE nb == RequestToSize(words)
           one == {q}
           u == Written(v, ChunkToMem(q), k, words)
<1>1. PICK d : /\ Settled(v, n, d) /\ q \in d /\ Used(v.word, q)
               /\ Size(v.word, q) - nb \in 0..(MinChunkSize - 1)
               /\ q \notin Users(w, t) \ gone
               /\ Changes(w, t, v.word, d, gone, one)
  BY DEF Answered
<1>2. nb \in Nat /\ nb >= words + 1
  BY RequestsArePadded
<1>3. Numbered(v.word, d)
  BY <1>1, ChunksAreNumbered
<1>4. q \in Nat /\ Size(v.word, q) \in Nat
  BY <1>1, <1>3 DEF Numbered
<1>5. words + 1 <= Size(v.word, q)
  BY <1>1, <1>2, <1>4
<1> HIDE DEF nb
<1>6. one = {q}
  OBVIOUS
<1> HIDE DEF one
<1>70. Wrote(v, u, n, d, q, k, words, one)
  BY <1>1, <1>5, <1>6, OwnerWrites
<1> HIDE DEF u
<1>7. /\ Settled(u, n, d) /\ Changes(v.word, d, u.word, d, one, one)
      /\ Size(u.word, q) = Size(v.word, q) /\ Used(u.word, q)
      /\ \A j \in 0..(words - 1) :
           u.word[q + 2 + j] = IF j < k THEN v.word[q + 2 + j] ELSE Data(j)
  BY <1>70 DEF Wrote
<1>8. \A j \in 0..(words - 1) : u.word[q + 2 + j] = Data(j)
  BY <1>7
<1>9. Owns(u.word, q, words)
  BY <1>1, <1>7, <1>8 DEF Owns, nb
<1>10. Changes(w, t, u.word, d, gone \cup one, (one \ one) \cup one)
  BY <1>1, <1>7, ChangesFollow
<1>11. /\ (one \ one) \cup one = one
       /\ Users(w, t) \ (gone \cup one) = Users(w, t) \ gone
  BY <1>1, <1>6
<1>12. Changes(w, t, u.word, d, gone, one)
  BY <1>10, <1>11 DEF Changes
<1>13. q \in d \ {0}
  BY <1>1
<1>14. OwnedAnswer(w, t, u, n, q, gone, words)
  BY <1>1, <1>4, <1>6, <1>7, <1>9, <1>12, <1>13 DEF OwnedAnswer
<1> QED
  BY <1>14 DEF u

\* A pool of n words, with chunks t, that holds the blocks bs.
PoolIs(s, bs, n, t) ==
  /\ n \in PoolSizes /\ Settled(s, n, t) /\ BlocksAre(s.word, t, bs)
  /\ Size(s.word, 0) = StateSize
\* The inductive invariant of a pool.
PoolInv == \E n, t : PoolIs(space, blocks, n, t)

\* The malloc_state stays where it is.
LEMMA FirstStays ==
  ASSUME NEW w, NEW t, NEW x, NEW d, NEW gone, NEW new,
         Changes(w, t, x, d, gone, new), 0 \in Users(w, t) \ gone,
         Size(w, 0) = StateSize
  PROVE  Size(x, 0) = StateSize
  BY DEF Changes, Kept

\* The block b is in the place of the blocks old.
PoolHas(u, bs, old, b, n) == \E d : PoolIs(u, (bs \ old) \cup {b}, n, d)

\* A call that answers: the block is there, and old ones are gone.
LEMMA PoolAnswers ==
  ASSUME NEW s, NEW bs, NEW n, NEW t, PoolIs(s, bs, n, t),
         NEW gone, NEW old, GoneWith(bs, t, old, gone), 0 \notin gone,
         NEW a, NEW q, a.mem = ChunkToMem(q), NEW words \in Nat,
         Answered(s.word, t, a.space, n, q, gone, RequestToSize(words)),
         NEW k \in Nat, k <= words,
         \A j \in 0..(k - 1) : a.space.word[q + 2 + j] = Data(j)
  PROVE  /\ a.mem \notin {NoBlock, Outside}
         /\ PoolHas(Written(a.space, a.mem, k, words), bs, old,
                    Block(a.mem, words), n)
<1> DEFINE u == Written(a.space, a.mem, k, words)
           new == {q}
           b0 == Block(ChunkToMem(q), words)
           more == (bs \ old) \cup {b0}
<1>1. /\ n \in PoolSizes /\ Settled(s, n, t) /\ BlocksAre(s.word, t, bs)
      /\ Size(s.word, 0) = StateSize
  BY DEF PoolIs
<1>2. Numbered(s.word, t) /\ 0 \in Users(s.word, t) \ gone
  BY <1>1, ChunksAreNumbered
<1>3. OwnedAnswer(s.word, t, u, n, q, gone, words)
  BY <1>2, AnswerIsOwned
<1>4. new = {q} /\ b0 = Block(ChunkToMem(q), words) /\ b0 = Block(a.mem, words)
  OBVIOUS
<1> HIDE DEF u, new, b0
<1>5. PICK d : /\ Settled(u, n, d) /\ q \in d \ {0} /\ q \in Nat
               /\ Changes(s.word, t, u.word, d, gone, new)
               /\ Owns(u.word, q, words) /\ q \notin Users(s.word, t) \ gone
  BY <1>3, <1>4 DEF OwnedAnswer
<1>6. BlocksAre(u.word, d, more)
  BY <1>1, <1>2, <1>4, <1>5, BlocksCome
<1>7. Size(u.word, 0) = StateSize
  BY <1>1, <1>2, <1>5, FirstStays
<1>8. a.mem \notin {NoBlock, Outside}
  BY <1>5 DEF ChunkToMem, NoBlock, Outside
<1>9. PoolIs(u, more, n, d)
  BY <1>1, <1>5, <1>6, <1>7 DEF PoolIs
<1> QED
  BY <1>4, <1>8, <1>9 DEF u, PoolHas

\* malloc keeps PoolInv.
LEMMA MallocKeepsPool ==
  ASSUME PoolInv, NEW words \in Nat,
         Answer(MspaceMalloc(space, words), words, 0, blocks, {})
  PROVE  PoolInv'
<1> DEFINE a == MspaceMalloc(space, words)
           none == {}
<1>1. PICK n, t : PoolIs(space, blocks, n, t)
  BY DEF PoolInv
<1>2. Settled(space, n, t)
  BY <1>1 DEF PoolIs
<1>3. \/ a = Refused(space)
      \/ \E q : /\ a.mem = ChunkToMem(q)
                /\ Answered(space.word, t, a.space, n, q, none, RequestToSize(words))
  BY <1>2, MallocIsAnswered
<1>4. Answer(a, words, 0, blocks, none)
  OBVIOUS
<1> HIDE DEF a
<1>5. CASE a = Refused(space)
  <2>1. space' = space /\ blocks' = blocks
    BY <1>4, <1>5 DEF Answer, Refused, none
  <2> QED
    BY <1>1, <2>1 DEF PoolInv
<1>6. CASE a # Refused(space)
  <2>1. PICK q : /\ a.mem = ChunkToMem(q)
                 /\ Answered(space.word, t, a.space, n, q, none,
                             RequestToSize(words))
    BY <1>3, <1>6
  <2>2. GoneWith(blocks, t, none, none) /\ 0 \notin none
    BY DEF GoneWith
  <2> HIDE DEF none
  <2> DEFINE k == 0
  <2>3. /\ k \in Nat /\ k <= words
        /\ \A j \in 0..(k - 1) : a.space.word[q + 2 + j] = Data(j)
    OBVIOUS
  <2> HIDE DEF k
  <2>4. /\ a.mem \notin {NoBlock, Outside}
        /\ PoolHas(Written(a.space, a.mem, k, words), blocks, none,
                   Block(a.mem, words), n)
    BY <1>1, <2>1, <2>2, <2>3, PoolAnswers
  <2>5. /\ space' = Written(a.space, a.mem, k, words)
        /\ blocks' = (blocks \ none) \cup {Block(a.mem, words)}
    BY <1>4, <2>4 DEF Answer, none, k
  <2> QED
    BY <2>4, <2>5 DEF PoolInv, PoolHas
<1> QED
  BY <1>5, <1>6

\* The chunk of a block, which no other block has.
BlockAt(w, t, bs, b, p) ==
  /\ p \in t \ {0} /\ b.words \in Nat
  /\ b.mem = ChunkToMem(p) /\ p \in Nat /\ Size(w, p) \in Nat
  /\ Owns(w, p, b.words) /\ Used(w, p)
  /\ GoneWith(bs, t, {b}, {p})

\* Every block has a chunk, which is in use.
LEMMA BlocksHaveChunks ==
  ASSUME NEW s, NEW bs, NEW n, NEW t, PoolIs(s, bs, n, t), NEW b \in bs
  PROVE  \E p \in t : BlockAt(s.word, t, bs, b, p)
<1>1. BlocksAre(s.word, t, bs) /\ Numbered(s.word, t)
  BY ChunksAreNumbered DEF PoolIs
<1>2. PICK p \in t \ {0} : \E words \in Nat :
           b = Block(ChunkToMem(p), words) /\ Owns(s.word, p, words)
  BY <1>1 DEF BlocksAre, IsBlock
<1>3. /\ b = Block(ChunkToMem(p), b.words) /\ b.words \in Nat
      /\ b.mem = ChunkToMem(p) /\ Owns(s.word, p, b.words)
  BY <1>2 DEF Block
<1>4. p \in Nat /\ Size(s.word, p) \in Nat /\ Used(s.word, p)
  BY <1>1, <1>3 DEF Numbered, Owns
<1>5. GoneWith(bs, t, {b}, {p})
  <2>1. ASSUME NEW c \in bs, NEW r \in t, c.mem = ChunkToMem(r)
        PROVE  c \in {b} <=> r \in {p}
    <3>1. r \in Nat
      BY <1>1 DEF Numbered
    <3>2. c.mem = b.mem <=> r = p
      BY <1>3, <1>4, <2>1, <3>1 DEF ChunkToMem
    <3> QED
      BY <1>1, <3>2 DEF BlocksAre
  <2> QED
    BY <2>1 DEF GoneWith
<1> QED
  BY <1>3, <1>4, <1>5 DEF BlockAt

\* realloc keeps PoolInv.
LEMMA ReallocKeepsPool ==
  ASSUME PoolInv, NEW b \in blocks, NEW words \in Nat,
         Answer(MspaceRealloc(space, b.mem, words), words,
                Min({b.words, words}), blocks \ {b}, {b})
  PROVE  PoolInv'
<1> DEFINE a == MspaceRealloc(space, b.mem, words)
           k == Min({b.words, words})
           old == {b}
           others == blocks \ old
<1>1. PICK n, t : PoolIs(space, blocks, n, t)
  BY DEF PoolInv
<1>2. Settled(space, n, t)
  BY <1>1 DEF PoolIs
<1>30. PICK p \in t : BlockAt(space.word, t, blocks, b, p)
  BY <1>1, BlocksHaveChunks
<1>3. /\ p \in t \ {0} /\ b.words \in Nat
      /\ b.mem = ChunkToMem(p) /\ p \in Nat /\ Size(space.word, p) \in Nat
      /\ Owns(space.word, p, b.words) /\ Used(space.word, p)
      /\ GoneWith(blocks, t, {b}, {p})
  BY <1>30 DEF BlockAt
<1> DEFINE gone == {p}
<1>4. ReallocAnswers(space, n, t, a, p, RequestToSize(words), words)
  BY <1>2, <1>3, ReallocIsAnswered
<1>5. Answer(a, words, k, others, old)
  OBVIOUS
<1>6. /\ k \in Nat /\ k <= words /\ k <= b.words
  BY <1>3, SmallerOfTwo
<1>7. GoneWith(blocks, t, old, gone) /\ 0 \notin gone
  BY <1>3
<1>8. others \cup old = blocks
  OBVIOUS
<1>9. a = Refused(space)
      \/ \E q : /\ a.mem = ChunkToMem(q)
                /\ Answered(space.word, t, a.space, n, q, gone,
                            RequestToSize(words))
                /\ Brought(space.word, a.space.word, p, q, words)
  BY <1>4 DEF ReallocAnswers
<1> HIDE DEF a, k, old, gone
<1>10. CASE a = Refused(space)
  <2>1. space' = space /\ blocks' = blocks
    BY <1>5, <1>8, <1>10 DEF Answer, Refused
  <2> QED
    BY <1>1, <2>1 DEF PoolInv
<1>11. CASE a # Refused(space)
  <2>1. PICK q : /\ a.mem = ChunkToMem(q)
                 /\ Answered(space.word, t, a.space, n, q, gone,
                             RequestToSize(words))
                 /\ Brought(space.word, a.space.word, p, q, words)
    BY <1>9, <1>11
  <2>2. \A j \in 0..(k - 1) : a.space.word[q + 2 + j] = Data(j)
    <3>1. RequestToSize(b.words) \in Nat /\ RequestToSize(b.words) >= b.words + 1
      BY <1>3, RequestsArePadded
    <3>2. b.words + 1 <= Size(space.word, p)
      BY <1>3, <3>1 DEF Owns
    <3>3. \A j \in 0..(k - 1) : /\ j \in 0..(words - 1) /\ j \in 0..(b.words - 1)
                                /\ j + 2 <= Size(space.word, p)
      BY <1>3, <1>6, <3>2
    <3>4. \A j \in 0..(b.words - 1) : space.word[p + 2 + j] = Data(j)
      BY <1>3 DEF Owns
    <3> QED
      BY <2>1, <3>3, <3>4 DEF Brought
  <2>3. /\ a.mem \notin {NoBlock, Outside}
        /\ PoolHas(Written(a.space, a.mem, k, words), blocks, old,
                   Block(a.mem, words), n)
    BY <1>1, <1>6, <1>7, <2>1, <2>2, PoolAnswers
  <2>4. /\ space' = Written(a.space, a.mem, k, words)
        /\ blocks' = (blocks \ old) \cup {Block(a.mem, words)}
    BY <1>5, <2>3 DEF Answer
  <2> QED
    BY <2>3, <2>4 DEF PoolInv, PoolHas
<1> QED
  BY <1>10, <1>11

\* free keeps PoolInv.
LEMMA ReleaseKeepsPool ==
  ASSUME PoolInv, NEW b \in blocks,
         space' = MspaceFree(Written(space, b.mem, 0, 0), b.mem),
         blocks' = blocks \ {b}
  PROVE  PoolInv'
<1> DEFINE k == 0
           u == Written(space, b.mem, k, k)
           v == MspaceFree(u, b.mem)
           old == {b}
<1>1. PICK n, t : PoolIs(space, blocks, n, t)
  BY DEF PoolInv
<1>2. /\ n \in PoolSizes /\ Settled(space, n, t) /\ BlocksAre(space.word, t, blocks)
      /\ Size(space.word, 0) = StateSize
  BY <1>1 DEF PoolIs
<1>3. PICK p \in t : BlockAt(space.word, t, blocks, b, p)
  BY <1>1, BlocksHaveChunks
<1> DEFINE one == {p}
           none == {}
<1>4. /\ p \in t \ {0} /\ b.words \in Nat
      /\ b.mem = ChunkToMem(p) /\ p \in Nat /\ Size(space.word, p) \in Nat
      /\ Owns(space.word, p, b.words) /\ Used(space.word, p)
      /\ GoneWith(blocks, t, old, one)
  BY <1>3 DEF BlockAt
<1>5. k + 1 <= Size(space.word, p)
  <2>1. RequestToSize(b.words) \in Nat /\ RequestToSize(b.words) >= b.words + 1
    BY <1>4, RequestsArePadded
  <2> QED
    BY <1>4, <2>1 DEF Owns
<1>6. one = {p} /\ k \in Nat /\ k <= k /\ 0 \notin one /\ p \in one
  BY <1>4
<1>7. space' = v /\ blocks' = blocks \ old
  OBVIOUS
<1>8. u = Written(space, ChunkToMem(p), k, k) /\ v = MspaceFree(u, ChunkToMem(p))
  BY <1>4
<1>9. none = {} /\ 0 \in Users(space.word, t) \ one
  BY <1>2, <1>6, ChunksAreNumbered
<1> HIDE DEF k, u, v, old, one, none
<1>10. Wrote(space, u, n, t, p, k, k, one)
  BY <1>2, <1>4, <1>5, <1>6, <1>8, OwnerWrites
<1>11. /\ Settled(u, n, t) /\ Changes(space.word, t, u.word, t, one, one)
       /\ Used(u.word, p)
  BY <1>10 DEF Wrote
<1>12. Ended(u.word, t, v, n, one, none)
  BY <1>4, <1>6, <1>8, <1>9, <1>11, Freed
<1>13. PICK d : Settled(v, n, d) /\ Changes(u.word, t, v.word, d, one, none)
  BY <1>12 DEF Ended
<1>14. Changes(space.word, t, v.word, d, one \cup one, (one \ one) \cup none)
  BY <1>11, <1>13, ChangesFollow
<1>15. one \cup one = one /\ (one \ one) \cup none = {}
  BY <1>9
<1>16. Changes(space.word, t, v.word, d, one, {})
  BY <1>14, <1>15
<1>17. Numbered(space.word, t)
  BY <1>2, ChunksAreNumbered
<1>18. BlocksAre(v.word, d, blocks \ old)
  BY <1>2, <1>4, <1>16, <1>17, BlocksGo
<1>19. Size(v.word, 0) = StateSize
  BY <1>2, <1>9, <1>16, FirstStays
<1>20. PoolIs(v, blocks \ old, n, d)
  BY <1>2, <1>13, <1>18, <1>19 DEF PoolIs
<1> QED
  BY <1>7, <1>20 DEF PoolInv

\* Every step of a pool keeps PoolInv.
LEMMA PoolStaysSo == PoolInv /\ [PoolNext]_poolVars => PoolInv'
<1> SUFFICES ASSUME PoolInv, [PoolNext]_poolVars
             PROVE  PoolInv'
  OBVIOUS
<1>1. CASE \E words \in Asks : AllocateBlock(words)
  <2>1. PICK words \in Asks : AllocateBlock(words)
    BY <1>1
  <2>2. words \in Nat /\ Answer(MspaceMalloc(space, words), words, 0, blocks, {})
    BY <2>1, PoolAssumption DEF AllocateBlock
  <2> QED
    BY <2>2, MallocKeepsPool
<1>2. CASE \E b \in blocks, words \in Asks : ReallocateBlock(b, words)
  <2>1. PICK b \in blocks, words \in Asks : ReallocateBlock(b, words)
    BY <1>2
  <2>2. /\ words \in Nat
        /\ Answer(MspaceRealloc(space, b.mem, words), words,
                  Min({b.words, words}), blocks \ {b}, {b})
    BY <2>1, PoolAssumption DEF ReallocateBlock
  <2> QED
    BY <2>2, ReallocKeepsPool
<1>3. CASE \E b \in blocks : ReleaseBlock(b)
  <2>1. PICK b \in blocks : ReleaseBlock(b)
    BY <1>3
  <2>2. /\ space' = MspaceFree(Written(space, b.mem, 0, 0), b.mem)
        /\ blocks' = blocks \ {b}
    BY <2>1 DEF ReleaseBlock
  <2> QED
    BY <2>2, ReleaseKeepsPool
<1>4. CASE UNCHANGED poolVars
  BY <1>4 DEF poolVars, PoolInv
<1> QED
  BY <1>1, <1>2, <1>3, <1>4 DEF PoolNext

------------------------------------------------------------------------------
(* A new pool.                                                              *)

\* A pool of an allowed size has room for the malloc_state and a first block.
LEMMA PoolsAreRoomy ==
  ASSUME NEW n \in PoolSizes
  PROVE  /\ Roomy(n) /\ n \in Nat \ {0} /\ End(n) \in Nat /\ End(n) + 4 <= n
         /\ n + Granularity <= 2^SizeBits /\ TopFootSize \in Nat
         /\ StateSize \in Nat /\ StateSize >= MinChunkSize /\ StateSize >= 4
         /\ RequestToSize(PoolWords) \in Nat
         /\ StateSize + RequestToSize(PoolWords) + 10 <= End(n)
<1>1. RequestToSize(PoolWords) \in Nat
  BY PoolAssumption, RequestsArePadded
<1>2. /\ n \in Nat /\ n + Granularity <= 2^SizeBits
      /\ n >= StateSize + RequestToSize(PoolWords) + SysAllocPadding + 8
      /\ StateSize \in Nat /\ StateSize >= MinChunkSize
  BY PoolAssumption
<1>3. TopFootSize \in Nat /\ TopFootSize >= 4
  <2>1. SegmentWords + Overhead + Alignment - 1 \in Nat
    BY LimitAssumption DEF Overhead, Alignment
  <2>2. PadRequest(SegmentWords) \in Nat
    BY <2>1 DEF PadRequest, Alignment
  <2> QED
    BY <2>2 DEF TopFootSize, MinChunkSize
<1> HIDE DEF TopFootSize
<1>4. SysAllocPadding = TopFootSize + 2
  BY DEF SysAllocPadding, Alignment
<1>5. Roomy(n)
  BY <1>1, <1>2, <1>3, <1>4 DEF Roomy
<1>6. StateSize >= 4
  BY <1>2 DEF MinChunkSize
<1> QED
  BY <1>1, <1>2, <1>3, <1>4, <1>5, <1>6, EndIsInside DEF End

\* What create_mspace_with_base has before it writes any head.
Unwritten(n) ==
  [word |-> [a \in 0..(n - 1) |-> Junk],
   smallbins |-> [i \in 0..(NSmallbins - 1) |-> <<>>],
   treebins |-> [i \in 0..(NTreebins - 1) |-> NoTrie],
   smallmap |-> {}, treemap |-> {},
   dv |-> 0, dvsize |-> 0, top |-> 0, topsize |-> 0,
   footprint |-> n, footprintLimit |-> 0,
   trimCheck |-> TrimThreshold, extern |-> TRUE]

\* No chunk is free but for top.
Empty(s) ==
  /\ s.smallmap = {} /\ s.treemap = {} /\ s.dv = 0 /\ s.dvsize = 0
  /\ s.treebins = [i \in 0..(NTreebins - 1) |-> NoTrie]

\* The memory that create_mspace_with_base starts from.
LEMMA UnwrittenIsASpace ==
  ASSUME NEW n \in Nat
  PROVE  /\ Unwritten(n) \in Spaces(n) /\ Empty(Unwritten(n))
         /\ Unwritten(n).footprint = n /\ Unwritten(n).extern
<1>1. NoTrie \in Tries
  <2>1. NoTrie \in [{} -> Seq(Nat)] /\ {} \in SUBSET Seq(Bits)
    BY DEF NoTrie
  <2> QED
    BY <2>1 DEF Tries
<1>2. [i \in 0..(NTreebins - 1) |-> NoTrie] \in [0..(NTreebins - 1) -> Tries]
  BY <1>1
<1>3. [i \in 0..(NSmallbins - 1) |-> <<>>] \in [0..(NSmallbins - 1) -> Seq(Nat)]
  OBVIOUS
<1>4. [a \in 0..(n - 1) |-> Junk] \in [0..(n - 1) -> Words]
  BY WordsAre
<1> DEFINE w == [a \in 0..(n - 1) |-> Junk]
           small == [i \in 0..(NSmallbins - 1) |-> <<>>]
           tree == [i \in 0..(NTreebins - 1) |-> NoTrie]
<1>5. /\ w \in [0..(n - 1) -> Words] /\ TrimThreshold \in Nat
      /\ small \in [0..(NSmallbins - 1) -> Seq(Nat)]
      /\ tree \in [0..(NTreebins - 1) -> Tries]
  BY <1>2, <1>3, <1>4, PoolAssumption
<1>6. /\ Empty(Unwritten(n))
      /\ Unwritten(n).footprint = n /\ Unwritten(n).extern
  BY DEF Empty, Unwritten
<1>7. Unwritten(n) =
        [word |-> w, smallbins |-> small, treebins |-> tree,
         smallmap |-> {}, treemap |-> {},
         dv |-> 0, dvsize |-> 0, top |-> 0, topsize |-> 0,
         footprint |-> n, footprintLimit |-> 0,
         trimCheck |-> TrimThreshold, extern |-> TRUE]
  BY DEF Unwritten
<1> HIDE DEF w, small, tree
<1>8. Unwritten(n) \in Spaces(n)
  BY <1>5, <1>7 DEF Spaces
<1> QED
  BY <1>6, <1>8

\* The words of a new pool: the malloc_state, top, and what is behind it.
NewWords(x, n) ==
  /\ UsedChunk(x, 0, StateSize) /\ PrevUsed(x, 0)
  /\ UnusedChunk(x, StateSize, End(n) - StateSize) /\ PrevUsed(x, StateSize)
  /\ ~PrevUsed(x, End(n))

\* init_user_mstate: the malloc_state in use, the rest top, bins empty.
LEMMA StateIsMade ==
  ASSUME NEW n \in PoolSizes
  PROVE  LET s == InitUserMstate(n)
         IN  /\ s \in Spaces(n) /\ Empty(s) /\ s.footprint = n /\ s.extern
             /\ NewWords(s.word, n)
             /\ s.top = StateSize /\ s.topsize = End(n) - StateSize
<1> DEFINE e == End(n)
           size == e - StateSize
           foot == TopFootSize
           first == 0
           none == {}
           s1 == Unwritten(n)
           s2 == SetHead(s1, first, StateSize, InuseBits)
           s3 == SetTop(s2, StateSize, size)
           s4 == SetHead(s3, e, foot, none)
<1>1. /\ n \in Nat /\ e \in Nat /\ e + 4 <= n /\ foot \in Nat
      /\ StateSize \in Nat /\ StateSize >= 4 /\ size \in Nat /\ size >= 10
      /\ StateSize + size = e
  BY PoolsAreRoomy
<1>2. InitUserMstate(n) = s4
  <2>1. n - StateSize - TopFootSize = size /\ StateSize + size = e
    BY <1>1, PoolsAreRoomy DEF End
  <2> HIDE DEF size, e
  <2> QED
    BY <2>1 DEF InitUserMstate, Unwritten, foot
<1>30. /\ first \in Nat /\ first + 1 < n /\ StateSize + 1 < n /\ e + 1 < n
       /\ first = 0 /\ none = {}
  BY <1>1
<1> HIDE DEF size, e, foot, s1, first, none
<1>3. s1 \in Spaces(n) /\ Empty(s1) /\ s1.footprint = n /\ s1.extern
  BY <1>1, UnwrittenIsASpace DEF s1
<1>4. InuseBits \in SUBSET InuseBits /\ none \in SUBSET InuseBits
  BY <1>30
<1>5. /\ s2 \in Spaces(n) /\ OnlyWords(s1, s2)
      /\ s2.word[first + 1] = HeadWord(StateSize, InuseBits)
  <2>1. /\ n \in Nat /\ s1 \in Spaces(n) /\ first \in Nat /\ first + 1 < n
        /\ StateSize \in Nat /\ InuseBits \in SUBSET InuseBits
    BY <1>1, <1>3, <1>4, <1>30
  <2> QED
    BY <2>1, HeadIsSet
<1> HIDE DEF s2
<1>6. /\ s3 \in Spaces(n) /\ OnlyWordsAndTop(s2, s3)
      /\ s3.top = StateSize /\ s3.topsize = size
      /\ UnusedChunk(s3.word, StateSize, size) /\ PrevUsed(s3.word, StateSize)
      /\ Same(s2.word, s3.word, n, {StateSize + 1} \cup
                                   (StateSize + 1 .. StateSize + size - 1))
  BY <1>1, <1>5, <1>30, TopIsSet
<1> HIDE DEF s3
<1>7. /\ s4 \in Spaces(n) /\ OnlyWords(s3, s4)
      /\ s4.word[e + 1] = HeadWord(foot, none)
      /\ Same(s3.word, s4.word, n, {e + 1})
  <2>1. /\ n \in Nat /\ s3 \in Spaces(n) /\ e \in Nat /\ e + 1 < n
        /\ foot \in Nat /\ none \in SUBSET InuseBits
    BY <1>1, <1>4, <1>6, <1>30
  <2> QED
    BY <2>1, HeadIsSet
<1> HIDE DEF s4
<1>8. /\ Empty(s4) /\ s4.footprint = n /\ s4.extern
      /\ s4.top = StateSize /\ s4.topsize = size
  BY <1>3, <1>5, <1>6, <1>7 DEF Empty, OnlyWords, OnlyWordsAndTop, SameBins,
     SameDv, SameTop, SameLimit
<1>9. s4.word[1] = HeadWord(StateSize, InuseBits)
  <2>1. /\ 1 \in 0..(n - 1) /\ 1 \notin {e + 1}
        /\ 1 \notin {StateSize + 1} \cup
                    (StateSize + 1 .. StateSize + size - 1)
    BY <1>1
  <2>2. s3.word[1] = s2.word[1] /\ s4.word[1] = s3.word[1]
    BY <1>6, <1>7, <2>1 DEF Same
  <2> QED
    BY <1>5, <1>30, <2>2
<1>10. s4.word[StateSize + 1] = s3.word[StateSize + 1]
  <2>1. StateSize + 1 \in 0..(n - 1) /\ StateSize + 1 \notin {e + 1}
    BY <1>1
  <2> QED
    BY <1>7, <2>1 DEF Same
<1>11. NewWords(s4.word, n)
  <2>1. UsedChunk(s4.word, 0, StateSize) /\ PrevUsed(s4.word, 0)
    BY <1>1, <1>4, <1>9, WordsAre DEF UsedChunk, Used, PrevUsed, Size, InuseBits
  <2>2. UnusedChunk(s4.word, StateSize, size) /\ PrevUsed(s4.word, StateSize)
    BY <1>6, <1>10 DEF UnusedChunk, Used, PrevUsed, Size
  <2>3. ~PrevUsed(s4.word, e)
    BY <1>1, <1>4, <1>7, <1>30, WordsAre DEF PrevUsed
  <2> QED
    BY <2>1, <2>2, <2>3 DEF NewWords, size, e
<1> QED
  BY <1>2, <1>7, <1>8, <1>11 DEF size, e

\* Empty bins hold no chunk.
LEMMA EmptyIsListed ==
  ASSUME NEW s, Empty(s), NEW none, none = {}
  PROVE  Listed(s, none)
<1>1. \A i : Small(s.word, none, i) = {} /\ Large(s.word, none, i) = {}
  BY DEF Small, Large
<1>2. \A i \in 0..(NTreebins - 1) : Holds(s.word, s.treebins[i], i, {})
  BY NoTrieHoldsNothing DEF Empty
<1>3. s.smallmap = {} /\ s.treemap = {}
  BY DEF Empty
<1> QED
  BY <1>1, <1>2, <1>3 DEF Listed

\* The malloc_state and top tile a new pool.
LEMMA NewIsTiled ==
  ASSUME NEW n \in PoolSizes, NEW x \in [0..(n - 1) -> Words], NewWords(x, n),
         NEW t, t = {0, StateSize}
  PROVE  Tiled(x, t, End(n)) /\ Users(x, t) = {0} /\ Size(x, 0) = StateSize
<1> DEFINE e == End(n)
<1>1. /\ n \in Nat /\ e \in Nat /\ e + 4 <= n /\ StateSize \in Nat
      /\ StateSize >= 4 /\ StateSize + 10 <= e
  BY PoolsAreRoomy
<1>2. /\ UsedChunk(x, 0, StateSize) /\ PrevUsed(x, 0)
      /\ UnusedChunk(x, StateSize, e - StateSize) /\ PrevUsed(x, StateSize)
      /\ ~PrevUsed(x, e)
  BY DEF NewWords
<1> HIDE DEF e
<1>3. /\ Size(x, 0) = StateSize /\ Used(x, 0) /\ x[0 + 1].is = "head"
      /\ Size(x, StateSize) = e - StateSize /\ ~Used(x, StateSize)
      /\ x[StateSize + 1].is = "head"
  BY <1>2 DEF UsedChunk, UnusedChunk
<1>4. e # StateSize /\ 0 < StateSize /\ StateSize < e
  BY <1>1
<1>5. Ends(x, 0, StateSize, e)
  <2>1. 0 + StateSize = StateSize /\ StateSize >= MinChunkSize
    BY <1>1 DEF MinChunkSize
  <2> QED
    BY <1>1, <1>2, <1>3, <2>1 DEF Ends
<1>6. Ends(x, StateSize, e, e)
  <2>1. StateSize + (e - StateSize) = e /\ e - StateSize \in Nat
    BY <1>1
  <2>2. Used(x, StateSize) = PrevUsed(x, e)
    BY <1>2, <1>3 DEF Used, PrevUsed
  <2> QED
    BY <1>3, <2>1, <2>2 DEF Ends
<1>7. \A p \in t : \E next \in t \cup {e} : p < next /\ Ends(x, p, next, e)
  BY <1>4, <1>5, <1>6
<1>8. \A p, q \in t : p < q => p + Size(x, p) <= q
  BY <1>1, <1>3
<1>9. \A q \in t : q # 0 => \E p \in t : p + Size(x, p) = q
  BY <1>1, <1>3
<1>10. 0..(e + 1) \subseteq DOMAIN x /\ t \in SUBSET (0..(e - 1)) /\ 0 \in t
  BY <1>1
<1>11. Tiled(x, t, e)
  BY <1>1, <1>2, <1>3, <1>7, <1>8, <1>9, <1>10 DEF Tiled
<1>12. Users(x, t) = {0}
  BY <1>3 DEF Users
<1> QED
  BY <1>3, <1>11, <1>12 DEF e

\* A new pool, limited to its size, is a settled heap without blocks.
LEMMA NewIsSettled ==
  ASSUME NEW n \in PoolSizes, NEW s,
         s = SetFootprintLimit(InitUserMstate(n), n),
         NEW t, t = {0, StateSize}, NEW none, none = {}
  PROVE  /\ PoolIs(s, none, n, t) /\ Empty(s)
         /\ s.top = StateSize /\ s.topsize = End(n) - StateSize
<1> DEFINE r == InitUserMstate(n)
           limit == AlignTo(Granularity, n)
<1>1. /\ r \in Spaces(n) /\ Empty(r) /\ r.footprint = n /\ r.extern
      /\ NewWords(r.word, n)
      /\ r.top = StateSize /\ r.topsize = End(n) - StateSize
  BY StateIsMade
<1>2. /\ Roomy(n) /\ n \in Nat \ {0} /\ n + Granularity <= 2^SizeBits
      /\ StateSize \in Nat /\ StateSize >= 4 /\ End(n) \in Nat
      /\ StateSize + 10 <= End(n)
  BY PoolsAreRoomy
<1>3. limit \in Nat
  <2>1. n \in Sizes /\ Granularity \in Nat \ {0} /\ Granularity <= 2^SizeBits
    BY <1>2, LimitAssumption DEF Sizes, MaxSizeT
  <2>2. limit \in Sizes
    BY <2>1, AlignGivesUnits
  <2> QED
    BY <2>2, LimitAssumption DEF Sizes, MaxSizeT
<1>4. s = [r EXCEPT !.footprintLimit = limit]
  BY DEF SetFootprintLimit
<1> HIDE DEF r, limit
<1>5. s \in Spaces(n)
  BY <1>1, <1>3, <1>4 DEF Spaces
<1>6. /\ SameBins(r, s) /\ SameDv(r, s) /\ SameTop(r, s) /\ s.word = r.word
      /\ s.footprint = r.footprint /\ s.extern = r.extern
      /\ s.footprintLimit = limit
  BY <1>1, <1>4 DEF Spaces, SameBins, SameDv, SameTop
<1>7. Empty(s) /\ s.top = StateSize /\ s.topsize = End(n) - StateSize
  BY <1>1, <1>6 DEF Empty, SameBins, SameDv, SameTop
<1>8. NewWords(s.word, n) /\ Limited(s, n) /\ s.extern
  BY <1>1, <1>6 DEF Limited, limit
<1>9. s.word \in [0..(n - 1) -> Words]
  BY <1>5 DEF Spaces
<1>10. Tiled(s.word, t, End(n)) /\ Users(s.word, t) = {0}
       /\ Size(s.word, 0) = StateSize
  BY <1>8, <1>9, NewIsTiled
<1>11. StateSize \in t /\ StateSize # 0
  BY <1>2
<1>12. TopHolds(s, t, End(n)) /\ DvHolds(s, t)
  <2>1. ~Used(s.word, StateSize) /\ Size(s.word, StateSize) = End(n) - StateSize
    BY <1>8 DEF NewWords, UnusedChunk
  <2>2. StateSize + (End(n) - StateSize) = End(n)
    BY <1>2
  <2>3. TopHolds(s, t, End(n))
    BY <1>7, <1>11, <2>1, <2>2 DEF TopHolds
  <2>4. DvHolds(s, t)
    BY <1>7 DEF DvHolds, Empty
  <2> QED
    BY <2>3, <2>4
<1>13. Listed(s, none)
  BY <1>7, EmptyIsListed
<1>14. none \subseteq t /\ none \cap none = {}
  OBVIOUS
<1>15. \A p \in t : p \in none \cup none <=>
                      ~Used(s.word, p) /\ p # s.top /\ p # s.dv
  <2>1. Used(s.word, 0)
    BY <1>10 DEF Users
  <2> QED
    BY <1>7, <2>1
<1>16. Heap(s, n, t, none, none)
  BY <1>2, <1>5, <1>8, <1>10, <1>12, <1>13, <1>14, <1>15 DEF Heap
<1>17. Settled(s, n, t)
  BY <1>16 DEF Settled
<1>18. BlocksAre(s.word, t, none)
  BY <1>10 DEF BlocksAre
<1> QED
  BY <1>7, <1>10, <1>17, <1>18 DEF PoolIs

\* The first call takes the block from top.
LEMMA FirstIsGiven ==
  ASSUME NEW n \in PoolSizes, NEW s, Empty(s), s.topsize = End(n) - StateSize,
         s.top = StateSize
  PROVE  MspaceMalloc(s, PoolWords) # Refused(s)
<1> DEFINE nb == RequestToSize(PoolWords)
           a == FromTop(s, nb)
<1>1. /\ nb \in Nat /\ nb >= 4 /\ nb >= PoolWords + 1 /\ PoolWords \in Nat
      /\ PoolWords >= 3 => nb = PadRequest(PoolWords) /\ nb <= PoolWords + 2
  BY PoolAssumption, RequestsArePadded DEF MinChunkSize
<1>2. /\ StateSize \in Nat /\ StateSize >= 4 /\ End(n) \in Nat
      /\ StateSize + nb + 10 <= End(n) /\ End(n) + 4 <= n /\ n \in Nat
      /\ n + Granularity <= 2^SizeBits
  BY PoolsAreRoomy
<1>3. s.smallmap = {} /\ s.treemap = {} /\ s.dvsize = 0
  BY DEF Empty
<1>4. FromDvOrTop(s, nb) = a
  <2>1. ~(nb <= s.dvsize) /\ nb < s.topsize
    BY <1>1, <1>2, <1>3
  <2> HIDE DEF nb, a
  <2> QED
    BY <2>1 DEF FromDvOrTop, a
<1>5. a.mem # NoBlock
  <2>1. a.mem = s.top + 2
    BY DEF FromTop, Given, ChunkToMem
  <2> QED
    BY <1>2, <2>1 DEF NoBlock
<1>6. a # Refused(s)
  BY <1>5 DEF Refused
<1>7. CASE PoolWords <= MaxSmallRequest
  <2>1. ~(nb <= s.dvsize)
    BY <1>1, <1>3
  <2>2. MallocSmall(s, nb) = FromDvOrTop(s, nb)
    BY <1>3, <2>1 DEF MallocSmall
  <2> QED
    BY <1>4, <1>6, <1>7, <2>2 DEF MspaceMalloc
<1>8. CASE ~(PoolWords <= MaxSmallRequest)
  <2>1. PoolWords >= 3 /\ ~(PoolWords >= MaxRequest)
    <3>1. MaxSmallRequest = NSmallbins - 3 /\ NSmallbins \in Nat /\ NSmallbins >= 8
      BY SmallbinsAreNumbered DEF MaxSmallRequest, Alignment, Overhead
    <3>2. MaxRequest = 2^SizeBits - 16 /\ 2^SizeBits \in Nat
      BY LimitAssumption DEF MaxRequest, MinChunkSize
    <3> QED
      BY <1>1, <1>2, <1>8, <3>1, <3>2, LimitAssumption
  <2>2. nb = PadRequest(PoolWords)
    BY <1>1, <2>1
  <2>3. MallocLarge(s, nb) = FromDvOrTop(s, nb)
    BY <1>3 DEF MallocLarge, OrElse, Refused
  <2>4. MspaceMalloc(s, PoolWords) = MallocLarge(s, nb)
    BY <1>8, <2>1, <2>2 DEF MspaceMalloc
  <2> QED
    BY <1>4, <1>6, <2>3, <2>4
<1> QED
  BY <1>7, <1>8

\* A pool starts in PoolInv.
LEMMA PoolStartsSo == PoolInit => PoolInv
<1> SUFFICES ASSUME PoolInit PROVE PoolInv
  OBVIOUS
<1>1. PICK n \in PoolSizes :
        /\ space = Written(NewSpace(n).space, NewSpace(n).mem, 0, PoolWords)
        /\ blocks = {Block(NewSpace(n).mem, PoolWords)}
  BY DEF PoolInit
<1> DEFINE s == SetFootprintLimit(InitUserMstate(n), n)
           a == MspaceMalloc(s, PoolWords)
           t == {0, StateSize}
           none == {}
           k == 0
<1>2. /\ space = Written(a.space, a.mem, k, PoolWords)
      /\ blocks = (none \ none) \cup {Block(a.mem, PoolWords)}
  BY <1>1 DEF NewSpace
<1>3. t = {0, StateSize} /\ none = {} /\ PoolWords \in Nat
      /\ k \in Nat /\ k <= PoolWords /\ 0 \notin none
  BY PoolAssumption
<1>4. \A q : \A j \in 0..(k - 1) : a.space.word[q + 2 + j] = Data(j)
  OBVIOUS
<1>5. s = SetFootprintLimit(InitUserMstate(n), n)
      /\ a = MspaceMalloc(s, PoolWords)
  OBVIOUS
<1> HIDE DEF s, a, t, none, k
<1>6. /\ PoolIs(s, none, n, t) /\ Empty(s)
      /\ s.top = StateSize /\ s.topsize = End(n) - StateSize
  BY <1>3, <1>5, NewIsSettled
<1>7. a # Refused(s)
  BY <1>5, <1>6, FirstIsGiven
<1>8. Settled(s, n, t)
  BY <1>6 DEF PoolIs
<1>9. a = Refused(s)
      \/ \E q : /\ a.mem = ChunkToMem(q)
                /\ Answered(s.word, t, a.space, n, q, none,
                            RequestToSize(PoolWords))
  BY <1>3, <1>5, <1>8, MallocIsAnswered
<1>10. PICK q : /\ a.mem = ChunkToMem(q)
                /\ Answered(s.word, t, a.space, n, q, none,
                            RequestToSize(PoolWords))
  BY <1>7, <1>9
<1>11. GoneWith(none, t, none, none)
  BY <1>3 DEF GoneWith
<1>12. \A j \in 0..(k - 1) : a.space.word[q + 2 + j] = Data(j)
  BY <1>4
<1>13. PoolHas(Written(a.space, a.mem, k, PoolWords), none, none,
               Block(a.mem, PoolWords), n)
  BY <1>3, <1>6, <1>10, <1>11, <1>12, PoolAnswers
<1> QED
  BY <1>2, <1>13 DEF PoolHas, PoolInv

\* Between two calls, the chunks of a pool are those of a settled heap, and
\* those in use are the malloc_state and the blocks that were handed out.
THEOREM PoolInvHolds == PoolSpec => []PoolInv
<1> QED
  BY PoolStartsSo, PoolStaysSo, PTL DEF PoolSpec

------------------------------------------------------------------------------
(* What internal_mallinfo finds on its walk.                                *)

\* Chunks end where the walk goes on.
Walked(s, t) ==
  /\ s.top \in t /\ s.top \in Nat /\ 0 \in t /\ t \subseteq Nat
  /\ \A p \in t : p # s.top =>
       /\ ~AtEnd(s, p) /\ ChunkSize(s, p) \in Nat \ {0} /\ p < s.top
       /\ p + ChunkSize(s, p) \in t /\ p + ChunkSize(s, p) <= s.top
       /\ \A q \in t : p < q => p + ChunkSize(s, p) <= q
  /\ \A p \in Nat : ~AtEnd(s, p) => p < s.top /\ ChunkSize(s, p) \in Nat \ {0}
  /\ AtEnd(s, s.top)

\* A walk from the first chunk goes over the chunks of a settled heap.
LEMMA ChunksAreWalked ==
  ASSUME NEW s, NEW n, NEW t, Settled(s, n, t)
  PROVE  Walked(s, t)
<1>1. PICK g : Heap(s, n, t, g, {})
  BY DEF Settled
<1> DEFINE l == {}
<1>2. Heap(s, n, t, g, l)
  BY <1>1
<1> HIDE DEF l
<1>3. /\ s.top \in t \ {0} /\ s.top \in Nat /\ End(n) + 4 <= n /\ n \in Nat
      /\ s.top + s.topsize = End(n) /\ s.topsize \in Nat \ {0}
      /\ s \in Spaces(n) /\ \A p \in t : p # s.top => p < s.top /\ p \in Nat
  BY <1>2, TopFacts
<1>4. \A p \in t : /\ p \in Nat /\ Size(s.word, p) \in Nat \ {0}
                   /\ p # s.top => /\ p + Size(s.word, p) \in t
                                   /\ p + Size(s.word, p) <= s.top
  BY <1>2, ChunkFacts
<1>5. /\ 0 \in t
      /\ \A p, q \in t : p < q => p + Size(s.word, p) <= q
  BY <1>2 DEF Heap, Tiled
<1>6. s.word \in [0..(n - 1) -> Words]
  BY <1>3 DEF Spaces
<1>7. \A p \in Nat : ~AtEnd(s, p) => p < s.top /\ ChunkSize(s, p) \in Nat \ {0}
  <2> SUFFICES ASSUME NEW p \in Nat, ~AtEnd(s, p)
               PROVE  p < s.top /\ ChunkSize(s, p) \in Nat \ {0}
    OBVIOUS
  <2>1. ~(p >= s.top) /\ ChunkSize(s, p) # 0
    BY DEF AtEnd
  <2>2. p < s.top /\ p + 1 \in 0..(n - 1)
    BY <1>3, <2>1
  <2>3. ChunkSize(s, p) \in Nat
    BY <1>6, <2>2 DEF ChunkSize, Words
  <2> QED
    BY <2>1, <2>2, <2>3
<1>8. AtEnd(s, s.top)
  BY <1>3 DEF AtEnd
<1>9. ASSUME NEW p \in t, p # s.top
      PROVE  /\ ~AtEnd(s, p) /\ ChunkSize(s, p) \in Nat \ {0} /\ p < s.top
             /\ p + ChunkSize(s, p) \in t /\ p + ChunkSize(s, p) <= s.top
             /\ \A q \in t : p < q => p + ChunkSize(s, p) <= q
  <2>1. ChunkSize(s, p) = Size(s.word, p)
    BY DEF ChunkSize, Size
  <2>2. ~AtEnd(s, p)
    BY <1>3, <1>4, <1>9, <2>1 DEF AtEnd
  <2> QED
    BY <1>3, <1>4, <1>5, <1>9, <2>1, <2>2
<1>10. t \subseteq Nat
  BY <1>4
<1> QED
  BY <1>3, <1>5, <1>7, <1>8, <1>9, <1>10 DEF Walked

\* A walk on from p.
OnFrom(s, p) == IF AtEnd(s, p) THEN p ELSE p + ChunkSize(s, p)

\* A walk goes up in addresses until top.
LEMMA WalkGoesUp ==
  ASSUME NEW s, NEW t, Walked(s, t),
         NEW next, next = [p \in Nat |-> OnFrom(s, p)],
         NEW stop, stop = {p \in Nat : AtEnd(s, p)}
  PROVE  /\ next \in [Nat -> Nat]
         /\ \A p \in Nat : p \notin stop => p < s.top /\ p < next[p]
<1>1. \A p \in Nat : ~AtEnd(s, p) => p < s.top /\ ChunkSize(s, p) \in Nat \ {0}
  BY DEF Walked
<1> QED
  BY <1>1 DEF OnFrom

\* The chunks and the sum of sizes, from p on.
LEMMA ChunksFrom ==
  ASSUME NEW s, NEW t, Walked(s, t)
  PROVE  \E f :
           /\ Chunks(s) = f[0]
           /\ \A p \in Nat : f[p] = IF AtEnd(s, p) THEN {}
                                    ELSE {p} \cup f[p + ChunkSize(s, p)]
<1> DEFINE next == [p \in Nat |-> OnFrom(s, p)]
           stop == {p \in Nat : AtEnd(s, p)}
           step == [p \in Nat |-> [x \in SUBSET Nat |-> {p} \cup x]]
           base == {}
           S == SUBSET Nat
           Loop(f) == f = [p \in Nat |-> IF AtEnd(s, p) THEN {}
                                         ELSE {p} \cup f[p + ChunkSize(s, p)]]
<1>1. /\ base \in S /\ s.top \in Nat /\ next \in [Nat -> Nat]
      /\ \A p \in Nat : p \notin stop => p < s.top /\ p < next[p]
      /\ step \in [Nat -> [S -> S]]
  BY WalkGoesUp DEF Walked
<1>2. /\ \A p \in Nat : p \in stop <=> AtEnd(s, p)
      /\ \A p \in Nat : ~AtEnd(s, p) => next[p] = p + ChunkSize(s, p)
      /\ \A p \in Nat, x \in S : step[p][x] = {p} \cup x
      /\ base = {}
  BY DEF OnFrom
<1> HIDE DEF next, stop, step, base, S
<1>3. PICK f \in [Nat -> S] : \A p \in Nat : Follows(f, p, base, stop, next, step)
  BY <1>1, WalkExists
<1>4. ASSUME NEW p \in Nat
      PROVE  f[p] = IF AtEnd(s, p) THEN {} ELSE {p} \cup f[p + ChunkSize(s, p)]
  <2>1. Follows(f, p, base, stop, next, step)
    BY <1>3
  <2>2. CASE AtEnd(s, p)
    BY <1>2, <2>1, <2>2 DEF Follows
  <2>3. CASE ~AtEnd(s, p)
    <3>1. next[p] \in Nat /\ next[p] = p + ChunkSize(s, p) /\ p \notin stop
      BY <1>1, <1>2, <2>3
    <3>2. f[p] = step[p][f[next[p]]] /\ f[next[p]] \in S
      BY <1>3, <2>1, <3>1 DEF Follows
    <3>3. f[p] = {p} \cup f[p + ChunkSize(s, p)]
      BY <1>2, <3>1, <3>2
    <3> QED
      BY <2>3, <3>3
  <2> QED
    BY <2>2, <2>3
<1>5. f = [p \in Nat |-> f[p]]
  BY <1>3
<1>6. Loop(f)
  BY <1>4, <1>5
<1>7. Chunks(s) = (CHOOSE h : Loop(h))[0]
  BY DEF Chunks
<1> DEFINE h == CHOOSE h : Loop(h)
<1>8. Loop(h)
  BY <1>6
<1>9. h[0] = Chunks(s)
  BY <1>7
<1>10. \A p \in Nat : h[p] = IF AtEnd(s, p) THEN {}
                            ELSE {p} \cup h[p + ChunkSize(s, p)]
  BY <1>8
<1> HIDE DEF h
<1> QED
  BY <1>9, <1>10

\* The walk that adds up sizes has a value.
LEMMA SumsFrom ==
  ASSUME NEW s, NEW t, Walked(s, t), NEW chunks
  PROVE  \E f :
           /\ SizeSum(s, chunks) = f[0]
           /\ \A p \in Nat :
                f[p] = IF AtEnd(s, p) THEN 0
                       ELSE (IF p \in chunks THEN ChunkSize(s, p) ELSE 0)
                            + f[p + ChunkSize(s, p)]
<1> DEFINE next == [p \in Nat |-> OnFrom(s, p)]
           stop == {p \in Nat : AtEnd(s, p)}
           part(p) == IF p \in chunks THEN ChunkSize(s, p) ELSE 0
           step == [p \in Nat |->
                     [x \in Int |-> IF AtEnd(s, p) THEN 0 ELSE part(p) + x]]
           base == 0
           Loop(f) == f = [p \in Nat |-> IF AtEnd(s, p) THEN 0
                                         ELSE part(p) + f[p + ChunkSize(s, p)]]
<1>1. /\ base \in Int /\ s.top \in Nat /\ next \in [Nat -> Nat]
      /\ \A p \in Nat : p \notin stop => p < s.top /\ p < next[p]
  <2>1. next = [p \in Nat |-> OnFrom(s, p)] /\ stop = {p \in Nat : AtEnd(s, p)}
    OBVIOUS
  <2>2. base \in Int /\ s.top \in Nat
    BY DEF Walked
  <2> HIDE DEF next, stop, base
  <2> QED
    BY <2>1, <2>2, WalkGoesUp
<1>2. step \in [Nat -> [Int -> Int]]
  <2>1. \A p \in Nat : ~AtEnd(s, p) => part(p) \in Int
    BY DEF Walked
  <2> QED
    BY <2>1
<1>3. /\ \A p \in Nat : p \in stop <=> AtEnd(s, p)
      /\ \A p \in Nat : ~AtEnd(s, p) => next[p] = p + ChunkSize(s, p)
      /\ \A p \in Nat, x \in Int : ~AtEnd(s, p) => step[p][x] = part(p) + x
      /\ base = 0
  BY DEF OnFrom
<1> HIDE DEF next, stop, step, base, part
<1>4. PICK f \in [Nat -> Int] :
           \A p \in Nat : Follows(f, p, base, stop, next, step)
  BY <1>1, <1>2, WalkExists
<1>5. ASSUME NEW p \in Nat
      PROVE  f[p] = IF AtEnd(s, p) THEN 0 ELSE part(p) + f[p + ChunkSize(s, p)]
  <2>1. Follows(f, p, base, stop, next, step)
    BY <1>4
  <2>2. CASE AtEnd(s, p)
    BY <1>3, <2>1, <2>2 DEF Follows
  <2>3. CASE ~AtEnd(s, p)
    <3>1. next[p] \in Nat /\ next[p] = p + ChunkSize(s, p) /\ p \notin stop
      BY <1>1, <1>3, <2>3
    <3>2. f[p] = step[p][f[next[p]]] /\ f[next[p]] \in Int
      BY <1>4, <2>1, <3>1 DEF Follows
    <3>3. f[p] = part(p) + f[p + ChunkSize(s, p)]
      BY <1>3, <2>3, <3>1, <3>2
    <3> QED
      BY <2>3, <3>3
  <2> QED
    BY <2>2, <2>3
<1>6. f = [p \in Nat |-> f[p]]
  BY <1>4
<1>7. Loop(f)
  BY <1>5, <1>6
<1>8. SizeSum(s, chunks) = (CHOOSE h : Loop(h))[0]
  BY DEF SizeSum, part
<1> DEFINE h == CHOOSE h : Loop(h)
<1>9. Loop(h)
  BY <1>7
<1>10. h[0] = SizeSum(s, chunks)
  BY <1>8
<1>11. \A p \in Nat : h[p] = IF AtEnd(s, p) THEN 0
                             ELSE part(p) + h[p + ChunkSize(s, p)]
  BY <1>9
<1> HIDE DEF h
<1> QED
  BY <1>10, <1>11 DEF part

\* What holds at top, and at a chunk where it holds at the next one, holds at
\* all chunks.
LEMMA WalkIsInductive ==
  ASSUME NEW s, NEW t, Walked(s, t), NEW Good, s.top \in Good,
         \A p \in t : p # s.top /\ p + ChunkSize(s, p) \in Good => p \in Good
  PROVE  \A p \in t : p \in Good
<1> DEFINE Near == {m \in Nat : \A p \in t : s.top <= p + m => p \in Good}
<1>1. /\ s.top \in Nat /\ t \subseteq Nat
      /\ \A p \in t : p # s.top =>
           /\ ChunkSize(s, p) \in Nat \ {0} /\ p < s.top
           /\ p + ChunkSize(s, p) \in t
  BY DEF Walked
<1>2. 0 \in Near
  <2>1. \A p \in t : s.top <= p + 0 => p = s.top
    BY <1>1
  <2> QED
    BY <2>1
<1>3. ASSUME NEW m \in Nat, m \in Near
      PROVE  m + 1 \in Near
  <2>1. ASSUME NEW p \in t, s.top <= p + (m + 1)
        PROVE  p \in Good
    <3>1. CASE p = s.top
      BY <3>1
    <3>2. CASE p # s.top
      <4>1. /\ ChunkSize(s, p) \in Nat \ {0} /\ p \in Nat
            /\ p + ChunkSize(s, p) \in t
        BY <1>1, <3>2
      <4>2. s.top <= (p + ChunkSize(s, p)) + m
        BY <1>1, <2>1, <4>1
      <4>3. p + ChunkSize(s, p) \in Good
        BY <1>3, <4>1, <4>2
      <4> QED
        BY <3>2, <4>3
    <3> QED
      BY <3>1, <3>2
  <2> QED
    BY <2>1
<1> HIDE DEF Near
<1>4. s.top \in Near
  BY <1>1, <1>2, <1>3, NatIsInductive
<1>5. \A p \in t : s.top <= p + s.top
  BY <1>1
<1> QED
  BY <1>4, <1>5 DEF Near

\* internal_mallinfo's walk meets exactly the chunks before top.
LEMMA ChunksAreThose ==
  ASSUME NEW s, NEW t, Walked(s, t)
  PROVE  Chunks(s) = t \ {s.top}
<1>1. PICK f : /\ Chunks(s) = f[0]
               /\ \A p \in Nat : f[p] = IF AtEnd(s, p) THEN {}
                                        ELSE {p} \cup f[p + ChunkSize(s, p)]
  BY ChunksFrom
<1> DEFINE Later(p) == {q \in t : q # s.top /\ p <= q}
           Good == {p \in t : f[p] = Later(p)}
<1>2. /\ s.top \in t /\ s.top \in Nat /\ 0 \in t /\ t \subseteq Nat
      /\ AtEnd(s, s.top)
      /\ \A p \in t : p # s.top =>
           /\ ~AtEnd(s, p) /\ ChunkSize(s, p) \in Nat \ {0} /\ p < s.top
           /\ p + ChunkSize(s, p) \in t
           /\ \A q \in t : p < q => p + ChunkSize(s, p) <= q
  BY DEF Walked
<1>3. s.top \in Good
  <2>1. \A p \in t : p # s.top => ~(s.top <= p)
    BY <1>2
  <2>3. Later(s.top) = {}
    BY <2>1
  <2>2. f[s.top] = {}
    BY <1>1, <1>2
  <2> QED
    BY <1>2, <2>3, <2>2
<1>4. ASSUME NEW p \in t, p # s.top, p + ChunkSize(s, p) \in Good
      PROVE  p \in Good
  <2>1. f[p] = {p} \cup f[p + ChunkSize(s, p)]
    BY <1>1, <1>2, <1>4
  <2>2. f[p + ChunkSize(s, p)] = Later(p + ChunkSize(s, p))
    BY <1>4
  <2>3. \A q \in t : p <= q <=> q = p \/ p + ChunkSize(s, p) <= q
    BY <1>2, <1>4
  <2>4. Later(p) = {p} \cup Later(p + ChunkSize(s, p))
    BY <1>4, <2>3
  <2> QED
    BY <2>1, <2>2, <2>4
<1> HIDE DEF Good
<1>5. 0 \in Good
  BY <1>2, <1>3, <1>4, WalkIsInductive
<1>6. Later(0) = t \ {s.top}
  <2>1. \A q \in t : 0 <= q
    BY <1>2
  <2> QED
    BY <2>1
<1> QED
  BY <1>1, <1>5, <1>6 DEF Good

\* Two sets of chunks that have all but the first.
LEMMA SumsAddUp ==
  ASSUME NEW s, NEW t, Walked(s, t), NEW a, NEW b,
         \A p \in t : p # s.top /\ p # 0 => (p \in a <=> p \notin b),
         0 \notin a, 0 \notin b, 0 # s.top
  PROVE  /\ SizeSum(s, a) \in Int /\ SizeSum(s, b) \in Int
         /\ SizeSum(s, a) + SizeSum(s, b) + ChunkSize(s, 0) = s.top
<1> DEFINE part(p, c) == IF p \in c THEN ChunkSize(s, p) ELSE 0
<1>1. PICK f : /\ SizeSum(s, a) = f[0]
               /\ \A p \in Nat : f[p] = IF AtEnd(s, p) THEN 0
                                 ELSE part(p, a) + f[p + ChunkSize(s, p)]
  BY SumsFrom
<1>2. PICK h : /\ SizeSum(s, b) = h[0]
               /\ \A p \in Nat : h[p] = IF AtEnd(s, p) THEN 0
                                 ELSE part(p, b) + h[p + ChunkSize(s, p)]
  BY SumsFrom
<1> DEFINE first(p) == IF p = 0 THEN ChunkSize(s, 0) ELSE 0
           Good == {p \in t : /\ f[p] \in Int /\ h[p] \in Int
                              /\ f[p] + h[p] + first(p) = s.top - p}
<1>3. /\ s.top \in t /\ s.top \in Nat /\ 0 \in t /\ t \subseteq Nat
      /\ AtEnd(s, s.top)
      /\ \A p \in t : p # s.top =>
           /\ ~AtEnd(s, p) /\ ChunkSize(s, p) \in Nat \ {0}
           /\ p + ChunkSize(s, p) \in t
  BY DEF Walked
<1>4. s.top \in Good
  <2>1. f[s.top] = 0 /\ h[s.top] = 0 /\ first(s.top) = 0
    BY <1>1, <1>2, <1>3
  <2> QED
    BY <1>3, <2>1
<1>5. ASSUME NEW p \in t, p # s.top, p + ChunkSize(s, p) \in Good
      PROVE  p \in Good
  <2> DEFINE next == p + ChunkSize(s, p)
  <2>1. /\ p \in Nat /\ ChunkSize(s, p) \in Nat \ {0} /\ ~AtEnd(s, p)
        /\ next \in Nat /\ next # 0
    BY <1>3, <1>5
  <2>2. f[p] = part(p, a) + f[next] /\ h[p] = part(p, b) + h[next]
    BY <1>1, <1>2, <2>1
  <2>3. /\ f[next] \in Int /\ h[next] \in Int
        /\ f[next] + h[next] = s.top - next
    <3>1. first(next) = 0
      BY <2>1
    <3> HIDE DEF next
    <3> QED
      BY <1>5, <3>1 DEF next
  <2>4. /\ part(p, a) \in Int /\ part(p, b) \in Int /\ first(p) \in Int
        /\ part(p, a) + part(p, b) + first(p) = ChunkSize(s, p)
    <3>1. CASE p = 0
      BY <2>1, <3>1
    <3>2. CASE p # 0
      BY <1>5, <2>1, <3>2
    <3> QED
      BY <3>1, <3>2
  <2> HIDE DEF part, first
  <2>5. f[p] \in Int /\ h[p] \in Int
    BY <2>2, <2>3, <2>4
  <2>6. f[p] + h[p] + first(p) = s.top - p
    BY <1>3, <2>1, <2>2, <2>3, <2>4
  <2> QED
    BY <2>5, <2>6
<1> HIDE DEF Good
<1>6. 0 \in Good
  BY <1>3, <1>4, <1>5, WalkIsInductive
<1> QED
  BY <1>1, <1>2, <1>3, <1>6 DEF Good

------------------------------------------------------------------------------
(* What follows for every state of a pool.                                  *)

\* Of a settled heap, its parts with nothing in hand.
LEMMA SettledIs ==
  ASSUME NEW s, NEW n, NEW t, Settled(s, n, t)
  PROVE  \E g : /\ Roomy(n) /\ s \in Spaces(n) /\ Limited(s, n)
                /\ Tiled(s.word, t, End(n)) /\ TopHolds(s, t, End(n))
                /\ DvHolds(s, t) /\ g \subseteq t /\ Listed(s, g)
                /\ s.topsize \in Nat \ {0} /\ s.top \in t /\ s.top # 0
                /\ Walked(s, t) /\ ~Used(s.word, s.top)
                /\ \A p \in t : p \in g <=>
                     ~Used(s.word, p) /\ p # s.top /\ p # s.dv
<1>1. PICK g : Heap(s, n, t, g, {})
  BY DEF Settled
<1> DEFINE l == {}
<1>2. Heap(s, n, t, g, l)
  BY <1>1
<1>3. \A p \in t : p \in g <=> ~Used(s.word, p) /\ p # s.top /\ p # s.dv
  BY <1>1 DEF Heap
<1> HIDE DEF l
<1>4. /\ s.topsize \in Nat \ {0} /\ s.top \in t /\ s.top # 0
      /\ ~Used(s.word, s.top)
  BY <1>2, TopFacts
<1>5. Walked(s, t)
  BY ChunksAreWalked
<1> QED
  BY <1>2, <1>3, <1>4, <1>5 DEF Heap

\* A settled heap is tiled.
LEMMA SettledIsTiled ==
  ASSUME NEW s, NEW n, NEW t, Settled(s, n, t)
  PROVE  ChunksTile(s) /\ Cardinality(DOMAIN s.word) = n
<1>1. PICK g : /\ Roomy(n) /\ s \in Spaces(n) /\ Limited(s, n)
               /\ Tiled(s.word, t, End(n)) /\ TopHolds(s, t, End(n))
               /\ DvHolds(s, t) /\ g \subseteq t /\ Listed(s, g)
               /\ s.topsize \in Nat \ {0} /\ s.top \in t /\ s.top # 0
               /\ Walked(s, t) /\ ~Used(s.word, s.top)
               /\ \A p \in t : p \in g <=>
                    ~Used(s.word, p) /\ p # s.top /\ p # s.dv
  BY SettledIs
<1>2. Chunks(s) = t \ {s.top}
  BY <1>1, ChunksAreThose
<1>3. End(n) \in Nat /\ n \in Nat /\ n = End(n) + TopFootSize
  <2>1. TopFootSize \in Nat
    <3>1. PadRequest(SegmentWords) \in Nat
      BY LimitAssumption DEF PadRequest, Overhead, Alignment
    <3> QED
      BY <3>1 DEF TopFootSize, MinChunkSize
  <2>2. End(n) \in Nat /\ n \in Nat
    BY <1>1, EndIsInside
  <2> HIDE DEF TopFootSize
  <2> QED
    BY <2>1, <2>2 DEF End
<1>4. Cardinality(DOMAIN s.word) = n
  <2>1. DOMAIN s.word = 0..(n - 1)
    BY <1>1 DEF Spaces
  <2>2. Cardinality(0..(n - 1)) = n
    BY <1>3, FS_Interval
  <2> QED
    BY <2>1, <2>2
<1>5. /\ ChunkSize(s, s.top) = s.topsize /\ s.topsize > 0
      /\ s.top + s.topsize + TopFootSize = Cardinality(DOMAIN s.word)
  <2>1. ChunkSize(s, s.top) = s.topsize /\ s.top + s.topsize = End(n)
    BY <1>1 DEF TopHolds, Size, ChunkSize
  <2> QED
    BY <1>1, <1>3, <1>4, <2>1
<1>6. ASSUME NEW p \in Chunks(s)
      PROVE  LET next == p + ChunkSize(s, p)
             IN  /\ s.word[p + 1].is = "head" /\ next \in Chunks(s) \cup {s.top}
                 /\ Cinuse(s, p) = Pinuse(s, next)
                 /\ ~Cinuse(s, p) =>
                      s.word[next] = Foot(ChunkSize(s, p)) /\ Cinuse(s, next)
  <2> DEFINE next == p + ChunkSize(s, p)
  <2>1. p \in t /\ p # s.top
    BY <1>2
  <2>2. next \in t /\ next <= s.top /\ s.top \in Nat
    BY <1>1, <2>1 DEF Walked
  <2>3. next # End(n)
    <3>1. s.top + s.topsize = End(n) /\ t \subseteq Nat
      BY <1>1 DEF TopHolds, Walked
    <3> QED
      BY <1>1, <2>2, <3>1
  <2>4. Ends(s.word, p, next, End(n))
    <3>1. p + Size(s.word, p) = next
      BY DEF Size, ChunkSize
    <3> QED
      BY <1>1, <2>1, <3>1, NextOf
  <2>5. next \in Chunks(s) \cup {s.top}
    BY <1>2, <2>2
  <2> HIDE DEF next
  <2>6. /\ s.word[p + 1].is = "head" /\ Used(s.word, p) = PrevUsed(s.word, next)
        /\ ~Used(s.word, p) =>
             s.word[next] = Foot(Size(s.word, p)) /\ Used(s.word, next)
    BY <2>3, <2>4 DEF Ends
  <2>7. /\ Cinuse(s, p) = Pinuse(s, next)
        /\ ~Cinuse(s, p) =>
             s.word[next] = Foot(ChunkSize(s, p)) /\ Cinuse(s, next)
    BY <2>6 DEF Used, PrevUsed, Cinuse, Pinuse, Size, ChunkSize
  <2> QED
    BY <2>5, <2>6, <2>7 DEF next
<1>7. ChunksTile(s)
  BY <1>5, <1>6 DEF ChunksTile
<1> QED
  BY <1>4, <1>7

\* Bins that list what is free are as do_check_smallbin and do_check_tree want
\* them.
LEMMA ListedAreRight ==
  ASSUME NEW s, NEW g, Listed(s, g),
         s.treebins \in [0..(NTreebins - 1) -> Tries]
  PROVE  SmallbinsAreRight(s) /\ TriesAreRight(s)
<1>1. SmallbinsAreRight(s)
  <2>1. ASSUME NEW i \in s.smallmap
        PROVE  /\ s.smallbins[i] # <<>> /\ IsInjective(s.smallbins[i])
               /\ \A p \in Binned(s, i) :
                    ChunkSize(s, p) = i /\ s.word[p + 2] = Link
                    /\ s.word[p + 3] = Link
    <3>1. /\ s.smallbins[i] # <<>> /\ IsInjective(s.smallbins[i])
          /\ Binned(s, i) = Small(s.word, g, i)
      BY DEF Listed, Binned
    <3>2. \A p \in Small(s.word, g, i) : p \in g /\ Size(s.word, p) = i
      BY DEF Small
    <3>3. \A p \in g : s.word[p + 2] = Link /\ s.word[p + 3] = Link
      BY DEF Listed, Linked
    <3> QED
      BY <3>1, <3>2, <3>3 DEF Size, ChunkSize
  <2> QED
    BY <2>1 DEF SmallbinsAreRight
<1>2. ASSUME NEW i \in 0..(NTreebins - 1), NEW trie, trie = s.treebins[i]
      PROVE  /\ (trie = NoTrie) = (i \notin s.treemap)
             /\ \A q \in DOMAIN trie :
                  /\ q # <<>> => Front(q) \in DOMAIN trie
                  /\ IsInjective(trie[q])
                  /\ \A p \in Range(trie[q]) :
                       /\ TreeIndex(ChunkSize(s, p)) = i
                       /\ q = PathOf(ChunkSize(s, p), i, Len(q))
                       /\ \A a \in p + 2 .. p + 7 : s.word[a] = Link
             /\ \A q, r \in DOMAIN trie :
                  SizeAt(s, trie, q) = SizeAt(s, trie, r) => q = r
  <2> DEFINE w == s.word
             c == Large(w, g, i)
  <2>1. Holds(w, trie, i, c) /\ (i \in s.treemap <=> c # {})
    BY <1>2 DEF Listed
  <2>2. \A p \in c : /\ p \in g /\ TreeIndex(ChunkSize(s, p)) = i
                     /\ ~IsSmall(Size(w, p))
    BY DEF Large, Size, ChunkSize
  <2>3. \A p \in g : ~IsSmall(Size(w, p)) => \A a \in p + 2 .. p + 7 : w[a] = Link
    BY DEF Listed, Linked
  <2> HIDE DEF c
  <2>4. (trie = NoTrie) = (i \notin s.treemap)
    <3>1. trie = NoTrie <=> c = {}
      BY <2>1, EmptyTrie
    <3> QED
      BY <2>1, <3>1
  <2>5. ASSUME NEW q \in DOMAIN trie
        PROVE  /\ q # <<>> => Front(q) \in DOMAIN trie
               /\ IsInjective(trie[q])
               /\ \A p \in Range(trie[q]) :
                    /\ TreeIndex(ChunkSize(s, p)) = i
                    /\ q = PathOf(ChunkSize(s, p), i, Len(q))
                    /\ \A a \in p + 2 .. p + 7 : s.word[a] = Link
    <3>1. q # <<>> => Front(q) \in DOMAIN trie
      <4>1. IsTrie(trie) /\ q \in Seq(Bits)
        BY <2>1 DEF Holds, IsTrie
      <4>2. q # <<>> => Len(q) - 1 \in 0..Len(q)
        BY <4>1
      <4> QED
        BY <4>1, <4>2 DEF IsTrie, Front
    <3>2. /\ IsInjective(trie[q])
          /\ \A p \in Range(trie[q]) : p \in c /\ q = PathOf(Size(w, p), i, Len(q))
      BY <2>1 DEF Holds
    <3>3. \A p \in Range(trie[q]) :
            /\ TreeIndex(ChunkSize(s, p)) = i
            /\ \A a \in p + 2 .. p + 7 : s.word[a] = Link
      BY <2>2, <2>3, <3>2
    <3>4. \A p \in Range(trie[q]) : q = PathOf(ChunkSize(s, p), i, Len(q))
      BY <3>2 DEF Size, ChunkSize
    <3> QED
      BY <3>1, <3>2, <3>3, <3>4
  <2>6. ASSUME NEW q \in DOMAIN trie, NEW r \in DOMAIN trie,
               SizeAt(s, trie, q) = SizeAt(s, trie, r)
        PROVE  q = r
    <3>1. Member(trie, q) \in Range(trie[q]) /\ Member(trie, r) \in Range(trie[r])
      <4>1. /\ trie[q] \in Seq(Nat) /\ trie[q] # <<>>
            /\ trie[r] \in Seq(Nat) /\ trie[r] # <<>>
        BY <2>1 DEF Holds, IsTrie
      <4> QED
        BY <4>1, HeadIsAMember DEF Member
    <3>2. Size(w, Member(trie, q)) = Size(w, Member(trie, r))
      BY <2>6 DEF SizeAt, Size, ChunkSize
    <3> QED
      BY <2>1, <3>1, <3>2 DEF Holds
  <2> QED
    BY <2>4, <2>5, <2>6
<1>3. TriesAreRight(s)
  BY <1>2 DEF TriesAreRight
<1> QED
  BY <1>1, <1>3

\* Every free chunk is in a smallbin or in a trie, and never in both.
LEMMA BinsHaveTheFree ==
  ASSUME NEW s, NEW g, Listed(s, g),
         s.treebins \in [0..(NTreebins - 1) -> Tries],
         \A p \in g : Size(s.word, p) \in Nat
  PROVE  LET small == UNION {Binned(s, i) : i \in s.smallmap}
             large == UNION {InTrie(s, i) : i \in s.treemap}
         IN  g = small \cup large /\ small \cap large = {}
<1> DEFINE w == s.word
           small == UNION {Binned(s, i) : i \in s.smallmap}
           large == UNION {InTrie(s, i) : i \in s.treemap}
<1>1. NSmallbins \in Nat
  BY SmallbinsAreNumbered
<1>2. \A i \in s.smallmap : Binned(s, i) = Small(w, g, i) /\ i \in 0..(NSmallbins - 1)
  BY DEF Listed, Binned
<1>3. ASSUME NEW i \in s.treemap
      PROVE  InTrie(s, i) = Large(w, g, i)
  <2> DEFINE trie == s.treebins[i]
             c == Large(w, g, i)
  <2>1. i \in 0..(NTreebins - 1)
    BY DEF Listed
  <2>2. Holds(w, trie, i, c)
    BY <2>1 DEF Listed
  <2>3. InTrie(s, i) = UNION {Range(trie[q]) : q \in DOMAIN trie}
    BY DEF InTrie
  <2> HIDE DEF trie, c
  <2>4. /\ \A q \in DOMAIN trie : \A p \in Range(trie[q]) : p \in c
        /\ \A p \in c : \E q \in DOMAIN trie : p \in Range(trie[q])
    BY <2>2 DEF Holds
  <2>5. UNION {Range(trie[q]) : q \in DOMAIN trie} = c
    BY <2>4
  <2> QED
    BY <2>3, <2>5 DEF c
<1>4. ASSUME NEW p \in small
      PROVE  p \in g /\ IsSmall(Size(w, p))
  <2>1. PICK i \in s.smallmap : p \in Small(w, g, i) /\ i \in 0..(NSmallbins - 1)
    BY <1>2, <1>4
  <2> QED
    BY <1>1, <2>1 DEF Small, IsSmall
<1>5. ASSUME NEW p \in large
      PROVE  p \in g /\ ~IsSmall(Size(w, p))
  <2>1. PICK i \in s.treemap : p \in Large(w, g, i)
    BY <1>3, <1>5
  <2> QED
    BY <2>1 DEF Large
<1>6. ASSUME NEW p \in g
      PROVE  p \in small \/ p \in large
  <2> DEFINE size == Size(w, p)
  <2>1. size \in Nat
    OBVIOUS
  <2>2. CASE IsSmall(size)
    <3>1. size \in 0..(NSmallbins - 1)
      BY <1>1, <2>1, <2>2 DEF IsSmall
    <3>2. p \in Small(w, g, size)
      BY DEF Small
    <3> HIDE DEF size
    <3>3. size \in s.smallmap
      BY <3>1, <3>2 DEF Listed
    <3>4. p \in Binned(s, size)
      BY <1>2, <3>2, <3>3
    <3>5. p \in small
      BY <3>3, <3>4
    <3> QED
      BY <3>5
  <2>3. CASE ~IsSmall(size)
    <3> DEFINE i == TreeIndex(size)
    <3>1. i \in 0..(NTreebins - 1)
      BY <2>1, IndexIsABin
    <3>2. p \in Large(w, g, i)
      BY <2>3 DEF Large
    <3> HIDE DEF i
    <3>3. i \in s.treemap
      BY <3>1, <3>2 DEF Listed
    <3>4. p \in InTrie(s, i)
      BY <1>3, <3>2, <3>3
    <3>5. p \in large
      BY <3>3, <3>4
    <3> QED
      BY <3>5
  <2> QED
    BY <2>2, <2>3
<1> HIDE DEF small, large
<1>7. g = small \cup large
  BY <1>4, <1>5, <1>6
<1>8. small \cap large = {}
  BY <1>4, <1>5
<1> QED
  BY <1>7, <1>8 DEF small, large

\* A settled heap passes the checks of do_check_malloc_state.
LEMMA SettledIsWellFormed ==
  ASSUME NEW s, NEW n, NEW t, Settled(s, n, t)
  PROVE  /\ SmallbinsAreRight(s) /\ TriesAreRight(s) /\ FreeAreFound(s)
         /\ Free(s) = {p \in t : ~Used(s.word, p) /\ p # s.top}
         /\ Chunks(s) = t \ {s.top}
<1>1. PICK g : /\ Roomy(n) /\ s \in Spaces(n) /\ Limited(s, n)
               /\ Tiled(s.word, t, End(n)) /\ TopHolds(s, t, End(n))
               /\ DvHolds(s, t) /\ g \subseteq t /\ Listed(s, g)
               /\ s.topsize \in Nat \ {0} /\ s.top \in t /\ s.top # 0
               /\ Walked(s, t) /\ ~Used(s.word, s.top)
               /\ \A p \in t : p \in g <=>
                    ~Used(s.word, p) /\ p # s.top /\ p # s.dv
  BY SettledIs
<1>2. Chunks(s) = t \ {s.top}
  BY <1>1, ChunksAreThose
<1>3. s.treebins \in [0..(NTreebins - 1) -> Tries]
  BY <1>1 DEF Spaces
<1>4. SmallbinsAreRight(s) /\ TriesAreRight(s)
  BY <1>1, <1>3, ListedAreRight
<1>5. Free(s) = {p \in t : ~Used(s.word, p) /\ p # s.top}
  BY <1>2 DEF Free, Cinuse, Used
<1>6. \A p \in g : Size(s.word, p) \in Nat
  BY <1>1 DEF Walked, Size, ChunkSize
<1> DEFINE dv == IF s.dvsize = 0 THEN {} ELSE {s.dv}
           small == UNION {Binned(s, i) : i \in s.smallmap}
           large == UNION {InTrie(s, i) : i \in s.treemap}
<1>7. g = small \cup large /\ small \cap large = {}
  BY <1>1, <1>3, <1>6, BinsHaveTheFree
<1> HIDE DEF small, large
<1>8. /\ s.dvsize = 0 => s.dv = 0
      /\ s.dvsize # 0 => /\ s.dv \in t /\ s.dv # s.top /\ ~Used(s.word, s.dv)
                         /\ ChunkSize(s, s.dv) = s.dvsize
  BY <1>1 DEF DvHolds, Size, ChunkSize
<1>9. Used(s.word, 0)
  BY <1>1 DEF Tiled
<1>10. Free(s) = dv \cup g /\ dv \cap g = {}
  BY <1>1, <1>5, <1>8, <1>9
<1>11. /\ Free(s) = dv \cup small \cup large
       /\ dv \cap (small \cup large) = {} /\ small \cap large = {}
       /\ s.dvsize # 0 => ChunkSize(s, s.dv) = s.dvsize
  BY <1>7, <1>8, <1>10
<1>12. FreeAreFound(s)
  BY <1>11 DEF FreeAreFound, small, large
<1> QED
  BY <1>2, <1>4, <1>5, <1>12

\* PoolInv gives HeapIsWellFormed.
LEMMA PoolsAreWellFormed == PoolInv => HeapIsWellFormed
<1> SUFFICES ASSUME PoolInv PROVE HeapIsWellFormed
  OBVIOUS
<1>1. PICK n, t : Settled(space, n, t)
  BY DEF PoolInv, PoolIs
<1> QED
  BY <1>1, SettledIsTiled, SettledIsWellFormed DEF HeapIsWellFormed

\* Of a pool, what is in use.
LEMMA UsedAreBlocks ==
  ASSUME NEW s, NEW bs, NEW n, NEW t, PoolIs(s, bs, n, t)
  PROVE  /\ Users(s.word, t) = {0} \cup {MemToChunk(b.mem) : b \in bs}
         /\ 0 \notin {MemToChunk(b.mem) : b \in bs}
<1>1. Settled(s, n, t) /\ BlocksAre(s.word, t, bs)
  BY DEF PoolIs
<1>2. 0 \in Users(s.word, t) /\ Numbered(s.word, t)
  BY <1>1, ChunksAreNumbered
<1>3. \A p \in t : MemToChunk(ChunkToMem(p)) = p
  BY <1>2 DEF Numbered, MemToChunk, ChunkToMem
<1>4. ASSUME NEW b \in bs
      PROVE  MemToChunk(b.mem) \in Users(s.word, t) \ {0}
  <2>1. PICK p \in t : BlockAt(s.word, t, bs, b, p)
    BY BlocksHaveChunks
  <2>2. b.mem = ChunkToMem(p) /\ p # 0 /\ Used(s.word, p)
    BY <2>1 DEF BlockAt
  <2> QED
    BY <1>3, <2>2 DEF Users
<1>5. ASSUME NEW p \in Users(s.word, t), p # 0
      PROVE  \E b \in bs : p = MemToChunk(b.mem)
  <2>1. PICK b \in bs : b.mem = ChunkToMem(p)
    BY <1>1, <1>5 DEF BlocksAre
  <2> QED
    BY <1>3, <2>1 DEF Users
<1> QED
  BY <1>2, <1>4, <1>5

\* PoolInv gives BlocksKeepTheirData.
LEMMA PoolsKeepData == PoolInv => BlocksKeepTheirData
<1> SUFFICES ASSUME PoolInv PROVE BlocksKeepTheirData
  OBVIOUS
<1>1. PICK n, t : PoolIs(space, blocks, n, t)
  BY DEF PoolInv
<1>2. Settled(space, n, t) /\ BlocksAre(space.word, t, blocks)
  BY <1>1 DEF PoolIs
<1>3. ASSUME NEW b \in blocks
      PROVE  LET size == ChunkSize(space, MemToChunk(b.mem))
             IN  /\ size - RequestToSize(b.words) \in 0..(MinChunkSize - 1)
                 /\ \A k \in 0..(b.words - 1) : space.word[b.mem + k] = Data(k)
  <2>1. PICK p \in t : BlockAt(space.word, t, blocks, b, p)
    BY <1>1, BlocksHaveChunks
  <2>2. b.mem = ChunkToMem(p) /\ p \in Nat /\ Owns(space.word, p, b.words)
    BY <2>1 DEF BlockAt
  <2>3. MemToChunk(b.mem) = p /\ b.mem = p + 2
    BY <2>2 DEF MemToChunk, ChunkToMem
  <2> QED
    BY <2>2, <2>3 DEF Owns, Size, ChunkSize
<1>4. Chunks(space) \ Free(space) = {0} \cup {MemToChunk(b.mem) : b \in blocks}
  <2>1. /\ Free(space) = {p \in t : ~Used(space.word, p) /\ p # space.top}
        /\ Chunks(space) = t \ {space.top}
    BY <1>2, SettledIsWellFormed
  <2>2. ~Used(space.word, space.top)
    BY <1>2, SettledIs
  <2>3. Chunks(space) \ Free(space) = Users(space.word, t)
    BY <2>1, <2>2 DEF Users
  <2> QED
    BY <1>1, <2>3, UsedAreBlocks
<1>5. \A b, c \in blocks : b.mem = c.mem => b = c
  BY <1>2 DEF BlocksAre
<1> QED
  BY <1>3, <1>4, <1>5 DEF BlocksKeepTheirData

\* PoolInv gives PoolIsTheLimit.
LEMMA PoolsAreLimited == PoolInv => PoolIsTheLimit
<1> SUFFICES ASSUME PoolInv PROVE PoolIsTheLimit
  OBVIOUS
<1>1. PICK n, t : PoolIs(space, blocks, n, t)
  BY DEF PoolInv
<1>2. Settled(space, n, t) /\ Size(space.word, 0) = StateSize
  BY <1>1 DEF PoolIs
<1>3. PICK g : /\ Roomy(n) /\ space \in Spaces(n) /\ Limited(space, n)
               /\ Tiled(space.word, t, End(n)) /\ TopHolds(space, t, End(n))
               /\ DvHolds(space, t) /\ g \subseteq t /\ Listed(space, g)
               /\ space.topsize \in Nat \ {0} /\ space.top \in t /\ space.top # 0
               /\ Walked(space, t) /\ ~Used(space.word, space.top)
               /\ \A p \in t : p \in g <=>
                    ~Used(space.word, p) /\ p # space.top /\ p # space.dv
  BY <1>2, SettledIs
<1>4. space.footprint = n /\ Cardinality(DOMAIN space.word) = n
  BY <1>2, <1>3, SettledIsTiled DEF Limited
<1> DEFINE free == Free(space)
           held == {MemToChunk(b.mem) : b \in blocks}
<1>5. /\ Users(space.word, t) = {0} \cup held /\ 0 \notin held
      /\ free = {p \in t : ~Used(space.word, p) /\ p # space.top}
  BY <1>1, <1>2, UsedAreBlocks, SettledIsWellFormed
<1> HIDE DEF free, held
<1>6. \A p \in t : p # space.top /\ p # 0 => (p \in free <=> p \notin held)
  BY <1>5 DEF Users
<1>7. 0 \notin free /\ 0 # space.top
  BY <1>3, <1>5 DEF Users
<1>8. /\ SizeSum(space, free) \in Int /\ SizeSum(space, held) \in Int
      /\ SizeSum(space, free) + SizeSum(space, held) + ChunkSize(space, 0)
           = space.top
  BY <1>3, <1>5, <1>6, <1>7, SumsAddUp
<1>9. ChunkSize(space, 0) = StateSize /\ StateSize \in Nat
  BY <1>2, PoolAssumption DEF Size, ChunkSize
<1>10. /\ n = space.top + space.topsize + TopFootSize /\ n \in Nat
       /\ space.top \in Nat /\ space.topsize \in Nat /\ TopFootSize \in Int
  <2>1. space.top + space.topsize + TopFootSize = Cardinality(DOMAIN space.word)
    BY <1>2, SettledIsTiled DEF ChunksTile
  <2>2. PadRequest(SegmentWords) \in Nat
    BY LimitAssumption DEF PadRequest, Overhead, Alignment
  <2>3. TopFootSize \in Int
    BY <2>2 DEF TopFootSize, MinChunkSize
  <2>4. n \in Nat /\ space.top \in Nat
    BY <1>3 DEF Roomy, Walked
  <2> QED
    BY <1>3, <1>4, <2>1, <2>3, <2>4
<1>11. Uordblks(space) = n - (space.topsize + TopFootSize + SizeSum(space, free))
  BY <1>4 DEF Uordblks, free
<1>12. Uordblks(space) = StateSize + SizeSum(space, held)
  BY <1>8, <1>9, <1>10, <1>11
<1> QED
  BY <1>4, <1>12 DEF PoolIsTheLimit, held

\* Whatever calls a pool gets, its heap passes the checks of dlmalloc's own
\* do_check_malloc_state after each of them: chunks tile the pool, bins hold
\* every free chunk where a request looks for it, and nothing else.
THEOREM HeapStaysWellFormed == PoolSpec => []HeapIsWellFormed
<1> QED
  BY PoolInvHolds, PoolsAreWellFormed, PTL

\* Whatever calls a pool gets, every block lies in a chunk of its own that is
\* not larger than it need be, the words its owner wrote are there, after
\* realloc, too, and no other chunk is in use: nothing leaks.
THEOREM DataIsKept == PoolSpec => []BlocksKeepTheirData
<1> QED
  BY PoolInvHolds, PoolsKeepData, PTL

\* Whatever calls a pool gets, its footprint stays what me_memory_pool_new
\* mapped, and the allocation that stat reports is what the blocks and the
\* malloc_state take up.
THEOREM PoolStaysTheLimit == PoolSpec => []PoolIsTheLimit
<1> QED
  BY PoolInvHolds, PoolsAreLimited, PTL

------------------------------------------------------------------------------
(* Requests are answered with what fits.                                    *)

\* The way to a size has the nodes of its path up to depth n, where the size is
\* or no node.
WayEnds(s, trie, i, nb, n) ==
  /\ \A q \in NodesTowards(s, trie, nb, i) :
       q \in DOMAIN trie /\ \E d \in 0..n : q = PathOf(nb, i, d)
  /\ \A d \in 0..n : PathOf(nb, i, d) \in DOMAIN trie =>
       PathOf(nb, i, d) \in NodesTowards(s, trie, nb, i)
  /\ \/ PathOf(nb, i, n) \notin DOMAIN trie
     \/ NodeSize(s.word, trie, PathOf(nb, i, n)) = nb
  /\ \A d \in 0..(n - 1) :
       /\ PathOf(nb, i, d) \in DOMAIN trie
       /\ NodeSize(s.word, trie, PathOf(nb, i, d)) # nb

\* The nodes that tmalloc_large walks over are those on the path of the size,
\* as far as it or as they go.
LEMMA WayIsOnPath ==
  ASSUME NEW s, NEW trie, NEW i, NEW c, Sorted(s.word, trie, i, c), NEW nb \in Nat
  PROVE  \E n \in Nat : WayEnds(s, trie, i, nb, n)
<1>1. IsTrie(trie) /\ i \in 0..(NTreebins - 1)
  BY DEF Sorted, Holds
<1>2. PICK n \in Nat :
        /\ PlaceOf(s, trie, nb, i) = PathOf(nb, i, n)
        /\ IsPlaceFor(s, trie, nb, PathOf(nb, i, n))
        /\ \A e \in 0..(n - 1) : ~IsPlaceFor(s, trie, nb, PathOf(nb, i, e))
  BY <1>1, PlaceIsOnPath
<1>3. \A q : SizeAt(s, trie, q) = NodeSize(s.word, trie, q)
  BY DEF SizeAt, NodeSize, Member, ChunkSize, Size
<1>4. Len(PathOf(nb, i, n)) = n
      /\ \A k \in 0..n : SubSeq(PathOf(nb, i, n), 1, k) = PathOf(nb, i, k)
  BY <1>1, PathIsASequence
<1>5. /\ \A q \in NodesTowards(s, trie, nb, i) :
           q \in DOMAIN trie /\ \E d \in 0..n : q = PathOf(nb, i, d)
      /\ \A d \in 0..n : PathOf(nb, i, d) \in DOMAIN trie =>
           PathOf(nb, i, d) \in NodesTowards(s, trie, nb, i)
  BY <1>2, <1>4 DEF NodesTowards, Upto
<1> QED
  BY <1>2, <1>3, <1>5 DEF IsPlaceFor, WayEnds

\* The subtree that is not taken, but could be.
Untaken(trie, way, nb, i) ==
  {q \in way : ChildOf(nb, i, Len(q)) = 0 /\ Append(q, 1) \in DOMAIN trie}

\* The deepest one is looked at.
LEMMA DeepestIsSeen ==
  ASSUME NEW trie, NEW i, NEW nb, NEW way \in SUBSET Seq(Bits), NEW n \in Nat,
         \A q \in way : Len(q) <= n, NEW k \in Untaken(trie, way, nb, i)
  PROVE  \E q \in Untaken(trie, way, nb, i) :
           /\ Len(k) <= Len(q)
           /\ DeepestRight(trie, way, nb, i) = LeftmostPath(trie, Append(q, 1))
<1> DEFINE S == Untaken(trie, way, nb, i)
           q == CHOOSE q \in S : \A r \in S : Len(r) <= Len(q)
<1>1. S \in SUBSET Seq(Bits) /\ S # {} /\ \A r \in S : Len(r) <= n
  BY DEF Untaken
<1>2. \E r \in S : \A t \in S : Len(t) <= Len(r)
  <2> HIDE DEF S
  <2> QED
    BY <1>1, DeepestExists
<1>3. q \in S /\ \A r \in S : Len(r) <= Len(q)
  <2> HIDE DEF S
  <2> QED
    BY <1>2
<1>4. DeepestRight(trie, way, nb, i) = LeftmostPath(trie, Append(q, 1))
  BY <1>1 DEF DeepestRight, Untaken
<1> QED
  BY <1>3, <1>4

\* One that is seen is large enough and as small as a node that is.
SeesOneUpTo(s, trie, nb, i, u) ==
  \E v \in NodesSeen(s, trie, NodesTowards(s, trie, nb, i), nb, i) :
    /\ v \in DOMAIN trie
    /\ nb <= NodeSize(s.word, trie, v)
    /\ NodeSize(s.word, trie, v) <= NodeSize(s.word, trie, u)

\* Among the nodes that tmalloc_large looks at is one that is large enough and
\* as small as any that is: it need not look at more.
THEOREM SeenIsBest ==
  ASSUME NEW s, NEW trie, NEW i, NEW c, Sorted(s.word, trie, i, c),
         NEW nb \in SizesOf(i), NEW u \in DOMAIN trie,
         nb <= NodeSize(s.word, trie, u)
  PROVE  SeesOneUpTo(s, trie, nb, i, u)
<1> DEFINE w == s.word
           way == NodesTowards(s, trie, nb, i)
<1>1. /\ nb \in Nat /\ i \in 0..(NTreebins - 1) /\ u \in Seq(Bits) /\ Len(u) \in Nat
      /\ IsTrie(trie) /\ Sorted(w, trie, i, c)
  <2>1. nb \in Nat
    BY DEF SizesOf
  <2>2. i \in 0..(NTreebins - 1) /\ IsTrie(trie)
    BY DEF Sorted, Holds
  <2>3. u \in Seq(Bits)
    BY NodesAreOnPaths
  <2> QED
    BY <2>1, <2>2, <2>3
<1>2. \A q \in DOMAIN trie : NodeSize(w, trie, q) \in Nat /\ q \in Seq(Bits)
  BY NodesAreOnPaths DEF SizesOf
<1>3. PICK n \in Nat : WayEnds(s, trie, i, nb, n)
  BY <1>1, WayIsOnPath
<1>4. \A d \in Nat : PathOf(nb, i, d) \in Seq(Bits) /\ Len(PathOf(nb, i, d)) = d
  BY <1>1, PathIsASequence
<1>5. \A q : SizeAt(s, trie, q) = NodeSize(w, trie, q)
  BY DEF SizeAt, NodeSize, Member, ChunkSize, Size
<1>6. way \subseteq NodesSeen(s, trie, way, nb, i)
  BY DEF NodesSeen
<1>7. /\ \A q \in way : q \in DOMAIN trie /\ \E d \in 0..n : q = PathOf(nb, i, d)
      /\ \A d \in 0..n : PathOf(nb, i, d) \in DOMAIN trie =>
           PathOf(nb, i, d) \in way
      /\ \/ PathOf(nb, i, n) \notin DOMAIN trie
         \/ NodeSize(w, trie, PathOf(nb, i, n)) = nb
      /\ \A d \in 0..(n - 1) : /\ PathOf(nb, i, d) \in DOMAIN trie
                               /\ NodeSize(w, trie, PathOf(nb, i, d)) # nb
  BY <1>3 DEF WayEnds
<1> HIDE DEF way
<1>8. ASSUME NEW v \in NodesSeen(s, trie, way, nb, i), v \in DOMAIN trie,
             nb <= NodeSize(w, trie, v),
             NodeSize(w, trie, v) <= NodeSize(w, trie, u)
      PROVE  SeesOneUpTo(s, trie, nb, i, u)
  BY <1>8 DEF SeesOneUpTo, way
<1> HIDE DEF w
<1>9. CASE PathOf(nb, i, n) \in DOMAIN trie
  <2> DEFINE v == PathOf(nb, i, n)
  <2>1. n \in 0..n
    BY <1>7
  <2>2. v \in way /\ v \in DOMAIN trie /\ NodeSize(w, trie, v) = nb
    BY <1>3, <1>7, <1>9, <2>1
  <2>3. nb <= NodeSize(w, trie, v) /\ NodeSize(w, trie, v) <= NodeSize(w, trie, u)
    <3>1. NodeSize(w, trie, u) \in Nat /\ nb <= NodeSize(w, trie, u)
      BY <1>2 DEF w
    <3> QED
      BY <1>1, <2>2, <3>1
  <2> QED
    BY <1>6, <1>8, <2>2, <2>3
<1>10. CASE PathOf(nb, i, n) \notin DOMAIN trie
  <2>1. \A q \in way : NodeSize(w, trie, q) # nb
    <3> SUFFICES ASSUME NEW q \in way
                 PROVE  NodeSize(w, trie, q) # nb
      OBVIOUS
    <3>1. PICK d \in 0..n : q = PathOf(nb, i, d)
      BY <1>7
    <3>2. d # n
      BY <1>7, <1>10, <3>1
    <3>3. d \in 0..(n - 1)
      BY <1>7, <3>2
    <3> QED
      BY <1>7, <3>1, <3>3
  <2>2. DeepestRight(trie, way, nb, i) \subseteq NodesSeen(s, trie, way, nb, i)
    BY <1>5, <2>1 DEF NodesSeen
  <2>3. ASSUME NEW d \in Nat, PathOf(nb, i, d) \in DOMAIN trie
        PROVE  d < n
    <3>1. SUFFICES ASSUME n <= d
                   PROVE  FALSE
      BY <1>7, <2>3
    <3>2. PathOf(nb, i, n) \in DOMAIN trie
      BY <1>1, <1>7, <2>3, <3>1, PrefixesAreNodes
    <3> QED
      BY <1>10, <3>2
  <2>4. CASE u = PathOf(nb, i, Len(u))
    <3>1. Len(u) < n
      BY <1>1, <2>3, <2>4
    <3>2. Len(u) \in 0..n
      BY <1>1, <1>7, <3>1
    <3>3. u \in way
      BY <1>3, <1>7, <2>4, <3>2
    <3>4. NodeSize(w, trie, u) <= NodeSize(w, trie, u) /\ nb <= NodeSize(w, trie, u)
      BY <1>2 DEF w
    <3> QED
      BY <1>6, <1>8, <3>3, <3>4
  <2>5. CASE u # PathOf(nb, i, Len(u))
    <3>1. PICK d \in Nat : /\ d < Len(u) /\ SubSeq(u, 1, d) = PathOf(nb, i, d)
                           /\ u[d + 1] # ChildOf(nb, i, d)
      BY <1>1, <2>5, WhereItParts
    <3>2. u[d + 1] = 1 /\ ChildOf(nb, i, d) = 0
      <4>1. /\ u[d + 1] = 1 => ChildOf(nb, i, d) = 0
            /\ u[d + 1] # 1 => NodeSize(w, trie, u) < nb
        BY <1>1, <3>1, RightIsLarger
      <4>2. ~(NodeSize(w, trie, u) < nb)
        BY <1>1, <1>2 DEF w
      <4> QED
        BY <4>1, <4>2
    <3> DEFINE k == PathOf(nb, i, d)
    <3>3. d \in 0..Len(u) /\ d + 1 \in 0..Len(u) /\ d + 1 \in 1..Len(u)
          /\ k \in Seq(Bits) /\ Len(k) = d /\ d \in Nat
      <4>1. k \in Seq(Bits) /\ Len(k) = d
        BY <1>4
      <4>2. d \in 0..Len(u) /\ d + 1 \in 0..Len(u) /\ d + 1 \in 1..Len(u)
        BY <1>1, <3>1
      <4> QED
        BY <4>1, <4>2
    <3>4. SubSeq(u, 1, d + 1) = Append(k, 1)
      <4> DEFINE a == SubSeq(u, 1, d + 1)
                 b == Append(k, 1)
                 e == SubSeq(u, 1, d)
      <4>1. /\ a \in Seq(Bits) /\ Len(a) = d + 1
            /\ \A j \in 1..(d + 1) : a[j] = u[j]
        BY <1>1, <3>3, PrefixOf
      <4>2. e = k /\ \A j \in 1..d : e[j] = u[j]
        BY <1>1, <3>1, <3>3, PrefixOf
      <4>3. /\ b \in Seq(Bits) /\ Len(b) = d + 1 /\ b[d + 1] = 1
            /\ \A j \in 1..d : b[j] = k[j]
        <5>1. 1 \in Bits
          BY DEF Bits
        <5> HIDE DEF k
        <5> QED
          BY <3>3, <5>1, OneLonger
      <4> HIDE DEF a, b, e, k
      <4>4. \A j \in 1..(d + 1) : a[j] = b[j]
        <5> SUFFICES ASSUME NEW j \in 1..(d + 1)
                     PROVE  a[j] = b[j]
          OBVIOUS
        <5>1. CASE j = d + 1
          BY <3>2, <4>1, <4>3, <5>1
        <5>2. CASE j # d + 1
          <6>1. j \in 1..d
            BY <5>2
          <6> QED
            BY <4>1, <4>2, <4>3, <6>1
        <5> QED
          BY <5>1, <5>2
      <4>5. a = b
        BY <4>1, <4>3, <4>4
      <4> QED
        BY <4>5 DEF a, b
    <3>5. k \in DOMAIN trie /\ Append(k, 1) \in DOMAIN trie
      <4>1. SubSeq(u, 1, d) \in DOMAIN trie /\ SubSeq(u, 1, d + 1) \in DOMAIN trie
        BY <1>1, <3>3 DEF IsTrie
      <4> QED
        BY <3>1, <3>4, <4>1
    <3>6. d < n /\ d \in 0..n
      BY <1>7, <2>3, <3>3, <3>5
    <3>7. k \in Untaken(trie, way, nb, i)
      BY <1>3, <1>7, <3>2, <3>3, <3>5, <3>6 DEF Untaken
    <3>8. way \in SUBSET Seq(Bits) /\ \A q \in way : Len(q) <= n
      <4>1. \A q \in way : q \in Seq(Bits)
        BY <1>2, <1>7
      <4>2. ASSUME NEW q \in way
            PROVE  Len(q) <= n
        <5>1. PICK e \in 0..n : q = PathOf(nb, i, e)
          BY <1>7
        <5>2. e \in Nat /\ e <= n
          BY <1>7
        <5> QED
          BY <1>4, <5>1, <5>2
      <4> QED
        BY <4>1, <4>2
    <3>9. PICK q \in Untaken(trie, way, nb, i) :
            /\ Len(k) <= Len(q)
            /\ DeepestRight(trie, way, nb, i) = LeftmostPath(trie, Append(q, 1))
      <4> HIDE DEF k
      <4> QED
        BY <1>7, <3>7, <3>8, DeepestIsSeen
    <3>10. PICK e \in 0..n : q = PathOf(nb, i, e)
      BY <1>7 DEF Untaken
    <3> DEFINE top == Append(q, 1)
    <3>11. /\ e \in Nat /\ Len(q) = e /\ d <= e /\ q \in Seq(Bits)
           /\ ChildOf(nb, i, e) = 0 /\ top \in DOMAIN trie /\ q \in DOMAIN trie
      BY <1>2, <1>7, <1>4, <3>3, <3>9, <3>10 DEF Untaken
    <3>12. /\ top \in Seq(Bits) /\ Len(top) = e + 1 /\ top[e + 1] = 1
           /\ \A j \in 1..e : top[j] = q[j]
      <4>1. 1 \in Bits
        BY DEF Bits
      <4> QED
        BY <3>11, <4>1, OneLonger
    <3>13. \A j \in 0..e : SubSeq(top, 1, j) = PathOf(nb, i, j)
      <4> SUFFICES ASSUME NEW j \in 0..e
                   PROVE  SubSeq(top, 1, j) = PathOf(nb, i, j)
        OBVIOUS
      <4> DEFINE a == SubSeq(top, 1, j)
                 b == SubSeq(q, 1, j)
      <4> HIDE DEF top
      <4>1. /\ a \in Seq(Bits) /\ Len(a) = j
            /\ \A m \in 1..j : a[m] = top[m]
        BY <3>11, <3>12, PrefixOf
      <4>2. /\ b \in Seq(Bits) /\ Len(b) = j
            /\ \A m \in 1..j : b[m] = q[m]
        BY <3>11, PrefixOf
      <4>3. b = PathOf(nb, i, j)
        BY <1>1, <3>10, <3>11, PathIsASequence
      <4>4. \A m \in 1..j : m \in 1..e
        BY <3>11
      <4> HIDE DEF a, b
      <4>5. a = b
        BY <3>12, <4>1, <4>2, <4>4
      <4> QED
        BY <4>3, <4>5 DEF a
    <3> HIDE DEF top
    <3>14. ASSUME NEW v \in LeftmostPath(trie, top)
           PROVE  /\ v \in DOMAIN trie /\ nb <= NodeSize(w, trie, v)
                  /\ v \in NodesSeen(s, trie, way, nb, i)
      <4>1. v \in DOMAIN trie /\ Len(top) <= Len(v) /\ SubSeq(v, 1, Len(top)) = top
        BY DEF LeftmostPath, Way, OnTheWay
      <4>2. v \in Seq(Bits) /\ Len(v) \in Nat
        BY <1>2, <4>1
      <4>3. e + 1 \in 0..Len(v) /\ SubSeq(v, 1, e + 1) = top /\ e < Len(v)
            /\ e \in 0..(e + 1) /\ e + 1 \in 1..(e + 1) /\ e \in 0..e
        BY <3>11, <3>12, <4>1, <4>2
      <4>4. v[e + 1] = 1
        BY <3>12, <4>2, <4>3, PrefixOf
      <4>5. SubSeq(v, 1, e) = PathOf(nb, i, e)
        <5>1. SubSeq(SubSeq(v, 1, e + 1), 1, e) = SubSeq(v, 1, e)
          BY <4>2, <4>3, PrefixOfPrefix
        <5> QED
          BY <3>13, <4>3, <5>1
      <4>6. nb < NodeSize(w, trie, v)
        <5>1. v[e + 1] # ChildOf(nb, i, e)
          BY <3>11, <4>4
        <5> QED
          BY <1>1, <3>11, <4>1, <4>3, <4>4, <4>5, <5>1, RightIsLarger
      <4>7. v \in NodesSeen(s, trie, way, nb, i)
        BY <2>2, <3>9 DEF top
      <4> QED
        BY <1>1, <1>2, <4>1, <4>6, <4>7
    <3>15. CASE e = d
      <4>1. Len(top) <= Len(u) /\ SubSeq(u, 1, Len(top)) = top
        <5>1. top = Append(k, 1) /\ Len(top) = d + 1
          BY <3>10, <3>12, <3>15 DEF top
        <5> QED
          BY <1>1, <3>3, <3>4, <5>1
      <4>2. PICK v \in LeftmostPath(trie, top) :
              NodeSize(w, trie, v) <= NodeSize(w, trie, u)
        BY <1>1, <3>12, <4>1, LeftmostIsLeast
      <4> QED
        BY <1>8, <3>14, <4>2
    <3>16. CASE e # d
      <4>1. d < e /\ d + 1 \in 1..e /\ d \in 0..e /\ d < Len(top) /\ d + 1 \in Nat
            /\ (d + 1) - 1 = d
        BY <3>3, <3>11, <3>12, <3>16
      <4>2. top[d + 1] = 0
        <5>1. top[d + 1] = q[d + 1]
          BY <3>12, <4>1
        <5>2. PathOf(nb, i, e)[d + 1] = ChildOf(nb, i, (d + 1) - 1)
          BY <4>1 DEF PathOf
        <5> QED
          BY <3>2, <3>10, <4>1, <5>1, <5>2
      <4>3. SubSeq(top, 1, d) = SubSeq(u, 1, d)
        BY <3>1, <3>13, <4>1
      <4>4. top \in DOMAIN trie
        BY <3>11 DEF top
      <4>5. NodeSize(w, trie, top) < NodeSize(w, trie, u)
        BY <1>1, <3>1, <3>2, <4>1, <4>2, <4>3, <4>4, NodesAreOrdered
      <4>6. top \in LeftmostPath(trie, top)
        <5>1. Len(top) <= Len(top) /\ SubSeq(top, 1, Len(top)) = top
              /\ Len(top) + 1 .. Len(top) = {}
          <6>1. Len(top) \in 0..Len(top) /\ Len(top) \in Nat
            BY <3>12
          <6> QED
            BY <3>12, <6>1, PrefixOf
        <5> QED
          BY <4>4, <5>1 DEF LeftmostPath, Way, OnTheWay
      <4>7. NodeSize(w, trie, top) <= NodeSize(w, trie, u)
        BY <1>2, <4>4, <4>5
      <4> QED
        BY <1>8, <3>14, <4>6, <4>7
    <3> QED
      BY <3>15, <3>16
  <2> QED
    BY <2>4, <2>5
<1> QED
  BY <1>9, <1>10

\* A size that is large enough leaves what remains, less than one that is not.
LEMMA RemainderOf ==
  ASSUME NEW s, NEW v, NEW nb \in Nat, nb # 0, nb <= ChunkSize(s, v),
         ChunkSize(s, v) \in Nat, ChunkSize(s, v) < 2^SizeBits
  PROVE  /\ Remainder(s, v, nb) = ChunkSize(s, v) - nb
         /\ Remainder(s, v, nb) < Sub(0, nb)
<1>1. 2^SizeBits \in Nat \ {0}
  BY LimitAssumption
<1>2. ASSUME NEW m \in Nat \ {0}, NEW x \in Nat, NEW y \in Nat, y # 0, y <= x, x < m
      PROVE  (x - y) % m = x - y /\ (0 - y) % m = m - y
  <2>1. x - y \in 0..(m - 1) /\ m - y \in 0..(m - 1)
    BY <1>2
  <2>2. (x - y) % m = x - y
    BY <2>1
  <2>3. (0 - y) % m = m - y
    BY <1>2, <2>1
  <2> QED
    BY <2>2, <2>3
<1>3. /\ (ChunkSize(s, v) - nb) % 2^SizeBits = ChunkSize(s, v) - nb
      /\ (0 - nb) % 2^SizeBits = 2^SizeBits - nb
  BY <1>1, <1>2
<1> QED
  BY <1>1, <1>3 DEF Remainder, Sub

\* The chunk with the least remainder is the smallest of those that fit.
LEMMA BestIsLeast ==
  ASSUME NEW s, NEW nb \in Nat, nb # 0, NEW chunks, chunks # {},
         \A v \in chunks : /\ ChunkSize(s, v) \in Nat /\ nb <= ChunkSize(s, v)
                           /\ ChunkSize(s, v) < 2^SizeBits
  PROVE  /\ BestOf(s, chunks, nb) \in chunks
         /\ \A w \in chunks :
              ChunkSize(s, BestOf(s, chunks, nb)) <= ChunkSize(s, w)
<1> DEFINE v == BestOf(s, chunks, nb)
<1>1. \A w \in chunks : Remainder(s, w, nb) = ChunkSize(s, w) - nb
  BY RemainderOf
<1>2. \E x \in chunks : \A w \in chunks : ChunkSize(s, x) <= ChunkSize(s, w)
  <2> DEFINE T == {ChunkSize(s, x) : x \in chunks}
  <2>1. T \in SUBSET Nat /\ T # {}
    OBVIOUS
  <2>2. \E y \in T : \A z \in T : y <= z
    BY <2>1, HasSmallest
  <2> QED
    BY <2>2
<1>3. \E x \in chunks : \A w \in chunks : Remainder(s, x, nb) <= Remainder(s, w, nb)
  <2>1. PICK x \in chunks : \A w \in chunks : ChunkSize(s, x) <= ChunkSize(s, w)
    BY <1>2
  <2>2. \A w \in chunks : ChunkSize(s, x) - nb <= ChunkSize(s, w) - nb
    BY <2>1
  <2> QED
    BY <1>1, <2>2
<1>4. v \in chunks /\ \A w \in chunks : Remainder(s, v, nb) <= Remainder(s, w, nb)
  BY <1>3 DEF BestOf
<1> HIDE DEF v
<1>5. \A w \in chunks : ChunkSize(s, v) - nb <= ChunkSize(s, w) - nb
  BY <1>1, <1>4
<1>6. \A w \in chunks : ChunkSize(s, v) <= ChunkSize(s, w)
  BY <1>4, <1>5
<1> QED
  BY <1>4, <1>6 DEF v

\* A heap has chunks smaller than any request that is too large, and those
\* that are free are in bins or dv.
LEMMA FreeAre ==
  ASSUME NEW s, NEW n, NEW t, NEW g, Heap(s, n, t, g, {})
  PROVE  /\ \A p \in t : Size(s.word, p) \in Nat /\ Size(s.word, p) < MaxSizeT
         /\ g \subseteq t /\ Listed(s, g) /\ s.dvsize \in Nat /\ s.topsize \in Nat
         /\ \A p \in g : ~Used(s.word, p) /\ p # s.top /\ p # s.dv
         /\ s.dvsize # 0 => /\ s.dv \in t /\ ~Used(s.word, s.dv) /\ s.dv # s.top
                            /\ Size(s.word, s.dv) = s.dvsize
         /\ \A p \in t : ~Used(s.word, p) /\ p # s.top =>
              p \in g \/ (p = s.dv /\ s.dvsize # 0)
<1>1. /\ Roomy(n) /\ s \in Spaces(n) /\ DvHolds(s, t) /\ Tiled(s.word, t, End(n))
      /\ g \subseteq t /\ Listed(s, g)
      /\ \A p \in t : p \in g <=> ~Used(s.word, p) /\ p # s.top /\ p # s.dv
  BY DEF Heap
<1>2. Used(s.word, 0)
  BY <1>1 DEF Tiled
<1>3. s.dvsize \in Nat /\ s.topsize \in Nat
  BY <1>1 DEF Spaces
<1>4. /\ s.dvsize = 0 => s.dv = 0
      /\ s.dvsize # 0 => /\ s.dv \in t /\ ~Used(s.word, s.dv) /\ s.dv # s.top
                         /\ Size(s.word, s.dv) = s.dvsize
  BY <1>1 DEF DvHolds
<1>5. \A p \in t : Size(s.word, p) \in Nat /\ Size(s.word, p) < MaxSizeT
  <2>1. n + Granularity <= 2^SizeBits /\ Granularity \in Nat \ {0}
        /\ 2^SizeBits \in Nat /\ n \in Nat
    BY <1>1, LimitAssumption DEF Roomy
  <2> SUFFICES ASSUME NEW p \in t
               PROVE  Size(s.word, p) \in Nat /\ Size(s.word, p) < MaxSizeT
    OBVIOUS
  <2>2. /\ p \in Nat /\ Size(s.word, p) \in Nat /\ p + Size(s.word, p) <= End(n)
        /\ End(n) + 4 <= n /\ p < End(n)
    BY ChunkFacts
  <2>3. End(n) \in Nat
    BY <1>1, EndIsInside
  <2> QED
    BY <2>1, <2>2, <2>3 DEF MaxSizeT
<1>6. \A p \in t : ~Used(s.word, p) /\ p # s.top =>
        p \in g \/ (p = s.dv /\ s.dvsize # 0)
  BY <1>1, <1>2, <1>4
<1>7. \A p \in g : ~Used(s.word, p) /\ p # s.top /\ p # s.dv
  BY <1>1
<1> QED
  BY <1>1, <1>3, <1>4, <1>5, <1>6, <1>7

\* The free chunks that fit.
Fits(s, t, nb) ==
  {p \in t : ~Used(s.word, p) /\ p # s.top /\ nb <= Size(s.word, p)}

\* A request for nb words is answered with one of them if there is one, the
\* smallest if it is large, with top if not, and with NULL if top has no more.
IsBest(s, t, nb, mem) ==
  \/ mem = NoBlock /\ Fits(s, t, nb) = {} /\ s.topsize <= nb
  \/ mem = ChunkToMem(s.top) /\ Fits(s, t, nb) = {}
  \/ \E p \in Fits(s, t, nb) :
       /\ mem = ChunkToMem(p)
       /\ ~IsSmall(nb) => \A r \in Fits(s, t, nb) : Size(s.word, p) <= Size(s.word, r)

\* dv is at least as good as any chunk in a bin.
DvIsBest(s, g, nb) ==
  \A p \in g : nb <= Size(s.word, p) =>
    nb <= s.dvsize /\ (~IsSmall(nb) => s.dvsize <= Size(s.word, p))

\* What bins have no better chunk for is answered from dv, from top or with
\* NULL.
LEMMA FromDvOrTopIsBest ==
  ASSUME NEW s, NEW n, NEW t, NEW g, Heap(s, n, t, g, {}),
         NEW nb \in Sizes, nb >= MinChunkSize, DvIsBest(s, g, nb)
  PROVE  IsBest(s, t, nb, FromDvOrTop(s, nb).mem)
<1>1. nb \in Nat /\ nb # 0
  BY LimitAssumption DEF Sizes, MaxSizeT, MinChunkSize
<1>2. /\ \A p \in t : Size(s.word, p) \in Nat
      /\ g \subseteq t /\ s.dvsize \in Nat /\ s.topsize \in Nat
      /\ s.dvsize # 0 => /\ s.dv \in t /\ ~Used(s.word, s.dv) /\ s.dv # s.top
                         /\ Size(s.word, s.dv) = s.dvsize
      /\ \A p \in t : ~Used(s.word, p) /\ p # s.top =>
           p \in g \/ (p = s.dv /\ s.dvsize # 0)
  BY FreeAre
<1>3. \A p \in Fits(s, t, nb) :
        nb <= s.dvsize /\ (~IsSmall(nb) => s.dvsize <= Size(s.word, p))
  <2> SUFFICES ASSUME NEW p \in Fits(s, t, nb)
               PROVE  nb <= s.dvsize /\ (~IsSmall(nb) => s.dvsize <= Size(s.word, p))
    OBVIOUS
  <2>1. /\ p \in t /\ nb <= Size(s.word, p)
        /\ p \in g \/ (p = s.dv /\ s.dvsize # 0)
    BY <1>2 DEF Fits
  <2>2. CASE p \in g
    BY <2>1, <2>2 DEF DvIsBest
  <2>3. CASE p = s.dv /\ s.dvsize # 0
    <3>1. Size(s.word, p) = s.dvsize
      BY <1>2, <2>3
    <3> QED
      BY <1>2, <2>1, <3>1
  <2> QED
    BY <2>1, <2>2, <2>3
<1>4. CASE nb <= s.dvsize
  <2>1. FromDvOrTop(s, nb).mem = ChunkToMem(s.dv)
    BY <1>4 DEF FromDvOrTop, FromDv, SplitFor, Given
  <2>2. s.dvsize # 0
    BY <1>1, <1>2, <1>4
  <2>3. s.dv \in Fits(s, t, nb) /\ Size(s.word, s.dv) = s.dvsize
    BY <1>2, <1>4, <2>2 DEF Fits
  <2> QED
    BY <1>3, <2>1, <2>3 DEF IsBest
<1>5. CASE ~(nb <= s.dvsize)
  <2>1. Fits(s, t, nb) = {}
    BY <1>3, <1>5
  <2>2. CASE nb < s.topsize
    <3>1. FromDvOrTop(s, nb).mem = ChunkToMem(s.top)
      BY <1>5, <2>2 DEF FromDvOrTop, FromTop, Given
    <3> QED
      BY <2>1, <3>1 DEF IsBest
  <2>3. CASE ~(nb < s.topsize)
    <3>1. SysAlloc(s, nb) = Refused(s)
      BY PoolMapsNothing DEF Settled
    <3>2. FromDvOrTop(s, nb).mem = NoBlock
      BY <1>5, <2>3, <3>1 DEF FromDvOrTop, Refused
    <3>3. s.topsize <= nb
      BY <1>1, <1>2, <2>3
    <3> QED
      BY <2>1, <3>2, <3>3 DEF IsBest
  <2> QED
    BY <2>2, <2>3
<1> QED
  BY <1>4, <1>5

\* The tries of a heap are sorted.
LEMMA TriesAreSorted ==
  ASSUME NEW s, NEW n, NEW t, NEW g, Heap(s, n, t, g, {}),
         NEW i \in 0..(NTreebins - 1)
  PROVE  Sorted(s.word, s.treebins[i], i, Large(s.word, g, i))
<1>1. /\ g \subseteq t /\ Listed(s, g)
      /\ \A p \in t : Size(s.word, p) \in Nat /\ Size(s.word, p) < MaxSizeT
  BY FreeAre
<1>2. 2^SizeBits \in Nat /\ MaxSizeT = 2^SizeBits - 1
  BY LimitAssumption DEF MaxSizeT
<1>3. Holds(s.word, s.treebins[i], i, Large(s.word, g, i))
  BY <1>1 DEF Listed
<1>4. \A p \in Large(s.word, g, i) : Size(s.word, p) \in SizesOf(i)
  BY <1>1, <1>2 DEF Large, SizesOf
<1> QED
  BY <1>3, <1>4 DEF Sorted

\* tmalloc_large finds the smallest chunk of a bin that is large enough.
LEMMA SeenFitBest ==
  ASSUME NEW s, NEW trie, NEW i, NEW c, Sorted(s.word, trie, i, c),
         NEW nb \in SizesOf(i), nb # 0, NEW p \in c, nb <= Size(s.word, p)
  PROVE  \E v \in FitsSeen(s, trie, nb, i) :
           v \in c /\ Size(s.word, v) <= Size(s.word, p)
<1>1. PICK u \in DOMAIN trie : p \in Range(trie[u])
  BY DEF Sorted, Holds
<1>2. NodeSize(s.word, trie, u) = Size(s.word, p)
  BY <1>1, NodesAreOnPaths
<1>3. SeesOneUpTo(s, trie, nb, i, u)
  BY <1>2, SeenIsBest
<1>4. PICK q \in NodesSeen(s, trie, NodesTowards(s, trie, nb, i), nb, i) :
        /\ q \in DOMAIN trie
        /\ nb <= NodeSize(s.word, trie, q)
        /\ NodeSize(s.word, trie, q) <= NodeSize(s.word, trie, u)
  BY <1>3 DEF SeesOneUpTo
<1> DEFINE v == Member(trie, q)
<1>5. v \in c /\ NodeSize(s.word, trie, q) \in SizesOf(i)
  BY <1>4, NodesAreOnPaths DEF Member
<1>6. ChunkSize(s, v) = NodeSize(s.word, trie, q)
      /\ Size(s.word, v) = NodeSize(s.word, trie, q)
  BY DEF NodeSize, Member, ChunkSize, Size
<1>7. v \in {Member(trie, r) :
               r \in NodesSeen(s, trie, NodesTowards(s, trie, nb, i), nb, i)}
  BY <1>4
<1> HIDE DEF v
<1>8. nb \in Nat /\ ChunkSize(s, v) \in Nat /\ ChunkSize(s, v) < 2^SizeBits
      /\ nb <= ChunkSize(s, v)
  BY <1>4, <1>5, <1>6 DEF SizesOf
<1>9. Remainder(s, v, nb) < Sub(0, nb)
  BY <1>8, RemainderOf
<1>10. v \in FitsSeen(s, trie, nb, i)
  BY <1>7, <1>9 DEF FitsSeen
<1> QED
  BY <1>2, <1>4, <1>5, <1>6, <1>10

\* The leftmost way of a trie has a chunk as small as any in it.
LEMMA LeftmostFitsBest ==
  ASSUME NEW w, NEW trie, NEW i, NEW c, Sorted(w, trie, i, c), NEW p \in c
  PROVE  \E v \in LeftmostIn(trie) : Size(w, v) <= Size(w, p)
<1>1. PICK u \in DOMAIN trie : p \in Range(trie[u])
  BY DEF Sorted, Holds
<1>2. NodeSize(w, trie, u) = Size(w, p) /\ u \in Seq(Bits)
  BY <1>1, NodesAreOnPaths
<1> DEFINE root == <<>>
<1>3. root \in Seq(Bits) /\ Len(root) <= Len(u) /\ SubSeq(u, 1, Len(root)) = root
  BY <1>2
<1> HIDE DEF root
<1>4. PICK q \in LeftmostPath(trie, root) : NodeSize(w, trie, q) <= NodeSize(w, trie, u)
  BY <1>3, LeftmostIsLeast
<1>5. Member(trie, q) \in LeftmostIn(trie)
      /\ Size(w, Member(trie, q)) = NodeSize(w, trie, q)
  BY <1>4 DEF LeftmostIn, NodeSize, Member, root
<1> QED
  BY <1>2, <1>4, <1>5

\* A chunk of a later bin is found if there is one, the smallest of them.
LEMMA LaterFitBest ==
  ASSUME NEW s, NEW n, NEW t, NEW g, Heap(s, n, t, g, {}),
         NEW i \in 0..(NTreebins - 1), NEW p \in g, ~IsSmall(Size(s.word, p)),
         TreeIndex(Size(s.word, p)) > i
  PROVE  \E v \in FitsLater(s, i) : v \in g /\ Size(s.word, v) <= Size(s.word, p)
<1> DEFINE bins == LaterBins(s, i)
           j == Min(bins)
           k == TreeIndex(Size(s.word, p))
           c == Large(s.word, g, j)
<1>1. /\ g \subseteq t /\ Listed(s, g)
      /\ \A q \in t : Size(s.word, q) \in Nat
  BY FreeAre
<1>2. NTreebins \in Nat \ {0} /\ s.treemap \subseteq 0..(NTreebins - 1)
  BY <1>1, BinsAssumption DEF Listed
<1>3. Size(s.word, p) \in Nat /\ k \in 0..(NTreebins - 1) /\ k > i
  BY <1>1, IndexIsABin
<1>4. p \in Large(s.word, g, k)
  BY DEF Large
<1> HIDE DEF k
<1>5. k \in s.treemap
  BY <1>1, <1>3, <1>4 DEF Listed
<1>6. bins \in SUBSET Nat /\ k \in bins
  BY <1>2, <1>3, <1>5 DEF LaterBins
<1>7. j \in bins /\ \A m \in bins : j <= m
  <2>1. \E m \in bins : \A l \in bins : m <= l
    <3> HIDE DEF bins
    <3> QED
      BY <1>6, HasSmallest
  <2> QED
    BY <2>1 DEF Min
<1>8. FitsLater(s, i) = LeftmostIn(s.treebins[j])
  BY <1>6 DEF FitsLater
<1> HIDE DEF j
<1>9. j \in s.treemap /\ j > i /\ j <= k /\ j \in 0..(NTreebins - 1)
  BY <1>2, <1>6, <1>7 DEF LaterBins
<1>10. Sorted(s.word, s.treebins[j], j, c) /\ c # {}
  BY <1>1, <1>9, TriesAreSorted DEF Listed
<1> DEFINE later == LeftmostIn(s.treebins[j])
<1>11. later # {} /\ later \subseteq c
  BY <1>10, LeftmostAreHeld DEF Sorted
<1>12. \A v \in c : /\ v \in g /\ Size(s.word, v) \in Nat
                    /\ TreeIndex(Size(s.word, v)) = j
  BY <1>1 DEF Large
<1>13. CASE j = k
  <2>1. p \in c
    BY <1>4, <1>13
  <2> HIDE DEF c
  <2>2. PICK v \in later : Size(s.word, v) <= Size(s.word, p)
    BY <1>10, <2>1, LeftmostFitsBest
  <2> QED
    BY <1>8, <1>11, <1>12, <2>2
<1>14. CASE j # k
  <2>1. PICK v \in later : TRUE
    BY <1>11
  <2>2. v \in g /\ Size(s.word, v) \in Nat /\ TreeIndex(Size(s.word, v)) = j
    BY <1>11, <1>12, <2>1
  <2>3. Size(s.word, p) <= Size(s.word, v) => k <= j
    BY <1>3, <2>2, IndexIncreases DEF k
  <2>4. Size(s.word, v) <= Size(s.word, p)
    BY <1>3, <1>9, <1>14, <2>2, <2>3
  <2> QED
    BY <1>8, <2>1, <2>2, <2>4
<1> QED
  BY <1>13, <1>14

\* What tmalloc_large answers is the best there is, or dv is.
BestOrDv(s, t, g, nb, mem) ==
  \/ mem # NoBlock /\ IsBest(s, t, nb, mem)
  \/ mem = NoBlock /\ DvIsBest(s, g, nb)

\* Chunks of bins that fit, one of them as small as any that does.
Candidates(s, g, nb, chunks) ==
  /\ \A v \in chunks : v \in g /\ nb <= Size(s.word, v)
  /\ \A p \in g : nb <= Size(s.word, p) =>
       \E v \in chunks : Size(s.word, v) <= Size(s.word, p)

\* The best of the candidates is taken unless dv is better.
LEMMA CandidateIsBest ==
  ASSUME NEW s, NEW n, NEW t, NEW g, Heap(s, n, t, g, {}),
         NEW nb \in Nat, nb # 0, nb < 2^SizeBits, NEW chunks, chunks # {},
         Candidates(s, g, nb, chunks)
  PROVE  BestOrDv(s, t, g, nb, UnlessDvFits(s, BestOf(s, chunks, nb), nb).mem)
<1> DEFINE v == BestOf(s, chunks, nb)
<1>1. /\ g \subseteq t /\ s.dvsize \in Nat
      /\ \A p \in t : Size(s.word, p) \in Nat /\ Size(s.word, p) < MaxSizeT
      /\ \A p \in g : ~Used(s.word, p) /\ p # s.top /\ p # s.dv
      /\ s.dvsize # 0 => s.dv \in t /\ Size(s.word, s.dv) = s.dvsize
      /\ \A p \in t : ~Used(s.word, p) /\ p # s.top =>
           p \in g \/ (p = s.dv /\ s.dvsize # 0)
  BY FreeAre
<1>2. 2^SizeBits \in Nat \ {0} /\ MaxSizeT = 2^SizeBits - 1
  BY LimitAssumption DEF MaxSizeT
<1>3. \A p : ChunkSize(s, p) = Size(s.word, p)
  BY DEF ChunkSize, Size
<1>4. \A p \in chunks : /\ p \in g /\ ChunkSize(s, p) \in Nat
                        /\ nb <= ChunkSize(s, p) /\ ChunkSize(s, p) < 2^SizeBits
  BY <1>1, <1>2, <1>3 DEF Candidates
<1>5. v \in chunks /\ \A p \in chunks : ChunkSize(s, v) <= ChunkSize(s, p)
  BY <1>4, BestIsLeast
<1> HIDE DEF v
<1> DEFINE size == Size(s.word, v)
<1>6. v \in g /\ size \in Nat /\ nb <= size /\ size < 2^SizeBits
  BY <1>3, <1>4, <1>5
<1>7. \A p \in g : nb <= Size(s.word, p) => size <= Size(s.word, p)
  <2> SUFFICES ASSUME NEW p \in g, nb <= Size(s.word, p)
               PROVE  size <= Size(s.word, p)
    OBVIOUS
  <2>1. PICK x \in chunks : Size(s.word, x) <= Size(s.word, p)
    BY DEF Candidates
  <2>2. size <= Size(s.word, x) /\ Size(s.word, x) \in Nat
    BY <1>3, <1>4, <1>5
  <2>3. Size(s.word, p) \in Nat
    BY <1>1
  <2> QED
    BY <1>6, <2>1, <2>2, <2>3
<1>8. Remainder(s, v, nb) = size - nb
  BY <1>3, <1>4, <1>5, RemainderOf
<1>9. s.dvsize < 2^SizeBits
  BY <1>1, <1>2
<1>10. /\ nb <= s.dvsize => Sub(s.dvsize, nb) = s.dvsize - nb
       /\ s.dvsize < nb => Sub(s.dvsize, nb) = s.dvsize - nb + 2^SizeBits
  <2>1. ASSUME NEW m \in Nat \ {0}, NEW x \in Nat, NEW y \in Nat, x < m, y < m
        PROVE  /\ y <= x => (x - y) % m = x - y
               /\ x < y => (x - y) % m = x - y + m
    <3>1. CASE y <= x
      BY <2>1, <3>1
    <3>2. CASE x < y
      BY <2>1, <3>2
    <3> QED
      BY <3>1, <3>2
  <2> QED
    BY <1>1, <1>2, <1>9, <2>1 DEF Sub
<1> HIDE DEF size
<1>11. CASE Remainder(s, v, nb) >= Sub(s.dvsize, nb)
  <2>1. UnlessDvFits(s, v, nb).mem = NoBlock
    BY <1>11 DEF UnlessDvFits, Refused
  <2>2. nb <= s.dvsize /\ s.dvsize <= size
    BY <1>1, <1>2, <1>6, <1>8, <1>10, <1>11
  <2>3. DvIsBest(s, g, nb)
    <3> SUFFICES ASSUME NEW p \in g, nb <= Size(s.word, p)
                 PROVE  s.dvsize <= Size(s.word, p)
      BY <2>2 DEF DvIsBest
    <3>1. size <= Size(s.word, p) /\ Size(s.word, p) \in Nat
      BY <1>1, <1>7
    <3> QED
      BY <1>1, <1>6, <2>2, <3>1
  <2> QED
    BY <2>1, <2>3 DEF BestOrDv, v
<1>12. CASE ~(Remainder(s, v, nb) >= Sub(s.dvsize, nb))
  <2>1. UnlessDvFits(s, v, nb).mem = ChunkToMem(v)
    BY <1>12 DEF UnlessDvFits, SplitLarge, SplitFor, Given
  <2>2. nb <= s.dvsize => size <= s.dvsize
    BY <1>1, <1>2, <1>6, <1>8, <1>10, <1>12
  <2>3. v \in Fits(s, t, nb)
    BY <1>1, <1>6 DEF Fits, size
  <2>4. \A p \in Fits(s, t, nb) : size <= Size(s.word, p)
    <3> SUFFICES ASSUME NEW p \in Fits(s, t, nb)
                 PROVE  size <= Size(s.word, p)
      OBVIOUS
    <3>1. /\ p \in t /\ nb <= Size(s.word, p)
          /\ p \in g \/ (p = s.dv /\ s.dvsize # 0)
      BY <1>1 DEF Fits
    <3>2. CASE p \in g
      BY <1>7, <3>1, <3>2
    <3>3. CASE p = s.dv /\ s.dvsize # 0
      BY <1>1, <2>2, <3>1, <3>3
    <3> QED
      BY <3>1, <3>2, <3>3
  <2>5. IsBest(s, t, nb, ChunkToMem(v))
    BY <2>3, <2>4 DEF IsBest, size
  <2>6. ChunkToMem(v) # NoBlock
    <3>1. v \in Nat
      <4>1. v \in t
        BY <1>1, <1>6
      <4> QED
        BY <4>1, ChunkFacts
    <3> QED
      BY <3>1 DEF ChunkToMem, NoBlock
  <2> QED
    BY <2>1, <2>5, <2>6 DEF BestOrDv, v
<1> QED
  BY <1>11, <1>12

\* tmalloc_large gives the chunk that fits best, or leaves it to dv.
LEMMA TmallocLargeIsBest ==
  ASSUME NEW s, NEW n, NEW t, NEW g, Heap(s, n, t, g, {}),
         NEW nb \in Nat, nb # 0, nb < 2^SizeBits, ~IsSmall(nb)
  PROVE  BestOrDv(s, t, g, nb, TmallocLarge(s, nb).mem)
<1> DEFINE i == TreeIndex(nb)
           here == FitsSeen(s, s.treebins[i], nb, i)
           later == FitsLater(s, i)
           c == Large(s.word, g, i)
<1>1. /\ g \subseteq t /\ Listed(s, g)
      /\ \A p \in t : Size(s.word, p) \in Nat /\ Size(s.word, p) < MaxSizeT
  BY FreeAre
<1>2. TmallocLarge(s, nb) = SplitBest(s, here, later, nb)
  BY DEF TmallocLarge, LargeFromBin
<1>3. i \in 0..(NTreebins - 1) /\ nb \in SizesOf(i) /\ i \in Nat
  BY IndexIsABin DEF SizesOf
<1>4. ASSUME NEW p \in g, nb <= Size(s.word, p)
      PROVE  /\ ~IsSmall(Size(s.word, p)) /\ TreeIndex(Size(s.word, p)) >= i
             /\ TreeIndex(Size(s.word, p)) \in Nat
  <2>1. Size(s.word, p) \in Nat
    BY <1>1
  <2>2. NSmallbins \in Nat
    BY SmallbinsAreNumbered
  <2>3. i <= TreeIndex(Size(s.word, p))
    BY <1>4, <2>1, IndexIncreases
  <2>4. TreeIndex(Size(s.word, p)) \in Nat
    BY <2>1, IndexIsABin
  <2> QED
    BY <1>3, <1>4, <2>1, <2>2, <2>3, <2>4 DEF IsSmall
<1>5. \A v \in here : v \in c /\ nb <= Size(s.word, v)
  <2>1. Holds(s.word, s.treebins[i], i, c)
    BY <1>1, <1>3 DEF Listed
  <2>2. \A v \in c : Size(s.word, v) \in Nat
    BY <1>1 DEF Large
  <2> HIDE DEF c, i
  <2> QED
    BY <2>1, <2>2, SeenAreLargeEnough
<1>6. \A v \in c : /\ v \in g /\ Size(s.word, v) \in Nat
                   /\ TreeIndex(Size(s.word, v)) = i
  BY <1>1 DEF Large
<1>7. ASSUME NEW p \in g, nb <= Size(s.word, p), TreeIndex(Size(s.word, p)) = i
      PROVE  \E v \in here : v \in c /\ Size(s.word, v) <= Size(s.word, p)
  <2>1. p \in c
    BY <1>4, <1>7 DEF Large
  <2>2. Sorted(s.word, s.treebins[i], i, c)
    BY <1>3, TriesAreSorted
  <2> HIDE DEF c, i
  <2> QED
    BY <1>3, <1>7, <2>1, <2>2, SeenFitBest
<1>8. ASSUME NEW p \in g, nb <= Size(s.word, p), TreeIndex(Size(s.word, p)) # i
      PROVE  /\ \E v \in later : v \in g /\ Size(s.word, v) <= Size(s.word, p)
             /\ \A v \in c : Size(s.word, v) <= Size(s.word, p)
  <2>1. TreeIndex(Size(s.word, p)) > i /\ ~IsSmall(Size(s.word, p))
    BY <1>3, <1>4, <1>8
  <2>2. \E v \in later : v \in g /\ Size(s.word, v) <= Size(s.word, p)
    BY <1>3, <2>1, LaterFitBest
  <2>3. ASSUME NEW v \in c
        PROVE  Size(s.word, v) <= Size(s.word, p)
    <3>1. Size(s.word, v) \in Nat /\ TreeIndex(Size(s.word, v)) = i
          /\ Size(s.word, p) \in Nat /\ TreeIndex(Size(s.word, p)) \in Nat
      BY <1>1, <1>4, <1>6, <1>8
    <3>2. Size(s.word, p) <= Size(s.word, v) =>
            TreeIndex(Size(s.word, p)) <= TreeIndex(Size(s.word, v))
      BY <3>1, IndexIncreases
    <3> HIDE DEF i
    <3> QED
      BY <1>3, <2>1, <3>1, <3>2
  <2> QED
    BY <2>2, <2>3
<1>9. \A v \in later : v \in g /\ nb <= Size(s.word, v)
  <2>1. CASE LaterBins(s, i) = {}
    BY <2>1 DEF FitsLater
  <2>2. CASE LaterBins(s, i) # {}
    <3>1. \A v \in g : Size(s.word, v) \in Nat
      BY <1>1
    <3> QED
      BY <1>1, <2>2, <3>1, LaterAreLargeEnough
  <2> QED
    BY <2>1, <2>2
<1> HIDE DEF here, later, c, i
<1>10. CASE here # {}
  <2>1. SplitBest(s, here, later, nb) = UnlessDvFits(s, BestOf(s, here, nb), nb)
    BY <1>10 DEF SplitBest
  <2>2. Candidates(s, g, nb, here)
    <3>1. \A v \in here : v \in g /\ nb <= Size(s.word, v)
      BY <1>5, <1>6
    <3>2. ASSUME NEW p \in g, nb <= Size(s.word, p)
          PROVE  \E v \in here : Size(s.word, v) <= Size(s.word, p)
      <4>1. CASE TreeIndex(Size(s.word, p)) = i
        BY <1>7, <3>2, <4>1
      <4>2. CASE TreeIndex(Size(s.word, p)) # i
        BY <1>5, <1>8, <1>10, <3>2, <4>2
      <4> QED
        BY <4>1, <4>2
    <3> QED
      BY <3>1, <3>2 DEF Candidates
  <2> QED
    BY <1>2, <1>10, <2>1, <2>2, CandidateIsBest
<1>11. CASE here = {} /\ later # {}
  <2>1. SplitBest(s, here, later, nb) = UnlessDvFits(s, BestOf(s, later, nb), nb)
    BY <1>11 DEF SplitBest
  <2>2. Candidates(s, g, nb, later)
    BY <1>7, <1>8, <1>9, <1>11 DEF Candidates
  <2> QED
    BY <1>2, <1>11, <2>1, <2>2, CandidateIsBest
<1>12. CASE here = {} /\ later = {}
  <2>1. TmallocLarge(s, nb).mem = NoBlock
    BY <1>2, <1>12 DEF SplitBest, Refused
  <2>2. DvIsBest(s, g, nb)
    BY <1>7, <1>8, <1>12 DEF DvIsBest
  <2> QED
    BY <2>1, <2>2 DEF BestOrDv
<1> QED
  BY <1>10, <1>11, <1>12

\* A chunk of a bin that is large enough will do for a small request.
LEMMA SmallFits ==
  ASSUME NEW s, NEW n, NEW t, NEW g, Heap(s, n, t, g, {}),
         NEW nb \in Nat, IsSmall(nb), NEW p \in g, nb <= Size(s.word, p)
  PROVE  IsBest(s, t, nb, ChunkToMem(p))
<1>1. p \in t /\ ~Used(s.word, p) /\ p # s.top
  BY FreeAre
<1>2. p \in Fits(s, t, nb)
  BY <1>1 DEF Fits
<1> QED
  BY <1>2 DEF IsBest

\* Where a chunk in a bin is listed.
LEMMA InSomeBin ==
  ASSUME NEW s, NEW n, NEW t, NEW g, Heap(s, n, t, g, {}), NEW p \in g
  PROVE  /\ Size(s.word, p) \in Nat
         /\ IsSmall(Size(s.word, p)) => Size(s.word, p) \in s.smallmap
         /\ ~IsSmall(Size(s.word, p)) => s.treemap # {}
<1> DEFINE size == Size(s.word, p)
<1>1. size \in Nat /\ Listed(s, g)
  BY FreeAre
<1>2. ASSUME IsSmall(size)
      PROVE  size \in s.smallmap
  <2>1. size \in 0..(NSmallbins - 1)
    BY <1>1, <1>2, SmallbinsAreNumbered DEF IsSmall
  <2>2. p \in Small(s.word, g, size)
    BY DEF Small
  <2> HIDE DEF size
  <2> QED
    BY <1>1, <2>1, <2>2 DEF Listed
<1>3. ASSUME ~IsSmall(size)
      PROVE  s.treemap # {}
  <2> DEFINE i == TreeIndex(size)
  <2>1. i \in 0..(NTreebins - 1)
    BY <1>1, IndexIsABin
  <2>2. p \in Large(s.word, g, i)
    BY <1>3 DEF Large
  <2> HIDE DEF i
  <2> QED
    BY <1>1, <2>1, <2>2 DEF Listed
<1> QED
  BY <1>1, <1>2, <1>3

\* malloc, for requests that smallbins serve.
LEMMA MallocSmallIsBest ==
  ASSUME NEW s, NEW n, NEW t, NEW g, Heap(s, n, t, g, {}),
         NEW nb \in Sizes, nb >= MinChunkSize, IsSmall(nb)
  PROVE  IsBest(s, t, nb, MallocSmall(s, nb).mem)
<1>1. /\ nb \in Nat /\ nb # 0 /\ nb < NSmallbins /\ NSmallbins \in Nat
      /\ s \in Spaces(n) /\ Listed(s, g) /\ s.dvsize \in Nat
      /\ s.smallmap \subseteq Nat /\ s.treemap \subseteq Nat /\ g \subseteq t
      /\ \A p \in g : Size(s.word, p) \in Nat
  <2>1. nb \in Nat /\ nb # 0
    BY LimitAssumption DEF Sizes, MaxSizeT, MinChunkSize
  <2>2. s \in Spaces(n)
    BY DEF Heap
  <2>3. s.smallmap \subseteq Nat /\ s.treemap \subseteq Nat
    BY <2>2 DEF Spaces
  <2>4. /\ \A p \in t : Size(s.word, p) \in Nat
        /\ Listed(s, g) /\ s.dvsize \in Nat /\ g \subseteq t
    BY FreeAre
  <2> QED
    BY <2>1, <2>2, <2>3, <2>4, SmallbinsAreNumbered DEF IsSmall
<1>2. ASSUME NEW i \in s.smallmap, nb <= i
      PROVE  IsBest(s, t, nb, ChunkToMem(Head(s.smallbins[i])))
  <2>1. /\ Head(s.smallbins[i]) \in g
        /\ Size(s.word, Head(s.smallbins[i])) = i
    BY <1>1, HeadOfBin
  <2> QED
    BY <1>1, <1>2, <2>1, SmallFits
<1>3. \A i : FromSmallbin(s, i).mem = ChunkToMem(Head(s.smallbins[i]))
  BY DEF FromSmallbin, Given
<1>4. CASE nb \in s.smallmap
  <2>1. MallocSmall(s, nb) = FromSmallbin(s, nb)
    BY <1>4 DEF MallocSmall
  <2>2. nb <= nb
    BY <1>1
  <2> QED
    BY <1>2, <1>3, <1>4, <2>1, <2>2
<1>5. CASE nb \notin s.smallmap /\ nb + 1 \in s.smallmap
  <2>1. MallocSmall(s, nb) = FromSmallbin(s, nb + 1)
    BY <1>5 DEF MallocSmall
  <2>2. nb <= nb + 1
    BY <1>1
  <2> QED
    BY <1>2, <1>3, <1>5, <2>1, <2>2
<1>6. CASE nb \notin s.smallmap /\ nb + 1 \notin s.smallmap /\ nb <= s.dvsize
  <2>1. MallocSmall(s, nb) = FromDvOrTop(s, nb)
    BY <1>6 DEF MallocSmall, FromDvOrTop
  <2>2. DvIsBest(s, g, nb)
    BY <1>6 DEF DvIsBest
  <2> QED
    BY <2>1, <2>2, FromDvOrTopIsBest
<1>7. CASE /\ nb \notin s.smallmap /\ nb + 1 \notin s.smallmap
           /\ ~(nb <= s.dvsize) /\ \E j \in s.smallmap : j > nb
  <2> DEFINE bins == {j \in s.smallmap : j > nb}
             i == Min(bins)
  <2>1. i \in bins
    <3>1. bins \in SUBSET Nat /\ bins # {}
      BY <1>1, <1>7
    <3> HIDE DEF bins
    <3> QED
      BY <3>1, SmallestIsThere
  <2>2. MallocSmall(s, nb) = SplitFirst(s, i, nb)
    BY <1>7 DEF MallocSmall, FromNextSmallbin
  <2> HIDE DEF i
  <2>3. i \in s.smallmap /\ nb <= i
    BY <1>1, <2>1
  <2>4. SplitFirst(s, i, nb).mem = ChunkToMem(Head(s.smallbins[i]))
    BY DEF SplitFirst, SplitSmall, SplitFor, Given
  <2> QED
    BY <1>2, <2>2, <2>3, <2>4
<1>8. CASE /\ nb \notin s.smallmap /\ nb + 1 \notin s.smallmap
           /\ ~(nb <= s.dvsize) /\ ~(\E j \in s.smallmap : j > nb)
           /\ s.treemap # {}
  <2> DEFINE i == Min(s.treemap)
             chunks == LeftmostIn(s.treebins[i])
             c == Large(s.word, g, i)
             v == BestOf(s, chunks, nb)
  <2>1. i \in s.treemap
    BY <1>1, <1>8, SmallestIsThere
  <2>2. MallocSmall(s, nb).mem = ChunkToMem(v)
    BY <1>8 DEF MallocSmall, TmallocSmall, SplitLarge, SplitFor, Given
  <2> HIDE DEF i
  <2>3. i \in 0..(NTreebins - 1)
    BY <1>1, <2>1 DEF Listed
  <2>4. Holds(s.word, s.treebins[i], i, c) /\ c # {}
    BY <1>1, <2>1, <2>3 DEF Listed
  <2>5. chunks # {} /\ chunks \subseteq c
    BY <2>4, LeftmostAreHeld
  <2>6. \A p \in c : /\ p \in g /\ ~IsSmall(Size(s.word, p))
                     /\ ChunkSize(s, p) = Size(s.word, p)
    BY DEF Large, ChunkSize, Size
  <2> HIDE DEF chunks, c
  <2>7. v \in chunks
    <3>1. \A p \in chunks : ChunkSize(s, p) \in Nat
      BY <1>1, <2>5, <2>6
    <3> QED
      BY <1>1, <2>5, <3>1, BestIsThere
  <2> HIDE DEF v
  <2>8. v \in g /\ nb <= Size(s.word, v)
    <3>1. v \in g /\ ~IsSmall(Size(s.word, v)) /\ Size(s.word, v) \in Nat
      BY <1>1, <2>5, <2>6, <2>7
    <3> QED
      BY <1>1, <3>1 DEF IsSmall
  <2> QED
    BY <1>1, <2>2, <2>8, SmallFits
<1>9. CASE /\ nb \notin s.smallmap /\ nb + 1 \notin s.smallmap
           /\ ~(nb <= s.dvsize) /\ ~(\E j \in s.smallmap : j > nb)
           /\ s.treemap = {}
  <2>1. MallocSmall(s, nb) = FromDvOrTop(s, nb)
    BY <1>9 DEF MallocSmall
  <2>2. DvIsBest(s, g, nb)
    <3> SUFFICES ASSUME NEW p \in g, nb <= Size(s.word, p)
                 PROVE  FALSE
      BY DEF DvIsBest
    <3>1. /\ Size(s.word, p) \in Nat
          /\ IsSmall(Size(s.word, p)) => Size(s.word, p) \in s.smallmap
          /\ ~IsSmall(Size(s.word, p)) => s.treemap # {}
      BY InSomeBin
    <3>2. Size(s.word, p) \in s.smallmap
      BY <1>9, <3>1
    <3>3. Size(s.word, p) = nb \/ Size(s.word, p) > nb
      BY <1>1, <3>1
    <3> QED
      BY <1>9, <3>2, <3>3
  <2> QED
    BY <2>1, <2>2, FromDvOrTopIsBest
<1> QED
  BY <1>4, <1>5, <1>6, <1>7, <1>8, <1>9

\* malloc, for requests that tries serve.
LEMMA MallocLargeIsBest ==
  ASSUME NEW s, NEW n, NEW t, NEW g, Heap(s, n, t, g, {}),
         NEW nb \in Sizes, nb >= MinChunkSize, ~IsSmall(nb)
  PROVE  IsBest(s, t, nb, MallocLarge(s, nb).mem)
<1>1. nb \in Nat /\ nb # 0 /\ nb < 2^SizeBits
  BY LimitAssumption DEF Sizes, MaxSizeT, MinChunkSize
<1>2. CASE s.treemap = {}
  <2>1. MallocLarge(s, nb) = FromDvOrTop(s, nb)
    BY <1>2 DEF MallocLarge, OrElse, Refused
  <2>2. DvIsBest(s, g, nb)
    <3> SUFFICES ASSUME NEW p \in g, nb <= Size(s.word, p)
                 PROVE  FALSE
      BY DEF DvIsBest
    <3>1. /\ Size(s.word, p) \in Nat
          /\ ~IsSmall(Size(s.word, p)) => s.treemap # {}
      BY InSomeBin
    <3> QED
      BY <1>1, <1>2, <3>1, SmallbinsAreNumbered DEF IsSmall
  <2> QED
    BY <2>1, <2>2, FromDvOrTopIsBest
<1>3. CASE s.treemap # {}
  <2>1. BestOrDv(s, t, g, nb, TmallocLarge(s, nb).mem)
    BY <1>1, TmallocLargeIsBest
  <2>2. MallocLarge(s, nb) = OrElse(TmallocLarge(s, nb), FromDvOrTop(s, nb))
    BY <1>3 DEF MallocLarge
  <2>3. CASE TmallocLarge(s, nb).mem # NoBlock
    BY <2>1, <2>2, <2>3 DEF OrElse, BestOrDv
  <2>4. CASE TmallocLarge(s, nb).mem = NoBlock
    <3>1. DvIsBest(s, g, nb)
      BY <2>1, <2>4 DEF BestOrDv
    <3>2. MallocLarge(s, nb) = FromDvOrTop(s, nb)
      BY <2>2, <2>4 DEF OrElse
    <3> QED
      BY <3>1, <3>2, FromDvOrTopIsBest
  <2> QED
    BY <2>3, <2>4
<1> QED
  BY <1>2, <1>3

\* malloc, for a request of any size.
LEMMA MallocIsBest ==
  ASSUME NEW s, NEW n, NEW t, NEW g, Heap(s, n, t, g, {}), NEW words \in Nat
  PROVE  IsBest(s, t, SizeFor(words), MspaceMalloc(s, words).mem)
<1> DEFINE nb == RequestToSize(words)
<1>1. /\ nb \in Nat /\ nb >= MinChunkSize
      /\ words >= 3 => nb = PadRequest(words) /\ nb <= words + 2
      /\ words >= 3 => nb = (words + 2) - ((words + 2) % 2)
      /\ words < 3 => nb = 4
  BY RequestsArePadded
     DEF RequestToSize, MinChunkSize, Overhead, PadRequest, Alignment
<1>2. NSmallbins \in Nat /\ NSmallbins >= 8 /\ NSmallbins <= MaxRequest
      /\ NSmallbins % 2 = 0 /\ 2^SizeBits \in Nat /\ MaxRequest = 2^SizeBits - 16
  <2>1. TreebinShift \in Nat /\ SizeBits \in Nat /\ TreebinShift <= SizeBits
        /\ TreebinShift >= 3
    BY SmallbinsAreNumbered, BinsAssumption, LimitAssumption
  <2>2. TreebinShift - 1 \in 0..SizeBits /\ (TreebinShift - 1) + 1 = TreebinShift
    BY <2>1
  <2> DEFINE half == 2^(TreebinShift - 1)
  <2>3. half \in Nat /\ NSmallbins = 2 * half
    BY <2>2, PowersAssumption DEF NSmallbins
  <2> HIDE DEF half
  <2>4. NSmallbins % 2 = 0
    BY <2>3
  <2> QED
    BY <2>4, SmallbinsAreNumbered, PoolAssumption, LimitAssumption
       DEF MaxRequest, MinChunkSize
<1> HIDE DEF nb
<1>3. CASE words <= MaxSmallRequest
  <2>1. nb < NSmallbins /\ words < MaxRequest
    BY <1>1, <1>2, <1>3 DEF MaxSmallRequest, Alignment, Overhead
  <2>2. nb \in Sizes /\ IsSmall(nb)
    BY <1>1, <1>2, <2>1 DEF Sizes, MaxSizeT, IsSmall
  <2>3. MspaceMalloc(s, words) = MallocSmall(s, nb)
    BY <1>3 DEF MspaceMalloc, nb
  <2>4. ~(words >= MaxRequest)
    BY <1>2, <2>1
  <2>5. SizeFor(words) = nb
    BY <2>4 DEF SizeFor, nb
  <2> QED
    BY <1>1, <2>2, <2>3, <2>5, MallocSmallIsBest
<1>4. CASE ~(words <= MaxSmallRequest) /\ words >= MaxRequest
  <2>1. MspaceMalloc(s, words) = FromDvOrTop(s, MaxSizeT) /\ SizeFor(words) = MaxSizeT
    BY <1>4 DEF MspaceMalloc, SizeFor
  <2>2. MaxSizeT \in Sizes /\ MaxSizeT >= MinChunkSize /\ MaxSizeT \in Nat
    BY <1>2 DEF Sizes, MaxSizeT, MinChunkSize
  <2>3. DvIsBest(s, g, MaxSizeT)
    <3> SUFFICES ASSUME NEW p \in g, MaxSizeT <= Size(s.word, p)
                 PROVE  FALSE
      BY DEF DvIsBest
    <3>1. Size(s.word, p) \in Nat /\ Size(s.word, p) < MaxSizeT
      BY FreeAre
    <3> QED
      BY <2>2, <3>1
  <2> QED
    BY <2>1, <2>2, <2>3, FromDvOrTopIsBest
<1>5. CASE ~(words <= MaxSmallRequest) /\ ~(words >= MaxRequest)
  <2>1. words >= 3 /\ words + 2 >= NSmallbins /\ words + 2 < 2^SizeBits
    BY <1>2, <1>5 DEF MaxSmallRequest, Alignment, Overhead
  <2>2. nb \in Sizes
    BY <1>1, <1>2, <2>1 DEF Sizes, MaxSizeT
  <2>3. ~IsSmall(nb)
    <3>1. nb = (words + 2) - ((words + 2) % 2) /\ nb \in Nat
      BY <1>1, <2>1
    <3>2. nb >= NSmallbins
      BY <1>2, <2>1, <3>1
    <3> QED
      BY <1>2, <3>1, <3>2 DEF IsSmall
  <2>4. MspaceMalloc(s, words) = MallocLarge(s, nb)
    BY <1>1, <1>5, <2>1 DEF MspaceMalloc
  <2>5. SizeFor(words) = nb
    BY <1>5 DEF SizeFor, nb
  <2> QED
    BY <1>1, <2>2, <2>3, <2>4, <2>5, MallocLargeIsBest
<1> QED
  BY <1>3, <1>4, <1>5

\* The heap of a pool answers every request so.
LEMMA PoolsFindFits == PoolInv => FitIsFound
<1> SUFFICES ASSUME PoolInv, NEW words \in Asks
             PROVE  LET mem == MspaceMalloc(space, words).mem
                    IN  FitsBest(SizeFor(words),
                                 {p \in Free(space) :
                                    ChunkSize(space, p) >= SizeFor(words)},
                                 mem, MemToChunk(mem))
  BY DEF FitIsFound
<1> DEFINE mem == MspaceMalloc(space, words).mem
           nb == SizeFor(words)
           fits == {p \in Free(space) : ChunkSize(space, p) >= nb}
<1>1. words \in Nat
  BY PoolAssumption
<1>2. PICK n, t : PoolIs(space, blocks, n, t)
  BY DEF PoolInv
<1>3. Settled(space, n, t)
  BY <1>2 DEF PoolIs
<1>4. PICK g : Heap(space, n, t, g, {})
  BY <1>3 DEF Settled
<1>5. IsBest(space, t, nb, mem)
  BY <1>1, <1>4, MallocIsBest
<1>6. fits = Fits(space, t, nb)
  <2>1. Free(space) = {p \in t : ~Used(space.word, p) /\ p # space.top}
    BY <1>3, SettledIsWellFormed
  <2>2. nb \in Int
    <3>1. RequestToSize(words) \in Nat
      BY <1>1, RequestsArePadded
    <3> QED
      BY <3>1, LimitAssumption DEF SizeFor, MaxSizeT
  <2>3. \A p \in t : /\ Size(space.word, p) \in Nat
                     /\ ChunkSize(space, p) = Size(space.word, p)
    BY <1>4, FreeAre DEF ChunkSize, Size
  <2> HIDE DEF nb
  <2>4. \A p \in t : ChunkSize(space, p) >= nb <=> nb <= Size(space.word, p)
    BY <2>2, <2>3
  <2> QED
    BY <2>1, <2>4 DEF Fits
<1>7. \A p \in t : p \in Nat
  BY <1>4, ChunkFacts
<1>8. space.top \in Nat
  BY <1>4, TopFacts
<1> HIDE DEF mem, nb, fits
<1>9. CASE mem = NoBlock /\ Fits(space, t, nb) = {} /\ space.topsize <= nb
  BY <1>6, <1>9 DEF FitsBest, mem, nb, fits
<1>10. CASE mem = ChunkToMem(space.top) /\ Fits(space, t, nb) = {}
  <2>1. MemToChunk(mem) = space.top /\ mem # NoBlock
    BY <1>8, <1>10 DEF ChunkToMem, MemToChunk, NoBlock
  <2> QED
    BY <1>6, <1>10, <2>1 DEF FitsBest, mem, nb, fits
<1>11. CASE \E p \in Fits(space, t, nb) :
              /\ mem = ChunkToMem(p)
              /\ ~IsSmall(nb) => \A r \in Fits(space, t, nb) :
                   Size(space.word, p) <= Size(space.word, r)
  <2>1. PICK p \in Fits(space, t, nb) :
          /\ mem = ChunkToMem(p)
          /\ ~IsSmall(nb) => \A r \in Fits(space, t, nb) :
               Size(space.word, p) <= Size(space.word, r)
    BY <1>11
  <2>2. p \in Nat /\ p # space.top
    BY <1>7 DEF Fits
  <2>3. MemToChunk(mem) = p /\ mem # NoBlock
    BY <2>1, <2>2 DEF ChunkToMem, MemToChunk, NoBlock
  <2>4. \A q : ChunkSize(space, q) = Size(space.word, q)
    BY DEF ChunkSize, Size
  <2>5. FitsBest(nb, fits, mem, MemToChunk(mem))
    BY <1>6, <2>1, <2>2, <2>3, <2>4 DEF FitsBest
  <2> QED
    BY <2>5 DEF mem, nb, fits
<1> QED
  BY <1>5, <1>9, <1>10, <1>11 DEF IsBest

\* mspace_malloc answers NULL, which ends an evaluation with the memory quota,
\* only when no free chunk and not top is large enough, and a large request
\* with the free chunk that fits best.
THEOREM FitStaysFound == PoolSpec => []FitIsFound
<1>1. PoolInv => FitIsFound
  BY PoolsFindFits
<1> QED
  BY <1>1, PoolInvHolds, PTL

------------------------------------------------------------------------------
(* Engines and their pools.                                                 *)


\* round_capacity, for every page size: whole pages, none too few and less
\* than one too many.
LEMMA RoundCapacityRounds ==
  ASSUME NEW c \in Nat
  PROVE  /\ RoundCapacity(c) \in Nat
         /\ RoundCapacity(c) % PageSize = 0
         /\ c \in (RoundCapacity(c) - PageSize + 1)..RoundCapacity(c)
<1> DEFINE n == PageSize
           q == c \div n
           m == c % n
<1>1. n \in Nat /\ n > 0 BY ObjectsAssumption
<1>2. q \in Nat /\ m \in 0..(n - 1) /\ c = n * q + m BY <1>1
<1>3. \A k \in Nat : k * n \in Nat /\ (k * n) % n = 0 BY <1>1
<1>4. CASE m = 0
  BY <1>1, <1>2, <1>4 DEF RoundCapacity
<1>5. CASE m # 0
  <2>1. RoundCapacity(c) = q * n + n BY <1>5 DEF RoundCapacity
  <2>2. q * n + n = (q + 1) * n /\ q + 1 \in Nat BY <1>1, <1>2
  <2>3. RoundCapacity(c) \in Nat /\ RoundCapacity(c) % n = 0
    BY <1>3, <2>1, <2>2
  <2>4. q * n = n * q BY <1>1, <1>2
  <2> HIDE DEF q, m, n
  <2>5. c \in (RoundCapacity(c) - n + 1)..RoundCapacity(c)
    BY <1>1, <1>2, <1>5, <2>1, <2>4
  <2> QED BY <2>3, <2>5 DEF n
<1> QED BY <1>4, <1>5

\* A new pool has the type of one.
LEMMA NewPoolType ==
  ASSUME NEW c \in Nat, NEW e \in States
  PROVE  NewPool(c, e) \in PoolTypes /\ NewPool(c, e).engine = e
  BY RoundCapacityRounds DEF NewPool, PoolTypes

\* A pool that is unmapped has the type of one.
LEMMA UnmappedType ==
  Unmapped \in PoolTypes /\ Unmapped.engine = "unmapped"
  BY DEF Unmapped, PoolTypes

\* What an abandoned call leaves is an outcome.
LEMMA LeftType == Left \in Outcomes
  BY ObjectsAssumption DEF Left, Outcomes

\* ext_mruby_engine_free touches the pool of that object only, and finds an
\* engine there as long as initialize is not called again.
LEMMA FreeEngineStep ==
  ASSUME IInv, NEW o \in Engines, FreeEngine(o)
  PROVE  /\ pool' \in [Pools -> PoolTypes] /\ outcome' \in Outcomes
         /\ \A p \in Pools : p # ptr[o] => pool'[p] = pool[p]
         /\ ptr[o] = Null => pool' = pool
         /\ ~again => outcome' = "ok"
<1>1. ptr[o] \in Pools \cup {Null} BY DEF IInv, TypeOK
<1>2. CASE ptr[o] = Null /\ outcome' = "ok" /\ UNCHANGED pool
  BY <1>2 DEF IInv, TypeOK, Outcomes
<1>3. CASE /\ ptr[o] # Null /\ HasEngine(ptr[o])
           /\ pool' = Destroyed(ptr[o]) /\ outcome' = "ok"
  BY <1>1, <1>3, UnmappedType DEF Destroyed, IInv, TypeOK, Outcomes
<1>4. CASE /\ ptr[o] # Null /\ ~HasEngine(ptr[o])
           /\ outcome' = "freed" /\ UNCHANGED pool
  BY <1>4 DEF IInv, TypeOK, Outcomes, EnginesAreOwned
<1> QED BY <1>2, <1>3, <1>4 DEF FreeEngine

\* An operation that leaves the objects alone, and in every pool the engine.
LEMMA ObjectsStay ==
  ASSUME IInv, UNCHANGED <<ptr, converting, again>>,
         live \cap Engines \subseteq live',
         live' \subseteq Engines \cup Sequences,
         seq' \in [Sequences -> BOOLEAN], outcome' \in Outcomes,
         pool' \in [Pools -> PoolTypes],
         \A p \in Pools : HasEngine(p) => HasEngine(p)'
  PROVE  IInv'
<1>1. TypeOK' BY DEF IInv, TypeOK
<1>2. EnginesAreOwned' BY DEF IInv, TypeOK, EnginesAreOwned, HasEngine
<1>3. ConversionsAreLive' BY DEF IInv, ConversionsAreLive
<1> QED BY <1>1, <1>2, <1>3 DEF IInv

\* Raising keeps IInv.
LEMMA RaiseStep ==
  ASSUME IInv, NEW what \in Outcomes, Raise(what)
  PROVE  IInv'
<1>1. \A p \in Pools : HasEngine(p) => HasEngine(p)' BY DEF Raise, HasEngine
<1> QED BY <1>1, ObjectsStay DEF Raise, IInv, TypeOK

\* A call leaves an engine where there was one, and only reads freed memory
\* of an object on which initialize was called again.
LEMMA UseEngineStep ==
  ASSUME IInv, NEW o \in Engines, UseEngine(o)
  PROVE  IInv' /\ (~again => outcome' # "freed")
<1>1. ptr[o] \in Pools /\ (~again => HasEngine(ptr[o]))
  BY DEF UseEngine, IInv, TypeOK, EnginesAreOwned
<1>2. CASE ~HasEngine(ptr[o]) /\ Raise("freed")
  BY <1>1, <1>2, RaiseStep DEF Outcomes
<1>3. CASE pool[ptr[o]].engine = "spent" /\ Raise("EngineQuotaAlreadyReached")
  BY <1>3, RaiseStep DEF Outcomes, Raise
<1>4. CASE Raise("ok") \/ Raise("RubyError") \/ Raise("EngineError")
  BY <1>4, RaiseStep DEF Outcomes, Raise
<1>5. CASE /\ Fit(o) /\ pool' = [pool EXCEPT ![ptr[o]].engine = "spent"]
           /\ outcome' \in {"EngineError", Left}
           /\ UNCHANGED <<live, ptr, seq, converting, again>>
  <2>1. outcome' \in Outcomes /\ outcome' # "freed"
    BY <1>5, LeftType DEF Outcomes, Left
  <2>2. pool' \in [Pools -> PoolTypes]
    BY <1>1, <1>5 DEF IInv, TypeOK, PoolTypes, States
  <2>3. \A p \in Pools : HasEngine(p) => HasEngine(p)'
    BY <1>1, <1>5 DEF HasEngine, IInv, TypeOK, PoolTypes
  <2>4. seq' \in [Sequences -> BOOLEAN]
        /\ live' = live /\ live \subseteq Engines \cup Sequences
    BY <1>5 DEF IInv, TypeOK
  <2> QED BY <1>5, <2>1, <2>2, <2>3, <2>4, ObjectsStay
<1> QED BY <1>2, <1>3, <1>4, <1>5 DEF UseEngine

\* IInv holds at first.
LEMMA InitInvariant == Init => IInv
<1> SUFFICES ASSUME Init PROVE IInv OBVIOUS
<1>1. seq \in [Sequences -> BOOLEAN] /\ again \in BOOLEAN
  BY Zenon DEF Init
<1>2. ptr \in [Engines -> Pools \cup {Null}] /\ \A o \in Engines : ptr[o] = Null
  BY DEF Init
<1>3. converting \in [Engines -> 0..MaxNesting]
      /\ \A o \in Engines : converting[o] = 0
  BY ObjectsAssumption DEF Init
<1>4. pool \in [Pools -> PoolTypes] /\ live = {} /\ outcome \in Outcomes
  BY UnmappedType DEF Init, Outcomes
<1> QED
  BY <1>1, <1>2, <1>3, <1>4
  DEF IInv, TypeOK, EnginesAreOwned, ConversionsAreLive

\* What every initialize that ends has in common.
LEMMA ConvertedType ==
  ASSUME IInv, NEW o \in Engines, Converted(o)
  PROVE  /\ converting' \in [Engines -> 0..MaxNesting]
         /\ \A q \in Engines \ {o} : converting'[q] = converting[q]
         /\ o \in live /\ live' = live /\ seq' = seq /\ again' = again
         /\ converting'[o] + 1 = converting[o]
         /\ ~again => converting'[o] = 0 /\ ptr[o] = Null
<1>1. converting[o] \in 1..MaxNesting /\ MaxNesting \in Nat
  BY ObjectsAssumption DEF Converted, IInv, TypeOK
<1>2. converting' = [converting EXCEPT ![o] = converting[o] - 1]
  BY DEF Converted
<1>3. converting'[o] = converting[o] - 1 /\ converting'[o] \in 0..MaxNesting
  BY <1>1, <1>2 DEF IInv, TypeOK
<1>4. /\ converting' \in [Engines -> 0..MaxNesting]
      /\ \A q \in Engines \ {o} : converting'[q] = converting[q]
  BY <1>2, <1>3 DEF IInv, TypeOK
<1>5. o \in live /\ (~again => converting[o] = 1)
  BY <1>1 DEF IInv, ConversionsAreLive
<1>6. ~again => ptr[o] = Null BY <1>1 DEF IInv, EnginesAreOwned
<1> QED BY <1>1, <1>3, <1>4, <1>5, <1>6 DEF Converted

\* initialize is refused: no engine is lost and none appears.
LEMMA RefusedStep ==
  ASSUME IInv, NEW o \in Engines, Converted(o), UNCHANGED <<ptr, pool>>,
         outcome' \in Outcomes
  PROVE  IInv'
<1>1. TypeOK' BY ConvertedType DEF IInv, TypeOK
<1>2. EnginesAreOwned' BY ConvertedType DEF IInv, EnginesAreOwned, HasEngine
<1>3. ConversionsAreLive'
  BY ConvertedType DEF IInv, TypeOK, ConversionsAreLive
<1> QED BY <1>1, <1>2, <1>3 DEF IInv

\* initialize on an engine that is there keeps IInv.
LEMMA InitializeFreesStep ==
  ASSUME IInv, NEW o \in Engines, InitializeFrees(o)
  PROVE  IInv' /\ (~again' => outcome' # "freed")
<1>1. again' \in BOOLEAN BY Zenon DEF InitializeFrees, IInv, TypeOK
<1>2. converting[o] \in 0..MaxNesting /\ MaxNesting \in Nat
      /\ converting[o] < MaxNesting
  BY ObjectsAssumption DEF InitializeFrees, IInv, TypeOK
<1>3. converting' = [converting EXCEPT ![o] = converting[o] + 1]
  BY DEF InitializeFrees
<1>4. converting' \in [Engines -> 0..MaxNesting]
      /\ converting'[o] = converting[o] + 1
      /\ \A q \in Engines \ {o} : converting'[q] = converting[q]
  BY <1>2, <1>3 DEF IInv, TypeOK
<1>5. FreeEngine(o) /\ o \in live /\ live' = live /\ ptr' = ptr /\ seq' = seq
  BY DEF InitializeFrees
<1>6. ~again' => ~again /\ ptr[o] = Null /\ ~(converting[o] > 0)
  BY Zenon DEF InitializeFrees
<1>7. TypeOK' BY <1>1, <1>4, <1>5, FreeEngineStep DEF IInv, TypeOK
<1>8. EnginesAreOwned'
  BY <1>4, <1>5, <1>6, FreeEngineStep DEF IInv, EnginesAreOwned, HasEngine
<1>9. ConversionsAreLive'
  BY <1>2, <1>4, <1>5, <1>6 DEF IInv, ConversionsAreLive
<1> QED BY <1>5, <1>6, <1>7, <1>8, <1>9, FreeEngineStep DEF IInv

\* Making an engine keeps IInv.
LEMMA MakeEngineStep ==
  ASSUME IInv, NEW o \in Engines, MakeEngine(o)
  PROVE  IInv'
<1>1. PICK c \in Requests, p \in Pools :
        /\ pool[p] = Unmapped
        /\ \/ /\ pool' = [pool EXCEPT ![p] = NewPool(c, "fit")]
              /\ ptr' = [ptr EXCEPT ![o] = p] /\ outcome' = "ok"
           \/ /\ pool' = [pool EXCEPT ![p] = NewPool(c, "bare")]
              /\ ptr' = ptr /\ outcome' = Left
  BY DEF MakeEngine, NotYet
<1>2. Converted(o) BY DEF MakeEngine
<1>3. c \in Nat /\ Null \notin Pools BY ObjectsAssumption
<1>4. \A e \in {"fit", "bare"} :
        NewPool(c, e) \in PoolTypes /\ NewPool(c, e).engine = e
  BY <1>3, NewPoolType DEF States
<1>5. ~again => \A q \in Engines : ptr[q] # p
  BY <1>1, <1>3, UnmappedType DEF IInv, EnginesAreOwned, HasEngine
<1>6. CASE /\ pool' = [pool EXCEPT ![p] = NewPool(c, "fit")]
           /\ ptr' = [ptr EXCEPT ![o] = p] /\ outcome' = "ok"
  <2>1. pool' \in [Pools -> PoolTypes] /\ pool'[p].engine = "fit"
        /\ \A q \in Pools \ {p} : pool'[q] = pool[q]
    BY <1>4, <1>6 DEF IInv, TypeOK
  <2>2. ptr' \in [Engines -> Pools \cup {Null}] /\ ptr'[o] = p
        /\ \A q \in Engines \ {o} : ptr'[q] = ptr[q]
    BY <1>6 DEF IInv, TypeOK
  <2>3. TypeOK'
    BY <1>2, <1>6, <2>1, <2>2, ConvertedType DEF IInv, TypeOK, Outcomes
  <2>4. EnginesAreOwned'
    BY <1>2, <1>5, <2>1, <2>2, ConvertedType
    DEF IInv, TypeOK, EnginesAreOwned, HasEngine
  <2>5. ConversionsAreLive'
    BY <1>2, ConvertedType DEF IInv, TypeOK, ConversionsAreLive
  <2> QED BY <2>3, <2>4, <2>5 DEF IInv
<1>7. CASE /\ pool' = [pool EXCEPT ![p] = NewPool(c, "bare")]
           /\ ptr' = ptr /\ outcome' = Left
  <2>1. pool' \in [Pools -> PoolTypes]
        /\ \A q \in Pools \ {p} : pool'[q] = pool[q]
    BY <1>4, <1>7 DEF IInv, TypeOK
  <2>2. TypeOK' BY <1>2, <1>7, <2>1, ConvertedType, LeftType DEF IInv, TypeOK
  <2>3. EnginesAreOwned'
    BY <1>2, <1>5, <1>7, <2>1, ConvertedType
    DEF IInv, TypeOK, EnginesAreOwned, HasEngine
  <2>4. ConversionsAreLive'
    BY <1>2, ConvertedType DEF IInv, TypeOK, ConversionsAreLive
  <2> QED BY <2>2, <2>3, <2>4 DEF IInv
<1> QED BY <1>1, <1>6, <1>7

\* Collecting an engine keeps IInv, and frees nothing that is used again.
LEMMA CollectStep ==
  ASSUME IInv, NEW o \in Engines, Collect(o)
  PROVE  IInv' /\ (~again' => outcome' # "freed")
<1>1. FreeEngine(o) /\ live' = live \ {o} /\ converting[o] = 0
      /\ ptr' = [ptr EXCEPT ![o] = Null]
      /\ UNCHANGED <<seq, converting, again>>
  BY DEF Collect
<1>2. TypeOK' BY <1>1, FreeEngineStep DEF IInv, TypeOK
<1>3. EnginesAreOwned'
  BY <1>1, FreeEngineStep DEF IInv, TypeOK, EnginesAreOwned, HasEngine
<1>4. ConversionsAreLive' BY <1>1 DEF IInv, TypeOK, ConversionsAreLive
<1> QED BY <1>1, <1>2, <1>3, <1>4, FreeEngineStep DEF IInv

\* The sequences keep to themselves, but for the pools they lose.
LEMMA SequenceStepInvariant ==
  ASSUME IInv, NEW s \in Sequences, SequenceStep(s)
  PROVE  IInv' /\ outcome' # "freed"
<1>1. CASE SeqAllocate(s)
  BY <1>1, ObjectsStay DEF SeqAllocate, IInv, TypeOK, Outcomes, HasEngine
<1>2. CASE SeqRefused(s)
  BY <1>2, RaiseStep DEF SeqRefused, Outcomes, Raise
<1>3. CASE SeqCompile(s)
  <2>1. seq' \in [Sequences -> BOOLEAN]
    BY <1>3, Zenon DEF SeqCompile, IInv, TypeOK
  <2> QED
    BY <1>3, <2>1, ObjectsStay
    DEF SeqCompile, IInv, TypeOK, Outcomes, HasEngine
<1>4. CASE SeqAbandon(s)
  <2>1. PICK p \in Pools, e \in States :
          /\ pool[p] = Unmapped
          /\ pool' = [pool EXCEPT ![p] = NewPool(CompileCapacity, e)]
    BY <1>4 DEF SeqAbandon, States
  <2>2. NewPool(CompileCapacity, e) \in PoolTypes
    BY NewPoolType, ObjectsAssumption
  <2>3. pool' \in [Pools -> PoolTypes] BY <2>1, <2>2 DEF IInv, TypeOK
  <2>4. \A q \in Pools : HasEngine(q) => HasEngine(q)'
    BY <2>1, UnmappedType DEF HasEngine, IInv, TypeOK
  <2>5. outcome' \in Outcomes /\ outcome' # "freed"
    BY <1>4, LeftType DEF SeqAbandon, Outcomes, Left
  <2>6. seq' \in [Sequences -> BOOLEAN]
        /\ live' = live /\ live \subseteq Engines \cup Sequences
        /\ UNCHANGED <<ptr, converting, again>>
    BY <1>4 DEF SeqAbandon, IInv, TypeOK
  <2> QED BY <2>3, <2>4, <2>5, <2>6, ObjectsStay
<1>5. CASE SeqRead(s)
  <2>1. Raise("ok") \/ Raise("null") BY <1>5 DEF SeqRead
  <2> QED BY <2>1, RaiseStep DEF Outcomes, Raise
<1>6. CASE SeqCollect(s)
  <2>1. seq' \in [Sequences -> BOOLEAN]
    BY <1>6, Zenon DEF SeqCollect, IInv, TypeOK
  <2>2. TypeOK' BY <1>6, <2>1 DEF SeqCollect, IInv, TypeOK, Outcomes
  <2>3. \A o \in Engines : o \in live => o \in live'
    BY <1>6, ObjectsAssumption DEF SeqCollect
  <2>4. EnginesAreOwned'
    BY <1>6, <2>3 DEF SeqCollect, IInv, EnginesAreOwned, HasEngine
  <2>5. ConversionsAreLive'
    BY <1>6, <2>3 DEF SeqCollect, IInv, ConversionsAreLive
  <2> QED BY <1>6, <2>2, <2>4, <2>5 DEF IInv, SeqCollect
<1> QED BY <1>1, <1>2, <1>3, <1>4, <1>5, <1>6 DEF SequenceStep

\* One step per method of MRubyEngine.
LEMMA EngineStepInvariant ==
  ASSUME IInv, NEW o \in Engines, EngineStep(o)
  PROVE  IInv' /\ (~again' => outcome' # "freed")
<1>1. CASE Allocate(o)
  <2>1. live' \subseteq Engines \cup Sequences /\ outcome' = "ok"
        /\ UNCHANGED <<ptr, seq, pool, converting, again>>
        /\ live \cap Engines \subseteq live'
    BY <1>1 DEF Allocate, IInv, TypeOK
  <2> QED BY <2>1, ObjectsStay DEF IInv, TypeOK, Outcomes, HasEngine
<1>2. CASE InitializeFrees(o) BY <1>2, InitializeFreesStep
<1>3. CASE InitializeRefused(o) \/ PoolRefused(o)
  <2>1. Converted(o) /\ UNCHANGED <<ptr, pool>>
        /\ outcome' \in {"RubyError", "EngineInternalError"}
    BY <1>3 DEF InitializeRefused, PoolRefused
  <2> QED BY <2>1, RefusedStep DEF Outcomes
<1>4. CASE MakeEngine(o)
  <2>1. outcome' # "freed" BY <1>4 DEF MakeEngine, Left
  <2> QED BY <1>4, <2>1, MakeEngineStep
<1>5. CASE Call(o)
  <2>1. CASE Raise("RubyError") BY <2>1, RaiseStep DEF Outcomes, Raise
  <2>2. CASE UseEngine(o)
    <3>1. again' = again BY <2>2 DEF UseEngine, Raise
    <3> QED BY <2>2, <3>1, UseEngineStep
  <2> QED BY <1>5, <2>1, <2>2 DEF Call, CheckInitialized
<1>6. CASE Stat(o)
  <2>1. CASE Raise("RubyError") \/ Raise("ok")
    BY <2>1, RaiseStep DEF Outcomes, Raise
  <2>2. CASE ptr[o] # Null /\ ~HasEngine(ptr[o]) /\ Raise("freed")
    BY <2>2, RaiseStep DEF Outcomes, Raise, IInv, EnginesAreOwned
  <2> QED BY <1>6, <2>1, <2>2 DEF Stat, CheckInitialized
<1>7. CASE Collect(o) BY <1>7, CollectStep
<1> QED BY <1>1, <1>2, <1>3, <1>4, <1>5, <1>6, <1>7 DEF EngineStep

\* Loading instructions keeps IInv, and uses nothing that is freed.
LEMMA LoadInvariant ==
  ASSUME IInv, NEW o \in Engines, NEW s \in Sequences, Load(o, s)
  PROVE  IInv' /\ (~again' => outcome' # "freed")
<1>1. CASE Raise("null") BY <1>1, RaiseStep DEF Outcomes, Raise
<1>2. CASE UseEngine(o)
  <2>1. again' = again BY <1>2 DEF UseEngine, Raise
  <2> QED BY <1>2, <2>1, UseEngineStep
<1> QED BY <1>1, <1>2 DEF Load

\* Every step keeps the invariant.
LEMMA InvariantStep ==
  IInv /\ NoUseAfterFree /\ [Next]_vars => IInv' /\ NoUseAfterFree'
<1> SUFFICES ASSUME IInv, NoUseAfterFree, [Next]_vars
             PROVE  IInv' /\ NoUseAfterFree'
  OBVIOUS
<1>1. ASSUME NEW o \in Engines, EngineStep(o) PROVE IInv' /\ NoUseAfterFree'
  BY <1>1, EngineStepInvariant DEF NoUseAfterFree
<1>2. ASSUME NEW s \in Sequences, SequenceStep(s)
      PROVE  IInv' /\ NoUseAfterFree'
  BY <1>2, SequenceStepInvariant DEF NoUseAfterFree
<1>3. ASSUME NEW o \in Engines, NEW s \in Sequences, Load(o, s)
      PROVE  IInv' /\ NoUseAfterFree'
  BY <1>3, LoadInvariant DEF NoUseAfterFree
<1>4. CASE UNCHANGED vars
  <2>1. TypeOK' BY <1>4 DEF vars, IInv, TypeOK
  <2>2. EnginesAreOwned' BY <1>4 DEF vars, IInv, EnginesAreOwned, HasEngine
  <2>3. ConversionsAreLive' BY <1>4 DEF vars, IInv, ConversionsAreLive
  <2>4. NoUseAfterFree' BY <1>4 DEF vars, NoUseAfterFree
  <2> QED BY <2>1, <2>2, <2>3, <2>4 DEF IInv
<1> QED BY <1>1, <1>2, <1>3, <1>4 DEF Next, Rest

\* Every DATA_PTR is NULL or the only one to its engine, whatever is refused,
\* cut short, collected or mapped anew, while initialize is called once.
THEOREM Invariance == Spec => [](IInv /\ NoUseAfterFree)
<1>1. Init => NoUseAfterFree BY DEF Init, NoUseAfterFree
<1>2. IInv /\ NoUseAfterFree /\ [][Next]_vars => [](IInv /\ NoUseAfterFree)
  BY InvariantStep, PTL
<1> QED BY <1>1, <1>2, InitInvariant, PTL DEF Spec

\* No method and no sweep reads a destroyed engine, with any number of
\* objects and any reuse of addresses, unless initialize is called again.
THEOREM MemorySafety == Spec => []NoUseAfterFree
BY Invariance, PTL

\* The pools that a step may change have whole pages within the limits.
LEMMA NewPoolFits ==
  ASSUME NEW c \in Nat, ValidCapacity(c), NEW e \in States
  PROVE  LET n == NewPool(c, e) IN
         /\ n.capacity % PageSize = 0
         /\ n.capacity \in CapacityMin..CapacityMax
         /\ n.asked \in (n.capacity - PageSize + 1)..n.capacity
  BY RoundCapacityRounds DEF NewPool, ValidCapacity

\* No operation changes a pool but by mapping, unmapping, or its engine.
LEMMA PoolStep ==
  ASSUME IInv, Next
  PROVE  \A q \in Pools :
           \/ pool'[q].engine = "unmapped"
           \/ /\ pool[q].engine # "unmapped"
              /\ pool'[q].capacity = pool[q].capacity
              /\ pool'[q].asked = pool[q].asked
           \/ \E c \in Nat, e \in States :
                ValidCapacity(c) /\ pool'[q] = NewPool(c, e)
<1> DEFINE Goal ==
      \A q \in Pools :
        \/ pool'[q].engine = "unmapped"
        \/ /\ pool[q].engine # "unmapped"
           /\ pool'[q].capacity = pool[q].capacity
           /\ pool'[q].asked = pool[q].asked
        \/ \E c \in Nat, e \in States :
             ValidCapacity(c) /\ pool'[q] = NewPool(c, e)
<1>0. ASSUME UNCHANGED pool PROVE Goal BY <1>0
<1>1. ASSUME NEW o \in Engines, FreeEngine(o) PROVE Goal
  BY <1>0, <1>1, UnmappedType DEF FreeEngine, Destroyed, IInv, TypeOK
<1>2. ASSUME NEW o \in Engines, MakeEngine(o) PROVE Goal
  <2>1. PICK c \in Nat, p \in Pools, e \in States :
          ValidCapacity(c) /\ pool' = [pool EXCEPT ![p] = NewPool(c, e)]
    BY <1>2, ObjectsAssumption DEF MakeEngine, States
  <2> QED BY <2>1 DEF IInv, TypeOK
<1>3. ASSUME NEW o \in Engines, UseEngine(o) PROVE Goal
  <2>1. CASE pool' = [pool EXCEPT ![ptr[o]].engine = "spent"] /\ Fit(o)
    BY <2>1 DEF Fit, IInv, TypeOK, PoolTypes
  <2> QED BY <1>0, <1>3, <2>1 DEF UseEngine, Raise
<1>4. ASSUME NEW s \in Sequences, SeqAbandon(s) PROVE Goal
  <2>1. PICK p \in Pools, e \in States :
          pool' = [pool EXCEPT ![p] = NewPool(CompileCapacity, e)]
    BY <1>4 DEF SeqAbandon, States
  <2>2. ValidCapacity(CompileCapacity) /\ CompileCapacity \in Nat
    BY <1>4, ObjectsAssumption DEF SeqAbandon
  <2> QED BY <2>1, <2>2 DEF IInv, TypeOK
<1> HIDE DEF Goal
<1>5. ASSUME NEW o \in Engines, EngineStep(o) PROVE Goal
  BY <1>0, <1>1, <1>2, <1>3, <1>5
  DEF EngineStep, Allocate, InitializeFrees, InitializeRefused, PoolRefused,
      Call, CheckInitialized, Stat, Collect, Raise
<1>6. ASSUME NEW s \in Sequences, SequenceStep(s) PROVE Goal
  BY <1>0, <1>4, <1>6
  DEF SequenceStep, SeqAllocate, SeqRefused, SeqCompile, SeqRead, SeqCollect,
      Raise
<1>7. ASSUME NEW o \in Engines, NEW s \in Sequences, Load(o, s) PROVE Goal
  BY <1>0, <1>3, <1>7 DEF Load, Raise
<1>8. ASSUME Rest PROVE Goal BY <1>0, <1>8 DEF Rest, vars
<1>9. Goal BY <1>5, <1>6, <1>7, <1>8 DEF Next
<1> QED BY <1>9 DEF Goal

\* A pool has what was asked for, in whole pages within the limits, and less
\* than a page more, for every page size.
THEOREM PoolsFit == Spec => []CapacityFits
<1>1. Init => CapacityFits BY DEF Init, CapacityFits, Unmapped
<1>2. IInv /\ CapacityFits /\ [Next]_vars => CapacityFits'
  <2> SUFFICES ASSUME IInv, CapacityFits, [Next]_vars PROVE CapacityFits'
    OBVIOUS
  <2>1. CASE UNCHANGED vars BY <2>1 DEF vars, CapacityFits
  <2>2. CASE Next
    <3> SUFFICES ASSUME NEW q \in Pools, pool'[q].engine # "unmapped"
                 PROVE  /\ pool'[q].capacity % PageSize = 0
                        /\ pool'[q].capacity \in CapacityMin..CapacityMax
                        /\ pool'[q].asked \in
                             (pool'[q].capacity - PageSize + 1)
                               ..pool'[q].capacity
      BY DEF CapacityFits
    <3>1. CASE /\ pool[q].engine # "unmapped"
               /\ pool'[q].capacity = pool[q].capacity
               /\ pool'[q].asked = pool[q].asked
      BY <3>1 DEF CapacityFits
    <3>2. CASE \E c \in Nat, e \in States :
                 ValidCapacity(c) /\ pool'[q] = NewPool(c, e)
      BY <3>2, NewPoolFits
    <3> QED BY <2>2, <3>1, <3>2, PoolStep
  <2> QED BY <2>1, <2>2
<1>3. CapacityFits /\ []IInv /\ [][Next]_vars => []CapacityFits
  BY <1>2, PTL
<1> QED BY <1>1, <1>3, Invariance, PTL DEF Spec

LossAllowed == ~again' /\ Lost' # Lost => Lost \subseteq Lost' /\ LossReported'

\* A step that changes no pool and no pointer loses nothing.
LEMMA NothingLost ==
  ASSUME UNCHANGED <<pool, ptr>>
  PROVE  Lost' = Lost
  BY DEF Lost

\* A new pool is lost unless an object has it, and no other changes.
LEMMA BareLost ==
  ASSUME IInv, NEW p \in Pools, NEW c \in Nat, NEW e \in States,
         pool[p] = Unmapped, UNCHANGED ptr,
         pool' = [pool EXCEPT ![p] = NewPool(c, e)]
  PROVE  Lost \subseteq Lost'
<1>1. p \notin Lost BY UnmappedType DEF Lost
<1>2. \A q \in Pools \ {p} : pool'[q] = pool[q] BY DEF IInv, TypeOK
<1> QED BY <1>1, <1>2 DEF Lost

\* Using an engine loses no pool.
LEMMA UseEngineLoss ==
  ASSUME IInv, NEW o \in Engines, UseEngine(o)
  PROVE  Lost' = Lost
<1>1. CASE /\ Fit(o) /\ pool' = [pool EXCEPT ![ptr[o]].engine = "spent"]
           /\ UNCHANGED ptr
  <2>1. \A p \in Pools : (pool'[p].engine = "unmapped")
                           <=> (pool[p].engine = "unmapped")
    BY <1>1 DEF Fit, IInv, TypeOK, PoolTypes
  <2> QED BY <1>1, <2>1 DEF Lost
<1> QED BY <1>1, NothingLost DEF UseEngine, Raise

\* Every step loses what LossAllowed allows only.
LEMMA LossStep == IInv /\ [Next]_vars => LossAllowed
<1> SUFFICES ASSUME IInv, [Next]_vars, ~again' PROVE LossAllowed
  BY DEF LossAllowed
<1>1. ASSUME UNCHANGED <<pool, ptr>> PROVE LossAllowed
  BY <1>1, NothingLost DEF LossAllowed
<1>2. ASSUME NEW o \in Engines, InitializeFrees(o) PROVE LossAllowed
  <2>1. ptr[o] = Null /\ ptr' = ptr BY <1>2, Zenon DEF InitializeFrees
  <2>2. pool' = pool BY <1>2, <2>1, FreeEngineStep DEF InitializeFrees
  <2> QED BY <1>1, <2>1, <2>2
<1>3. ASSUME NEW o \in Engines, MakeEngine(o) PROVE LossAllowed
  <2>1. ptr[o] = Null
    BY <1>3, ConvertedType DEF MakeEngine
  <2>2. PICK c \in Requests, p \in Pools :
          /\ pool[p] = Unmapped
          /\ \/ /\ pool' = [pool EXCEPT ![p] = NewPool(c, "fit")]
                /\ ptr' = [ptr EXCEPT ![o] = p]
             \/ /\ pool' = [pool EXCEPT ![p] = NewPool(c, "bare")]
                /\ ptr' = ptr /\ outcome' = Left
    BY <1>3 DEF MakeEngine, NotYet
  <2>3. CASE /\ pool' = [pool EXCEPT ![p] = NewPool(c, "fit")]
             /\ ptr' = [ptr EXCEPT ![o] = p]
    <3>1. ptr'[o] = p /\ \A q \in Engines \ {o} : ptr'[q] = ptr[q]
      BY <2>3 DEF IInv, TypeOK
    <3>2. p \notin Lost /\ p \notin Lost'
      BY <2>2, <3>1, UnmappedType DEF Lost
    <3>3. \A r \in Pools \ {p} : pool'[r] = pool[r]
                                  /\ ptr[o] # r /\ ptr'[o] # r
      BY <2>1, <2>3, <3>1, ObjectsAssumption DEF IInv, TypeOK
    <3>4. \A r \in Pools \ {p} : r \in Lost' <=> r \in Lost
      BY <3>1, <3>3 DEF Lost
    <3>5. Lost' = Lost BY <3>2, <3>4 DEF Lost
    <3> QED BY <3>5 DEF LossAllowed
  <2>4. CASE /\ pool' = [pool EXCEPT ![p] = NewPool(c, "bare")]
             /\ ptr' = ptr /\ outcome' = Left
    <3>1. Lost \subseteq Lost'
      BY <2>2, <2>4, BareLost, ObjectsAssumption DEF States
    <3> QED BY <2>4, <3>1 DEF LossAllowed, LossReported, Left
  <2> QED BY <2>2, <2>3, <2>4
<1>4. ASSUME NEW o \in Engines, UseEngine(o) PROVE LossAllowed
  BY <1>4, UseEngineLoss DEF LossAllowed
<1>5. ASSUME NEW o \in Engines, Collect(o) PROVE LossAllowed
  <2>1. ptr' = [ptr EXCEPT ![o] = Null] /\ FreeEngine(o) /\ ~again
    BY <1>5 DEF Collect
  <2>2. ptr'[o] = Null /\ \A q \in Engines \ {o} : ptr'[q] = ptr[q]
    BY <2>1 DEF IInv, TypeOK
  <2>3. \A r \in Pools : r # ptr[o] => pool'[r] = pool[r]
    BY <2>1, FreeEngineStep
  <2>4. \A r \in Pools : r # ptr[o] => (r \in Lost' <=> r \in Lost)
    BY <2>2, <2>3, ObjectsAssumption DEF Lost
  <2>5. ptr[o] # Null => pool'[ptr[o]].engine = "unmapped"
    BY <2>1, UnmappedType
    DEF FreeEngine, Destroyed, IInv, TypeOK, EnginesAreOwned
  <2>6. \A r \in Pools : r = ptr[o] => r \notin Lost' /\ r \notin Lost
    BY <2>5, ObjectsAssumption DEF Lost
  <2>7. Lost' = Lost BY <2>4, <2>6 DEF Lost
  <2> QED BY <2>7 DEF LossAllowed
<1>6. ASSUME NEW s \in Sequences, SeqAbandon(s) PROVE LossAllowed
  <2>1. PICK p \in Pools, e \in States :
          /\ pool[p] = Unmapped
          /\ pool' = [pool EXCEPT ![p] = NewPool(CompileCapacity, e)]
    BY <1>6 DEF SeqAbandon, States
  <2>2. Lost \subseteq Lost'
    BY <1>6, <2>1, BareLost, ObjectsAssumption DEF SeqAbandon
  <2>3. LossReported'
    BY <1>6 DEF SeqAbandon, LossReported, Left
  <2> QED BY <2>2, <2>3 DEF LossAllowed
<1>7. ASSUME NEW o \in Engines, EngineStep(o) PROVE LossAllowed
  BY <1>1, <1>2, <1>3, <1>4, <1>5, <1>7
  DEF EngineStep, Allocate, InitializeRefused, PoolRefused, Call,
      CheckInitialized, Stat, Raise
<1>8. ASSUME NEW s \in Sequences, SequenceStep(s) PROVE LossAllowed
  BY <1>1, <1>6, <1>8
  DEF SequenceStep, SeqAllocate, SeqRefused, SeqCompile, SeqRead, SeqCollect,
      Raise
<1>9. ASSUME NEW o \in Engines, NEW s \in Sequences, Load(o, s)
      PROVE  LossAllowed
  BY <1>1, <1>4, <1>9 DEF Load, Raise
<1>10. CASE UNCHANGED vars BY <1>1, <1>10 DEF vars
<1> QED BY <1>7, <1>8, <1>9, <1>10 DEF Next, Rest

\* A pool without an owner comes of an operation that reports an exhausted
\* quota or an error of the compiler, and of no other.
THEOREM LossReports == Spec => LossIsReported
<1>1. Spec => [][LossAllowed]_vars
  <2>1. IInv /\ [Next]_vars => [LossAllowed]_vars BY LossStep
  <2>2. []IInv /\ [][Next]_vars => [][LossAllowed]_vars BY <2>1, PTL
  <2> QED BY <2>2, Invariance, PTL DEF Spec
<1> QED BY <1>1 DEF LossIsReported, LossAllowed
==============================================================================
