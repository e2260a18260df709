------------------------------ MODULE MpdProduct -----------------------------
(***************************************************************************)
(* How libmpdec multiplies two coefficients (mpdecimal.c): which algorithm *)
(* it takes for which lengths, Karatsuba's, which works in one block of    *)
(* memory that is computed beforehand, and the transform of MpdTransform.  *)
(***************************************************************************)
EXTENDS MpdTransform

CONSTANTS
  MinallocMax,    \* MPD_MINALLOC_MAX
  BaseLimit,      \* 256: at most so many words of the shorter operand ...
  KaratsubaLimit, \* 1024: ... and of the product
  KaratsubaBase,  \* MPD_KARATSUBA_BASECASE
  FntBase,        \* 192: where a transform is not worth it
  Pow2Limit,      \* 1024: up to it only lengths of 2^n are taken
  MaxTransform    \* MPD_MAXTRANSFORM_2N

ASSUME KaratsubaAssumption == KaratsubaBase >= 4

RealSize(u) == Max({1} \cup {i \in DOMAIN u : u[i] # 0})

------------------------------------------------------------------------------
(* Karatsuba's algorithm.                                                   *)

\* _kmul_resultsize and _kmul_worksize
KmulResultSize(la, lb) == Max({la + lb + 1, 3 * ((la + 1) \div 2 + 1)})
\* Mutant: no word for the carry of the sum of two halves.
RECURSIVE KmulWorkSizeNoCarry(_, _)
KmulWorkSizeNoCarry(n, lim) ==
  LET m == (n + 1) \div 2
  IN IF n <= lim THEN 0 ELSE 2 * m + KmulWorkSizeNoCarry(m, lim)
RECURSIVE KmulWorkSize(_, _)
KmulWorkSize(n, lim) ==
  LET m == (n + 1) \div 2 + 1
  IN IF n <= lim THEN 0 ELSE 2 * m + KmulWorkSize(m, lim)

\* n words of a block of memory from p on, set to zero.
Clear(mem, p, n) == Put(mem, p, Zeroed(n))
\* _mpd_basemul into the block
BaseMulAt(mem, c, u, v) ==
  LET rows[j \in 0..Len(v)] ==
        IF j = 0 THEN mem
        ELSE Put(rows[j - 1], c,
                 MulRow(Slice(rows[j - 1], c, Len(u) + Len(v)), u, v[j],
                        j - 1))
  IN rows[Len(v)]

\* The l words at w are added to those at plus, and taken from those at
\* minus.
AddAt(mem, plus, w, l) == AddTo(mem, plus, Slice(mem, w, l))
AddSubAt(mem, plus, minus, w, l) ==
  SubFrom(AddAt(mem, plus, w, l), minus, Slice(mem, w, l))

\* _karatsuba_rec and _karatsuba_rec_fnt: the product of the la words at a
\* and the lb words at b is added to c, with the work space at w; Base is
\* what each of the two does with la words that are few enough.
RECURSIVE KRec(_, _, _, _, _, _, _, _, _)
KRec(Base(_, _, _, _, _, _), lim, mem, c, a, b, w, la, lb) ==
  LET m == (la + 1) \div 2
      h == la - m
      \* the product of l and of k words, l of them or more, put at w
      Part(mm, aa, bb, l, k) ==
        KRec(Base, lim, Clear(mm, w, 2 * l + 1), w, aa, bb, w + 2 * l + 1,
             l, k)
      \* the sum of two parts of m and of l words
      Sum(mm, to, from, l) ==
        AddTo(Put(mm, to, Slice(mm, from, m) \o <<0>>), to,
              Slice(mm, from + m, l))
      Sums(mm) == Sum(Sum(mm, w, a, h), w + m + 1, b, lb - m)
      Middle(mm) == KRec(Base, lim, mm, c + m, w, w + m + 1, w + 2 * (m + 1),
                         m + 1, m + 1)
  IN IF la <= lim THEN Base(mem, c, a, b, la, lb)
     ELSE IF lb <= m \* two products of a part of a with b
     THEN LET high == IF lb > h THEN Part(mem, b, a + m, lb, h)
                      ELSE Part(mem, a + m, b, h, lb)
          IN AddAt(Part(AddAt(high, c + m, w, h + lb), a, b, m, lb),
                   c, w, m + lb)
     ELSE \* three products, of the sums and of the halves
          LET top == Part(Middle(Sums(mem)), a + m, b + m, h, lb - m)
              rest == AddSubAt(top, c + 2 * m, c + m, w, h + lb - m)
          IN AddSubAt(Part(rest, a, b, m, m), c, c + m, w, 2 * m)

\* The block that _mpd_kmul and _mpd_kmul_fnt work on: the operands, which
\* are one where u is v, the result, the work space.  A word between the
\* result and the work space belongs to neither.
Kmul(Base(_, _, _, _, _, _), lim, u, v, same) ==
  LET la == Len(u)
      b == IF same THEN 0 ELSE la
      rsize == KmulResultSize(la, Len(v))
      c == la + Len(v)
      fence == <<Radix - 1>>
      mem == u \o v \o Zeroed(rsize) \o fence \o Zeroed(KmulWorkSize(la, lim))
      Outcome(done) ==
        [w |-> Slice(done, c, rsize),
         kept |-> /\ Len(done) = Len(mem)
                  /\ Slice(done, 0, c) = u \o v
                  /\ Slice(done, c + rsize, 1) = fence]
  IN Outcome(KRec(Base, lim, mem, c, 0, b, c + rsize + 1, la, Len(v)))

KBase(mem, c, a, b, la, lb) ==
  BaseMulAt(mem, c, Slice(mem, a, la), Slice(mem, b, lb))
KaratsubaMul(u, v, same) == Kmul(KBase, KaratsubaBase, u, v, same)

------------------------------------------------------------------------------
(* The transform.                                                           *)

\* _mpd_get_transform_len; 0 is MPD_SIZE_MAX, of a product that is too long.
TransformLen(rsize) ==
  LET x == 2^Bsr(rsize)
  IN IF rsize <= Pow2Limit THEN (IF rsize = x THEN x ELSE 2 * x)
     ELSE IF rsize <= MaxTransform THEN
       IF rsize = x THEN x
       ELSE IF rsize <= x + (x \div 2) THEN x + (x \div 2) ELSE 2 * x
     ELSE IF rsize <= MaxTransform + (MaxTransform \div 2)
     THEN MaxTransform + (MaxTransform \div 2)
     ELSE IF rsize <= 3 * MaxTransform THEN 3 * MaxTransform
     ELSE 0

\* _mpd_fntmul
FntMul(u, v, same) ==
  LET rsize == Len(u) + Len(v)
      n == TransformLen(rsize)
      Padded(x) == x \o Zeroed(n - Len(x))
  IN Crt3(Array(3, LAMBDA i :
            IF same THEN AutoConvolute(Padded(u), i + 1)
            ELSE Convolute(Padded(u), Padded(v), i + 1)), rsize)

KFntBase(mem, c, a, b, la, lb) ==
  IF lb <= FntBase
  THEN BaseMulAt(mem, c, Slice(mem, b, lb), Slice(mem, a, la))
  ELSE Put(mem, c, FntMul(Slice(mem, a, la), Slice(mem, b, lb), a = b))
FntLimit == 3 * (MaxTransform \div 2)
KaratsubaFntMul(u, v, same) == Kmul(KFntBase, FntLimit, u, v, same)

------------------------------------------------------------------------------
(* The choice, in _mpd_qmul; same says that both operands are one decimal.  *)

Method(big, small) ==
  LET rsize == Len(big) + Len(small)
  IN IF Len(big) = 1 THEN "single"
     ELSE IF Len(big) = 2 /\ rsize <= MinallocMax THEN "2le2"
     ELSE IF Len(small) = 1 THEN "short"
     ELSE IF rsize <= MinallocMax \/ Len(small) <= BaseLimit THEN "base"
     ELSE IF rsize <= KaratsubaLimit THEN "kmul"
     ELSE IF rsize <= 3 * MaxTransform THEN "fntmul"
     ELSE "kmul_fnt"
Fresh(words) == [w |-> words, kept |-> TRUE]
MultiplyBy(method, big, small, same) ==
  CASE method = "single" -> Fresh(SingleMul(big[1], small[1]))
    [] method = "2le2" -> Fresh(Mul2le2(big, small))
    [] method = "short" -> Fresh(ShortMul(big, small[1]))
    [] method = "base" -> Fresh(BaseMul(small, big))
    [] method = "kmul" -> KaratsubaMul(big, small, same)
    [] method = "fntmul" -> Fresh(FntMul(big, small, same))
    [] method = "kmul_fnt" -> KaratsubaFntMul(big, small, same)
Larger(u, v) == IF Len(v) > Len(u) THEN v ELSE u
Smaller(u, v) == IF Len(v) > Len(u) THEN u ELSE v
==============================================================================
