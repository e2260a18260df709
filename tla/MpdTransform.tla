----------------------------- MODULE MpdTransform ----------------------------
(***************************************************************************)
(* The number theoretic transform of libmpdec, by which it multiplies very *)
(* long coefficients: arithmetic modulo a prime (umodarith.h), transforms  *)
(* of 2^n words (difradix2.c, fnt.c), of a matrix of 2^n words with few    *)
(* cache misses (sixstep.c, transpose.c) and of 3 * 2^n words              *)
(* (fourstep.c), the convolution (convolute.c) and the product from the    *)
(* residues modulo three primes (crt.c).                                   *)
(***************************************************************************)
EXTENDS MpdWords

CONSTANTS
  Moduli,          \* mpd_moduli: three primes, the largest first
  Roots,           \* mpd_roots: a primitive root of each
  SixStepThreshold \* above this 2^n words are transformed as a matrix

ASSUME ModuliAssumption ==
  /\ Moduli[1] > Moduli[2] /\ Moduli[2] > Moduli[3] /\ Moduli[3] >= Radix
  /\ Moduli[1] < 2 * Moduli[3] /\ Moduli[1] <= UintMax

P1 == 1
P2 == 2
P3 == 3

------------------------------------------------------------------------------
(* Arithmetic modulo m, of words.                                           *)

\* Mutant: the sum is taken to fit in a word.
AddModFits(a, b, m) == LET s == Wrap(a + b) IN IF s >= m THEN s - m ELSE s
AddMod(a, b, m) ==
  LET s == Wrap(a + b)
      t == IF s < a THEN Wrap(s - m) ELSE s
  IN IF t >= m THEN t - m ELSE t
SubMod(a, b, m) == IF a < b THEN Wrap(Wrap(a - b) + m) ELSE a - b
\* Operands may be m too large.
ExtSubMod(a, b, m) ==
  SubMod(IF a >= m THEN a - m ELSE a, IF b >= m THEN b - m ELSE b, m)
DwReduce(p, m) == DivWords([hi |-> p.hi % m, lo |-> p.lo], m).r
DwSubMod(a, p, m) == SubMod(a, DwReduce(p, m), m)

\* x64_mulmod, for a modulus W - 2^k + 1, with hi * W = hi * (2^k - 1).
Reduction(p, k) ==
  LET x == Wrap(p.lo - p.hi)
      hi == (p.hi * 2^k) \div W
      y == Wrap(p.hi * 2^k)
      lo == Wrap(y + x)
  IN [hi |-> Wrap(hi - (IF x > p.lo THEN 1 ELSE 0)
                     + (IF lo < y THEN 1 ELSE 0)),
      lo |-> lo]
\* Mutant: two are always enough.
X64MulModTwice(a, b, k, m) ==
  LET p == Reduction(Reduction(MulWords(a, b), k), k)
  IN IF p.hi # 0 \/ p.lo >= m THEN Wrap(p.lo - m) ELSE p.lo
\* Two reductions are enough where the power is the smallest, P1.
Below(p, m) == IF p.hi # 0 \/ p.lo >= m THEN Wrap(p.lo - m) ELSE p.lo
X64MulMod(a, b, k, m) ==
  LET second == Reduction(Reduction(MulWords(a, b), k), k)
  IN Below(IF 2^k * 2^k <= W THEN second ELSE Reduction(second, k), m)
\* MULMOD; X64MulMod shows that it is a product modulo m.
MulMod(a, b, m) == (a * b) % m
\* x64_powmod
PowMod(base, exp, m) ==
  LET pow[n \in Nat] ==
        IF n = 0 THEN 1
        ELSE LET half == pow[n \div 2]
                 square == MulMod(half, half, m)
             IN IF n % 2 = 1 THEN MulMod(square, base, m) ELSE square
  IN pow[exp]

------------------------------------------------------------------------------
(* bits.h                                                                   *)

Bsr(n) == CHOOSE b \in 0..n : 2^b <= n /\ n < 2^(b + 1)
Bsf(n) == CHOOSE b \in 0..n : n % 2^b = 0 /\ (n \div 2^b) % 2 = 1
IsPow2(n) == n # 0 /\ n = 2^Bsr(n)

------------------------------------------------------------------------------
(* numbertheory.c                                                           *)

\* _mpd_getkernel; sign is -1 for the forward transform.
GetKernel(n, sign, modnum) ==
  LET p == Moduli[modnum]
      xi == (p - 1) \div n
  IN PowMod(Roots[modnum], IF sign = -1 THEN p - 1 - xi ELSE xi, p)
\* 1, w, w^2 ...
Powers(w, n, m) ==
  LET s[i \in 1..n] ==
        IF i = 1 THEN <<1>>
        ELSE LET prev == s[i - 1] IN Append(prev, MulMod(prev[i - 1], w, m))
  IN s[n]
\* _mpd_init_fnt_params and _mpd_init_w3table
FntParams(n, sign, modnum) ==
  [p |-> Moduli[modnum],
   wtable |-> Powers(GetKernel(n, sign, modnum), n \div 2, Moduli[modnum])]
W3Table(sign, modnum) ==
  LET kernel == GetKernel(3, sign, modnum)
  IN <<1, kernel, PowMod(kernel, 2, Moduli[modnum])>>

------------------------------------------------------------------------------
(* difradix2.c, fnt.c                                                       *)

\* The bits above n / 2^t turned over.
FlipHigh(r, n, t) ==
  LET low == n \div 2^t
      high == r - (r % low)
  IN n - low - high + (r % low)
\* bitreverse_permute
BitreversePermute(a) ==
  LET n == Len(a)
      s[x \in 0..(n - 1)] ==
        LET prev == s[x - 1]
            r == IF x = 0 THEN 0 ELSE FlipHigh(prev.r, n, Bsf(x) + 1)
            b == IF x = 0 THEN a ELSE prev.a
        IN [r |-> r,
            a |-> IF r > x
                  THEN [b EXCEPT ![x + 1] = b[r + 1], ![r + 1] = b[x + 1]]
                  ELSE b]
  IN s[n - 1].a

\* One pass of fnt_dif2 over blocks of m words.
Butterflies(a, m, par) ==
  LET n == Len(a)
      half == m \div 2
      Low(i) == AddMod(a[i + 1], a[i + half + 1], par.p)
      High(i) == MulMod(SubMod(a[i - half + 1], a[i + 1], par.p),
                        par.wtable[((i % m) - half) * (n \div m) + 1], par.p)
  IN Array(n, LAMBDA i : IF i % m < half THEN Low(i) ELSE High(i))
FntDif2(a, par) ==
  LET n == Len(a)
      s[k \in 0..Bsr(n)] ==
        IF k = 0 THEN a ELSE Butterflies(s[k - 1], n \div 2^(k - 1), par)
  IN BitreversePermute(s[Bsr(n)])

\* Each row of n words of a, transformed.
Rows(a, n, sign, modnum) ==
  FlattenSeq(Array(Len(a) \div n, LAMBDA k :
    FntDif2(Slice(a, k * n, n), FntParams(n, sign, modnum))))
StdFnt(a, sign, modnum) == Rows(a, Len(a), sign, modnum)

------------------------------------------------------------------------------
(* transpose.c                                                              *)

\* squaretrans_pow2 takes the matrix block by block; the blocks, of a power
\* of two, cover it.
SquareTrans(a, size) ==
  Array(Len(a), LAMBDA i : a[(i % size) * size + (i \div size) + 1])

\* A cycle of swap_halfrows_pow2: the half-row in hand is put down where the
\* next one was, until it comes round.
RECURSIVE MoveCycle(_, _, _, _, _, _, _)
MoveCycle(s, hand, next, hn, r, m, rows) ==
  IF next = hn THEN [a |-> Put(s.a, hn * rows, hand),
                     done |-> s.done \cup {hn}]
  ELSE MoveCycle([a |-> Put(s.a, next * rows, hand),
                  done |-> s.done \cup {next}],
                 Slice(s.a, next * rows, rows), (next * r) % m, hn, r, m,
                 rows)
SwapHalfrows(a, rows, forward) ==
  LET r == IF forward THEN rows ELSE 2
      m == 2 * rows - 1
      s[k \in 0..(rows \div 2)] ==
        LET prev == s[k - 1]
            hn == 2 * k - 1
        IN IF k = 0 THEN [a |-> a, done |-> {}]
           ELSE IF hn \in prev.done THEN prev
           ELSE MoveCycle(prev, Slice(prev.a, hn * rows, rows),
                          (hn * r) % m, hn, r, m, rows)
  IN s[rows \div 2].a

\* transpose_pow2
BothHalves(a, n) ==
  SquareTrans(Slice(a, 0, n * n), n) \o SquareTrans(Slice(a, n * n, n * n), n)
TransposePow2(a, rows, cols) ==
  IF cols = rows THEN SquareTrans(a, rows)
  ELSE IF cols = 2 * rows THEN BothHalves(SwapHalfrows(a, rows, TRUE), rows)
  ELSE SwapHalfrows(BothHalves(a, cols), cols, FALSE)

------------------------------------------------------------------------------
(* sixstep.c                                                                *)

Columns(n) == 2^(Bsr(n) \div 2)
\* The element in row i and column k, times r^(i*k), with r of order n.
Twiddled(a, cols, sign, modnum) ==
  LET n == Len(a)
      p == Moduli[modnum]
      kernel == GetKernel(n, sign, modnum)
      factors == Array(n \div cols,
                       LAMBDA i : Powers(PowMod(kernel, i, p), cols, p))
  IN Array(n, LAMBDA i :
       MulMod(a[i + 1], factors[(i \div cols) + 1][(i % cols) + 1], p))

\* The columns of a matrix with rows of C words, transformed.
ColumnsDone(a, C, sign, modnum) ==
  LET R == Len(a) \div C
  IN TransposePow2(Rows(TransposePow2(a, R, C), R, sign, modnum), C, R)
SixStep(a, modnum) ==
  LET C == Columns(Len(a))
  IN Rows(Twiddled(ColumnsDone(a, C, -1, modnum), C, -1, modnum), C, -1,
          modnum)
InvSixStep(a, modnum) ==
  LET C == Columns(Len(a))
  IN ColumnsDone(Twiddled(Rows(a, C, 1, modnum), C, 1, modnum), C, 1, modnum)

------------------------------------------------------------------------------
(* fourstep.c                                                               *)

\* std_size3_ntt, on the columns of three rows
Sum3(x, y, z, p) == AddMod(AddMod(x, y, p), z, p)
Column3(x, y, z, w, p) ==
  <<Sum3(x, y, z, p),
    Sum3(x, MulMod(y, w[2], p), MulMod(z, w[3], p), p),
    Sum3(x, MulMod(y, w[3], p), MulMod(z, w[2], p), p)>>
InRows(columns) ==
  LET C == Len(columns)
  IN Array(3 * C, LAMBDA i : columns[(i % C) + 1][(i \div C) + 1])
Size3Ntt(a, sign, modnum) ==
  LET C == Len(a) \div 3
  IN InRows(Array(C, LAMBDA c :
       Column3(a[c + 1], a[C + c + 1], a[2 * C + c + 1],
               W3Table(sign, modnum), Moduli[modnum])))

EachOfThree(F(_), a) ==
  LET C == Len(a) \div 3
  IN F(Slice(a, 0, C)) \o F(Slice(a, C, C)) \o F(Slice(a, 2 * C, C))
FourStep(a, modnum) ==
  EachOfThree(LAMBDA row : SixStep(row, modnum),
              Twiddled(Size3Ntt(a, -1, modnum), Len(a) \div 3, -1, modnum))
InvFourStep(a, modnum) ==
  Size3Ntt(Twiddled(EachOfThree(LAMBDA row : InvSixStep(row, modnum), a),
                    Len(a) \div 3, 1, modnum), 1, modnum)

------------------------------------------------------------------------------
(* convolute.c, crt.c                                                       *)

Transform(a, modnum) ==
  IF ~IsPow2(Len(a)) THEN FourStep(a, modnum)
  ELSE IF Len(a) > SixStepThreshold THEN SixStep(a, modnum)
  ELSE StdFnt(a, -1, modnum)
InvTransform(a, modnum) ==
  IF ~IsPow2(Len(a)) THEN InvFourStep(a, modnum)
  ELSE IF Len(a) > SixStepThreshold THEN InvSixStep(a, modnum)
  ELSE StdFnt(a, 1, modnum)
\* The elements of a times those of b, and by the inverse of their number
\* after the way back.
Scaled(a, by, p) == Array(Len(a), LAMBDA i : MulMod(a[i + 1], by, p))
Multiplied(a, b, modnum) ==
  LET p == Moduli[modnum]
      c == Array(Len(a), LAMBDA i : MulMod(a[i + 1], b[i + 1], p))
  IN Scaled(InvTransform(c, modnum), PowMod(Len(a), p - 2, p), p)
\* fnt_convolute and fnt_autoconvolute
Convolute(c1, c2, modnum) ==
  Multiplied(Transform(c1, modnum), Transform(c2, modnum), modnum)
Squared(a, modnum) == Multiplied(a, a, modnum)
AutoConvolute(c1, modnum) == Squared(Transform(c1, modnum), modnum)

\* constants.c, and P1 * P2 as two words
InvP1ModP2 == PowMod(Moduli[P1] % Moduli[P2], Moduli[P2] - 2, Moduli[P2])
P1P2 == MulWords(Moduli[P1], Moduli[P2])
InvP1P2ModP3 ==
  PowMod(DwReduce(P1P2, Moduli[P3]), Moduli[P3] - 2, Moduli[P3])

\* _crt_mulP1P2_3, _crt_add3 and _crt_div3, on three words
CrtMulP1P2(v) ==
  LET low == MulWords(P1P2.lo, v)
      high == Plus(MulWords(P1P2.hi, v), low.hi)
  IN <<low.lo, high.lo, high.hi>>
CrtAdd3(w, v) ==
  LET s == Wrap(w[1] + v[1])
      c == IF s < w[1] THEN 1 ELSE 0
      t == Wrap(w[2] + Wrap(v[2] + c))
      d == IF t < w[2] THEN 1 ELSE 0
  IN <<s, t, Wrap(w[3] + Wrap(v[3] + d))>>
CrtDiv3(u, v) ==
  LET high == DivWords([hi |-> u[3] % v, lo |-> u[2]], v)
      low == DivWords([hi |-> high.r, lo |-> u[1]], v)
  IN [w |-> <<low.q, high.q, u[3] \div v>>, r |-> low.r]

\* The number with three residues.
\* Mutant: a residue modulo P1 is not brought below P2 first.
CrtOfUnreduced(a1, a2, a3) ==
  LET s == MulMod(SubMod(a2, a1, Moduli[P2]), InvP1ModP2, Moduli[P2])
      z == Plus(MulWords(s, Moduli[P1]), a1)
      t == MulMod(DwSubMod(a3, z, Moduli[P3]), InvP1P2ModP3, Moduli[P3])
  IN CrtAdd3(<<z.lo, z.hi, 0>>, CrtMulP1P2(t))
CrtOf(a1, a2, a3) ==
  LET s == MulMod(ExtSubMod(a2, a1, Moduli[P2]), InvP1ModP2, Moduli[P2])
      z == Plus(MulWords(s, Moduli[P1]), a1)
      t == MulMod(DwSubMod(a3, z, Moduli[P3]), InvP1P2ModP3, Moduli[P3])
  IN CrtAdd3(<<z.lo, z.hi, 0>>, CrtMulP1P2(t))
\* crt3, of the products modulo each prime
Pushed(s, x) == [w |-> Append(s.w, x.r), carry |-> x.w]
CrtStep(s, a1, a2, a3) ==
  Pushed(s, CrtDiv3(CrtAdd3(s.carry, CrtOf(a1, a2, a3)), Radix))
Crt3(x, rsize) ==
  LET s[i \in 0..rsize] ==
        IF i = 0 THEN [w |-> <<>>, carry |-> <<0, 0, 0>>]
        ELSE CrtStep(s[i - 1], x[P1][i], x[P2][i], x[P3][i])
  IN s[rsize].w
==============================================================================
