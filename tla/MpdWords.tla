------------------------------- MODULE MpdWords ------------------------------
(***************************************************************************)
(* Coefficients as libmpdec stores them: arrays of words, the least        *)
(* significant first, each with RDigits decimal digits, and the schoolbook *)
(* arithmetic on them (basearith.c, basearith.h, typearith.h).  A word has *)
(* room for UintMax, which is less than twice the radix: a sum of two may  *)
(* overflow it, and a carry must be told from that too.                    *)
(***************************************************************************)
EXTENDS MpdNumber, SequencesExt

W == UintMax + 1
Radix == Pow10[RDigits]
Wrap(x) == x % W

ASSUME RadixAssumption == Radix <= UintMax /\ 2 * Radix > W

\* An array of n words, F(i) at index i; C counts from 0.
Array(n, F(_)) == [i \in 1..n |-> F(i - 1)] \o <<>>
Zeroed(n) == Array(n, LAMBDA i : 0)
Slice(a, off, n) == SubSeq(a, off + 1, off + n)
Put(a, off, words) ==
  SubSeq(a, 1, off) \o words \o SubSeq(a, off + Len(words) + 1, Len(a))

------------------------------------------------------------------------------
(* One and two words.                                                       *)

\* _mpd_mul_words, and a double word with another word added
MulWords(a, b) == [hi |-> (a * b) \div W, lo |-> (a * b) % W]
Plus(p, x) ==
  LET lo == Wrap(p.lo + x)
  IN [hi |-> IF lo < x THEN Wrap(p.hi + 1) ELSE p.hi, lo |-> lo]
\* _mpd_div_words
DivWords(p, d) ==
  [q |-> Wrap((p.hi * W + p.lo) \div d), r |-> (p.hi * W + p.lo) % d]

\* mprime_rdx
MPrime == (W * W - 1) \div Radix - W
\* _mpd_div_words_r: division by the radix without dividing.  t is the
\* complement of an estimate of the quotient, which h corrects.
Corrected(t, h, lo) ==
  [q |-> Wrap(h - t), r |-> IF h = 0 THEN lo ELSE Wrap(lo + Radix)]
LeftBy(p, t, second) == Corrected(t, Wrap(second.hi + p.hi - Radix), second.lo)
WithEstimate(p, t) == LeftBy(p, t, Plus(MulWords(t, Radix), p.lo))
DivRadix(p) ==
  LET up == IF 2 * p.lo >= W THEN 1 ELSE 0
      first == Plus(MulWords(MPrime, Wrap(p.hi + up)),
                    Wrap(p.lo + up * Radix))
  IN WithEstimate(p, UintMax - Wrap(first.hi + p.hi))
AsWords(x) == <<x.r, x.q>>
SingleMul(u, v) == AsWords(DivRadix(MulWords(u, v)))

\* _mpd_divmod_pow10
DivPow10(v, exp) == [q |-> v \div Pow10[exp], r |-> v % Pow10[exp]]
IsAllZero(u) == \A i \in DOMAIN u : u[i] = 0
IsAllNine(u) == \A i \in DOMAIN u : u[i] = Radix - 1

\* A loop over n words that hands a carry on: Step(i, carry) gives the word
\* with index i and the next carry.
Sweep(Step(_, _), carry, n) ==
  LET s[i \in 0..n] ==
        IF i = 0 THEN [w |-> <<>>, carry |-> carry]
        ELSE LET prev == s[i - 1]
                 next == Step(i, prev.carry)
             IN [w |-> Append(prev.w, next.w), carry |-> next.carry]
  IN s[n]

------------------------------------------------------------------------------
(* Sums and differences.                                                    *)

\* Mutant: a sum that overflowed the word is not noticed.
AddWordNoWrap(u, v, carry) ==
  LET s == Wrap(u + Wrap(v + carry))
      c == IF s >= Radix THEN 1 ELSE 0
  IN [w |-> IF c = 1 THEN Wrap(s - Radix) ELSE s, carry |-> c]
AddWord(u, v, carry) ==
  LET s == Wrap(u + Wrap(v + carry))
      c == IF s < u \/ s >= Radix THEN 1 ELSE 0
  IN [w |-> IF c = 1 THEN Wrap(s - Radix) ELSE s, carry |-> c]
Incr(u, carry) ==
  IF u + carry = Radix THEN [w |-> 0, carry |-> 1]
  ELSE [w |-> u + carry, carry |-> 0]
SubWord(u, v, borrow) ==
  LET d == Wrap(u - Wrap(v + borrow))
      b == IF u < d THEN 1 ELSE 0
  IN [w |-> IF b = 1 THEN Wrap(d + Radix) ELSE d, carry |-> b]
Decr(u, borrow) ==
  IF borrow = 1 /\ u = 0 THEN [w |-> Radix - 1, carry |-> 1]
  ELSE [w |-> u - borrow, carry |-> 0]

\* _mpd_baseadd; _mpd_shortadd with one word, _mpd_baseincr with none and a
\* carry.
BaseAddFrom(u, v, carry) ==
  Sweep(LAMBDA i, c : IF i <= Len(v) THEN AddWord(u[i], v[i], c)
                      ELSE Incr(u[i], c), carry, Len(u))
BaseAdd(u, v) == BaseAddFrom(u, v, 0)
ShortAdd(w, v) == BaseAdd(w, <<v>>)
BaseIncr(u) == BaseAddFrom(u, <<>>, 1)
\* _mpd_basesub, of the larger number
BaseSub(u, v) ==
  Sweep(LAMBDA i, b : IF i <= Len(v) THEN SubWord(u[i], v[i], b)
                      ELSE Decr(u[i], b), 0, Len(u))
\* _mpd_baseaddto and _mpd_basesubfrom, to the part of a from off on
AddTo(a, off, u) == Put(a, off, BaseAdd(SubSeq(a, off + 1, Len(a)), u).w)
SubFrom(a, off, u) == Put(a, off, BaseSub(SubSeq(a, off + 1, Len(a)), u).w)

------------------------------------------------------------------------------
(* Products and quotients.                                                  *)

FromDivision(x) == [w |-> x.r, carry |-> x.q]
AndCarry(x) == Append(x.w, x.carry)
\* _mpd_shortmul, and _mpd_shortmul_c that returns the last carry
ShortMulC(u, v) ==
  Sweep(LAMBDA i, c : FromDivision(DivRadix(Plus(MulWords(u[i], v), c))),
        0, Len(u))
ShortMul(u, v) == AndCarry(ShortMulC(u, v))
\* _mpd_shortmul_b
ShortMulB(u, v, b) ==
  Sweep(LAMBDA i, c : FromDivision(DivWords(Plus(MulWords(u[i], v), c), b)),
        0, Len(u))
\* _mpd_shortadd_b
ShortAddB(w, v, b) ==
  LET First(s) == [w |-> IF s < v \/ s >= b THEN Wrap(s - b) ELSE s,
                   carry |-> IF s < v \/ s >= b THEN 1 ELSE 0]
      Later(s) == [w |-> IF s = b THEN 0 ELSE s,
                   carry |-> IF s = b THEN 1 ELSE 0]
  IN Sweep(LAMBDA i, c : IF i = 1 THEN First(Wrap(w[1] + v))
                         ELSE Later(w[i] + c), 0, Len(w))

\* _mpd_basemul: row j adds v[j] times u to w.
MulRow(w, u, v, j) ==
  Put(w, j, AndCarry(Sweep(LAMBDA i, c :
    FromDivision(DivRadix(Plus(Plus(MulWords(u[i], v), w[i + j]), c))),
    0, Len(u))))
BaseMul(u, v) ==
  LET rows[j \in 0..Len(v)] ==
        IF j = 0 THEN Zeroed(Len(u) + Len(v))
        ELSE MulRow(rows[j - 1], u, v[j], j - 1)
  IN rows[Len(v)]

\* _mpd_mul_2_le2: the rows of two words, one after the other
Mul2le2(u, v) ==
  IF Len(v) = 1 THEN ShortMul(u, v[1])
  ELSE MulRow(Append(ShortMul(u, v[1]), 0), u, v[2], 1)

\* _mpd_shortdiv_b, which is _mpd_shortdiv for the radix: from the top.
Upwards(x) == [w |-> Reverse(x.w), rem |-> x.carry]
ShortDivB(u, v, b) ==
  Upwards(Sweep(LAMBDA i, rem :
    LET d == DivWords(Plus(MulWords(rem, b), u[Len(u) + 1 - i]), v)
    IN [w |-> d.q, carry |-> d.r], 0, Len(u)))
ShortDiv(u, v) == ShortDivB(u, v, Radix)

------------------------------------------------------------------------------
(* _mpd_basedivmod.                                                         *)

\* D3: the estimate is lowered until the next word agrees.
RECURSIVE Lowered(_, _, _, _, _)
Lowered(qhat, rhat, v1, v2, next) ==
  LET w2 == SingleMul(qhat, v2)
      r == Wrap(rhat + v1)
  IN IF /\ qhat < Radix
        /\ w2[2] < rhat \/ (w2[2] = rhat /\ w2[1] <= next)
     THEN qhat
     ELSE IF r < v1 \/ r >= Radix THEN qhat - 1
     ELSE Lowered(qhat - 1, r, v1, v2, next)
LoweredFrom(top, v1, v2, next) ==
  Lowered(Wrap(top.w[2] * Radix + top.w[1]), top.rem, v1, v2, next)
Estimate(u, v, n, j) ==
  LoweredFrom(ShortDiv(Slice(u, j + n - 1, 2), v[n]), v[n], v[n - 1],
              u[j + n - 1])

\* D4: qhat times v is taken off; the carry is what is missing.
SubProduct(u, p) ==
  LET s == SubWord(u, p.r, 0) IN [w |-> s.w, carry |-> s.carry + p.q]
MulSub(u, v, n, j, qhat) ==
  Sweep(LAMBDA i, c :
    SubProduct(u[i + j], DivRadix(Plus(MulWords(qhat, v[i]), c))), 0, n + 1)

\* Mutant: D6, the step for the rare estimate that is one too large still,
\* is left out.
DivDigitNoAddBack(u, v, n, j) ==
  LET qhat == Estimate(u, v, n, j)
  IN [u |-> Put(u, j, MulSub(u, v, n, j, qhat).w), q |-> qhat]
AddedBack(u, v, n, j, qhat, x) ==
  IF x.carry = 0 THEN [u |-> Put(u, j, x.w), q |-> qhat]
  ELSE [u |-> Put(u, j, BaseAdd(x.w, Slice(v, 0, n)).w), q |-> qhat - 1]
DivDigit(u, v, n, j) ==
  LET qhat == Estimate(u, v, n, j)
  IN AddedBack(u, v, n, j, qhat, MulSub(u, v, n, j, qhat))

\* D2 to D7: the digits of the quotient, and what is left of u.
DivDigits(u, v, n, m) ==
  LET More(x, q) == [u |-> x.u, q |-> <<x.q>> \o q]
      Next(x, j) == More(DivDigit(x.u, v, n, j), x.q)
      loop[k \in 0..(m + 1)] ==
        IF k = 0 THEN [u |-> u, q |-> <<>>]
        ELSE Next(loop[k - 1], m - (k - 1))
  IN loop[m + 1]
BaseDivMod(uconst, vconst) ==
  LET n == Len(vconst)
      d == Radix \div (vconst[n] + 1)
      \* D8
      Unscaled(x) == [q |-> x.q, r |-> ShortDiv(Slice(x.u, 0, n), d).w]
  IN Unscaled(DivDigits(ShortMul(uconst, d), ShortMul(vconst, d), n,
                        Len(uconst) - n))

------------------------------------------------------------------------------
(* Shifts by decimal digits.                                                *)

\* _mpd_baseshiftl
BaseShiftL(src, shift) ==
  LET q == shift \div RDigits
      r == shift % RDigits
      Part(i) == DivPow10(src[i], RDigits - r)
      top == Part(Len(src)).q
      Shifted(i) == Pow10[r] * Part(i).r + (IF i = 1 THEN 0 ELSE Part(i - 1).q)
  IN IF r = 0 THEN Zeroed(q) \o src
     ELSE Zeroed(q) \o Array(Len(src), LAMBDA i : Shifted(i + 1))
          \o (IF top # 0 THEN <<top>> ELSE <<>>)

\* _mpd_baseshiftr: the words that are left, and the rounding indicator.
BaseShiftR(src, shift) ==
  LET q == shift \div RDigits
      r == shift % RDigits
      Part(i) == DivPow10(src[i], r)
      cut == IF r # 0 THEN DivPow10(Part(q + 1).r, r - 1)
             ELSE IF q > 0 THEN DivPow10(src[q], RDigits - 1)
             ELSE [q |-> 0, r |-> 0]
      below == Slice(src, 0, IF r # 0 THEN q ELSE Max({q - 1, 0}))
      kept == Len(src) - q
      Word(i) == Pow10[RDigits - r] * Part(q + i + 1).r + Part(q + i).q
      last == Part(Len(src)).q
  IN [w |-> IF r = 0 THEN SubSeq(src, q + 1, Len(src))
            ELSE Array(kept - 1, LAMBDA i : Word(i + 1))
                 \o (IF last # 0 THEN <<last>> ELSE <<>>),
      rnd |-> Indicator(cut.q, IF IsAllZero(below) THEN cut.r ELSE 1)]
==============================================================================
