------------------------------- MODULE MpdExact ------------------------------
(***************************************************************************)
(* Exact results and what rounding one of them once means: the rules that  *)
(* mpdecimal.h states for each rounding mode, and the flags that say what  *)
(* was lost.  An exact result is a sign and a fraction n/d times a power   *)
(* of ten, computed without any of the library's own steps.                *)
(***************************************************************************)
EXTENDS MpdArith

Magnitude(n) == IF n < 0 THEN -n ELSE n
Exactly(s, n, d, e) == [s |-> s, n |-> n, d |-> d, e |-> e]
\* The exact number in units of 10^q, as a quotient.
Num(x, q) == x.n * (IF x.e > q THEN Pow10[x.e - q] ELSE 1)
Den(x, q) == x.d * (IF q > x.e THEN Pow10[q - x.e] ELSE 1)
\* The exponent of its first digit.
Leading(x) ==
  LET p == Digits(x.n) - Digits(x.d) + x.e
  IN IF Num(x, p) >= Den(x, p) THEN p ELSE p - 1

\* The comments on the rounding modes in mpdecimal.h, for a number between
\* low and low + 1 with rest above low, of whole.
AwayFromZero(mode, s, low, rest, whole) ==
  /\ rest # 0
  /\ \/ mode = "ROUND_UP"
     \/ mode = "ROUND_CEILING" /\ s = 0
     \/ mode = "ROUND_FLOOR" /\ s = 1
     \/ mode = "ROUND_HALF_UP" /\ 2 * rest >= whole
     \/ mode = "ROUND_HALF_DOWN" /\ 2 * rest > whole
     \/ mode = "ROUND_HALF_EVEN" /\ 2 * rest + (low % 2) > whole
     \/ mode = "ROUND_05UP" /\ low % 5 = 0

\* x in units of 10^q, rounded.
RoundAt(x, q, mode) ==
  LET low == Num(x, q) \div Den(x, q)
      rest == Num(x, q) % Den(x, q)
  IN [n |-> IF AwayFromZero(mode, x.s, low, rest, Den(x, q))
            THEN low + 1 ELSE low,
      exact |-> rest = 0]

\* The exponent of the last digit that the context has for x.
LastPlace(x, ctx) == Max({Leading(x) - ctx.prec + 1, Etiny(ctx)})

SameNumber(d, n, q) ==
  /\ d.k = "fin"
  /\ d.c * Pow10[Max({d.e - q, 0})] = n * Pow10[Max({q - d.e, 0})]

\* The largest number where the mode does not lead to infinity.
EndsAtLargest(s, ctx) ==
  \/ ctx.round \in {"ROUND_DOWN", "ROUND_05UP"}
  \/ ctx.round = (IF s = 1 THEN "ROUND_CEILING" ELSE "ROUND_FLOOR")

\* r is x as the context has it, with the flags that say so.
IsRounded(r, x, ctx) ==
  LET q == LastPlace(x, ctx)
      at == RoundAt(x, q, ctx.round)
      small == Leading(x) < ctx.emin
  IN IF x.n = 0 THEN IsZero(r.d)
     ELSE IF Digits(at.n) + q - 1 > ctx.emax THEN
       /\ r.st = {"Overflow", "Inexact", "Rounded"}
       /\ r.d = IF EndsAtLargest(x.s, ctx)
                THEN Fin(x.s, MaxCoeff(ctx), Etop(ctx)) ELSE Inf(x.s)
     ELSE
       /\ SameNumber(r.d, at.n, q) /\ r.d.s = x.s
       /\ ("Inexact" \in r.st) = ~at.exact
       /\ ("Subnormal" \in r.st) = small
       /\ ("Underflow" \in r.st) = (small /\ ~at.exact)
       /\ "Overflow" \notin r.st

\* A number has its place in the context.
Fits(d, ctx) ==
  d.k = "fin" =>
    /\ Digits(d.c) <= ctx.prec /\ d.e >= Etiny(ctx)
    /\ AdjExp(d) <= ctx.emax
    /\ (ctx.clamp = 1 => d.e <= Etop(ctx))

------------------------------------------------------------------------------
(* The exact results.                                                       *)

Itself(a) == Exactly(a.s, a.c, 1, a.e)
Signed(a, e) == ArithSign(a) * a.c * Pow10[a.e - e]
SumOf(a, b) ==
  LET e == Min({a.e, b.e})
      n == Signed(a, e) + Signed(b, e)
  IN Exactly(IF n < 0 THEN 1 ELSE 0, Magnitude(n), 1, e)
ProductOf(a, b) == Exactly(Xor(a.s, b.s), a.c * b.c, 1, a.e + b.e)
QuotientOf(a, b) == Exactly(Xor(a.s, b.s), a.c, b.c, a.e - b.e)

------------------------------------------------------------------------------
(* Remainders.                                                              *)

\* r lies at a distance of a whole number of b from a; Whole is that number.
Unit(a, b) == Min({a.e, b.e})
WholeTimes(a, b, r) ==
  LET e == Min({Unit(a, b), r.e})
      apart == Signed(a, e) - Signed(r, e)
      step == Signed(b, e)
  IN Magnitude(apart) % Magnitude(step) = 0
Whole(a, b, r) ==
  LET e == Min({Unit(a, b), r.e})
  IN Magnitude(Signed(a, e) - Signed(r, e)) \div Magnitude(Signed(b, e))
Doubled(r) == [r EXCEPT !.c = 2 * @]

------------------------------------------------------------------------------
(* Neighbours.                                                              *)

\* The number of the context that follows a away from zero, on side s.
Ulp(a, ctx) == Max({AdjExp(a) - ctx.prec + 1, Etiny(ctx)})
Outward(a, s, ctx) ==
  LET e == IF a.c = 0 THEN Etiny(ctx) ELSE Ulp(a, ctx)
  IN IF CmpAbs(a, Fin(0, MaxCoeff(ctx), Etop(ctx))) = 0 THEN Inf(s)
     ELSE Fin(s, (IF a.e >= e THEN a.c * Pow10[a.e - e]
                  ELSE a.c \div Pow10[e - a.e]) + 1, e)

\* One of two numbers of the context follows the other.
Neighbours(a, r, ctx) ==
  IF CmpAbs(a, r) < 0 THEN Cmp(Outward(a, r.s, ctx), r) = 0
  ELSE Cmp(Outward(r, a.s, ctx), a) = 0
==============================================================================
