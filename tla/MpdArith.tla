------------------------------- MODULE MpdArith ------------------------------
(***************************************************************************)
(* The arithmetic of libmpdec (mpdecimal.c): sums, products, quotients,    *)
(* remainders, neighbours, rescaling and roots.  An operation that mpd_q*  *)
(* ends with mpd_qfinalize is what it computes, exactly or with a guard    *)
(* digit that shows what was cut off, put through Finalize.                *)
(***************************************************************************)
EXTENDS MpdNumber

CONSTANTS
  MaxPrec, \* MPD_MAX_PREC
  MaxEmax, \* MPD_MAX_EMAX
  MinEmin  \* MPD_MIN_EMIN

ASSUME LimitsAssumption ==
  /\ MaxPrec \in Nat \ {0} /\ MaxEmax \in Nat /\ MinEmin \in -MaxEmax..0
  /\ MaxPrec <= MaxEmax + 1
  /\ UintMax < Pow10[MaxPrec] \* a word fits the largest precision

Errors ==
  {"Conversion_syntax", "Division_by_zero", "Division_impossible",
   "Division_undefined", "Fpu_error", "Invalid_context",
   "Invalid_operation", "Malloc_error"}
IEEEInvalid ==
  {"Conversion_syntax", "Division_impossible", "Division_undefined",
   "Fpu_error", "Invalid_context", "Invalid_operation", "Malloc_error"}
\* The bits of mpd_context_t.status.
Conditions ==
  Errors \cup {"Clamped", "Inexact", "Not_implemented", "Overflow", "Rounded",
              "Subnormal", "Underflow"}

\* mpd_maxcontext
MaxCtx == [prec |-> MaxPrec, emax |-> MaxEmax, emin |-> MinEmin,
           round |-> "ROUND_HALF_EVEN", clamp |-> 0]
MinEtiny == MinEmin - (MaxPrec - 1)
\* MPD_EXP_INF and MPD_EXP_CLAMP: exponents no precision brings back
ExpInf == 2 * MaxEmax + 3
ExpClamp == 1 - 2 * ExpInf
One == Fin(0, 1, 0)
Two == Fin(0, 2, 0)
Xor(s, t) == IF s = t THEN 0 ELSE 1

------------------------------------------------------------------------------
(* Sums.                                                                    *)

\* Mutant: the stand-in is put where it reaches the rounding digit.
TinyTooBig(small, big, ctx) ==
  LET exp == big.e + Digits(big.c) - ctx.prec - 1
  IN IF small.e < big.e /\ big.c # 0 /\ AdjExp(small) < exp
     THEN Fin(small.s, IF small.c = 0 THEN 0 ELSE 1, exp) ELSE small

\* The operand with the smaller exponent, or one digit in the place of all
\* of it where it is too small to reach the guard digits of the other.
Tiny(small, big, ctx) ==
  LET exp == big.e - 1
             + IF Digits(big.c) > ctx.prec THEN 0
               ELSE Digits(big.c) - ctx.prec - 1
  IN IF small.e < big.e /\ big.c # 0 /\ AdjExp(small) < exp
     THEN Fin(small.s, IF small.c = 0 THEN 0 ELSE 1, exp) ELSE small

\* _mpd_qaddsub: b counts with the sign of the operation in it.
SignedSum(s, cx, t, cy, exp, ctx) ==
  IF s = t THEN Fin(t, cx + cy, exp)
  ELSE IF cx = cy THEN Fin(IF ctx.round = "ROUND_FLOOR" THEN 1 ELSE 0, 0, exp)
  ELSE IF cx > cy THEN Fin(s, cx - cy, exp)
  ELSE Fin(t, cy - cx, exp)
AddAligned(x, y, ctx) ==
  LET exp == Min({x.e, y.e})
  IN SignedSum(x.s, ShiftL(x.c, x.e - exp), y.s, ShiftL(y.c, y.e - exp), exp,
               ctx)
AddSub(a, b, ctx) == AddAligned(Tiny(a, b, ctx), Tiny(b, a, ctx), ctx)

\* _mpd_qaddsub_inf
AddSubInf(a, b) ==
  IF IsInf(a) /\ IsInf(b) /\ a.s # b.s THEN Invalid
  ELSE Result(Inf(IF IsInf(a) THEN a.s ELSE b.s), {})

AddSigned(a, b, ctx) ==
  IF IsSpecial(a) \/ IsSpecial(b) THEN AddSubInf(a, b)
  ELSE Finalize(AddSub(a, b, ctx), ctx)

\* mpd_qadd and mpd_qsub
QAdd(a, b, ctx) ==
  IF AnyNaN(<<a, b>>) THEN CheckNaNs(<<a, b>>, ctx)
  ELSE AddSigned(a, b, ctx)
QSub(a, b, ctx) ==
  IF AnyNaN(<<a, b>>) THEN CheckNaNs(<<a, b>>, ctx)
  ELSE AddSigned(a, Negate(b), ctx)

\* _mpd_qadd_exact, _mpd_qsub_exact and _mpd_qmul_exact
Exact(r) ==
  IF r.st \cap {"Inexact", "Rounded", "Clamped"} # {}
  THEN Also(r.st, Invalid) ELSE r

------------------------------------------------------------------------------
(* Products.                                                                *)

\* _mpd_qmul_inf
MulInf(a, b) ==
  IF IsZero(a) \/ IsZero(b) THEN Invalid
  ELSE Result(Inf(Xor(a.s, b.s)), {})

\* _mpd_qmul, not finalized
Mul(a, b, ctx) ==
  IF AnyNaN(<<a, b>>) THEN CheckNaNs(<<a, b>>, ctx)
  ELSE IF IsSpecial(a) \/ IsSpecial(b) THEN MulInf(a, b)
  ELSE Result(Fin(Xor(a.s, b.s), a.c * b.c, a.e + b.e), {})

Finalized(r, ctx) == Also(r.st, Finalize(r.d, ctx))
\* mpd_qmul
QMul(a, b, ctx) == Finalized(Mul(a, b, ctx), ctx)

\* mpd_qfma: one rounding, of the sum.
PlusThird(product, c, ctx) ==
  IF "Invalid_operation" \in product.st THEN product
  ELSE Also(product.st, QAdd(product.d, c, ctx))
QFma(a, b, c, ctx) == PlusThird(Mul(a, b, ctx), c, ctx)

------------------------------------------------------------------------------
(* Quotients.                                                               *)

\* _mpd_qdiv_inf
DivInf(a, b, ctx) ==
  IF IsInf(a) /\ IsInf(b) THEN Invalid
  ELSE IF IsInf(a) THEN Result(Inf(Xor(a.s, b.s)), {})
  ELSE Result(Fin(Xor(a.s, b.s), 0, Etiny(ctx)), {"Clamped"})

\* Mutant: the remainder of a quotient ending in 0 or 5 is forgotten.
DivCoeffNoSticky(a, b, ctx) ==
  LET shift == Digits(b.c) - Digits(a.c) + ctx.prec + 1
      n == IF shift > 0 THEN ShiftL(a.c, shift) ELSE a.c
      d == IF shift < 0 THEN ShiftL(b.c, -shift) ELSE b.c
  IN [c |-> n \div d, e |-> a.e - b.e - shift]

\* The coefficient with a digit more than the precision, and the exponent;
\* an exact quotient drops its zeros until it has the exponent of a / b.
Quotient(q, exact, e, shift) ==
  LET drop == Min({TrailZeros(q), shift})
  IN IF ~exact THEN [c |-> IF q % 10 \in {0, 5} THEN q + 1 ELSE q, e |-> e]
     ELSE IF shift > 0 THEN [c |-> q \div Pow10[drop], e |-> e + drop]
     ELSE [c |-> q, e |-> e]
DivCoeff(a, b, ctx) ==
  LET shift == Digits(b.c) - Digits(a.c) + ctx.prec + 1
      n == IF shift > 0 THEN ShiftL(a.c, shift) ELSE a.c
      d == IF shift < 0 THEN ShiftL(b.c, -shift) ELSE b.c
  IN Quotient(n \div d, n % d = 0, a.e - b.e - shift, shift)

\* mpd_qdiv
WithSign(sign, q) == Fin(sign, q.c, q.e)
QDiv(a, b, ctx) ==
  LET sign == Xor(a.s, b.s)
  IN IF AnyNaN(<<a, b>>) THEN CheckNaNs(<<a, b>>, ctx)
     ELSE IF IsSpecial(a) \/ IsSpecial(b) THEN DivInf(a, b, ctx)
     ELSE IF b.c = 0 /\ a.c = 0 THEN SetError("Division_undefined")
     ELSE IF b.c = 0 THEN Result(Inf(sign), {"Division_by_zero"})
     ELSE Finalize(IF a.c = 0 THEN Fin(sign, 0, a.e - b.e)
                   ELSE WithSign(sign, DivCoeff(a, b, ctx)), ctx)

Pair(q, r, st) == [q |-> q, r |-> r, st |-> st]
NaNPair(st) == Pair(QNaN, QNaN, st)

\* _mpd_qdivmod, of numbers, b not zero
DivMod(a, b, ctx) ==
  LET sign == Xor(a.s, b.s)
      ideal == Min({a.e, b.e})
      diff == AdjExp(a) - AdjExp(b)
      n == ShiftL(a.c, a.e - ideal)
      d == ShiftL(b.c, b.e - ideal)
      q == n \div d
  IN IF a.c = 0 THEN Pair(Fin(sign, 0, 0), Fin(a.s, 0, ideal), {})
     ELSE IF diff < 0 THEN
       Pair(Fin(sign, 0, 0), Fin(a.s, n, ideal), {})
     ELSE IF diff > ctx.prec THEN NaNPair({"Division_impossible"})
     ELSE IF Digits(q) > ctx.prec THEN NaNPair({"Division_impossible"})
     ELSE Pair(Fin(sign, q, 0), Fin(a.s, n % d, ideal), {})

\* mpd_qdivmod
PairOf(q, r, st) == Pair(q.d, r.d, q.st \cup r.st \cup st)
Both(r) == PairOf(r, r, {})
FinalizedPair(qr, ctx) ==
  PairOf(Finalize(qr.q, ctx), Finalize(qr.r, ctx), qr.st)
QDivMod(a, b, ctx) ==
  LET sign == Xor(a.s, b.s)
  IN IF AnyNaN(<<a, b>>) THEN Both(CheckNaNs(<<a, b>>, ctx))
     ELSE IF IsInf(a) THEN
       Pair(IF IsInf(b) THEN QNaN ELSE Inf(sign), QNaN,
            {"Invalid_operation"})
     ELSE IF IsInf(b)
     THEN PairOf(Result(Fin(sign, 0, 0), {}), Finalize(a, ctx), {})
     ELSE IF b.c = 0 /\ a.c = 0 THEN NaNPair({"Division_undefined"})
     ELSE IF b.c = 0 THEN
       Pair(Inf(sign), QNaN, {"Division_by_zero", "Invalid_operation"})
     ELSE FinalizedPair(DivMod(a, b, ctx), ctx)

\* mpd_qdivint
FinalizedPart(qr, part, ctx) == Also(qr.st, Finalize(part, ctx))
QuotientPart(qr, ctx) == FinalizedPart(qr, qr.q, ctx)
QDivInt(a, b, ctx) ==
  LET sign == Xor(a.s, b.s)
  IN IF AnyNaN(<<a, b>>) THEN CheckNaNs(<<a, b>>, ctx)
     ELSE IF IsInf(a) /\ IsInf(b) THEN Invalid
     ELSE IF IsInf(a) THEN Result(Inf(sign), {})
     ELSE IF IsInf(b) THEN Result(Fin(sign, 0, 0), {})
     ELSE IF b.c = 0 /\ a.c = 0 THEN SetError("Division_undefined")
     ELSE IF b.c = 0 THEN Result(Inf(sign), {"Division_by_zero"})
     ELSE QuotientPart(DivMod(a, b, ctx), ctx)

\* What mpd_qrem and mpd_qrem_near do before they divide.
RemSpecial(a, b, ctx) ==
  IF AnyNaN(<<a, b>>) THEN CheckNaNs(<<a, b>>, ctx)
  ELSE IF IsInf(a) THEN Invalid
  ELSE IF IsInf(b) THEN Finalize(a, ctx)
  ELSE IF a.c = 0 THEN SetError("Division_undefined") ELSE Invalid
NeedsRemSpecial(a, b) == IsSpecial(a) \/ IsSpecial(b) \/ b.c = 0

\* mpd_qrem
RemainderPart(qr, ctx) == FinalizedPart(qr, qr.r, ctx)
QRem(a, b, ctx) ==
  IF NeedsRemSpecial(a, b) THEN RemSpecial(a, b, ctx)
  ELSE RemainderPart(DivMod(a, b, ctx), ctx)

\* Mutant: a remainder of just half the divisor is always kept.
OtherIsNearerKeepsHalf(near, q) == near < 0
\* near compares the remainder on the other side with the one found.
OtherIsNearer(near, q) == near < 0 \/ (near = 0 /\ IsOdd(q))
\* mpd_qrem_near: the remainder on the other side if that is nearer, or as
\* near and the quotient odd.
Nearer(b, qr, other, ctx) ==
  LET diff == AdjExp(b) - AdjExp(qr.r)
      over == OtherIsNearer(CmpAbs(other, qr.r), qr.q)
  IN IF IsNaN(qr.r) \/ qr.r.c = 0 \/ diff \notin -1..1 \/ ~over
     THEN FinalizedPart(qr, qr.r, ctx)
     ELSE IF CoeffIsAllNine(qr.q.c) /\ Digits(qr.q.c) = ctx.prec
     THEN SetError("Division_impossible")
     ELSE FinalizedPart(qr, other, ctx)
NearerSide(b, qr, towards, ctx) ==
  Nearer(b, qr, AddSub(qr.r, towards, MaxCtx), ctx)
QRemNear(a, b, ctx) ==
  IF NeedsRemSpecial(a, b) THEN RemSpecial(a, b, ctx)
  ELSE NearerSide(b, DivMod(a, b, ctx), IF a.s = b.s THEN Negate(b) ELSE b,
                  ctx)

------------------------------------------------------------------------------
(* Signs, extremes and neighbours.                                          *)

\* mpd_qminus and mpd_qplus: a zero is positive, unless rounding down.
QMinus(a, ctx) ==
  IF IsNaN(a) THEN CheckNaNs(<<a>>, ctx)
  ELSE Finalize(IF IsZero(a) /\ ctx.round # "ROUND_FLOOR" THEN CopyAbs(a)
                ELSE Negate(a), ctx)
QPlus(a, ctx) ==
  IF IsNaN(a) THEN CheckNaNs(<<a>>, ctx)
  ELSE Finalize(IF IsZero(a) /\ ctx.round # "ROUND_FLOOR" THEN CopyAbs(a)
                ELSE a, ctx)
\* mpd_qabs
QAbs(a, ctx) == IF a.s = 1 THEN QMinus(a, ctx) ELSE QPlus(a, ctx)

\* mpd_qmax, mpd_qmin and their _mag forms: a quiet NaN gives way to a
\* number; c orders the operands.
Chosen(a, b, c) ==
  IF IsNaN(a) THEN b ELSE IF IsNaN(b) THEN a ELSE IF c < 0 THEN b ELSE a
Extreme(a, b, c, ctx) ==
  IF \/ IsNaN(a) /\ IsNaN(b)
     \/ "snan" \in {a.k, b.k}
  THEN CheckNaNs(<<a, b>>, ctx) ELSE Finalize(Chosen(a, b, c), ctx)
Ordered(a, b, c) == IF c = 0 THEN CmpNumEqual(a, b) ELSE c
QMax(a, b, ctx) == Extreme(a, b, Ordered(a, b, Cmp(a, b)), ctx)
QMaxMag(a, b, ctx) == Extreme(a, b, Ordered(a, b, CmpAbs(a, b)), ctx)
\* The smaller is the second where the first is not below it.
SmallerFirst(c) == IF c < 0 THEN 1 ELSE -1
QMin(a, b, ctx) == Extreme(a, b, SmallerFirst(Ordered(a, b, Cmp(a, b))), ctx)
QMinMag(a, b, ctx) ==
  Extreme(a, b, SmallerFirst(Ordered(a, b, CmpAbs(a, b))), ctx)

\* mpd_workcontext keeps the limits and takes off the traps and the status.
Rounding(ctx, mode) == [ctx EXCEPT !.round = mode]

\* mpd_qnext_minus and mpd_qnext_plus: sub below zero, a step less than any.
TinyStep(sub, ctx) == Fin(sub, 1, Etiny(ctx) - 1)
OnlyErrors(r) == Result(r.d, r.st \cap Errors)
FittedOr(fitted, step) ==
  OnlyErrors(IF fitted.st \cap ({"Inexact"} \cup Errors) # {} THEN fitted
             ELSE step)
Next1(a, sub, ctx) ==
  LET work == Rounding(ctx, IF sub = 1 THEN "ROUND_FLOOR"
                            ELSE "ROUND_CEILING")
  IN IF IsNaN(a) THEN CheckNaNs(<<a>>, ctx)
     ELSE IF IsInf(a) /\ a.s = sub THEN Result(a, {})
     ELSE IF IsInf(a) THEN Result(Fin(a.s, MaxCoeff(ctx), Etop(ctx)), {})
     ELSE FittedOr(Finalize(a, work), QAdd(a, TinyStep(sub, ctx), work))
QNextMinus(a, ctx) == Next1(a, 1, ctx)
QNextPlus(a, ctx) == Next1(a, 0, ctx)

\* mpd_qnext_toward
Reached(r, ctx) ==
  IF IsInf(r.d) THEN Also({"Overflow", "Rounded", "Inexact"}, r)
  ELSE IF AdjExp(r.d) < ctx.emin
  THEN Also({"Underflow", "Subnormal", "Rounded", "Inexact"}
            \cup (IF IsZero(r.d) THEN {"Clamped"} ELSE {}), r)
  ELSE r
QNextToward(a, b, ctx) ==
  IF AnyNaN(<<a, b>>) THEN CheckNaNs(<<a, b>>, ctx)
  ELSE IF Cmp(a, b) = 0 THEN Result(CopySign(a, b), {})
  ELSE Reached(Next1(a, IF Cmp(a, b) < 0 THEN 0 ELSE 1, ctx), ctx)

------------------------------------------------------------------------------
(* Rescaling.                                                               *)

\* mpd_qquantize
InRange(r, ctx) ==
  IF \/ IsNaN(r.d)
     \/ AdjExp(r.d) > ctx.emax
     \/ AdjExp(r.d) < Etiny(ctx)
  THEN Invalid ELSE Finalized(r, ctx)
FitCut(s, cut, exp, ctx) ==
  Also({"Rounded"} \cup (IF cut.rnd # 0 THEN {"Inexact"} ELSE {}),
       ApplyRoundFit(Fin(s, cut.c, exp), cut.rnd, ctx))
QQuantize(a, b, ctx) ==
  LET diff == a.e - b.e
  IN IF AnyNaN(<<a, b>>) THEN CheckNaNs(<<a, b>>, ctx)
     ELSE IF IsInf(a) /\ IsInf(b) THEN Result(a, {})
     ELSE IF IsInf(a) \/ IsInf(b) THEN Invalid
     ELSE IF b.e > ctx.emax \/ b.e < Etiny(ctx) THEN Invalid
     ELSE IF a.c = 0 THEN Finalize(Fin(a.s, 0, b.e), ctx)
     ELSE IF Digits(a.c) + diff > ctx.prec THEN Invalid
     ELSE InRange(IF diff >= 0
                  THEN Result(Fin(a.s, ShiftL(a.c, diff), b.e), {})
                  ELSE FitCut(a.s, ShiftR(a.c, -diff), b.e, ctx), ctx)

\* Mutant: the exponent may leave its range.
ZerosToDropUnbounded(c, room) == TrailZeros(c)
ZerosToDrop(c, room) == Min({TrailZeros(c), room})
\* mpd_qreduce
Reduced(r, top) ==
  LET shift == ZerosToDrop(r.d.c, top - r.d.e)
  IN IF IsSpecial(r.d) THEN r
     ELSE IF r.d.c = 0 THEN Result(Fin(r.d.s, 0, 0), r.st)
     ELSE Result(Fin(r.d.s, r.d.c \div Pow10[shift], r.d.e + shift), r.st)
QReduce(a, ctx) ==
  IF IsNaN(a) THEN CheckNaNs(<<a>>, ctx)
  ELSE IF IsInf(a) THEN Result(a, {})
  ELSE Reduced(Finalize(a, ctx),
               IF ctx.clamp = 1 THEN Etop(ctx) ELSE ctx.emax)

\* _mpd_qrescale: any exponent, the precision is not regarded.
ExcessCut(s, cut, exp, ctx) ==
  Result(ApplyRoundExcess(Fin(s, cut.c, exp), cut.rnd, ctx),
         {"Rounded"} \cup IF cut.rnd # 0 THEN {"Inexact"} ELSE {})
NotingSubnormal(r, ctx) ==
  Also(IF IsSubnormal(r.d, ctx) THEN {"Subnormal"} ELSE {}, r)
Rescale(a, exp, ctx) ==
  LET diff == a.e - exp
  IN IF IsSpecial(a) THEN Result(a, {})
     ELSE IF a.c = 0 THEN Result(Fin(a.s, 0, exp), {})
     ELSE IF diff >= 0 /\ Digits(a.c) + diff > MaxPrec + 1 THEN Invalid
     ELSE NotingSubnormal(
            IF diff >= 0 THEN Result(Fin(a.s, ShiftL(a.c, diff), exp), {})
            ELSE ExcessCut(a.s, ShiftR(a.c, -diff), exp, ctx), ctx)
\* mpd_qrescale and mpd_qrescale_fmt
QRescale(a, exp, ctx) ==
  IF exp > MaxEmax + 1 \/ exp < MinEtiny THEN Invalid
  ELSE Rescale(a, exp, ctx)
QRescaleFmt(a, exp, ctx) ==
  IF exp > MaxEmax + 1 \/ exp < MinEtiny - MaxPrec THEN Invalid
  ELSE Rescale(a, exp, ctx)

\* _mpd_qround_to_integral
RoundToIntegral(action, a, ctx) ==
  LET cut == ShiftR(a.c, -a.e)
      d == Fin(a.s, cut.c, 0)
  IN IF IsNaN(a) THEN CheckNaNs(<<a>>, ctx)
     ELSE IF IsInf(a) \/ a.e >= 0 THEN Result(a, {})
     ELSE IF a.c = 0 THEN Result(Fin(a.s, 0, 0), {})
     ELSE IF action = "TO_INT_TRUNC" THEN Result(d, {})
     ELSE Result(ApplyRoundExcess(d, cut.rnd, ctx),
            IF action = "TO_INT_SILENT" THEN {}
            ELSE {"Rounded"} \cup IF cut.rnd # 0 THEN {"Inexact"} ELSE {})
QRoundToIntx(a, ctx) == RoundToIntegral("TO_INT_EXACT", a, ctx)
QRoundToInt(a, ctx) == RoundToIntegral("TO_INT_SILENT", a, ctx)
QTrunc(a, ctx) == RoundToIntegral("TO_INT_TRUNC", a, ctx)
QFloor(a, ctx) ==
  RoundToIntegral("TO_INT_SILENT", a, Rounding(ctx, "ROUND_FLOOR"))
QCeil(a, ctx) ==
  RoundToIntegral("TO_INT_SILENT", a, Rounding(ctx, "ROUND_CEILING"))

SameQuantum(a, b) ==
  IF IsSpecial(a) \/ IsSpecial(b)
  THEN (IsNaN(a) /\ IsNaN(b)) \/ (IsInf(a) /\ IsInf(b))
  ELSE a.e = b.e
==============================================================================
