------------------------------ MODULE MpdNumber ------------------------------
(***************************************************************************)
(* The numbers of libmpdec, the library below the guest's Decimal: what a  *)
(* decimal and a context are, and the operations every other one is made   *)
(* of (mpdecimal.c): rounding, the check of the exponent, NaN operands,    *)
(* shifts and comparisons.                                                 *)
(*                                                                         *)
(* A decimal has a kind k, a sign s (1 is negative), a coefficient c and   *)
(* an exponent e; the coefficient of a NaN is its payload, 0 for none.     *)
(* The words a coefficient is stored in are the subject of MpdWords, and   *)
(* memory never runs out here.  An operation returns a decimal and the     *)
(* flags it adds to *status.  In a context with allcr every result is      *)
(* correctly rounded; it is left out for that.                             *)
(***************************************************************************)
EXTENDS Integers, Sequences, FiniteSetsExt

CONSTANTS
  RDigits, \* MPD_RDIGITS, decimal digits to a word
  UintMax, \* MPD_UINT_MAX
  SsizeMax \* MPD_SSIZE_MAX; MPD_SSIZE_MIN is one further down

ASSUME WordsAssumption ==
  /\ RDigits \in Nat \ {0} /\ UintMax \in Nat /\ SsizeMax \in Nat
  /\ SsizeMax < UintMax

Roundings ==
  {"ROUND_UP", "ROUND_DOWN", "ROUND_CEILING", "ROUND_FLOOR", "ROUND_HALF_UP",
   "ROUND_HALF_DOWN", "ROUND_HALF_EVEN", "ROUND_05UP", "ROUND_TRUNC"}

\* mpd_triple_t; Special below is for infinities and NaNs.
Fin(s, c, e) == [k |-> "fin", s |-> s, c |-> c, e |-> e]
Special(s, k) == [k |-> k, s |-> s, c |-> 0, e |-> 0]
Inf(s) == Special(s, "inf")
QNaN == Special(0, "qnan")

\* What an mpd_t holds: a number, an infinity or a NaN with its payload.
Numbers == [k : {"fin"}, s : {0, 1}, c : Nat, e : Int]
Infinities == [k : {"inf"}, s : {0, 1}, c : {0}, e : {0}]
NotNumbers == [k : {"qnan", "snan"}, s : {0, 1}, c : Nat, e : {0}]
Decimals == Numbers \cup Infinities \cup NotNumbers

\* A result with the flags it raises, and the two NaNs of an error.
Result(d, st) == [d |-> d, st |-> st]
SetError(flag) == Result(QNaN, {flag})
Invalid == SetError("Invalid_operation")
\* Flags of an earlier part of the operation.
Also(st, r) == Result(r.d, r.st \cup st)

------------------------------------------------------------------------------
(* Looking at a decimal.                                                    *)

\* mpd_pow10
Pow10[n \in Nat] == IF n = 0 THEN 1 ELSE 10 * Pow10[n - 1]

\* A word has at most one digit more than can all be nines.
ASSUME WordDigitsAssumption == UintMax < Pow10[RDigits + 1]

WordDigits[c \in Nat] == IF c < 10 THEN 1 ELSE 1 + WordDigits[c \div 10]
Digits(c) == WordDigits[c]

IsInf(a) == a.k = "inf"
IsNaN(a) == a.k \in {"qnan", "snan"}
IsSpecial(a) == a.k # "fin"
IsZero(a) == a.k = "fin" /\ a.c = 0
ArithSign(a) == IF a.s = 1 THEN -1 ELSE 1
AdjExp(a) == a.e + Digits(a.c) - 1
Etiny(ctx) == ctx.emin - (ctx.prec - 1)
Etop(ctx) == ctx.emax - (ctx.prec - 1)

IsNormal(a, ctx) == a.k = "fin" /\ a.c # 0 /\ AdjExp(a) >= ctx.emin
IsSubnormal(a, ctx) == a.k = "fin" /\ a.c # 0 /\ AdjExp(a) < ctx.emin

\* mpd_trail_zeros, of a coefficient that is not zero.
EndZeros[c \in Nat \ {0}] ==
  IF c % 10 # 0 THEN 0 ELSE 1 + EndZeros[c \div 10]
TrailZeros(c) == EndZeros[c]
IsInt(a) == a.c = 0 \/ a.e + TrailZeros(a.c) >= 0
IsInteger(a) == ~IsSpecial(a) /\ IsInt(a)
IsOdd(a) ==
  /\ a.c # 0 /\ a.e <= 0
  /\ (IF a.e < 0 THEN a.c \div Pow10[-a.e] ELSE a.c) % 2 = 1
CoeffIsPow10(c) == c = Pow10[Digits(c) - 1]
CoeffIsAllNine(c) == c = Pow10[Digits(c)] - 1

Negate(a) == [a EXCEPT !.s = 1 - @]
CopyAbs(a) == [a EXCEPT !.s = 0]
CopySign(a, b) == [a EXCEPT !.s = b.s]
MaxCoeff(ctx) == Pow10[ctx.prec] - 1

\* _mpd_cap: the digits that fit, counted from the least significant one.
Cap(a, ctx) == [a EXCEPT !.c = @ % Pow10[ctx.prec]]
\* _mpd_fix_nan, of the payload.
FixNaN(a, ctx) == [a EXCEPT !.c = @ % Pow10[ctx.prec - ctx.clamp]]

------------------------------------------------------------------------------
(* Shifts of the coefficient.                                               *)

\* The rounding digit, made 1 more if it is 0 or 5 and not all is shown by
\* it (_mpd_baseshiftr, _mpd_get_rnd).
Indicator(rnd, rest) == IF rnd \in {0, 5} /\ rest # 0 THEN rnd + 1 ELSE rnd

\* mpd_qshiftr, mpd_qshiftr_inplace and mpd_qsshiftr.  Where all digits are
\* shifted out the most significant one rounds if it is the next.
ShiftR(c, n) ==
  IF c = 0 \/ n = 0 THEN [c |-> c, rnd |-> 0]
  ELSE IF n > Digits(c) THEN [c |-> 0, rnd |-> 1]
  ELSE [c |-> c \div Pow10[n],
        rnd |-> Indicator((c \div Pow10[n - 1]) % 10, c % Pow10[n - 1])]

ShiftL(c, n) == IF c = 0 THEN 0 ELSE c * Pow10[n]

------------------------------------------------------------------------------
(* Rounding.                                                                *)

\* Mutant: a tie is not told from what lies above it.
RndIncrNoTie(d, rnd, ctx) ==
  IF ctx.round = "ROUND_HALF_EVEN" THEN rnd >= 5 ELSE rnd > 5
\* _mpd_rnd_incr
RndIncr(d, rnd, ctx) ==
  CASE ctx.round \in {"ROUND_DOWN", "ROUND_TRUNC"} -> FALSE
    [] ctx.round = "ROUND_HALF_UP" -> rnd >= 5
    [] ctx.round = "ROUND_HALF_EVEN" -> rnd > 5 \/ (rnd = 5 /\ d.c % 2 = 1)
    [] ctx.round = "ROUND_CEILING" -> rnd # 0 /\ d.s = 0
    [] ctx.round = "ROUND_FLOOR" -> rnd # 0 /\ d.s = 1
    [] ctx.round = "ROUND_HALF_DOWN" -> rnd > 5
    [] ctx.round = "ROUND_UP" -> rnd # 0
    [] ctx.round = "ROUND_05UP" -> rnd # 0 /\ d.c % 10 \in {0, 5}

\* _mpd_apply_round_excess: one digit more than the precision is allowed.
ApplyRoundExcess(d, rnd, ctx) ==
  IF RndIncr(d, rnd, ctx) THEN [d EXCEPT !.c = @ + 1] ELSE d

\* Where an overflow ends: infinity, or the largest number there is.
OverflowTo(s, ctx) ==
  IF \/ ctx.round \in {"ROUND_DOWN", "ROUND_05UP"}
     \/ ctx.round = "ROUND_CEILING" /\ s = 1
     \/ ctx.round = "ROUND_FLOOR" /\ s = 0
  THEN Fin(s, MaxCoeff(ctx), Etop(ctx))
  ELSE Inf(s)

\* The part of _mpd_check_exp below etiny.
SubnormalResult(r, rnd) ==
  Result(r, {"Subnormal", "Rounded"}
        \cup (IF rnd = 0 THEN {} ELSE {"Inexact", "Underflow"})
        \cup (IF rnd # 0 /\ r.c = 0 THEN {"Clamped"} ELSE {}))
CutToEtiny(s, cut, ctx) ==
  SubnormalResult(ApplyRoundExcess(Fin(s, cut.c, Etiny(ctx)), cut.rnd, ctx),
                  cut.rnd)
RoundSubnormal(d, ctx) ==
  CutToEtiny(d.s, ShiftR(d.c, Etiny(ctx) - d.e), ctx)

\* _mpd_check_exp
CheckExp(d, ctx) ==
  IF AdjExp(d) > ctx.emax THEN
    IF d.c = 0
    THEN Result(Fin(d.s, 0, IF ctx.clamp = 1 THEN Etop(ctx) ELSE ctx.emax),
                {"Clamped"})
    ELSE Result(OverflowTo(d.s, ctx), {"Overflow", "Inexact", "Rounded"})
  ELSE IF ctx.clamp = 1 /\ d.e > Etop(ctx) THEN
    Result(Fin(d.s, ShiftL(d.c, d.e - Etop(ctx)), Etop(ctx)),
           {"Clamped"} \cup
             IF d.c # 0 /\ AdjExp(d) < ctx.emin THEN {"Subnormal"} ELSE {})
  ELSE IF AdjExp(d) < ctx.emin THEN
    IF d.c = 0 THEN
      IF d.e < Etiny(ctx)
      THEN Result(Fin(d.s, 0, Etiny(ctx)), {"Clamped"})
      ELSE Result(d, {})
    ELSE IF d.e < Etiny(ctx) THEN RoundSubnormal(d, ctx)
    ELSE Result(d, {"Subnormal"})
  ELSE Result(d, {})

\* _mpd_apply_round: a carry out of all nines moves the exponent.
ApplyRound(d, rnd, ctx) ==
  LET up == d.c + 1
  IN IF ~RndIncr(d, rnd, ctx) THEN Result(d, {})
     ELSE IF Digits(up) <= ctx.prec THEN Result([d EXCEPT !.c = up], {})
     ELSE CheckExp(Fin(d.s, up \div 10, d.e + 1), ctx)

\* _mpd_check_round
CutToPrec(s, cut, exp, ctx) ==
  Also({"Rounded"} \cup IF cut.rnd # 0 THEN {"Inexact"} ELSE {},
       ApplyRound(Fin(s, cut.c, exp), cut.rnd, ctx))
CheckRound(d, ctx) ==
  LET shift == Digits(d.c) - ctx.prec
  IN IF IsSpecial(d) \/ shift <= 0 THEN Result(d, {})
     ELSE CutToPrec(d.s, ShiftR(d.c, shift), d.e + shift, ctx)

\* mpd_qfinalize
RoundAfter(exp, ctx) == Also(exp.st, CheckRound(exp.d, ctx))
Finalize(d, ctx) ==
  IF IsNaN(d) THEN Result(FixNaN(d, ctx), {})
  ELSE IF IsInf(d) THEN Result(d, {})
  ELSE RoundAfter(CheckExp(d, ctx), ctx)

\* _mpd_apply_round_fit: an increment that overflows the precision fails.
ApplyRoundFit(d, rnd, ctx) ==
  IF RndIncr(d, rnd, ctx) /\ Digits(d.c + 1) > ctx.prec THEN Invalid
  ELSE Result(ApplyRoundExcess(d, rnd, ctx), {})

\* mpd_check_underflow
CheckUnderflow(d, ctx) ==
  IF d.k = "fin" /\ d.c # 0 /\ AdjExp(d) < ctx.emin /\ d.e < Etiny(ctx)
  THEN {"Underflow"} ELSE {}

------------------------------------------------------------------------------
(* Integers in and out.                                                     *)

\* mpd_qset_ssize, mpd_qset_uint and those of fixed width.
FromInt(n, ctx) ==
  Finalize(Fin(IF n < 0 THEN 1 ELSE 0, IF n < 0 THEN -n ELSE n, 0), ctx)

\* What mpd_qget_uint answers with MPD_Invalid_operation.
NotAnInteger == -(UintMax + UintMax)
\* _mpd_qget_uint: the magnitude of an integer that fits a word.
GetUint(useSign, a) ==
  LET value == IF a.e < 0 THEN a.c \div Pow10[-a.e] ELSE a.c * Pow10[a.e]
  IN IF IsSpecial(a) THEN NotAnInteger
     ELSE IF a.c = 0 THEN 0
     ELSE IF \/ useSign /\ a.s = 1
             \/ Digits(a.c) + a.e > RDigits + 1
             \/ ~IsInt(a)
     THEN NotAnInteger
     ELSE IF value > UintMax THEN NotAnInteger ELSE value

\* mpd_qget_ssize
GetSsize(a) ==
  LET u == GetUint(FALSE, a)
  IN IF u = NotAnInteger THEN NotAnInteger
     ELSE IF u <= SsizeMax THEN ArithSign(a) * u
     ELSE IF a.s = 1 /\ u = SsizeMax + 1 THEN -u
     ELSE NotAnInteger

------------------------------------------------------------------------------
(* NaN operands: the first signaling one, then the first quiet one, with    *)
(* its payload (mpd_qcheck_nan, mpd_qcheck_nans, mpd_qcheck_3nans).         *)

AnyNaN(args) == \E i \in DOMAIN args : IsNaN(args[i])
FirstOf(args, k) == Min({i \in DOMAIN args : args[i].k = k})
CheckNaNs(args, ctx) ==
  LET signals == \E i \in DOMAIN args : args[i].k = "snan"
      choice == args[FirstOf(args, IF signals THEN "snan" ELSE "qnan")]
  IN Result(FixNaN([choice EXCEPT !.k = "qnan"], ctx),
            IF signals THEN {"Invalid_operation"} ELSE {})

------------------------------------------------------------------------------
(* Comparisons: -1, 0 or 1.                                                 *)

Sgn(n) == IF n < 0 THEN -1 ELSE IF n > 0 THEN 1 ELSE 0

\* _mpd_cmp_same_adjexp, of coefficients brought to the same exponent.
CmpSameAdjExp(a, b) ==
  LET shift == a.e - b.e
  IN IF shift > 0 THEN Sgn(a.c * Pow10[shift] - b.c)
     ELSE Sgn(a.c - b.c * Pow10[-shift])

\* _mpd_cmp_abs
CmpAbs(a, b) ==
  IF IsInf(a) THEN (IF IsInf(b) THEN 0 ELSE 1)
  ELSE IF IsInf(b) THEN -1
  ELSE IF a.c = 0 \/ b.c = 0 THEN Sgn(a.c) - Sgn(b.c)
  ELSE IF AdjExp(a) # AdjExp(b) THEN Sgn(AdjExp(a) - AdjExp(b))
  ELSE CmpSameAdjExp(a, b)

\* _mpd_cmp
Cmp(a, b) ==
  IF IsInf(a) THEN
    IF IsInf(b) THEN b.s - a.s ELSE ArithSign(a)
  ELSE IF IsInf(b) THEN -ArithSign(b)
  ELSE IF a.c = 0 THEN (IF b.c = 0 THEN 0 ELSE -ArithSign(b))
  ELSE IF b.c = 0 THEN ArithSign(a)
  ELSE IF a.s # b.s THEN b.s - a.s
  ELSE CmpAbs(a, b) * ArithSign(a)

\* mpd_qcmp; INT_MAX stands for "no order".
IntMax == 2
QCmp(a, b) ==
  IF IsNaN(a) \/ IsNaN(b) THEN [c |-> IntMax, st |-> {"Invalid_operation"}]
  ELSE [c |-> Cmp(a, b), st |-> {}]

FromCmp(c) == Fin(IF c < 0 THEN 1 ELSE 0, IF c = 0 THEN 0 ELSE 1, 0)
\* mpd_qcompare and mpd_qcompare_signal
QCompare(a, b, ctx) ==
  IF AnyNaN(<<a, b>>) THEN CheckNaNs(<<a, b>>, ctx)
  ELSE Result(FromCmp(Cmp(a, b)), {})
QCompareSignal(a, b, ctx) ==
  Also(IF AnyNaN(<<a, b>>) THEN {"Invalid_operation"} ELSE {},
       QCompare(a, b, ctx))

\* mpd_cmp_total: every decimal has its place, also -0, 1.0 beside 1 and
\* each NaN.
CmpNaNs(a, b) ==
  IF a.k = b.k THEN
    IF a.c > 0 /\ b.c > 0 THEN Sgn(a.c - b.c) ELSE Sgn(a.c) - Sgn(b.c)
  ELSE IF a.k = "qnan" THEN 1 ELSE -1
\* Mutant: equal values are not told apart by their exponents.
CmpMagnitudesByValue(a, b) ==
  IF IsNaN(a) THEN (IF IsNaN(b) THEN CmpNaNs(a, b) ELSE 1)
  ELSE IF IsNaN(b) THEN -1 ELSE CmpAbs(a, b)
CmpMagnitudes(a, b) ==
  IF IsNaN(a) THEN (IF IsNaN(b) THEN CmpNaNs(a, b) ELSE 1)
  ELSE IF IsNaN(b) THEN -1
  ELSE IF CmpAbs(a, b) = 0 THEN Sgn(a.e - b.e)
  ELSE CmpAbs(a, b)
CmpTotal(a, b) ==
  IF a.s # b.s THEN b.s - a.s ELSE CmpMagnitudes(a, b) * ArithSign(a)
CmpTotalMag(a, b) == CmpTotal(CopyAbs(a), CopyAbs(b))

\* _mpd_cmp_numequal, for operands that compare equal.
CmpNumEqual(a, b) ==
  IF a.s # b.s THEN b.s - a.s
  ELSE (IF a.e < b.e THEN -1 ELSE 1) * ArithSign(a)
==============================================================================
