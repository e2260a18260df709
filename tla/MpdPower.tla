------------------------------- MODULE MpdPower ------------------------------
(***************************************************************************)
(* Square roots and integer powers of libmpdec (mpdecimal.c).  Powers with *)
(* a fraction in the exponent are computed through mpd_qexp and mpd_qln,   *)
(* which are not modelled: QPow stands for the calls that do not get there.*)
(***************************************************************************)
EXTENDS MpdArith

------------------------------------------------------------------------------
(* mpd_qsqrt.                                                               *)

\* Newton's method, from above.
FloorRoot(c, start) ==
  LET root[x \in Nat \ {0}] ==
        IF x <= c \div x THEN x ELSE root[(x + c \div x) \div 2]
  IN root[start]

\* Mutant: what was shifted out is not looked at.
SqrtForgetsRest(a, ctx) ==
  LET odd == a.e % 2
      ideal == (a.e - odd) \div 2
      shift == ctx.prec - (Digits(a.c) + 1) \div 2
      whole == IF odd = 1 THEN a.c * 10 ELSE a.c
      c == IF shift >= 0 THEN ShiftL(whole, 2 * shift)
           ELSE ShiftR(whole, -2 * shift).c
  IN Fin(0, FloorRoot(c, Pow10[ctx.prec + 1]), ideal - shift)

\* mpd_qsqrt, of a positive number: the root with a digit that says whether
\* anything was cut off.
SqrtNumber(a, ctx) ==
  LET odd == a.e % 2
      ideal == (a.e - odd) \div 2
      l == IF odd = 1 THEN Digits(a.c) \div 2 + 1
           ELSE (Digits(a.c) + 1) \div 2
      shift == ctx.prec + 1 - l
      whole == IF odd = 1 THEN a.c * 10 ELSE a.c
      c == IF shift >= 0 THEN ShiftL(whole, 2 * shift)
           ELSE ShiftR(whole, -2 * shift).c
      root == FloorRoot(c, Pow10[ctx.prec + 1])
      exact == /\ root * root = c
               /\ shift >= 0 \/ ShiftR(whole, -2 * shift).rnd = 0
  IN IF exact
     THEN Fin(0, IF shift >= 0 THEN root \div Pow10[shift]
                 ELSE ShiftL(root, -shift), ideal)
     ELSE Fin(0, IF root % 10 \in {0, 5} THEN root + 1 ELSE root,
              ideal - shift)

QSqrt(a, ctx) ==
  LET half == Rounding(ctx, "ROUND_HALF_EVEN")
  IN IF IsNaN(a) THEN CheckNaNs(<<a>>, ctx)
     ELSE IF IsInf(a) THEN (IF a.s = 1 THEN Invalid ELSE Result(a, {}))
     ELSE IF a.c = 0 THEN Finalize(Fin(a.s, 0, a.e \div 2), ctx)
     ELSE IF a.s = 1 THEN Invalid
     ELSE Finalize(SqrtNumber(a, ctx), half)

------------------------------------------------------------------------------
(* mpd_qpow with an integer exponent.                                       *)

\* Multiplication goes on until it has overflowed or underflowed.
Settled(r) == IsSpecial(r.d) \/ (r.d.c = 0 /\ "Clamped" \in r.st)

\* A product of results, with the flags of both.
Times(r, base, ctx) == Also(r.st \cup base.st, QMul(r.d, base.d, ctx))

\* _mpd_qpow_uint: power[n] is the power for the leading bits n of exp.
PowUint(base, exp, ctx) ==
  LET power[n \in Nat \ {0}] ==
        IF n = 1 THEN Result(base, {})
        ELSE LET r == power[n \div 2]
             IN IF Settled(r) THEN r
                ELSE IF n % 2 = 0 THEN Times(r, r, ctx)
                ELSE Times(Times(r, r, ctx), Result(base, {}), ctx)
  IN power[exp]

\* _mpd_qpow_mpd, for an exponent that does not fit a word.  The flags of
\* the squarings of base count once the result is multiplied by it.
Results ==
  [d : [k : {"fin", "inf", "qnan"}, s : {0, 1}, c : Nat, e : Int],
   st : SUBSET STRING]
PowMpd(result, tbase, texp, ctx) ==
  LET power[r \in Results, base \in Results, exp \in Results] ==
        IF Settled(r) THEN r
        ELSE IF IsNaN(exp.d) THEN Also(r.st, SetError("Division_impossible"))
        ELSE IF exp.d.c = 0 THEN r
        ELSE power[IF IsOdd(exp.d) THEN Times(r, base, ctx) ELSE r,
                   Times(base, base, ctx), QDivInt(exp.d, Two, MaxCtx)]
  IN power[result, tbase, Result(texp, {})]

\* _mpd_qpow_int: the sign is put on at the end.
WorkCtx(exp, ctx) ==
  [Rounding(ctx, "ROUND_HALF_EVEN")
   EXCEPT !.prec = @ + Digits(exp.c) + exp.e + 2 + exp.s, !.clamp = 0]
SignedPower(power, sign, ctx) ==
  Also(power.st,
       Finalize(IF IsInf(power.d) THEN Fin(sign, 1, ExpInf)
                ELSE [power.d EXCEPT !.s = sign], ctx))
PowerFrom(t, exp, n, sign, ctx) ==
  IF t.st \cap Errors # {} THEN Result(QNaN, t.st)
  ELSE Also(t.st,
            SignedPower(IF n = NotAnInteger
                        THEN PowMpd(Result(One, {}), Result(t.d, {}),
                                    CopyAbs(exp), WorkCtx(exp, ctx))
                        ELSE PowUint(t.d, n, WorkCtx(exp, ctx)), sign, ctx))
PowInt(base, exp, sign, ctx) ==
  PowerFrom(IF exp.s = 1 THEN QDiv(One, base, WorkCtx(exp, ctx))
            ELSE Result(base, {}), exp, GetUint(FALSE, exp), sign, ctx)

\* _qcheck_pow_one, for a base of magnitude 1 and an integer exponent: a 1
\* with the places that the power has, as many of them as fit.
OneWith(n, sign, ctx) ==
  IF n # NotAnInteger /\ n < ctx.prec
  THEN Result(Fin(sign, ShiftL(1, n), -n), {})
  ELSE Result(Fin(sign, ShiftL(1, ctx.prec - 1), 1 - ctx.prec), {"Rounded"})
OneOf(places, sign, ctx) ==
  IF places.st \cap Errors # {}
  THEN Result(places.d, places.st \cap Errors)
  ELSE OneWith(GetSsize(places.d), sign, ctx)
PowOne(base, exp, sign, ctx) ==
  IF exp.s = 1 THEN Result(Fin(sign, 1, 0), {})
  ELSE OneOf(QMul(exp, FromInt(-base.e, MaxCtx).d, ctx), sign, ctx)

\* _lower_bound_zeta
ZetaFrom(t, x) ==
  IF t > 0 THEN Digits(t) - 1
  ELSE IF t < -1 THEN Digits(-t - 1) - 1
  ELSE AdjExp(QSub(x, One, MaxCtx).d) - (IF t = 0 THEN 2 ELSE 1)
LowerBoundZeta(x) == ZetaFrom(AdjExp(x), x)

\* Mutant: the bound of underflow is the one of overflow.
CertainPowerEither(x, y, ctx) ==
  IF Digits(ctx.emax) < LowerBoundZeta(CopyAbs(x)) + AdjExp(y) + 2
  THEN ExpInf ELSE 0

\* _qcheck_pow_bounds: whether the power is sure to overflow or underflow,
\* and the number that does.
CertainFrom(reach, grows, ctx) ==
  IF grows /\ Digits(ctx.emax) < reach THEN ExpInf
  ELSE IF ~grows /\ Digits(-Etiny(ctx)) < reach THEN Etiny(ctx) - 1
  ELSE 0
CertainPower(x, y, ctx) ==
  CertainFrom(LowerBoundZeta(CopyAbs(x)) + AdjExp(y),
              (AdjExp(x) < 0) = (y.s = 1), ctx)

\* What mpd_qpow does of numbers, neither of them 0 and not 1 in magnitude.
PowUnless(certain, base, exp, sign, ctx) ==
  IF certain # 0 THEN Finalize(Fin(sign, 1, certain), ctx)
  ELSE PowInt(base, exp, sign, ctx)

\* mpd_qpow
PowSigned(base, exp, sign, one, ctx) ==
  IF IsZero(base) THEN
    IF IsZero(exp) THEN Invalid
    ELSE Result(IF exp.s = 1 THEN Inf(sign) ELSE Fin(sign, 0, 0), {})
  ELSE IF base.s = 1 /\ ~IsInteger(exp) THEN Invalid
  ELSE IF IsInf(exp) THEN
    IF one = 0
    THEN Result(Fin(sign, Pow10[ctx.prec - 1], 1 - ctx.prec),
                {"Inexact", "Rounded"})
    ELSE Result(IF one < 0 THEN Fin(sign, 0, 0) ELSE Inf(sign), {})
  ELSE IF IsInf(base) THEN
    Result(IF IsZero(exp) THEN Fin(sign, 1, 0)
           ELSE IF exp.s = 1 THEN Fin(sign, 0, 0) ELSE Inf(sign), {})
  ELSE IF IsZero(exp) THEN Result(Fin(sign, 1, 0), {})
  ELSE IF CmpAbs(base, One) = 0 THEN PowOne(base, exp, sign, ctx)
  ELSE PowUnless(CertainPower(base, exp, ctx), base, exp, sign, ctx)
QPow(base, exp, ctx) ==
  IF AnyNaN(<<base, exp>>) THEN CheckNaNs(<<base, exp>>, ctx)
  ELSE PowSigned(base, exp,
                 IF IsInteger(exp) /\ base.s = 1 /\ IsOdd(exp) THEN 1 ELSE 0,
                 Cmp(base, One) * ArithSign(exp), ctx)

------------------------------------------------------------------------------
(* mpd_qpowmod, of integers.                                                *)

\* _mpd_qpowmod_uint, and the loop over the digits of the exponent: no
\* product or remainder is rounded, so they are those of the integers.
PowModLoop[r \in Nat, base \in Nat, exp \in Nat, mod \in Nat \ {0}] ==
  IF exp = 0 THEN r
  ELSE PowModLoop[IF exp % 2 = 1 THEN (r * base) % mod ELSE r,
                  (base * base) % mod, exp \div 2, mod]
TenthPowers(base, times, mod) ==
  LET power[n \in Nat] ==
        IF n = 0 THEN base ELSE PowModLoop[1, power[n - 1], 10, mod]
  IN power[times]

PowModOf(b, x, m, sign) ==
  Result(Fin(sign,
             PowModLoop[1, TenthPowers(((b.c % m) * (Pow10[b.e] % m)) % m, x.e,
                                       m), x.c, m], 0), {})
PowModSigned(base, exp, mod, sign, ctx) ==
  IF \E d \in {base, exp, mod} : IsInf(d) \/ ~IsInt(d) THEN Invalid
  ELSE IF mod.c = 0 \/ Digits(mod.c) + mod.e > ctx.prec THEN Invalid
  ELSE IF exp.c = 0 THEN
    IF base.c = 0 THEN Invalid
    ELSE Result(Fin(sign, IF CmpAbs(mod, One) = 0 THEN 0 ELSE 1, 0), {})
  ELSE IF exp.s = 1 THEN Invalid
  ELSE IF base.c = 0 THEN Result(Fin(sign, 0, 0), {})
  ELSE PowModOf(RoundToIntegral("TO_INT_SILENT", base, MaxCtx).d,
                RoundToIntegral("TO_INT_SILENT", exp, MaxCtx).d,
                Rescale(mod, 0, MaxCtx).d.c, sign)
QPowMod(base, exp, mod, ctx) ==
  IF AnyNaN(<<base, exp, mod>>) THEN CheckNaNs(<<base, exp, mod>>, ctx)
  ELSE PowModSigned(base, exp, mod,
                    IF base.s = 1 /\ IsOdd(exp) THEN 1 ELSE 0, ctx)
==============================================================================
