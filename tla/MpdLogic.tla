------------------------------- MODULE MpdLogic ------------------------------
(***************************************************************************)
(* The operations of libmpdec on the digits and the exponent of a decimal  *)
(* (mpdecimal.c): logical operations on coefficients of zeros and ones,    *)
(* shifts and rotations, exponents read and moved, the class.              *)
(***************************************************************************)
EXTENDS MpdArith

DigitAt(c, i) == (c \div Pow10[i]) % 10
\* An operand of the logical operations.
IsLogical(a) ==
  /\ a.k = "fin" /\ a.s = 0 /\ a.e = 0
  /\ \A i \in 0..(Digits(a.c) - 1) : DigitAt(a.c, i) <= 1
FromDigits(Bit(_), n) ==
  MapThenSumSet(LAMBDA i : Bit(i) * Pow10[i], 0..(n - 1))

\* What mpd_qand, mpd_qor and mpd_qxor share.
Digitwise(Bit(_, _), a, b, ctx) ==
  LET n == IF a.c > b.c THEN Digits(a.c) ELSE Digits(b.c)
      c == FromDigits(LAMBDA i : Bit(DigitAt(a.c, i), DigitAt(b.c, i)), n)
  IN IF ~IsLogical(a) \/ ~IsLogical(b) THEN Invalid
     ELSE Result(Cap(Fin(0, c, 0), ctx), {})
QAnd(a, b, ctx) == Digitwise(LAMBDA x, y : x * y, a, b, ctx)
QOr(a, b, ctx) == Digitwise(LAMBDA x, y : x + y - x * y, a, b, ctx)
QXor(a, b, ctx) == Digitwise(LAMBDA x, y : (x + y) % 2, a, b, ctx)

\* mpd_qinvert works on whole words, which are cut off again.
QInvert(a, ctx) ==
  LET digits == IF Digits(a.c) < ctx.prec THEN ctx.prec ELSE Digits(a.c)
      words == (digits + RDigits - 1) \div RDigits
      c == FromDigits(LAMBDA i : 1 - DigitAt(a.c, i), words * RDigits)
  IN IF ~IsLogical(a) THEN Invalid ELSE Result(Cap(Fin(0, c, 0), ctx), {})

\* An integer operand of mpd_qrotate, mpd_qshift and mpd_qscaleb.
IsPlainNumber(b) == b.k = "fin" /\ b.e = 0

\* mpd_qrotate
Rotated(a, c, left, ctx) ==
  AddSub(Cap([a EXCEPT !.c = ShiftL(c, left)], ctx),
         [a EXCEPT !.c = ShiftR(c, ctx.prec - left).c], ctx)
RotateBy(a, n, ctx) ==
  IF n = NotAnInteger \/ n \notin -ctx.prec..ctx.prec THEN Invalid
  ELSE IF IsInf(a) THEN Result(a, {})
  ELSE Result(Rotated(a, IF Digits(a.c) > ctx.prec THEN Cap(a, ctx).c
                         ELSE a.c,
                      IF n >= 0 THEN n ELSE ctx.prec + n, ctx), {})
QRotate(a, b, ctx) ==
  IF AnyNaN(<<a, b>>) THEN CheckNaNs(<<a, b>>, ctx)
  ELSE IF ~IsPlainNumber(b) THEN Invalid
  ELSE RotateBy(a, GetSsize(b), ctx)

\* mpd_qscaleb
QScaleb(a, b, ctx) ==
  LET n == GetUint(FALSE, b)
      exp == a.e + n * ArithSign(b)
  IN IF AnyNaN(<<a, b>>) THEN CheckNaNs(<<a, b>>, ctx)
     ELSE IF ~IsPlainNumber(b) \/ n = NotAnInteger THEN Invalid
     ELSE IF n > 2 * (ctx.emax + ctx.prec) THEN Invalid
     ELSE IF IsInf(a) THEN Result(a, {})
     ELSE Finalize([a EXCEPT !.e = Min({Max({exp, ExpClamp}), ExpInf})], ctx)

\* The two directions of mpd_qshiftn and mpd_qshift.
Shifted(a, n, ctx) ==
  IF n >= 0 THEN Cap([a EXCEPT !.c = ShiftL(a.c, n)], ctx)
  ELSE [a EXCEPT !.c = ShiftR(Cap(a, ctx).c, -n).c]
QShiftN(a, n, ctx) ==
  IF IsNaN(a) THEN CheckNaNs(<<a>>, ctx)
  ELSE IF IsInf(a) THEN Result(a, {})
  ELSE IF n \in -ctx.prec..ctx.prec THEN Result(Shifted(a, n, ctx), {})
  ELSE Invalid
QShift(a, b, ctx) ==
  LET n == GetSsize(b)
  IN IF AnyNaN(<<a, b>>) THEN CheckNaNs(<<a, b>>, ctx)
     ELSE IF ~IsPlainNumber(b) \/ n = NotAnInteger THEN Invalid
     ELSE IF n \notin -ctx.prec..ctx.prec THEN Invalid
     ELSE IF IsInf(a) THEN Result(a, {})
     ELSE Result(Shifted(a, n, ctx), {})

\* mpd_qlogb
QLogb(a, ctx) ==
  IF IsNaN(a) THEN CheckNaNs(<<a>>, ctx)
  ELSE IF IsInf(a) THEN Result(Inf(0), {})
  ELSE IF a.c = 0 THEN Result(Inf(1), {"Division_by_zero"})
  ELSE FromInt(AdjExp(a), ctx)

\* mpd_class, a name and a sign
MpdClass(a, ctx) ==
  IF IsNaN(a) THEN <<a.k, 0>>
  ELSE <<IF IsInf(a) THEN "Infinity" ELSE IF IsZero(a) THEN "Zero"
         ELSE IF IsNormal(a, ctx) THEN "Normal" ELSE "Subnormal", a.s>>
==============================================================================
