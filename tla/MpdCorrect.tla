------------------------------ MODULE MpdCorrect -----------------------------
(***************************************************************************)
(* What the operations of libmpdec promise: the exact result rounded once, *)
(* to a number of the context, as MpdExact states it, for every operation  *)
(* that a call may name; and what the operations that do not round answer. *)
(***************************************************************************)
EXTENDS MpdCalls, MpdExact

\* The exact result of a call.
ExactOf(c) ==
  CASE c.op \in {"finalize", "plus", "reduce"} \cup SetOps -> Itself(c.a)
    [] c.op = "minus" -> Itself(Negate(c.a))
    [] c.op = "abs" -> Itself(CopyAbs(c.a))
    [] c.op \in {"add", "add_ssize"} -> SumOf(c.a, c.b)
    [] c.op \in {"sub", "sub_ssize"} -> SumOf(c.a, Negate(c.b))
    [] c.op \in {"mul", "mul_ssize"} -> ProductOf(c.a, c.b)
    [] c.op \in {"div", "div_ssize"} -> QuotientOf(c.a, c.b)
    [] c.op = "fma" ->
         SumOf(Fin(Xor(c.a.s, c.b.s), c.a.c * c.b.c, c.a.e + c.b.e), c.c)
    [] c.op = "scaleb" -> [Itself(c.a) EXCEPT !.e = @ + Signed(c.b, 0)]

RoundedOps ==
  {"finalize", "plus", "reduce", "minus", "abs", "add", "add_ssize", "sub",
   "sub_ssize", "mul", "mul_ssize", "div", "div_ssize", "fma", "scaleb"}
  \cup SetOps
DivideOps == {"div", "div_ssize"}

AllNumbers(c) == ~IsSpecial(c.a) /\ ~IsSpecial(c.b) /\ ~IsSpecial(c.c)

\* The integral roundings, and the mode each uses.
IntegralOps == {"round_to_intx", "round_to_int", "trunc", "floor", "ceil"}
ModeOf(op, mode) == CASE op = "trunc" -> "ROUND_DOWN"
                      [] op = "floor" -> "ROUND_FLOOR"
                      [] op = "ceil" -> "ROUND_CEILING"
                      [] OTHER -> mode

\* Every sum, product, quotient and rounding is the exact result rounded
\* once, fits the context, and raises the flags that say what was lost: the
\* stand-in for a small operand, guard digits, the carry out of nines and
\* the limits of the exponent do not show.  (A zero is reduced to 0 with the
\* exponent 0, also where the context clamps below.)
RoundedOnce(c, back, limits) ==
  /\ c.op \in RoundedOps /\ AllNumbers(c)
  /\ ~(c.op \in DivideOps /\ c.b.c = 0)
  /\ "Invalid_operation" \notin back.st
  => /\ IsRounded(back, ExactOf(c), limits)
     /\ Fits(back.d, limits) \/ (c.op = "reduce" /\ IsZero(back.d))

\* The integral roundings leave an integer alone and round the others at
\* their units, each in its mode.
IntegralIsRight(c, back, limits) ==
  c.op \in IntegralOps /\ AllNumbers(c) =>
    IF c.a.e >= 0 THEN back.d = c.a
    ELSE LET at == RoundAt(Itself(c.a), 0, ModeOf(c.op, limits.round))
         IN back.d = Fin(c.a.s, at.n, 0)

\* A number is given the exponent of another, rounded once, unless that
\* exponent is out of range or leads to more digits than the precision; a
\* context that clamps may take a high exponent down, with zeros.
QuantizeIsRight(c, back, limits) ==
  c.op = "quantize" /\ AllNumbers(c) =>
    LET at == RoundAt(Itself(c.a), c.b.e, limits.round)
        fits == Fin(c.a.s, at.n, c.b.e)
    IN IF IsNaN(back.d)
       THEN \/ Digits(at.n) > limits.prec \/ AdjExp(fits) > limits.emax
            \/ c.b.e \notin Etiny(limits)..limits.emax
       ELSE /\ SameNumber(back.d, at.n, c.b.e) /\ back.d.s = c.a.s
            /\ Fits(back.d, limits)
            /\ limits.clamp = 0 \/ c.b.e <= Etop(limits) => back.d = fits

\* A root is the nearest number of the precision to the exact one, and where
\* two are equally near, the even one.
IsRoot(r, a, limits) ==
  LET full == r.d.c * Pow10[limits.prec - Digits(r.d.c)]
      q == r.d.e - (limits.prec - Digits(r.d.c))
      v == Exactly(0, 4 * a.c, 1, a.e)
      low == (2 * full - 1) * (2 * full - 1) * Den(v, 2 * q)
      high == (2 * full + 1) * (2 * full + 1) * Den(v, 2 * q)
  IN /\ Num(v, 2 * q) \in low..high
     /\ Num(v, 2 * q) \in {low, high} => full % 2 = 0
     /\ ("Inexact" \in r.st) =
          (Num(v, 2 * q) # 4 * full * full * Den(v, 2 * q))
RootIsNearest(c, back, limits) ==
  c.op = "sqrt" /\ AllNumbers(c) /\ c.a.s = 0 /\ c.a.c # 0
    /\ ~IsInf(back.d) /\ "Subnormal" \notin back.st
  => IsRoot(back, c.a, limits) /\ Fits(back.d, limits)

\* mpd_get_ssize returns the integer or finds that there is none.
SsizeIsRight(c, back) ==
  c.op = "get_ssize" /\ AllNumbers(c) =>
    IF back.st = {} THEN SumOf(c.a, FromInt(-back.n, MaxCtx).d).n = 0
    ELSE \/ RoundAt(Itself(c.a), 0, "ROUND_DOWN").n > SsizeMax
         \/ ~RoundAt(Itself(c.a), 0, "ROUND_DOWN").exact

\* Every operation that rounds does so once and correctly, wherever it cuts.
CallIsRounded(c, back, limits) ==
  /\ RoundedOnce(c, back, limits)
  /\ IntegralIsRight(c, back, limits)
  /\ QuantizeIsRight(c, back, limits)
  /\ RootIsNearest(c, back, limits)
  /\ SsizeIsRight(c, back)
CorrectlyRounded == CallIsRounded(call, ret, ctx)

------------------------------------------------------------------------------
(* Division with a remainder.                                               *)

RemainderOps == {"divmod", "divint", "rem", "rem_near"}

\* A quotient and a remainder make the dividend again: the remainder is
\* smaller than the divisor (or half of it, with an even quotient where it
\* is just half) and has the sign of the dividend; a quotient that does not
\* fit the precision is refused by each of the four functions alike.
RemainderIsRight(c, back, limits) ==
  c.op \in RemainderOps /\ AllNumbers(c) /\ c.b.c # 0 =>
    LET q == IF c.op = "divmod" THEN back.q ELSE back.d
        r == IF c.op = "divmod" THEN back.r ELSE back.d
        quotient == QuotientOf(c.a, c.b)
        integral == Num(quotient, 0) \div Den(quotient, 0)
        lost == back.st \cap {"Inexact", "Overflow"} # {}
    IN IF IsNaN(r)
       THEN /\ "Division_impossible" \in back.st
            /\ \/ Digits(integral) > limits.prec
               \/ c.op = "rem_near" /\ integral = MaxCoeff(limits)
       ELSE /\ c.op \in {"divmod", "divint"} /\ ~lost =>
                 SameNumber(q, integral, 0) /\ q.s = Xor(c.a.s, c.b.s)
            /\ c.op \in {"divmod", "rem"} /\ ~lost =>
                 /\ WholeTimes(c.a, c.b, r)
                 /\ Whole(c.a, c.b, r) = integral
                 /\ CmpAbs(r, c.b) < 0 /\ r.s = c.a.s
            /\ c.op = "rem_near" /\ ~lost =>
                 /\ WholeTimes(c.a, c.b, r)
                 /\ \/ CmpAbs(Doubled(r), c.b) < 0
                    \/ /\ CmpAbs(Doubled(r), c.b) = 0
                       /\ Whole(c.a, c.b, r) % 2 = 0
QuotientAndRemainder == RemainderIsRight(call, ret, ctx)

------------------------------------------------------------------------------
(* Order and neighbours.                                                    *)

NextOps == {"next_plus", "next_minus"}

\* mpd_qcompare_total orders all decimals, as mpd_qcompare does where it
\* can; the two neighbours of a number in the context are the nearest ones,
\* and the larger and the smaller of two operands are both of them.
OrderIsRight(c, back, limits) ==
  /\ c.op \in NextOps /\ AllNumbers(c) /\ Fits(c.a, limits) =>
       /\ Neighbours(c.a, back.d, limits)
       /\ Cmp(c.a, back.d) = (IF c.op = "next_plus" THEN -1 ELSE 1)
  /\ c.op = "compare" =>
       /\ CmpTotal(c.a, c.b) = -CmpTotal(c.b, c.a)
       /\ (CmpTotal(c.a, c.b) = 0) = (c.a = c.b)
       /\ (IsZero(back.d) \/ IsNaN(back.d)
            \/ ArithSign(back.d) = CmpTotal(c.a, c.b))
  /\ c.op = "cmp" /\ back.n # IntMax => back.n * CmpTotal(c.a, c.b) >= 0
  /\ c.op = "fma" =>
       ~(/\ CmpTotal(c.a, c.b) <= 0 /\ CmpTotal(c.b, c.c) <= 0
         /\ CmpTotal(c.a, c.c) > 0)
  /\ c.op \in {"max", "min"} /\ AllNumbers(c) =>
       {back.d, (IF c.op = "max" THEN QMin(c.b, c.a, limits)
                 ELSE QMax(c.b, c.a, limits)).d} =
         {Finalize(c.a, limits).d, Finalize(c.b, limits).d}
OrderIsSound == OrderIsRight(call, ret, ctx)

------------------------------------------------------------------------------
(* Powers.                                                                  *)

\* a^n, for n other than 0, as a fraction.
PowerOf(a, n) ==
  LET m == Magnitude(n)
      s == IF a.s = 1 /\ m % 2 = 1 THEN 1 ELSE 0
  IN IF n > 0 THEN Exactly(s, a.c^m, 1, a.e * m)
     ELSE Exactly(s, 1, a.c^m, -a.e * m)

\* An integer power is one of the two numbers of the context beside the
\* exact one, and that one itself where it is a number of the context; it
\* overflows and underflows only if the exact power does.  The power modulo
\* a number is that of the integers.
PowersAreFaithful ==
  /\ call.op = "pow" /\ AllNumbers(call) /\ call.a.c # 0 /\ call.b.c # 0
       /\ call.b.e = 0 /\ ~IsNaN(ret.d)
     => LET x == PowerOf(call.a, Signed(call.b, 0))
            q == LastPlace(x, ctx)
            down == RoundAt(x, q, "ROUND_DOWN")
            up == RoundAt(x, q, "ROUND_UP")
        IN IF Leading(x) > ctx.emax THEN IsRounded(ret, x, ctx)
           ELSE IF IsInf(ret.d) THEN Digits(up.n) + q - 1 > ctx.emax
           ELSE /\ ret.d.s = x.s
                /\ SameNumber(ret.d, down.n, q) \/ SameNumber(ret.d, up.n, q)
  /\ call.op = "powmod" /\ AllNumbers(call) /\ ~IsNaN(ret.d) =>
       LET mod == Signed(CopyAbs(call.c), 0)
           x == PowerOf(call.a, Signed(call.b, 0))
       IN IF call.b.c = 0 THEN ret.d.c = 1 % mod
          ELSE ret.d = Fin(x.s, Num(x, 0) % mod, 0)

------------------------------------------------------------------------------
(* Text.                                                                    *)

\* A text of mpd_to_sci is read back as the same decimal, a zero with its
\* exponent and a NaN with its payload; one of mpd_to_eng too, but for the
\* zeros it may add to a number; and both fit in the space that is computed
\* for them before.  A text that is read is the number it shows, rounded
\* once.
TextComesBack ==
  /\ call.op \in {"to_sci", "to_eng"} =>
       /\ LET back == SetString(ret.text, MaxCtx).d
          IN IF call.op = "to_eng" /\ call.a.k = "fin" /\ call.a.c # 0
             THEN back.s = call.a.s /\ SameNumber(back, call.a.c, call.a.e)
             ELSE back = call.a
       /\ ~IsSpecial(call.a) =>
            TextLength(ret.text)
              < Space(call.a, DotPlace(call.a, IF call.op = "to_sci" THEN "sci"
                                               ELSE "eng", 1))
  /\ call.op = "set_string" /\ call.a.kind = "num" /\ ~IsNaN(ret.d) =>
       LET n == NumberOf(call.a.int \o call.a.frac)
           e == IF call.a.exp = <<>> THEN 0 ELSE call.a.exp[1]
           small == Min({e, 9})
       IN IF n # 0 /\ e > 9 THEN "Overflow" \in ret.st
          ELSE IF n # 0 /\ e < -9
          THEN "Underflow" \in ret.st
          ELSE IsRounded(ret, Exactly(IF call.a.sign = "-" THEN 1 ELSE 0, n, 1,
                                      small - Len(call.a.frac)), ctx)

Unseparated(t) == [t EXCEPT !.int = SelectSeq(@, LAMBDA x : x # Sep)]
\* Three digits to a group, the last one complete.
Grouped(int) ==
  \A i \in DOMAIN int : (int[i] = Sep) = (i > 1 /\ (Len(int) - i) % 4 = 3)
Placed(d, f) == IF f.type = "%" THEN [d EXCEPT !.e = @ + 2] ELSE d
\* Where a format cuts a number off.
CutAt(d, f) ==
  CASE f.type \in {"f", "%"} -> -f.prec[1]
    [] f.type = "e" -> AdjExp(d) - f.prec[1]
    [] OTHER -> AdjExp(d) - (IF f.prec[1] = 0 THEN 1 ELSE f.prec[1]) + 1

\* A formatted number shows the number, rounded once to the digits the
\* format asks for, is as wide as asked and no wider than it must be, with
\* its digits in groups of three also where zeros were put before them.
FormatShowsTheNumber ==
  call.op = "format" /\ ~IsSpecial(call.a) /\ ret.st = {} =>
    LET t == Unseparated(ret.text)
        x == Placed(call.a, call.b)
        shown == SetString(t, [MaxCtx EXCEPT !.prec = 9]).d
        q == IF call.b.prec = <<>> THEN x.e ELSE CutAt(x, call.b)
        at == RoundAt(Itself(x), q, ctx.round)
        width == TextLength(ret.text)
    IN /\ IF q > x.e THEN SameNumber(shown, at.n, q)
          ELSE SameNumber(shown, x.c, x.e)
       /\ shown.s = x.s
       /\ call.b.prec # <<>> /\ call.b.type \in {"f", "e", "%"} =>
            Len(t.frac) = call.b.prec[1]
       /\ call.b.comma => Grouped(ret.text.int)
       /\ width >= call.b.width
       /\ width > call.b.width /\ Len(t.int) > 1 /\ t.int[1] = 0 =>
            width = call.b.width + 1 /\ ret.text.int[2] = Sep
==============================================================================
