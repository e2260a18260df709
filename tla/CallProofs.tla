------------------------------ MODULE CallProofs -----------------------------
(***************************************************************************)
(* The calls of libmpdec: what holds after every one of them, for every    *)
(* context and all operands.                                               *)
(***************************************************************************)
EXTENDS DecimalProofs, MpdCorrect

------------------------------------------------------------------------------
(* The context, and the call made last.                                     *)

\* The limits that no context exceeds.
WithinLimits(limits) ==
  limits.prec <= MaxPrec /\ limits.emax <= MaxEmax /\ MinEmin <= limits.emin

\* A call raises flags in the context and leaves the rest of it alone.
ContextIsOK ==
  /\ ctx = [prec |-> ctx.prec, emax |-> ctx.emax, emin |-> ctx.emin,
            round |-> ctx.round, clamp |-> ctx.clamp, traps |-> ctx.traps,
            status |-> ctx.status, newtrap |-> ctx.newtrap]
  /\ ContextOK(ctx) /\ WithinLimits(ctx) /\ ctx.round \in Roundings

SameLimits(c, d) ==
  /\ c.prec = d.prec /\ c.emax = d.emax /\ c.emin = d.emin
  /\ c.round = d.round /\ c.clamp = d.clamp

LEMMA RaiseKeeps ==
  ASSUME ContextIsOK, NEW flags, ctx' = AddStatusRaise(ctx, flags)
  PROVE  ContextIsOK' /\ SameLimits(ctx', ctx)
<1>1. ctx' = [ctx EXCEPT !.status = @ \cup flags,
                !.newtrap = IF flags \cap ctx.traps = {} THEN @
                            ELSE flags \cap ctx.traps]
  BY DEF AddStatusRaise
<1> QED
  BY <1>1 DEF ContextIsOK, ContextOK, WithinLimits, SameLimits

LEMMA InitContext ==
  ASSUME Init
  PROVE  ContextIsOK
<1>1. ValidContext(ctx)
  BY ContextsAssumption DEF Init
<1> QED
  BY <1>1, LimitsAssumption DEF ValidContext, ContextIsOK, ContextOK, WithinLimits

TextOps == {"set_string", "format"}
QuietOps ==
  ConversionOps \cup SetOps \cup LogicOps \cup SumOps \cup QuotientOps
    \cup ProductOps \cup RescaleOps

\* What a function returns that is called with the operands of c.
Answers(c, r) ==
  \/ c.op \in QuietOps /\ r = Call2(c.op, c.a, c.b)
  \/ c.op \in GetOps /\ r = GetCall(c.op, c.a, c.b)
  \/ c.op = "divmod" /\ r = QDivMod(c.a, c.b, ctx)
  \/ c.op = "fma" /\ r = QFma(c.a, c.b, c.c, ctx)
  \/ c.op \in TextOps \cup {"powmod", "to_sci", "to_eng"}

\* What the types of the functions leave of the operands.
Operands(c) ==
  /\ c.op \notin TextOps => {c.a, c.b, c.c} \subseteq Decimals
  /\ c.op \in SsizeOps => IsSsize(c.b)
  /\ c.op = "set_ssize" => IsSsize(c.a)
  /\ c.op = "set_uint" => IsUint(c.a)
  /\ c.op = "scaleb" => Digits(c.a.c) <= MaxPrec

LEMMA MadeOf ==
  ASSUME NEW op \in DOMAIN Offers, NEW args \in Offers[op]
  PROVE  Operands(Made(op, args))
<1> DEFINE c == Made(op, args)
<1>1. c.op = op /\ c.a = args[1] /\ c.b = args[IF Len(args) = 1 THEN 1 ELSE 2]
      /\ c.c = args[Len(args)]
  BY DEF Made
<1> HIDE DEF c
<1>2. ASSUME op \notin TextOps
      PROVE  c.a \in Decimals /\ c.b \in Decimals /\ c.c \in Decimals
  <2>1. args \in Seq(Decimals) /\ Len(args) \in 1..3
    BY <1>2, OffersAssumption DEF TextOps
  <2>2. \A i \in 1..Len(args) : args[i] \in Decimals
    BY <2>1
  <2>3. /\ 1 \in 1..Len(args) /\ Len(args) \in 1..Len(args)
        /\ (IF Len(args) = 1 THEN 1 ELSE 2) \in 1..Len(args)
    BY <2>1
  <2> QED
    BY <1>1, <2>2, <2>3
<1>3. /\ op \in SsizeOps => IsSsize(c.b)
      /\ op = "set_ssize" => IsSsize(c.a)
      /\ op = "set_uint" => IsUint(c.a)
      /\ op = "scaleb" => Digits(c.a.c) <= MaxPrec
  BY OperandsAssumption DEF c
<1> QED
  BY <1>1, <1>2, <1>3 DEF Operands, c

\* A step is a call, of which the context keeps its limits, or none.
LEMMA Steps ==
  ASSUME ContextIsOK, [Next]_vars
  PROVE  /\ ContextIsOK' /\ SameLimits(ctx', ctx)
         /\ \/ UNCHANGED <<call, ret>>
            \/ call' = NoCall
            \/ Operands(call') /\ Answers(call', ret')
<1>1. CASE UNCHANGED vars
  BY <1>1 DEF vars, ContextIsOK, ContextOK, WithinLimits, SameLimits
<1>2. CASE Continue
  <2>1. ctx' = [ctx EXCEPT !.status = {}] /\ call' = NoCall
    BY <1>2 DEF Continue
  <2> QED
    BY <2>1 DEF ContextIsOK, ContextOK, WithinLimits, SameLimits
<1>3. ASSUME NEW op \in DOMAIN Offers, NEW args \in Offers[op],
             NEW c, c = Made(op, args),
             \/ CallQuiet(c) \/ CallGet(c) \/ CallDivMod(c) \/ CallFma(c)
             \/ CallPowMod(c) \/ CallSetString(c) \/ CallFormat(c)
             \/ CallToText(c)
      PROVE  /\ ContextIsOK' /\ SameLimits(ctx', ctx)
             /\ Operands(call') /\ Answers(call', ret')
  <2>1. PICK r : Returns(c, r) /\ Answers(c, r)
    <3>1. CASE CallQuiet(c)
      BY <3>1 DEF CallQuiet, Answers, QuietOps
    <3>2. CASE CallGet(c)
      BY <3>2 DEF CallGet, Answers
    <3>3. CASE CallDivMod(c)
      BY <3>3 DEF CallDivMod, Answers
    <3>4. CASE CallFma(c)
      BY <3>4 DEF CallFma, Answers
    <3>5. CASE CallPowMod(c) \/ CallSetString(c) \/ CallFormat(c) \/ CallToText(c)
      BY <3>5 DEF CallPowMod, CallSetString, CallFormat, CallToText, Answers, TextOps
    <3> QED
      BY <1>3, <3>1, <3>2, <3>3, <3>4, <3>5
  <2>2. call' = c /\ ret' = r /\ ctx' = AddStatusRaise(ctx, r.st)
    BY <2>1 DEF Returns
  <2>3. Operands(c)
    BY <1>3, MadeOf
  <2> QED
    BY <2>1, <2>2, <2>3, RaiseKeeps
<1> QED
  BY <1>1, <1>2, <1>3 DEF Next

------------------------------------------------------------------------------
(* Quotients with a remainder.                                              *)

\* Each of the four functions divides right.
LEMMA FourRemainders ==
  ASSUME ContextIsOK, NEW a \in Numbers, NEW b \in Numbers
  PROVE  /\ b.c # 0 => QDivMod(a, b, ctx) = FinalizedPair(DivMod(a, b, ctx), ctx)
         /\ b.c # 0 => QDivInt(a, b, ctx) = QuotientPart(DivMod(a, b, ctx), ctx)
         /\ b.c # 0 => QRem(a, b, ctx) = RemainderPart(DivMod(a, b, ctx), ctx)
         /\ Call2("divint", a, b) = QDivInt(a, b, ctx)
         /\ Call2("rem", a, b) = QRem(a, b, ctx)
         /\ Call2("rem_near", a, b) = QRemNear(a, b, ctx)
<1>1. ~AnyNaN(<<a, b>>) /\ ~IsInf(a) /\ ~IsInf(b) /\ ~IsSpecial(a) /\ ~IsSpecial(b)
  <2>1. a \in Decimals /\ b \in Decimals
    BY DEF Decimals
  <2> QED
    BY <2>1, NumberFields, NaNs DEF ContextIsOK
<1>2. b.c # 0 => QDivMod(a, b, ctx) = FinalizedPair(DivMod(a, b, ctx), ctx)
  BY <1>1 DEF QDivMod
<1>3. b.c # 0 => QDivInt(a, b, ctx) = QuotientPart(DivMod(a, b, ctx), ctx)
  BY <1>1 DEF QDivInt
<1>4. b.c # 0 => QRem(a, b, ctx) = RemainderPart(DivMod(a, b, ctx), ctx)
  BY <1>1 DEF QRem, NeedsRemSpecial
<1>5. Call2("divint", a, b) = QDivInt(a, b, ctx)
  <2>1. Call2("divint", a, b) = QuotientCall("divint", a, b)
    <3>1. /\ "divint" \notin ConversionOps /\ "divint" \notin SetOps
          /\ "divint" \notin LogicOps /\ "divint" \notin SumOps
          /\ "divint" \in QuotientOps
          /\ "divint" \notin ProductOps /\ "divint" \notin RescaleOps
      BY DEF ConversionOps, SetOps, LogicOps, SumOps, QuotientOps, ProductOps,
             RescaleOps
    <3> QED
      BY <3>1 DEF Call2
  <2>2. QuotientCall("divint", a, b) = QDivInt(a, b, ctx)
    BY DEF QuotientCall
  <2> QED
    BY <2>1, <2>2
<1>6. /\ Call2("rem", a, b) = QRem(a, b, ctx)
      /\ Call2("rem_near", a, b) = QRemNear(a, b, ctx)
  BY DEF Call2, ConversionOps, SetOps, LogicOps, SumOps, QuotientOps, ProductOps,
         RescaleOps, RescaleCall
<1> QED
  BY <1>2, <1>3, <1>4, <1>5, <1>6

LEMMA RemainderCalls ==
  ASSUME ContextIsOK, NEW c, NEW back, Operands(c), Answers(c, back)
  PROVE  RemainderIsRight(c, back, ctx)
<1> SUFFICES ASSUME c.op \in RemainderOps, AllNumbers(c), c.b.c # 0
             PROVE  RemainderIsRight(c, back, ctx)
  BY DEF RemainderIsRight
<1> DEFINE a == c.a
           b == c.b
           i == Integral(a, b)
           m == DivMod(a, b, ctx)
           q == Finalize(m.q, ctx)
           r == Finalize(m.r, ctx)
           Kept(y) == /\ WholeTimes(a, b, y) /\ Whole(a, b, y) = i
                      /\ CmpAbs(y, b) < 0 /\ y.s = a.s
           Near(y) == /\ WholeTimes(a, b, y)
                      /\ \/ CmpAbs(Doubled(y), b) < 0
                         \/ CmpAbs(Doubled(y), b) = 0 /\ Whole(a, b, y) % 2 = 0
<1>1. a \in Numbers /\ b \in Numbers /\ b.c # 0
  <2>1. c.op \notin TextOps
    BY DEF RemainderOps, TextOps
  <2>2. a \in Decimals /\ b \in Decimals /\ a.k = "fin" /\ b.k = "fin"
    BY <2>1 DEF Operands, AllNumbers, IsSpecial
  <2> HIDE DEF a, b
  <2> QED
    BY <2>2, Kinds DEF b
<1>2. ContextOK(ctx) /\ ctx.round \in Roundings
  BY DEF ContextIsOK
<1>3. c.op \in {"divmod", "divint", "rem", "rem_near"}
  BY DEF RemainderOps
<1>4. RemainderIsRight(c, back, ctx) <=>
        LET u == IF c.op = "divmod" THEN back.q ELSE back.d
            v == IF c.op = "divmod" THEN back.r ELSE back.d
        IN IF IsNaN(v)
           THEN /\ "Division_impossible" \in back.st
                /\ Digits(i) > ctx.prec \/ (c.op = "rem_near" /\ i = MaxCoeff(ctx))
           ELSE /\ c.op \in {"divmod", "divint"} /\ ~Lost(back.st) =>
                     SameNumber(u, i, 0) /\ u.s = Xor(a.s, b.s)
                /\ c.op \in {"divmod", "rem"} /\ ~Lost(back.st) => Kept(v)
                /\ c.op = "rem_near" /\ ~Lost(back.st) => Near(v)
  BY DEF RemainderIsRight, Integral, Lost
<1>5. /\ c.op = "divmod" => back = PairOf(q, r, m.st)
      /\ c.op = "divint" => back = Also(m.st, q)
      /\ c.op = "rem" => back = Also(m.st, r)
      /\ c.op = "rem_near" => back = QRemNear(a, b, ctx)
  <2> HIDE DEF a, b
  <2>1. ASSUME c.op \in {"divint", "rem", "rem_near"}
        PROVE  back = Call2(c.op, a, b)
    BY <2>1 DEF Answers, GetOps, TextOps, a, b
  <2>2. c.op = "divmod" => back = QDivMod(a, b, ctx)
    <3>1. "divmod" \notin QuietOps \cup GetOps \cup TextOps
      BY DEF QuietOps, ConversionOps, SetOps, LogicOps, SumOps, QuotientOps,
             ProductOps, RescaleOps, GetOps, TextOps
    <3> QED
      BY <3>1 DEF Answers, a, b
  <2> QED
    BY <1>1, <2>1, <2>2, FourRemainders
       DEF FinalizedPair, QuotientPart, RemainderPart, FinalizedPart, m, q, r
<1>6. LET n == QRemNear(a, b, ctx)
      IN IF IsNaN(n.d)
         THEN "Division_impossible" \in n.st /\ (Digits(i) > ctx.prec \/ i = MaxCoeff(ctx))
         ELSE ~Lost(n.st) => Near(n.d)
  BY <1>1, <1>2, NearestIs
<1>7. CASE c.op = "rem_near"
  <2> HIDE DEF i, a, b, m, q, r, Kept, Near
  <2>1. back = QRemNear(a, b, ctx)
    BY <1>5, <1>7
  <2> QED
    BY <1>4, <1>6, <1>7, <2>1
<1>8. CASE c.op # "rem_near" /\ Digits(i) > ctx.prec
  <2>1. m = NaNPair({"Division_impossible"})
    BY <1>1, <1>2, <1>8, DivModCases
  <2>2. m.q = QNaN /\ m.r = QNaN /\ m.st = {"Division_impossible"}
    BY <2>1 DEF NaNPair, Pair
  <2>3. IsNaN(q.d) /\ IsNaN(r.d)
    BY <2>2 DEF Finalize, FixNaN, Result, IsNaN, QNaN, Special
  <2>4. /\ "Division_impossible" \in back.st
        /\ c.op = "divmod" => IsNaN(back.r)
        /\ c.op # "divmod" => IsNaN(back.d)
    <3> HIDE DEF q, r
    <3> QED
      BY <1>3, <1>5, <1>8, <2>2, <2>3 DEF PairOf, Also, Pair, Result
  <2> HIDE DEF i, a, b, m, q, r, Kept, Near
  <2> QED
    BY <1>3, <1>4, <1>8, <2>4
<1>9. CASE c.op # "rem_near" /\ ~(Digits(i) > ctx.prec)
  <2>1. Digits(i) <= ctx.prec
    <3>1. i \in Nat
      BY <1>1, <1>2, DivModCases
    <3>2. Digits(i) \in Nat /\ ctx.prec \in Nat
      BY <1>2, <3>1, DigitsAre DEF ContextOK
    <3> HIDE DEF i
    <3> QED
      BY <1>9, <3>2
  <2>2. m.st = {}
    BY <1>1, <1>2, <1>9, DivModCases
  <2>3. ~IsNaN(q.d) /\ (~Lost(q.st) => SameNumber(q.d, i, 0) /\ q.d.s = Xor(a.s, b.s))
    BY <1>1, <1>2, <2>1, QuotientIsIntegral
  <2>4. ~IsNaN(r.d) /\ (~Lost(r.st) => Kept(r.d))
    BY <1>1, <1>2, <2>1, RemainderIsLeft
  <2> HIDE DEF i, a, b, m, q, r, Kept, Near
  <2>6. CASE c.op = "divmod"
    <3>1. /\ back.q = q.d /\ back.r = r.d /\ back.st = q.st \cup r.st \cup {}
      BY <1>5, <2>2, <2>6 DEF PairOf, Pair
    <3>2. Lost(q.st) \/ Lost(r.st) => Lost(back.st)
      BY <3>1 DEF Lost
    <3> QED
      BY <1>4, <2>3, <2>4, <2>6, <3>1, <3>2
  <2>7. CASE c.op = "divint"
    <3>1. back.d = q.d /\ back.st = q.st \cup {}
      BY <1>5, <2>2, <2>7 DEF Also, Result
    <3>2. Lost(q.st) => Lost(back.st)
      BY <3>1 DEF Lost
    <3> QED
      BY <1>4, <2>3, <2>7, <3>1, <3>2
  <2>8. CASE c.op = "rem"
    <3>1. back.d = r.d /\ back.st = r.st \cup {}
      BY <1>5, <2>2, <2>8 DEF Also, Result
    <3>2. Lost(r.st) => Lost(back.st)
      BY <3>1 DEF Lost
    <3> QED
      BY <1>4, <2>4, <2>8, <3>1, <3>2
  <2> QED
    BY <1>3, <1>9, <2>6, <2>7, <2>8
<1> QED
  BY <1>7, <1>8, <1>9

LEMMA RemainderStaysRight ==
  ASSUME NEW c, NEW back, NEW old, NEW new, SameLimits(new, old),
         RemainderIsRight(c, back, old)
  PROVE  RemainderIsRight(c, back, new)
<1>1. new.prec = old.prec /\ MaxCoeff(new) = MaxCoeff(old)
  BY DEF SameLimits, MaxCoeff
<1> QED
  BY <1>1 DEF RemainderIsRight

\* Whatever context the program sets up, and whatever decimals it divides: a
\* quotient and a remainder make the dividend again, the remainder is smaller
\* than the divisor, or nearest to it, with the right sign, and a quotient
\* that does not fit is refused (_mpd_qdivmod, mpd_qdivmod, mpd_qdivint,
\* mpd_qrem, mpd_qrem_near).
THEOREM RemaindersAreRight == Spec => []QuotientAndRemainder
<1> DEFINE IInv == ContextIsOK /\ QuotientAndRemainder
<1>1. Init => IInv
  <2> SUFFICES ASSUME Init PROVE IInv
    OBVIOUS
  <2>1. call.op = "none"
    BY DEF Init, NoCall
  <2>2. QuotientAndRemainder
    BY <2>1 DEF QuotientAndRemainder, RemainderIsRight, RemainderOps
  <2> QED
    BY <2>2, InitContext
<1>2. IInv /\ [Next]_vars => IInv'
  <2> SUFFICES ASSUME IInv, [Next]_vars PROVE IInv'
    OBVIOUS
  <2>1. /\ ContextIsOK' /\ SameLimits(ctx', ctx)
        /\ \/ UNCHANGED <<call, ret>>
           \/ call' = NoCall
           \/ Operands(call') /\ Answers(call', ret')
    BY Steps
  <2>2. CASE UNCHANGED <<call, ret>>
    BY <2>1, <2>2, RemainderStaysRight DEF QuotientAndRemainder
  <2>3. CASE call' = NoCall
    BY <2>1, <2>3 DEF QuotientAndRemainder, RemainderIsRight, NoCall, RemainderOps
  <2>4. CASE Operands(call') /\ Answers(call', ret')
    <3>1. RemainderIsRight(call', ret', ctx)
      BY <2>4, RemainderCalls
    <3> QED
      BY <2>1, <3>1, RemainderStaysRight DEF QuotientAndRemainder
  <2> QED
    BY <2>1, <2>2, <2>3, <2>4
<1>3. IInv => QuotientAndRemainder
  OBVIOUS
<1> QED
  BY <1>1, <1>2, <1>3, PTL DEF Spec

------------------------------------------------------------------------------
(* Order and neighbours.                                                    *)

LEMMA WorkContext ==
  ASSUME ContextIsOK, NEW mode
  PROVE  /\ ContextOK(Rounding(ctx, mode)) /\ SameRange(Rounding(ctx, mode), ctx)
         /\ Rounding(ctx, mode).round = mode
<1> DEFINE w == Rounding(ctx, mode)
<1>1. w = [prec |-> ctx.prec, emax |-> ctx.emax, emin |-> ctx.emin,
           round |-> mode, clamp |-> ctx.clamp, traps |-> ctx.traps,
           status |-> ctx.status, newtrap |-> ctx.newtrap]
  BY DEF ContextIsOK, Rounding
<1> QED
  BY <1>1 DEF ContextIsOK, ContextOK, SameRange

LEMMA OrderCallsAre ==
  ASSUME NEW a, NEW b
  PROVE  /\ Call2("next_plus", a, b) = Next1(a, 0, ctx)
         /\ Call2("next_minus", a, b) = Next1(a, 1, ctx)
         /\ Call2("compare", a, b) = QCompare(a, b, ctx)
         /\ Call2("max", a, b) = QMax(a, b, ctx)
         /\ Call2("min", a, b) = QMin(a, b, ctx)
<1>1. ASSUME NEW op \in {"next_plus", "next_minus"}
      PROVE  Call2(op, a, b) = ProductCall(op, a, b)
  <2>1. /\ op \notin ConversionOps /\ op \notin SetOps /\ op \notin LogicOps
        /\ op \notin SumOps /\ op \notin QuotientOps /\ op \in ProductOps
        /\ op \notin RescaleOps
    BY DEF ConversionOps, SetOps, LogicOps, SumOps, QuotientOps, ProductOps, RescaleOps
  <2> QED
    BY <2>1 DEF Call2
<1>2. Call2("compare", a, b) = SumCall("compare", a, b)
  <2>1. /\ "compare" \notin ConversionOps /\ "compare" \notin SetOps
        /\ "compare" \notin LogicOps /\ "compare" \in SumOps
        /\ "compare" \notin QuotientOps /\ "compare" \notin ProductOps
        /\ "compare" \notin RescaleOps
    BY DEF ConversionOps, SetOps, LogicOps, SumOps, QuotientOps, ProductOps, RescaleOps
  <2> QED
    BY <2>1 DEF Call2
<1>3. ASSUME NEW op \in {"max", "min"}
      PROVE  Call2(op, a, b) = QuotientCall(op, a, b)
  <2>1. /\ op \notin ConversionOps /\ op \notin SetOps /\ op \notin LogicOps
        /\ op \notin SumOps /\ op \in QuotientOps /\ op \notin ProductOps
        /\ op \notin RescaleOps
    BY DEF ConversionOps, SetOps, LogicOps, SumOps, QuotientOps, ProductOps, RescaleOps
  <2> QED
    BY <2>1 DEF Call2
<1>4. /\ ProductCall("next_plus", a, b) = Next1(a, 0, ctx)
      /\ ProductCall("next_minus", a, b) = Next1(a, 1, ctx)
  BY DEF ProductCall, QNextPlus, QNextMinus
<1>5. SumCall("compare", a, b) = QCompare(a, b, ctx)
  BY DEF SumCall
<1>6. /\ QuotientCall("max", a, b) = QMax(a, b, ctx)
      /\ QuotientCall("min", a, b) = QMin(a, b, ctx)
  BY DEF QuotientCall
<1> QED
  BY <1>1, <1>2, <1>3, <1>4, <1>5, <1>6

\* The neighbour of a number on either side.
LEMMA NextCalls ==
  ASSUME ContextIsOK, NEW sub \in {0, 1}, NEW a \in Numbers, Fits(a, ctx)
  PROVE  LET d == Next1(a, sub, ctx).d
         IN Neighbours(a, d, ctx) /\ Cmp(a, d) = (IF sub = 0 THEN -1 ELSE 1)
<1> DEFINE mode == IF sub = 1 THEN "ROUND_FLOOR" ELSE "ROUND_CEILING"
           w == Rounding(ctx, mode)
<1>1. ~IsNaN(a) /\ ~IsInf(a)
  BY NumberFields
<1>2. Next1(a, sub, ctx) = FittedOr(Finalize(a, w), QAdd(a, TinyStep(sub, ctx), w))
  BY <1>1 DEF Next1
<1>3. ContextOK(w) /\ SameRange(w, ctx) /\ w.round = mode /\ ContextOK(ctx)
  BY WorkContext DEF ContextIsOK
<1> HIDE DEF w
<1> QED
  BY <1>2, <1>3, NextIsNeighbour

LEMMA Compares ==
  ASSUME ContextIsOK, NEW a \in Decimals, NEW b \in Decimals
  PROVE  LET d == QCompare(a, b, ctx).d
             n == QCmp(a, b).c
         IN /\ IsZero(d) \/ IsNaN(d) \/ ArithSign(d) = CmpTotal(a, b)
            /\ n # IntMax => n * CmpTotal(a, b) >= 0
<1> DEFINE d == QCompare(a, b, ctx).d
           n == QCmp(a, b).c
           two == <<a, b>>
<1>1. two \in Seq(Decimals) /\ ContextOK(ctx)
  BY DEF ContextIsOK
<1>2. IsNaN(a) \/ IsNaN(b) <=> AnyNaN(two)
  BY <1>1, NaNs
<1>3. CASE AnyNaN(two)
  <2>1. d = CheckNaNs(two, ctx).d
    BY <1>3 DEF QCompare
  <2>2. n = IntMax
    BY <1>2, <1>3 DEF QCmp
  <2> QED
    BY <1>1, <1>3, <2>1, <2>2, CheckNaNsFits
<1>4. CASE ~AnyNaN(two)
  <2> DEFINE i == Cmp(a, b)
             j == CmpTotal(a, b)
  <2>1. i \in {-1, 0, 1} /\ j \in {-1, 0, 1} /\ (i # 0 => j = i)
    BY <1>2, <1>4, TotalAgrees, TotalIsOrder
  <2>2. n = i
    BY <1>2, <1>4 DEF QCmp
  <2>3. d = FromCmp(i)
    BY <1>4 DEF QCompare, Result
  <2> HIDE DEF n, d, i, j
  <2>4. d.k = "fin" /\ d.s = (IF i < 0 THEN 1 ELSE 0) /\ d.c = (IF i = 0 THEN 0 ELSE 1)
    BY <2>3 DEF FromCmp, Fin
  <2>5. i = 0 => IsZero(d)
    BY <2>4 DEF IsZero
  <2>6. i # 0 => ArithSign(d) = j
    BY <2>1, <2>4 DEF ArithSign
  <2>7. n * j >= 0
    BY <2>1, <2>2
  <2> QED
    BY <2>5, <2>6, <2>7 DEF n, d, j
<1> QED
  BY <1>3, <1>4

LEMMA OrderCalls ==
  ASSUME ContextIsOK, NEW c, NEW back, Operands(c), Answers(c, back)
  PROVE  OrderIsRight(c, back, ctx)
<1> DEFINE Named == {"next_plus", "next_minus", "compare", "max", "min"}
<1>1. ASSUME c.op \in Named
      PROVE  back = Call2(c.op, c.a, c.b)
  BY <1>1 DEF Answers, GetOps, TextOps
<1>2. c.op = "cmp" => back = GetCall("cmp", c.a, c.b)
  <2>1. "cmp" \notin QuietOps \cup TextOps
    BY DEF QuietOps, ConversionOps, SetOps, LogicOps, SumOps, QuotientOps,
           ProductOps, RescaleOps, TextOps
  <2> QED
    BY <2>1 DEF Answers
<1>3. ASSUME c.op \in Named \cup {"cmp", "fma"}
      PROVE  /\ c.a \in Decimals /\ c.b \in Decimals /\ c.c \in Decimals
             /\ AllNumbers(c) => c.a \in Numbers /\ c.b \in Numbers
  <2>1. c.op \notin TextOps
    BY <1>3 DEF TextOps
  <2>2. c.a \in Decimals /\ c.b \in Decimals /\ c.c \in Decimals
    BY <2>1 DEF Operands
  <2>3. AllNumbers(c) => c.a.k = "fin" /\ c.b.k = "fin"
    BY DEF AllNumbers, IsSpecial
  <2> QED
    BY <2>2, <2>3, Kinds
<1>4. c.op \in NextOps /\ AllNumbers(c) /\ Fits(c.a, ctx) =>
        /\ Neighbours(c.a, back.d, ctx)
        /\ Cmp(c.a, back.d) = (IF c.op = "next_plus" THEN -1 ELSE 1)
  <2>1. CASE c.op = "next_plus"
    BY <1>1, <1>3, <2>1, OrderCallsAre, NextCalls
  <2>2. CASE c.op = "next_minus"
    BY <1>1, <1>3, <2>2, OrderCallsAre, NextCalls
  <2> QED
    BY <2>1, <2>2 DEF NextOps
<1>5. c.op = "compare" =>
        /\ CmpTotal(c.a, c.b) = -CmpTotal(c.b, c.a)
        /\ (CmpTotal(c.a, c.b) = 0) = (c.a = c.b)
        /\ (IsZero(back.d) \/ IsNaN(back.d) \/ ArithSign(back.d) = CmpTotal(c.a, c.b))
  <2> SUFFICES ASSUME c.op = "compare"
               PROVE  /\ CmpTotal(c.a, c.b) = -CmpTotal(c.b, c.a)
                      /\ (CmpTotal(c.a, c.b) = 0) = (c.a = c.b)
                      /\ (IsZero(back.d) \/ IsNaN(back.d)
                           \/ ArithSign(back.d) = CmpTotal(c.a, c.b))
    OBVIOUS
  <2>1. c.a \in Decimals /\ c.b \in Decimals
    BY <1>3
  <2>2. back = QCompare(c.a, c.b, ctx)
    BY <1>1, OrderCallsAre
  <2>3. IsZero(back.d) \/ IsNaN(back.d) \/ ArithSign(back.d) = CmpTotal(c.a, c.b)
    BY <2>1, <2>2, Compares
  <2>4. CmpTotal(c.a, c.b) = -CmpTotal(c.b, c.a) /\ (CmpTotal(c.a, c.b) = 0 <=> c.a = c.b)
    BY <2>1, TotalIsOrder
  <2> QED
    BY <2>3, <2>4
<1>6. c.op = "cmp" /\ back.n # IntMax => back.n * CmpTotal(c.a, c.b) >= 0
  <2> SUFFICES ASSUME c.op = "cmp", back.n # IntMax
               PROVE  back.n * CmpTotal(c.a, c.b) >= 0
    OBVIOUS
  <2>1. c.a \in Decimals /\ c.b \in Decimals
    BY <1>3
  <2>2. back.n = QCmp(c.a, c.b).c
    BY <1>2 DEF GetCall, Number
  <2> QED
    BY <2>1, <2>2, Compares
<1>7. c.op = "fma" =>
        ~(/\ CmpTotal(c.a, c.b) <= 0 /\ CmpTotal(c.b, c.c) <= 0
          /\ CmpTotal(c.a, c.c) > 0)
  <2> SUFFICES ASSUME c.op = "fma", CmpTotal(c.a, c.b) <= 0, CmpTotal(c.b, c.c) <= 0
               PROVE  ~(CmpTotal(c.a, c.c) > 0)
    OBVIOUS
  <2>1. c.a \in Decimals /\ c.b \in Decimals /\ c.c \in Decimals
    BY <1>3
  <2>2. CmpTotal(c.a, c.c) <= 0 /\ CmpTotal(c.a, c.c) \in {-1, 0, 1}
    BY <2>1, TotalIsOrder
  <2> QED
    BY <2>2
<1>8. c.op \in {"max", "min"} /\ AllNumbers(c) =>
        {back.d, (IF c.op = "max" THEN QMin(c.b, c.a, ctx)
                  ELSE QMax(c.b, c.a, ctx)).d} =
          {Finalize(c.a, ctx).d, Finalize(c.b, ctx).d}
  <2>1. CASE c.op = "max"
    BY <1>1, <1>3, <2>1, OrderCallsAre, ExtremesAreBoth
  <2>2. CASE c.op = "min"
    BY <1>1, <1>3, <2>2, OrderCallsAre, ExtremesAreBoth
  <2> QED
    BY <2>1, <2>2
<1> QED
  BY <1>4, <1>5, <1>6, <1>7, <1>8 DEF OrderIsRight

LEMMA OrderStaysRight ==
  ASSUME NEW c, NEW back, Operands(c), NEW old, NEW new, SameLimits(new, old),
         OrderIsRight(c, back, old)
  PROVE  OrderIsRight(c, back, new)
<1>1. SameRange(new, old) /\ new.round = old.round
  BY DEF SameLimits, SameRange
<1>2. /\ Fits(c.a, new) <=> Fits(c.a, old)
      /\ Neighbours(c.a, back.d, new) <=> Neighbours(c.a, back.d, old)
  BY <1>1, RangeKeeps
<1>3. ASSUME c.op \in {"max", "min"}, AllNumbers(c)
      PROVE  /\ Finalize(c.a, new) = Finalize(c.a, old)
             /\ Finalize(c.b, new) = Finalize(c.b, old)
             /\ QMin(c.b, c.a, new) = QMin(c.b, c.a, old)
             /\ QMax(c.b, c.a, new) = QMax(c.b, c.a, old)
  <2>1. c.a \in Numbers /\ c.b \in Numbers
    <3>1. c.op \notin TextOps
      BY <1>3 DEF TextOps
    <3>2. c.a \in Decimals /\ c.b \in Decimals /\ c.a.k = "fin" /\ c.b.k = "fin"
      BY <1>3, <3>1 DEF Operands, AllNumbers, IsSpecial
    <3> QED
      BY <3>2, Kinds
  <2>2. \A a \in Numbers : Finalize(a, new) = Finalize(a, old)
    BY <1>1, FinalizeKeepsTo
  <2>3. ASSUME NEW a \in Numbers, NEW b \in Numbers, NEW z
        PROVE  Extreme(a, b, z, new) = Extreme(a, b, z, old)
    <3>1. ~IsNaN(a) /\ ~IsNaN(b) /\ "snan" \notin {a.k, b.k}
      BY NumberFields
    <3>2. Chosen(a, b, z) \in Numbers
      BY DEF Chosen
    <3> QED
      BY <2>2, <3>1, <3>2 DEF Extreme
  <2> QED
    BY <2>1, <2>2, <2>3 DEF QMin, QMax
<1> QED
  BY <1>2, <1>3 DEF OrderIsRight

\* Whatever context the program sets up, and whatever decimals it compares:
\* mpd_cmp_total orders them all and agrees with mpd_qcmp, mpd_qmax and
\* mpd_qmin return one operand each, and mpd_qnext_plus and mpd_qnext_minus
\* the nearest number of the context on their side.
THEOREM OrderIsKept == Spec => []OrderIsSound
<1> DEFINE Known == call # NoCall => Operands(call)
           IInv == ContextIsOK /\ Known /\ OrderIsSound
<1>1. ASSUME call = NoCall
      PROVE  OrderIsSound
  <2>1. call.op = "none"
    BY <1>1 DEF NoCall
  <2> QED
    BY <2>1 DEF OrderIsSound, OrderIsRight, NextOps
<1>2. Init => IInv
  BY <1>1, InitContext DEF Init
<1>3. IInv /\ [Next]_vars => IInv'
  <2> SUFFICES ASSUME IInv, [Next]_vars PROVE IInv'
    OBVIOUS
  <2>1. /\ ContextIsOK' /\ SameLimits(ctx', ctx)
        /\ \/ UNCHANGED <<call, ret>>
           \/ call' = NoCall
           \/ Operands(call') /\ Answers(call', ret')
    BY Steps
  <2>2. CASE call' = NoCall
    <3>1. call'.op = "none"
      BY <2>2 DEF NoCall
    <3>2. OrderIsRight(call', ret', ctx')
      BY <3>1 DEF OrderIsRight, NextOps
    <3> QED
      BY <2>1, <2>2, <3>2 DEF OrderIsSound
  <2>3. CASE UNCHANGED <<call, ret>> /\ call # NoCall
    <3>1. OrderIsRight(call, ret, ctx')
      BY <2>1, <2>3, OrderStaysRight DEF OrderIsSound
    <3> QED
      BY <2>1, <2>3, <3>1 DEF OrderIsSound, Operands
  <2>4. CASE Operands(call') /\ Answers(call', ret')
    <3>1. OrderIsRight(call', ret', ctx)
      BY <2>4, OrderCalls
    <3>2. OrderIsRight(call', ret', ctx')
      BY <2>1, <2>4, <3>1, OrderStaysRight
    <3> QED
      BY <2>1, <2>4, <3>2 DEF OrderIsSound, Operands
  <2> QED
    BY <2>1, <2>2, <2>3, <2>4
<1>4. IInv => OrderIsSound
  OBVIOUS
<1> QED
  BY <1>2, <1>3, <1>4, PTL DEF Spec

------------------------------------------------------------------------------
(* Rounding.                                                                *)

LEMMA AlsoIs ==
  ASSUME NEW r, NEW st
  PROVE  /\ Also(st, r).d = r.d /\ Also(st, r).st = r.st \cup st
         /\ Also({}, r).st = r.st
<1>1. Also(st, r) = Result(r.d, r.st \cup st) /\ Also({}, r) = Result(r.d, r.st \cup {})
  BY DEF Also
<1>2. \A d, s : Result(d, s).d = d /\ Result(d, s).st = s
  BY DEF Result
<1>3. r.st \cup {} = r.st
  OBVIOUS
<1> QED
  BY <1>1, <1>2, <1>3

LEMMA RoundedCallsAre ==
  ASSUME NEW a, NEW b
  PROVE  /\ Call2("finalize", a, b) = Finalize(a, ctx)
         /\ Call2("plus", a, b) = QPlus(a, ctx)
         /\ Call2("minus", a, b) = QMinus(a, ctx)
         /\ Call2("abs", a, b) = QAbs(a, ctx)
         /\ Call2("add", a, b) = QAdd(a, b, ctx)
         /\ Call2("sub", a, b) = QSub(a, b, ctx)
         /\ Call2("mul", a, b) = QMul(a, b, ctx)
         /\ Call2("div", a, b) = QDiv(a, b, ctx)
         /\ Call2("reduce", a, b) = QReduce(a, ctx)
         /\ Call2("quantize", a, b) = QQuantize(a, b, ctx)
<1>1. Call2("finalize", a, b) = ConversionCall("finalize", a, b)
  <2>1. "finalize" \in ConversionOps
    BY DEF ConversionOps
  <2>2. /\ "finalize" \notin SetOps /\ "finalize" \notin LogicOps
        /\ "finalize" \notin SumOps /\ "finalize" \notin QuotientOps
        /\ "finalize" \notin ProductOps /\ "finalize" \notin RescaleOps
    BY DEF SetOps, LogicOps, SumOps, QuotientOps, ProductOps, RescaleOps
  <2> QED
    BY <2>1, <2>2 DEF Call2
<1>2. Call2("abs", a, b) = LogicCall("abs", a, b)
  <2>1. /\ "abs" \notin ConversionOps /\ "abs" \notin SetOps
        /\ "abs" \in LogicOps /\ "abs" \notin SumOps
        /\ "abs" \notin QuotientOps /\ "abs" \notin ProductOps
        /\ "abs" \notin RescaleOps
    BY DEF ConversionOps, SetOps, LogicOps, SumOps, QuotientOps, ProductOps, RescaleOps
  <2> QED
    BY <2>1 DEF Call2
<1>3. ASSUME NEW op \in {"add", "sub"}
      PROVE  Call2(op, a, b) = SumCall(op, a, b)
  <2>1. /\ op \notin ConversionOps /\ op \notin SetOps /\ op \notin LogicOps
        /\ op \in SumOps /\ op \notin QuotientOps /\ op \notin ProductOps
        /\ op \notin RescaleOps
    BY DEF ConversionOps, SetOps, LogicOps, SumOps, QuotientOps, ProductOps, RescaleOps
  <2> QED
    BY <2>1 DEF Call2
<1>4. ASSUME NEW op \in {"div", "minus"}
      PROVE  Call2(op, a, b) = QuotientCall(op, a, b)
  <2>1. /\ op \notin ConversionOps /\ op \notin SetOps /\ op \notin LogicOps
        /\ op \notin SumOps /\ op \in QuotientOps /\ op \notin ProductOps
        /\ op \notin RescaleOps
    BY DEF ConversionOps, SetOps, LogicOps, SumOps, QuotientOps, ProductOps, RescaleOps
  <2> QED
    BY <2>1 DEF Call2
<1>5. ASSUME NEW op \in {"mul", "plus"}
      PROVE  Call2(op, a, b) = ProductCall(op, a, b)
  <2>1. /\ op \notin ConversionOps /\ op \notin SetOps /\ op \notin LogicOps
        /\ op \notin SumOps /\ op \notin QuotientOps /\ op \in ProductOps
        /\ op \notin RescaleOps
    BY DEF ConversionOps, SetOps, LogicOps, SumOps, QuotientOps, ProductOps, RescaleOps
  <2> QED
    BY <2>1 DEF Call2
<1>6. ASSUME NEW op \in {"reduce", "quantize"}
      PROVE  Call2(op, a, b) = RescaleCall(op, a, b)
  <2>1. /\ op \notin ConversionOps /\ op \notin SetOps /\ op \notin LogicOps
        /\ op \notin SumOps /\ op \notin QuotientOps /\ op \notin ProductOps
        /\ op \in RescaleOps
    BY DEF ConversionOps, SetOps, LogicOps, SumOps, QuotientOps, ProductOps, RescaleOps
  <2> QED
    BY <2>1 DEF Call2
<1>7. /\ ConversionCall("finalize", a, b) = Finalize(a, ctx)
      /\ LogicCall("abs", a, b) = QAbs(a, ctx)
  BY DEF ConversionCall, LogicCall
<1>8. /\ SumCall("add", a, b) = QAdd(a, b, ctx)
      /\ SumCall("sub", a, b) = QSub(a, b, ctx)
  BY DEF SumCall
<1>9. /\ QuotientCall("div", a, b) = QDiv(a, b, ctx)
      /\ QuotientCall("minus", a, b) = QMinus(a, ctx)
  BY DEF QuotientCall
<1>10. /\ ProductCall("mul", a, b) = QMul(a, b, ctx)
       /\ ProductCall("plus", a, b) = QPlus(a, ctx)
  BY DEF ProductCall
<1>11. /\ RescaleCall("reduce", a, b) = QReduce(a, ctx)
       /\ RescaleCall("quantize", a, b) = QQuantize(a, b, ctx)
  BY DEF RescaleCall
<1> QED
  BY <1>1, <1>2, <1>3, <1>4, <1>5, <1>6, <1>7, <1>8, <1>9, <1>10, <1>11

\* Whichever sign a zero is given, the number is rounded.
LEMMA SignsAreRounded ==
  ASSUME ContextIsOK, NEW a \in Numbers
  PROVE  /\ IsRounded(QPlus(a, ctx), Itself(a), ctx) /\ Fits(QPlus(a, ctx).d, ctx)
         /\ IsRounded(QMinus(a, ctx), Itself(Negate(a)), ctx)
         /\ Fits(QMinus(a, ctx).d, ctx)
         /\ IsRounded(QAbs(a, ctx), Itself(CopyAbs(a)), ctx)
         /\ Fits(QAbs(a, ctx).d, ctx)
<1>1. ContextOK(ctx) /\ ctx.round \in Roundings
  BY DEF ContextIsOK
<1>2. /\ a.k = "fin" /\ a.s \in {0, 1} /\ a.c \in Nat /\ a.e \in Int /\ ~IsNaN(a)
      /\ a = Fin(a.s, a.c, a.e)
  <2>1. a = [k |-> a.k, s |-> a.s, c |-> a.c, e |-> a.e]
    BY DEF Numbers
  <2> QED
    BY <2>1, NumberFields DEF Fin
<1>3. /\ Negate(a) = Fin(1 - a.s, a.c, a.e) /\ Negate(a) \in Numbers
      /\ CopyAbs(a) = Fin(0, a.c, a.e) /\ CopyAbs(a) \in Numbers
  <2>1. CopyAbs(a) = Fin(0, a.c, a.e)
    BY <1>2 DEF CopyAbs, Fin
  <2> QED
    BY <1>2, <2>1, NegateNumber, FinFields
<1>4. ASSUME NEW x \in Numbers
      PROVE  IsRounded(Finalize(x, ctx), Itself(x), ctx) /\ Fits(Finalize(x, ctx).d, ctx)
  <2>1. x \in Decimals
    BY DEF Decimals
  <2> QED
    BY <1>1, <2>1, FinalizeRounds, FinalizeFits, FittingFits
<1>5. ASSUME NEW x \in Numbers, NEW y \in Numbers, x.c = 0, y.c = 0
      PROVE  IsRounded(Finalize(x, ctx), Itself(y), ctx)
  <2>1. IsZero(Finalize(x, ctx).d)
    BY <1>1, <1>5, ZerosStay
  <2>2. Itself(y).n = 0
    BY <1>5 DEF Itself, Exactly
  <2> QED
    BY <2>1, <2>2 DEF IsRounded
<1>6. Negate(a).c = a.c /\ CopyAbs(a).c = a.c
  BY <1>2, <1>3 DEF Fin
<1>7. IsRounded(QPlus(a, ctx), Itself(a), ctx) /\ Fits(QPlus(a, ctx).d, ctx)
  <2>1. CASE IsZero(a) /\ ctx.round # "ROUND_FLOOR"
    <3>1. QPlus(a, ctx) = Finalize(CopyAbs(a), ctx) /\ a.c = 0
      BY <1>2, <2>1 DEF QPlus, IsZero
    <3> QED
      BY <1>3, <1>4, <1>5, <1>6, <3>1
  <2>2. CASE ~(IsZero(a) /\ ctx.round # "ROUND_FLOOR")
    <3>1. QPlus(a, ctx) = Finalize(a, ctx)
      BY <1>2, <2>2 DEF QPlus
    <3> QED
      BY <1>4, <3>1
  <2> QED
    BY <2>1, <2>2
<1>8. /\ IsRounded(QMinus(a, ctx), Itself(Negate(a)), ctx)
      /\ Fits(QMinus(a, ctx).d, ctx)
  <2>1. CASE IsZero(a) /\ ctx.round # "ROUND_FLOOR"
    <3>1. QMinus(a, ctx) = Finalize(CopyAbs(a), ctx) /\ a.c = 0
      BY <1>2, <2>1 DEF QMinus, IsZero
    <3> QED
      BY <1>3, <1>4, <1>5, <1>6, <3>1
  <2>2. CASE ~(IsZero(a) /\ ctx.round # "ROUND_FLOOR")
    <3>1. QMinus(a, ctx) = Finalize(Negate(a), ctx)
      BY <1>2, <2>2 DEF QMinus
    <3> QED
      BY <1>3, <1>4, <3>1
  <2> QED
    BY <2>1, <2>2
<1>9. CASE a.s = 1
  <2>1. QAbs(a, ctx) = QMinus(a, ctx) /\ CopyAbs(a) = Negate(a)
    BY <1>3, <1>9 DEF QAbs
  <2> QED
    BY <1>7, <1>8, <2>1
<1>10. CASE a.s = 0
  <2>1. QAbs(a, ctx) = QPlus(a, ctx) /\ CopyAbs(a) = a
    BY <1>2, <1>3, <1>10 DEF QAbs
  <2> QED
    BY <1>7, <1>8, <2>1
<1> QED
  BY <1>2, <1>9, <1>10

\* One rounding, of the sum.
LEMMA FmaIsRounded ==
  ASSUME ContextIsOK, NEW a \in Numbers, NEW b \in Numbers, NEW c \in Numbers
  PROVE  /\ IsRounded(QFma(a, b, c, ctx),
                      SumOf(Fin(Xor(a.s, b.s), a.c * b.c, a.e + b.e), c), ctx)
         /\ Fits(QFma(a, b, c, ctx).d, ctx)
<1> DEFINE d == Fin(Xor(a.s, b.s), a.c * b.c, a.e + b.e)
           r == QAdd(d, c, ctx)
<1>1. ContextOK(ctx) /\ ctx.round \in Roundings
  BY DEF ContextIsOK
<1>2. /\ a.c \in Nat /\ b.c \in Nat /\ a.e \in Int /\ b.e \in Int
      /\ a.s \in {0, 1} /\ b.s \in {0, 1} /\ ~IsSpecial(a) /\ ~IsSpecial(b)
      /\ ~IsNaN(a) /\ ~IsNaN(b) /\ a \in Decimals /\ b \in Decimals
  BY NumberFields DEF Decimals
<1>3. Mul(a, b, ctx) = Result(d, {})
  <2>1. ~AnyNaN(<<a, b>>)
    BY <1>1, <1>2, NaNs
  <2> QED
    BY <1>2, <2>1 DEF Mul
<1>4. d \in Numbers
  <2>1. Xor(a.s, b.s) \in {0, 1} /\ a.c * b.c \in Nat /\ a.e + b.e \in Int
    BY <1>2, XorType
  <2> QED
    BY <2>1, FinFields
<1> HIDE DEF d
<1>5. QFma(a, b, c, ctx) = Also({}, r)
  <2>1. Result(d, {}).d = d /\ Result(d, {}).st = {}
    BY DEF Result
  <2> QED
    BY <1>3, <2>1 DEF QFma, PlusThird
<1>6. IsRounded(r, SumOf(d, c), ctx) /\ Fits(r.d, ctx)
  BY <1>1, <1>4, SumsAreRounded
<1> HIDE DEF r
<1>7. Also({}, r).d = r.d /\ Also({}, r).st = r.st
  BY AlsoIs
<1>8. IsRounded(QFma(a, b, c, ctx), SumOf(d, c), ctx) /\ Fits(QFma(a, b, c, ctx).d, ctx)
  BY <1>5, <1>6, <1>7, SameParts
<1> QED
  BY <1>8 DEF d

LEMMA CancelFactor ==
  ASSUME NEW a \in Nat, NEW b \in Nat, NEW k \in Nat \ {0}, a * k = b * k
  PROVE  a = b
<1>1. CASE a < b
  <2>1. a + 1 <= b /\ (a + 1) * k <= b * k
    BY <1>1
  <2> QED
    BY <2>1
<1>2. CASE b < a
  <2>1. b + 1 <= a /\ (b + 1) * k <= a * k
    BY <1>2
  <2> QED
    BY <2>1
<1> QED
  BY <1>1, <1>2

\* A number counted in smaller units than its own and than those of n.
LEMMA OutUnits ==
  ASSUME NEW d \in Numbers, NEW n \in Nat, NEW q \in Int, NEW u \in Int, u <= d.e,
         u <= q, Part(d, u) = n * Pow10[q - u]
  PROVE  SameNumber(d, n, q)
<1>1. d.k = "fin" /\ d.c \in Nat /\ d.e \in Int /\ d.e - u \in Nat /\ q - u \in Nat
  BY NumberFields
<1>2. /\ Max({d.e - q, 0}) = (IF d.e - q >= 0 THEN d.e - q ELSE 0)
      /\ Max({q - d.e, 0}) = (IF q - d.e >= 0 THEN q - d.e ELSE 0)
  BY <1>1, MaxOfTwo
<1>3. d.c * Pow10[d.e - u] = n * Pow10[q - u]
  BY DEF Part
<1>4. CASE d.e >= q
  <2>1. d.e - q \in Nat /\ (d.e - q) + (q - u) = d.e - u
    BY <1>1, <1>4
  <2>2. Max({d.e - q, 0}) = d.e - q /\ Max({q - d.e, 0}) = 0
    BY <1>1, <1>2, <1>4
  <2>3. Pow10[d.e - u] = Pow10[d.e - q] * Pow10[q - u]
    BY <1>1, <2>1, PowersAdd
  <2> DEFINE x == Pow10[d.e - q]
             y == Pow10[q - u]
  <2>4. x \in Nat /\ y \in Nat \ {0}
    BY <1>1, <2>1, PowersAre
  <2>5. d.c * (x * y) = n * y
    BY <1>3, <2>3
  <2> HIDE DEF x, y
  <2>6. d.c * x = n
    <3>1. (d.c * x) * y = n * y /\ d.c * x \in Nat
      BY <1>1, <2>4, <2>5
    <3> QED
      BY <2>4, <3>1, CancelFactor
  <2>7. d.c * Pow10[Max({d.e - q, 0})] = n * Pow10[Max({q - d.e, 0})]
    BY <2>2, <2>6, PowersAre DEF x
  <2> QED
    BY <1>1, <2>7 DEF SameNumber
<1>5. CASE d.e < q
  <2>1. q - d.e \in Nat /\ (q - d.e) + (d.e - u) = q - u
    BY <1>1, <1>5
  <2>2. Max({d.e - q, 0}) = 0 /\ Max({q - d.e, 0}) = q - d.e
    BY <1>1, <1>2, <1>5
  <2>3. Pow10[q - u] = Pow10[q - d.e] * Pow10[d.e - u]
    BY <1>1, <2>1, PowersAdd
  <2> DEFINE x == Pow10[q - d.e]
             y == Pow10[d.e - u]
  <2>4. x \in Nat /\ y \in Nat \ {0}
    BY <1>1, <2>1, PowersAre
  <2>5. d.c * y = n * (x * y)
    BY <1>3, <2>3
  <2> HIDE DEF x, y
  <2>6. d.c = n * x
    <3>1. d.c * y = (n * x) * y /\ n * x \in Nat
      BY <1>1, <2>4, <2>5
    <3> QED
      BY <1>1, <2>4, <3>1, CancelFactor
  <2>7. d.c * Pow10[Max({d.e - q, 0})] = n * Pow10[Max({q - d.e, 0})]
    BY <1>1, <2>2, <2>6, PowersAre DEF x
  <2> QED
    BY <1>1, <2>7 DEF SameNumber
<1> QED
  BY <1>1, <1>4, <1>5

\* Other digits and another exponent of the same number.
LEMMA SameNumbers ==
  ASSUME NEW d \in Numbers, NEW n \in Nat, NEW q \in Int, NEW m \in Nat, NEW p \in Int,
         p <= q, m = n * Pow10[q - p], SameNumber(d, m, p)
  PROVE  SameNumber(d, n, q)
<1> DEFINE u == IF d.e <= p THEN d.e ELSE p
<1>1. d.e \in Int /\ u \in Int /\ u <= d.e /\ u <= p /\ u <= q
  BY NumberFields
<1>2. q - p \in Nat /\ p - u \in Nat /\ (q - p) + (p - u) = q - u
  BY <1>1
<1> HIDE DEF u
<1>3. Part(d, u) = m * Pow10[p - u]
  BY <1>1, InUnits
<1>4. Pow10[q - u] = Pow10[q - p] * Pow10[p - u]
  BY <1>2, PowersAdd
<1> DEFINE x == Pow10[q - p]
           y == Pow10[p - u]
<1>5. x \in Nat /\ y \in Nat
  BY <1>2, PowersAre
<1>6. m = n * x /\ Part(d, u) = m * y /\ Pow10[q - u] = x * y
  BY <1>3, <1>4
<1> HIDE DEF x, y
<1>7. (n * x) * y = n * (x * y)
  BY <1>5
<1>8. Part(d, u) = n * Pow10[q - u]
  BY <1>6, <1>7
<1> QED
  BY <1>1, <1>8, OutUnits

------------------------------------------------------------------------------
(* mpd_qquantize.                                                           *)

\* A number that has its place is not rounded, but a context that clamps
\* takes its exponent down.
LEMMA InPlaceAlready ==
  ASSUME NEW limits, ContextOK(limits), limits.round \in Roundings,
         NEW s \in {0, 1}, NEW n \in Nat, NEW e \in Int, Digits(n) <= limits.prec,
         Etiny(limits) <= e, e + Digits(n) - 1 <= limits.emax
  PROVE  LET d == Fin(s, n, e)
             f == Finalize(d, limits).d
         IN /\ SameNumber(f, n, e) /\ f.s = s /\ Fits(f, limits) /\ ~IsNaN(f)
            /\ limits.clamp = 0 \/ e <= Etop(limits) => f = d
<1> DEFINE d == Fin(s, n, e)
           r == Finalize(d, limits)
<1>1. /\ d \in Numbers /\ d \in Decimals /\ d.k = "fin" /\ d.s = s /\ d.c = n
      /\ d.e = e /\ AdjExp(d) = e + Digits(n) - 1 /\ ~IsNaN(d)
  BY FinFields
<1> HIDE DEF d
<1>2. r.d \in Fitting(limits) /\ Fits(r.d, limits) /\ r.d \in Decimals
  BY <1>1, FinalizeFits, FittingFits DEF Fitting
<1>3. Etiny(limits) \in Int /\ Etop(limits) \in Int /\ Digits(n) \in Nat \ {0}
      /\ limits.prec \in Nat \ {0} /\ limits.clamp \in {0, 1} /\ limits.emax \in Nat
      /\ limits.emin \in Int /\ Etiny(limits) = limits.emin - limits.prec + 1
  BY Limits, DigitsAre DEF ContextOK
<1>4. CASE limits.clamp = 0 \/ e <= Etop(limits)
  <2>1. d \in Fitting(limits)
    <3>1. limits.clamp = 1 => e <= Etop(limits)
      BY <1>4
    <3> QED
      BY <3>1, FinFits DEF d
  <2>2. r.d = d
    <3>1. r = Result(d, IF d.c # 0 /\ AdjExp(d) < limits.emin THEN {"Subnormal"} ELSE {})
      BY <1>1, <2>1, FinalizeKeeps
    <3> QED
      BY <3>1 DEF Result
  <2>3. SameNumber(d, n, e)
    <3>1. Part(d, e) = n
      BY <1>1, PowersAre DEF Part
    <3> QED
      BY <1>1, <3>1, PartIsSame
  <2> QED
    BY <1>1, <1>2, <2>2, <2>3 DEF d
<1>5. CASE ~(limits.clamp = 0 \/ e <= Etop(limits)) /\ n = 0
  <2>1. IsZero(r.d) /\ r.d.s = s
    BY <1>1, <1>5, ZerosStay
  <2>2. r.d \in Numbers /\ r.d.c = 0 /\ r.d.e \in Int /\ ~IsNaN(r.d)
    BY <1>2, <2>1, Kinds, NumberFields DEF IsZero
  <2>3. SameNumber(r.d, n, e)
    <3> DEFINE u == IF r.d.e <= e THEN r.d.e ELSE e
    <3>1. u \in Int /\ u <= r.d.e /\ u <= e
      BY <2>2
    <3> HIDE DEF u
    <3>2. Pow10[r.d.e - u] \in Nat /\ Pow10[e - u] \in Nat
      <4>1. r.d.e - u \in Nat /\ e - u \in Nat
        BY <2>2, <3>1
      <4> QED
        BY <4>1, PowersAre
    <3>3. Part(r.d, u) = n * Pow10[e - u]
      BY <1>5, <2>2, <3>2 DEF Part
    <3> QED
      BY <2>2, <3>1, <3>3, OutUnits
  <2> QED
    BY <1>2, <1>5, <2>1, <2>2, <2>3 DEF d
<1>6. CASE ~(limits.clamp = 0 \/ e <= Etop(limits)) /\ n # 0
  <2> DEFINE q == LastPlace(Itself(d), limits)
             at == RoundAt(Itself(d), q, limits.round)
             m == n * Pow10[e - q]
  <2>1. IsRounded(r, Itself(d), limits)
    BY <1>1, FinalizeRounds
  <2>2. q \in Int /\ q <= e /\ Itself(d).n # 0 /\ Itself(d).s = s
    <3>1. /\ q \in Int /\ q >= Etiny(limits)
          /\ AdjExp(d) >= limits.emin => q = d.e + Digits(d.c) - limits.prec
          /\ AdjExp(d) < limits.emin => q = Etiny(limits)
          /\ Itself(d).n > 0 /\ Itself(d).s = d.s
      BY <1>1, <1>6, ItselfEnds
    <3> HIDE DEF q
    <3> QED
      BY <1>1, <1>3, <3>1
  <2>3. /\ at = [n |-> m, exact |-> TRUE] /\ m \in Nat
        /\ Digits(m) + q - 1 = AdjExp(d)
    <3> HIDE DEF q
    <3> QED
      BY <1>1, <1>6, <2>2, AtExact
  <2>4. ~(Digits(at.n) + q - 1 > limits.emax)
    <3>1. at.n = m
      BY <2>3
    <3> HIDE DEF at, q, m
    <3>2. Digits(m) + q - 1 <= limits.emax
      BY <1>1, <2>3
    <3>3. Digits(m) \in Nat
      BY <2>3, DigitsAre
    <3> QED
      BY <1>3, <2>2, <3>1, <3>2, <3>3
  <2>5. SameNumber(r.d, at.n, q) /\ r.d.s = s
    BY <2>1, <2>2, <2>4 DEF IsRounded
  <2>6. SameNumber(r.d, m, q)
    BY <2>3, <2>5
  <2> HIDE DEF q, at
  <2>7. r.d \in Numbers /\ ~IsNaN(r.d)
    <3>1. r.d.k = "fin"
      BY <2>6 DEF SameNumber
    <3> QED
      BY <1>2, <3>1, Kinds, NumberFields
  <2>8. SameNumber(r.d, n, e)
    BY <2>2, <2>3, <2>6, <2>7, SameNumbers
  <2> QED
    BY <1>2, <1>6, <2>5, <2>7, <2>8 DEF d
<1> QED
  BY <1>4, <1>5, <1>6

\* A zero has no digits to round.
LEMMA ZeroAt ==
  ASSUME NEW a \in Numbers, a.c = 0, NEW q \in Int, NEW mode
  PROVE  RoundAt(Itself(a), q, mode).n = 0
<1> DEFINE x == Itself(a)
           d == Den(x, q)
<1>1. x \in Exacts /\ x.n = 0
  BY ItselfIs
<1> HIDE DEF x
<1>2. d \in Nat \ {0} /\ Num(x, q) \in Nat
  BY <1>1, NumDenType
<1>3. Num(x, q) = 0
  <2>1. \A k \in Nat : 0 * k = 0
    OBVIOUS
  <2>2. x.e \in Int /\ \A k \in Nat : Pow10[k] \in Nat
    BY <1>1, PowersAre DEF Exacts
  <2>3. (IF x.e > q THEN Pow10[x.e - q] ELSE 1) \in Nat
    <3>1. CASE x.e > q
      <4>1. x.e - q \in Nat
        BY <2>2, <3>1
      <4> QED
        BY <2>2, <3>1, <4>1
    <3>2. CASE ~(x.e > q)
      BY <3>2
    <3> QED
      BY <3>1, <3>2
  <2> QED
    BY <1>1, <2>1, <2>3 DEF Num
<1> HIDE DEF d
<1>4. 0 \div d = 0 /\ 0 % d = 0
  BY <1>2
<1>5. Num(x, q) \div d = 0 /\ Num(x, q) % d = 0
  BY <1>3, <1>4
<1>6. ~AwayFromZero(mode, x.s, Num(x, q) \div d, Num(x, q) % d, d)
  BY <1>5 DEF AwayFromZero
<1> QED
  BY <1>5, <1>6 DEF RoundAt, x, d

\* What is rounded at the exponent asked for.
LEMMA QuantizeParts ==
  ASSUME NEW limits, ContextOK(limits), limits.round \in Roundings,
         NEW a \in Numbers, a.c # 0, NEW e \in Int
  PROVE  LET n == RoundAt(Itself(a), e, limits.round).n
             diff == a.e - e
             cut == ShiftR(a.c, -diff)
         IN /\ n \in Nat
            /\ Digits(a.c) + diff > limits.prec => Digits(n) > limits.prec
            /\ diff >= 0 => n = ShiftL(a.c, diff) /\ Digits(n) = Digits(a.c) + diff
            /\ diff < 0 =>
                 /\ n = IF RndIncr(Fin(a.s, cut.c, e), cut.rnd, limits)
                        THEN cut.c + 1 ELSE cut.c
                 /\ cut.c \in Nat
                 /\ Digits(a.c) + diff <= limits.prec => Digits(cut.c) <= limits.prec
<1> DEFINE n == RoundAt(Itself(a), e, limits.round).n
           diff == a.e - e
           cut == ShiftR(a.c, -diff)
<1>1. /\ a.c \in Nat /\ a.c > 0 /\ a.e \in Int /\ diff \in Int
      /\ Digits(a.c) \in Nat \ {0} /\ limits.prec \in Nat \ {0}
      /\ AdjExp(a) = a.e + Digits(a.c) - 1
  BY NumberFields DEF ContextOK
<1>2. CASE diff >= 0
  <2>1. e <= a.e /\ diff \in Nat
    BY <1>1, <1>2
  <2>2. /\ RoundAt(Itself(a), e, limits.round) = [n |-> a.c * Pow10[diff], exact |-> TRUE]
        /\ a.c * Pow10[diff] \in Nat
        /\ Digits(a.c * Pow10[diff]) + e - 1 = AdjExp(a)
    BY <2>1, AtExact
  <2>3. n = a.c * Pow10[diff]
    BY <2>2
  <2>4. n = ShiftL(a.c, diff) /\ n \in Nat
    BY <1>1, <2>1, <2>2, <2>3, ShiftLIs
  <2>5. Digits(n) = Digits(a.c) + diff
    <3>1. Digits(n) + e - 1 = AdjExp(a) /\ Digits(n) \in Nat
      BY <2>2, <2>3, <2>4, DigitsAre
    <3> DEFINE i == Digits(n)
               j == Digits(a.c)
               y == a.e
    <3>2. i + e - 1 = y + j - 1 /\ i \in Nat /\ j \in Nat /\ y \in Int
      BY <1>1, <3>1
    <3> HIDE DEF i, j, y
    <3>3. i = j + (y - e)
      BY <3>2
    <3> QED
      BY <3>3 DEF i, j, y
  <2> HIDE DEF n, cut
  <2>6. ~(diff < 0)
    BY <1>1, <1>2
  <2>7. Digits(a.c) + diff > limits.prec => Digits(n) > limits.prec
    BY <2>5
  <2>8. n = ShiftL(a.c, diff) /\ n \in Nat /\ Digits(n) = Digits(a.c) + diff
    BY <2>4, <2>5
  <2> HIDE DEF diff
  <2>9. /\ n \in Nat
        /\ Digits(a.c) + diff > limits.prec => Digits(n) > limits.prec
        /\ diff >= 0 => n = ShiftL(a.c, diff) /\ Digits(n) = Digits(a.c) + diff
        /\ diff < 0 =>
             /\ n = IF RndIncr(Fin(a.s, cut.c, e), cut.rnd, limits)
                    THEN cut.c + 1 ELSE cut.c
             /\ cut.c \in Nat
             /\ Digits(a.c) + diff <= limits.prec => Digits(cut.c) <= limits.prec
    BY <2>6, <2>7, <2>8
  <2> QED
    BY <2>9 DEF n, diff, cut
<1>3. CASE diff < 0
  <2> DEFINE j == e - a.e
  <2>1. j \in Nat \ {0} /\ -diff = j /\ e > a.e
    BY <1>1, <1>3
  <2>2. cut = ShiftR(a.c, j)
    BY <2>1
  <2>3. /\ cut.c = a.c \div Pow10[j] /\ cut.c \in Nat
        /\ n = IF RndIncr(Fin(a.s, cut.c, e), cut.rnd, limits)
               THEN cut.c + 1 ELSE cut.c
    BY <2>1, <2>2, AtCut
  <2> HIDE DEF n, cut, j
  <2>4. n \in Nat /\ n >= cut.c
    BY <2>3
  <2>5. /\ j < Digits(a.c) => Digits(cut.c) = Digits(a.c) - j
        /\ j >= Digits(a.c) => cut.c = 0
    BY <1>1, <2>1, <2>3, DigitsShiftRight
  <2>6. Digits(a.c) + diff > limits.prec => Digits(n) > limits.prec
    <3> SUFFICES ASSUME Digits(a.c) + diff > limits.prec
                 PROVE  Digits(n) > limits.prec
      OBVIOUS
    <3>1. Digits(cut.c) > limits.prec
      <4>1. j < Digits(a.c) /\ Digits(a.c) - j = Digits(a.c) + diff
        BY <1>1, <2>1 DEF j
      <4> QED
        BY <2>5, <4>1
    <3>2. ~(cut.c < Pow10[limits.prec])
      <4>1. cut.c < Pow10[limits.prec] => Digits(cut.c) <= limits.prec
        BY <1>1, <2>3, DigitsBound
      <4>2. Digits(cut.c) \in Nat
        BY <2>3, DigitsAre
      <4> QED
        BY <1>1, <3>1, <4>1, <4>2
    <3>3. Pow10[limits.prec] <= n
      <4>1. Pow10[limits.prec] \in Nat
        BY <1>1, PowersAre
      <4> QED
        BY <2>3, <2>4, <3>2, <4>1
    <3> QED
      BY <1>1, <2>4, <3>3, DigitsBound
  <2>7. Digits(a.c) + diff <= limits.prec => Digits(cut.c) <= limits.prec
    <3>1. CASE j < Digits(a.c)
      BY <1>1, <2>1, <2>5, <3>1 DEF j
    <3>2. CASE ~(j < Digits(a.c))
      <4>1. cut.c = 0
        BY <1>1, <2>1, <2>5, <3>2
      <4> QED
        BY <1>1, <4>1, ZeroHasOneDigit
    <3> QED
      BY <3>1, <3>2
  <2>8. ~(diff >= 0)
    BY <1>1, <1>3
  <2> HIDE DEF diff
  <2>9. /\ n \in Nat
        /\ Digits(a.c) + diff > limits.prec => Digits(n) > limits.prec
        /\ diff >= 0 => n = ShiftL(a.c, diff) /\ Digits(n) = Digits(a.c) + diff
        /\ diff < 0 =>
             /\ n = IF RndIncr(Fin(a.s, cut.c, e), cut.rnd, limits)
                    THEN cut.c + 1 ELSE cut.c
             /\ cut.c \in Nat
             /\ Digits(a.c) + diff <= limits.prec => Digits(cut.c) <= limits.prec
    BY <2>3, <2>4, <2>6, <2>7, <2>8
  <2> QED
    BY <2>9 DEF n, diff, cut
<1> QED
  BY <1>1, <1>2, <1>3

\* The last part of mpd_qquantize.
LEMMA InRangeIs ==
  ASSUME NEW limits, ContextOK(limits), limits.round \in Roundings,
         NEW s \in {0, 1}, NEW n \in Nat, NEW e \in Int, Digits(n) <= limits.prec,
         Etiny(limits) <= e, NEW st
  PROVE  LET d == Fin(s, n, e)
             back == InRange(Result(d, st), limits)
         IN IF IsNaN(back.d) THEN AdjExp(d) > limits.emax
            ELSE /\ SameNumber(back.d, n, e) /\ back.d.s = s /\ Fits(back.d, limits)
                 /\ limits.clamp = 0 \/ e <= Etop(limits) => back.d = d
<1> DEFINE d == Fin(s, n, e)
           t == Result(d, st)
           back == InRange(t, limits)
           f == Finalize(d, limits)
<1>1. t.d = d /\ t.st = st /\ ~IsNaN(d) /\ AdjExp(d) = e + Digits(n) - 1
  BY FinFields DEF Result
<1>2. Digits(n) \in Nat \ {0} /\ Etiny(limits) \in Int /\ limits.emax \in Nat
  BY DigitsAre, Limits DEF ContextOK
<1> HIDE DEF d
<1>3. ~(AdjExp(d) < Etiny(limits))
  BY <1>1, <1>2
<1>4. CASE AdjExp(d) > limits.emax
  <2>1. back = Invalid
    BY <1>1, <1>4 DEF InRange
  <2>2. IsNaN(Invalid.d)
    BY DEF Invalid, SetError, Result, QNaN, Special, IsNaN
  <2> QED
    BY <1>4, <2>1, <2>2 DEF d
<1>5. CASE ~(AdjExp(d) > limits.emax)
  <2>1. back = Finalized(t, limits)
    BY <1>1, <1>3, <1>5 DEF InRange
  <2>2. Finalized(t, limits) = Also(st, f)
    BY <1>1 DEF Finalized
  <2> HIDE DEF t, f
  <2>3. back.d = f.d
    BY <2>1, <2>2, AlsoIs
  <2>4. e + Digits(n) - 1 <= limits.emax
    BY <1>1, <1>2, <1>5
  <2>5. /\ SameNumber(f.d, n, e) /\ f.d.s = s /\ Fits(f.d, limits) /\ ~IsNaN(f.d)
        /\ limits.clamp = 0 \/ e <= Etop(limits) => f.d = d
    BY <2>4, InPlaceAlready DEF f, d
  <2> HIDE DEF back
  <2>6. /\ SameNumber(back.d, n, e) /\ back.d.s = s /\ Fits(back.d, limits) /\ ~IsNaN(back.d)
        /\ limits.clamp = 0 \/ e <= Etop(limits) => back.d = d
    BY <2>3, <2>5
  <2> QED
    BY <2>6 DEF back, t, d
<1> QED
  BY <1>4, <1>5

LEMMA QuantizeIs ==
  ASSUME NEW limits, ContextOK(limits), limits.round \in Roundings,
         NEW a \in Numbers, NEW b \in Numbers
  PROVE  LET n == RoundAt(Itself(a), b.e, limits.round).n
             fits == Fin(a.s, n, b.e)
             back == QQuantize(a, b, limits)
         IN IF IsNaN(back.d)
            THEN \/ Digits(n) > limits.prec \/ AdjExp(fits) > limits.emax
                 \/ b.e \notin Etiny(limits)..limits.emax
            ELSE /\ SameNumber(back.d, n, b.e) /\ back.d.s = a.s
                 /\ Fits(back.d, limits)
                 /\ limits.clamp = 0 \/ b.e <= Etop(limits) => back.d = fits
<1> DEFINE n == RoundAt(Itself(a), b.e, limits.round).n
           fits == Fin(a.s, n, b.e)
           back == QQuantize(a, b, limits)
           diff == a.e - b.e
           cut == ShiftR(a.c, -diff)
           Goal == IF IsNaN(back.d)
                   THEN \/ Digits(n) > limits.prec \/ AdjExp(fits) > limits.emax
                        \/ b.e \notin Etiny(limits)..limits.emax
                   ELSE /\ SameNumber(back.d, n, b.e) /\ back.d.s = a.s
                        /\ Fits(back.d, limits)
                        /\ limits.clamp = 0 \/ b.e <= Etop(limits) => back.d = fits
<1>1. /\ a.s \in {0, 1} /\ a.c \in Nat /\ a.e \in Int /\ b.e \in Int /\ diff \in Int
      /\ ~IsInf(a) /\ ~IsInf(b) /\ ~IsNaN(a) /\ ~IsNaN(b)
      /\ a \in Decimals /\ b \in Decimals /\ Digits(a.c) \in Nat \ {0}
  BY NumberFields DEF Decimals
<1>2. /\ Etiny(limits) \in Int /\ limits.emax \in Nat /\ limits.prec \in Nat \ {0}
  BY Limits DEF ContextOK
<1>3. ~AnyNaN(<<a, b>>)
  BY <1>1, NaNs
<1>4. IsNaN(Invalid.d)
  BY DEF Invalid, SetError, Result, QNaN, Special, IsNaN
<1>5. ASSUME b.e > limits.emax \/ b.e < Etiny(limits)
      PROVE  Goal
  <2>1. back = Invalid
    BY <1>1, <1>3, <1>5 DEF QQuantize
  <2>2. b.e \notin Etiny(limits)..limits.emax
    BY <1>1, <1>2, <1>5
  <2> HIDE DEF back, n, fits
  <2> QED
    BY <1>4, <2>1, <2>2
<1>6. ASSUME ~(b.e > limits.emax \/ b.e < Etiny(limits)), a.c = 0
      PROVE  Goal
  <2> DEFINE d == Fin(a.s, 0, b.e)
  <2>1. back = Finalize(d, limits)
    BY <1>1, <1>3, <1>6 DEF QQuantize
  <2>2. n = 0
    BY <1>1, <1>6, ZeroAt
  <2>3. Digits(0) <= limits.prec /\ Etiny(limits) <= b.e
        /\ b.e + Digits(0) - 1 <= limits.emax
    BY <1>1, <1>2, <1>6, ZeroHasOneDigit
  <2>4. LET f == Finalize(d, limits).d
        IN /\ SameNumber(f, 0, b.e) /\ f.s = a.s /\ Fits(f, limits) /\ ~IsNaN(f)
           /\ limits.clamp = 0 \/ b.e <= Etop(limits) => f = d
    BY <1>1, <2>3, InPlaceAlready
  <2>5. fits = d
    BY <2>2
  <2> HIDE DEF back, n, fits, d
  <2> QED
    BY <2>1, <2>2, <2>4, <2>5
<1>7. ASSUME ~(b.e > limits.emax \/ b.e < Etiny(limits)), a.c # 0
      PROVE  Goal
  <2>1. back = IF Digits(a.c) + diff > limits.prec THEN Invalid
               ELSE InRange(IF diff >= 0
                            THEN Result(Fin(a.s, ShiftL(a.c, diff), b.e), {})
                            ELSE FitCut(a.s, ShiftR(a.c, -diff), b.e, limits), limits)
    BY <1>1, <1>3, <1>7 DEF QQuantize
  <2>2. /\ n \in Nat
        /\ Digits(a.c) + diff > limits.prec => Digits(n) > limits.prec
        /\ diff >= 0 => n = ShiftL(a.c, diff) /\ Digits(n) = Digits(a.c) + diff
        /\ diff < 0 =>
             /\ n = IF RndIncr(Fin(a.s, cut.c, b.e), cut.rnd, limits)
                    THEN cut.c + 1 ELSE cut.c
             /\ cut.c \in Nat
             /\ Digits(a.c) + diff <= limits.prec => Digits(cut.c) <= limits.prec
    BY <1>1, <1>7, QuantizeParts
  <2> HIDE DEF back, n, diff, cut
  <2>3. ASSUME Digits(a.c) + diff > limits.prec
        PROVE  Goal
    <3>1. back = Invalid /\ Digits(n) > limits.prec
      BY <2>1, <2>2, <2>3
    <3> QED
      BY <1>4, <3>1
  <2>4. ASSUME Digits(n) <= limits.prec, NEW st, back = InRange(Result(fits, st), limits)
        PROVE  Goal
    <3>1. Etiny(limits) <= b.e
      BY <1>1, <1>2, <1>7
    <3>2. IF IsNaN(back.d) THEN AdjExp(fits) > limits.emax
          ELSE /\ SameNumber(back.d, n, b.e) /\ back.d.s = a.s /\ Fits(back.d, limits)
               /\ limits.clamp = 0 \/ b.e <= Etop(limits) => back.d = fits
      BY <1>1, <2>2, <2>4, <3>1, InRangeIs
    <3> HIDE DEF fits
    <3> QED
      BY <3>2
  <2>5. ASSUME ~(Digits(a.c) + diff > limits.prec), diff >= 0
        PROVE  Goal
    <3>1. n = ShiftL(a.c, diff) /\ Digits(n) <= limits.prec
      BY <1>1, <1>2, <2>2, <2>5
    <3>2. back = InRange(Result(fits, {}), limits)
      BY <2>1, <2>5, <3>1
    <3> HIDE DEF Goal
    <3> QED
      BY <2>4, <3>1, <3>2
  <2>6. ASSUME ~(Digits(a.c) + diff > limits.prec), ~(diff >= 0)
        PROVE  Goal
    <3> DEFINE x == Fin(a.s, cut.c, b.e)
               up == RndIncr(x, cut.rnd, limits)
               apply == ApplyRoundFit(x, cut.rnd, limits)
               flags == {"Rounded"} \cup (IF cut.rnd # 0 THEN {"Inexact"} ELSE {})
    <3>1. diff < 0
      BY <1>1, <2>6 DEF diff
    <3>2. n = (IF up THEN cut.c + 1 ELSE cut.c) /\ cut.c \in Nat
      BY <2>2, <3>1
    <3>3. Digits(cut.c) <= limits.prec
      <4>1. Digits(a.c) + diff <= limits.prec
        BY <1>1, <1>2, <2>6 DEF diff
      <4> QED
        BY <2>2, <3>1, <4>1
    <3>4. back = InRange(Also(flags, apply), limits)
      BY <2>1, <2>6 DEF FitCut, cut
    <3>5. x.c = cut.c /\ x.s = a.s /\ x.e = b.e /\ x.k = "fin"
      BY DEF Fin
    <3>6. ASSUME up, Digits(cut.c + 1) > limits.prec
          PROVE  Goal
      <4>1. apply = Invalid
        BY <3>5, <3>6 DEF ApplyRoundFit
      <4>2. IsNaN(Also(flags, apply).d)
        BY <1>4, <4>1, AlsoIs
      <4>3. back = Invalid
        BY <3>4, <4>2 DEF InRange
      <4>4. Digits(n) > limits.prec
        BY <3>2, <3>6
      <4> HIDE DEF fits
      <4> QED
        BY <1>4, <4>3, <4>4
    <3>7. ASSUME ~(up /\ Digits(cut.c + 1) > limits.prec)
          PROVE  Goal
      <4>1. apply = Result(ApplyRoundExcess(x, cut.rnd, limits), {})
        BY <3>5, <3>7 DEF ApplyRoundFit
      <4>2. ApplyRoundExcess(x, cut.rnd, limits) = Fin(a.s, n, b.e)
        <5>1. CASE up
          <6>1. ApplyRoundExcess(x, cut.rnd, limits) = [x EXCEPT !.c = @ + 1]
            BY <5>1 DEF ApplyRoundExcess
          <6> QED
            BY <3>2, <5>1, <6>1 DEF Fin
        <5>2. CASE ~up
          BY <3>2, <5>2 DEF ApplyRoundExcess
        <5> QED
          BY <5>1, <5>2
      <4>3. Digits(n) <= limits.prec
        <5>1. Digits(cut.c + 1) \in Nat
          BY <3>2, DigitsAre
        <5> HIDE DEF up
        <5> QED
          BY <1>2, <3>2, <3>3, <3>7, <5>1
      <4> HIDE DEF x, up
      <4>4. Also(flags, apply) = Result(fits, {} \cup flags)
        <5>1. apply.d = fits /\ apply.st = {}
          BY <4>1, <4>2 DEF Result
        <5> QED
          BY <5>1 DEF Also
      <4>5. back = InRange(Result(fits, {} \cup flags), limits)
        BY <3>4, <4>4
      <4> HIDE DEF Goal, flags
      <4> QED
        BY <2>4, <4>3, <4>5
    <3> QED
      BY <3>6, <3>7
  <2> QED
    BY <2>3, <2>5, <2>6
<1> HIDE DEF Goal
<1>8. Goal
  BY <1>5, <1>6, <1>7
<1> QED
  BY <1>8 DEF Goal

------------------------------------------------------------------------------
(* The integral roundings.                                                  *)

LEMMA IntegralIs ==
  ASSUME NEW limits, limits.round \in Roundings, NEW a \in Numbers, a.e < 0,
         NEW action
  PROVE  LET mode == IF action = "TO_INT_TRUNC" THEN "ROUND_DOWN" ELSE limits.round
         IN RoundToIntegral(action, a, limits).d
              = Fin(a.s, RoundAt(Itself(a), 0, mode).n, 0)
<1> DEFINE mode == IF action = "TO_INT_TRUNC" THEN "ROUND_DOWN" ELSE limits.round
           n == RoundAt(Itself(a), 0, mode).n
           back == RoundToIntegral(action, a, limits)
           cut == ShiftR(a.c, -a.e)
           d == Fin(a.s, cut.c, 0)
<1>1. /\ a.s \in {0, 1} /\ a.c \in Nat /\ a.e \in Int /\ ~IsNaN(a) /\ ~IsInf(a)
      /\ ~(a.e >= 0) /\ 0 - a.e = -a.e
  BY NumberFields
<1>2. CASE a.c = 0
  <2>1. n = 0
    BY <1>2, ZeroAt
  <2>2. back = Result(Fin(a.s, 0, 0), {})
    BY <1>1, <1>2 DEF RoundToIntegral
  <2> QED
    BY <2>1, <2>2 DEF Result
<1>3. CASE a.c # 0
  <2> DEFINE c == [round |-> mode]
             up == RndIncr(d, cut.rnd, c)
  <2>1. c.round = mode /\ mode \in Roundings
    BY DEF Roundings
  <2>2. n = IF up THEN cut.c + 1 ELSE cut.c
    <3>1. c.round \in Roundings /\ 0 > a.e
      BY <1>1, <2>1
    <3> HIDE DEF c
    <3>2. LET k == ShiftR(a.c, 0 - a.e)
          IN RoundAt(Itself(a), 0, c.round).n =
               IF RndIncr(Fin(a.s, k.c, 0), k.rnd, c) THEN k.c + 1 ELSE k.c
      BY <1>3, <3>1, AtCut
    <3> QED
      BY <1>1, <2>1, <3>2
  <2>3. CASE action = "TO_INT_TRUNC"
    <3>1. back = Result(d, {})
      BY <1>1, <1>3, <2>3 DEF RoundToIntegral
    <3>2. ~up
      <4>1. c.round = "ROUND_DOWN"
        BY <2>1, <2>3
      <4> HIDE DEF c, d
      <4> QED
        BY <4>1 DEF RndIncr
    <3>3. n = cut.c
      BY <2>2, <3>2
    <3> QED
      BY <3>1, <3>3 DEF Result
  <2>4. CASE action # "TO_INT_TRUNC"
    <3>1. back.d = ApplyRoundExcess(d, cut.rnd, limits)
      <4> DEFINE st == IF action = "TO_INT_SILENT" THEN {}
                       ELSE {"Rounded"} \cup IF cut.rnd # 0 THEN {"Inexact"} ELSE {}
      <4>1. back = Result(ApplyRoundExcess(d, cut.rnd, limits), st)
        BY <1>1, <1>3, <2>4 DEF RoundToIntegral
      <4> HIDE DEF st
      <4> QED
        BY <4>1 DEF Result
    <3>2. RndIncr(d, cut.rnd, limits) <=> up
      <4>1. c.round = limits.round
        BY <2>1, <2>4
      <4> HIDE DEF c, d
      <4> QED
        BY <4>1 DEF RndIncr
    <3>3. ApplyRoundExcess(d, cut.rnd, limits) = Fin(a.s, n, 0)
      <4>1. CASE up
        <5>1. ApplyRoundExcess(d, cut.rnd, limits) = [d EXCEPT !.c = @ + 1]
          BY <3>2, <4>1 DEF ApplyRoundExcess
        <5>2. n = cut.c + 1
          BY <2>2, <4>1
        <5> HIDE DEF n, up, cut
        <5> QED
          BY <5>1, <5>2 DEF Fin
      <4>2. CASE ~up
        <5>1. ApplyRoundExcess(d, cut.rnd, limits) = d
          BY <3>2, <4>2 DEF ApplyRoundExcess
        <5>2. n = cut.c
          BY <2>2, <4>2
        <5> QED
          BY <5>1, <5>2
      <4> QED
        BY <4>1, <4>2
    <3> HIDE DEF back, n
    <3>4. back.d = Fin(a.s, n, 0)
      BY <3>1, <3>3
    <3> QED
      BY <3>4 DEF back, n
  <2> QED
    BY <2>3, <2>4
<1> QED
  BY <1>2, <1>3

LEMMA IntegralCalls ==
  ASSUME ContextIsOK, NEW op \in IntegralOps, NEW a \in Numbers, NEW b
  PROVE  Call2(op, a, b).d =
           IF a.e >= 0 THEN a
           ELSE Fin(a.s, RoundAt(Itself(a), 0, ModeOf(op, ctx.round)).n, 0)
<1>1. Call2(op, a, b) = RescaleCall(op, a, b)
  <2>1. op \in {"round_to_intx", "round_to_int", "trunc", "floor", "ceil"}
    BY DEF IntegralOps
  <2>2. /\ op \notin ConversionOps /\ op \notin SetOps /\ op \notin LogicOps
        /\ op \notin SumOps /\ op \notin QuotientOps /\ op \notin ProductOps
        /\ op \in RescaleOps
    BY <2>1 DEF ConversionOps, SetOps, LogicOps, SumOps, QuotientOps, ProductOps,
                RescaleOps
  <2> QED
    BY <2>2 DEF Call2
<1>2. \A action, limits : a.e >= 0 => RoundToIntegral(action, a, limits).d = a
  <2> SUFFICES ASSUME NEW action, NEW limits, a.e >= 0
               PROVE  RoundToIntegral(action, a, limits).d = a
    OBVIOUS
  <2>1. RoundToIntegral(action, a, limits) = Result(a, {})
    BY NumberFields DEF RoundToIntegral
  <2> QED
    BY <2>1 DEF Result
<1>3. \A mode : Rounding(ctx, mode).round = mode
  BY WorkContext
<1>4. /\ ctx.round \in Roundings
      /\ {"ROUND_FLOOR", "ROUND_CEILING", "ROUND_DOWN"} \subseteq Roundings
  BY DEF ContextIsOK, Roundings
<1>5. /\ "TO_INT_EXACT" # "TO_INT_TRUNC" /\ "TO_INT_SILENT" # "TO_INT_TRUNC"
  OBVIOUS
<1>6. ~(a.e >= 0) => a.e < 0
  BY NumberFields
<1>7. CASE op = "round_to_intx"
  <2>1. Call2(op, a, b) = RoundToIntegral("TO_INT_EXACT", a, ctx)
    BY <1>1, <1>7 DEF RescaleCall, QRoundToIntx
  <2>2. ModeOf(op, ctx.round) = ctx.round
    BY <1>7 DEF ModeOf
  <2> QED
    BY <1>2, <1>4, <1>5, <1>6, <2>1, <2>2, IntegralIs
<1>8. CASE op = "round_to_int"
  <2>1. Call2(op, a, b) = RoundToIntegral("TO_INT_SILENT", a, ctx)
    BY <1>1, <1>8 DEF RescaleCall, QRoundToInt
  <2>2. ModeOf(op, ctx.round) = ctx.round
    BY <1>8 DEF ModeOf
  <2> QED
    BY <1>2, <1>4, <1>5, <1>6, <2>1, <2>2, IntegralIs
<1>9. CASE op = "trunc"
  <2>1. Call2(op, a, b) = RoundToIntegral("TO_INT_TRUNC", a, ctx)
    BY <1>1, <1>9 DEF RescaleCall, QTrunc
  <2>2. ModeOf(op, ctx.round) = "ROUND_DOWN"
    BY <1>9 DEF ModeOf
  <2> QED
    BY <1>2, <1>4, <1>6, <2>1, <2>2, IntegralIs
<1>10. CASE op = "floor"
  <2> DEFINE w == Rounding(ctx, "ROUND_FLOOR")
  <2>1. Call2(op, a, b) = RoundToIntegral("TO_INT_SILENT", a, w)
    BY <1>1, <1>10 DEF RescaleCall, QFloor
  <2>2. ModeOf(op, ctx.round) = "ROUND_FLOOR"
    BY <1>10 DEF ModeOf
  <2>3. w.round = "ROUND_FLOOR"
    BY <1>3
  <2> HIDE DEF w
  <2> QED
    BY <1>2, <1>4, <1>5, <1>6, <2>1, <2>2, <2>3, IntegralIs
<1>11. CASE op = "ceil"
  <2> DEFINE w == Rounding(ctx, "ROUND_CEILING")
  <2>1. Call2(op, a, b) = RoundToIntegral("TO_INT_SILENT", a, w)
    BY <1>1, <1>11 DEF RescaleCall, QCeil
  <2>2. ModeOf(op, ctx.round) = "ROUND_CEILING"
    BY <1>11 DEF ModeOf
  <2>3. w.round = "ROUND_CEILING"
    BY <1>3
  <2> HIDE DEF w
  <2> QED
    BY <1>2, <1>4, <1>5, <1>6, <2>1, <2>2, <2>3, IntegralIs
<1> QED
  BY <1>7, <1>8, <1>9, <1>10, <1>11 DEF IntegralOps

------------------------------------------------------------------------------
(* mpd_qreduce.                                                             *)

\* Zeros taken off the end change neither the number nor its last place.
LEMMA ZerosTakenOff ==
  ASSUME NEW d \in Numbers, d.c # 0, NEW k \in Nat, k <= TrailZeros(d.c)
  PROVE  LET t == Fin(d.s, d.c \div Pow10[k], d.e + k)
         IN /\ t \in Numbers /\ t.s = d.s /\ t.e = d.e + k /\ t.c \in Nat \ {0}
            /\ AdjExp(t) = AdjExp(d) /\ Digits(t.c) = Digits(d.c) - k
            /\ \A n \in Nat, q \in Int : SameNumber(d, n, q) => SameNumber(t, n, q)
<1> DEFINE c == d.c \div Pow10[k]
           t == Fin(d.s, c, d.e + k)
           z == TrailZeros(d.c)
<1>1. /\ d.s \in {0, 1} /\ d.c \in Nat \ {0} /\ d.e \in Int /\ Digits(d.c) \in Nat \ {0}
      /\ AdjExp(d) = d.e + Digits(d.c) - 1
  BY NumberFields
<1>2. z \in Nat
  BY <1>1, TrailZerosAre
<1>3. PICK p \in Nat : d.c = p * Pow10[z]
  BY <1>1, TrailZerosAre
<1> HIDE DEF z
<1>4. k <= z /\ z - k \in Nat /\ (z - k) + k = z
  BY <1>2 DEF z
<1>5. c = p * Pow10[z - k] /\ c \in Nat
  <2>1. (p * Pow10[z]) \div Pow10[k] = p * Pow10[z - k]
    BY <1>2, <1>4, PowersCancel
  <2>2. p * Pow10[z - k] \in Nat
    BY <1>4, PowersCancel
  <2> QED
    BY <1>3, <2>1, <2>2
<1> HIDE DEF c
<1>6. d.c = c * Pow10[k]
  <2> DEFINE x == Pow10[z - k]
             y == Pow10[k]
  <2>1. x \in Nat /\ y \in Nat
    BY <1>4, PowersAre
  <2>2. Pow10[z] = x * y
    BY <1>4, PowersAdd
  <2> HIDE DEF x, y
  <2>3. p * (x * y) = (p * x) * y
    BY <2>1
  <2> QED
    BY <1>3, <1>5, <2>2, <2>3 DEF x, y
<1>7. c > 0
  <2>1. 0 * Pow10[k] = 0
    BY PowersAre
  <2> QED
    BY <1>1, <1>5, <1>6, <2>1
<1>8. Digits(d.c) = Digits(c) + k /\ Digits(c) \in Nat
  BY <1>5, <1>6, <1>7, DigitsShiftLeft, DigitsAre
<1>9. /\ t \in Numbers /\ t.s = d.s /\ t.c = c /\ t.e = d.e + k
      /\ AdjExp(t) = (d.e + k) + Digits(c) - 1
  <2> DEFINE i == d.e + k
             sg == d.s
  <2>1. sg \in {0, 1} /\ c \in Nat /\ i \in Int
    BY <1>1, <1>5, NumberFields
  <2> HIDE DEF i, sg
  <2>2. /\ Fin(sg, c, i) \in Numbers /\ Fin(sg, c, i).s = sg
        /\ Fin(sg, c, i).c = c /\ Fin(sg, c, i).e = i
        /\ AdjExp(Fin(sg, c, i)) = i + Digits(c) - 1
    BY <2>1, FinFields
  <2> QED
    BY <2>2 DEF i, sg
<1> HIDE DEF t
<1>10. AdjExp(t) = AdjExp(d) /\ Digits(t.c) = Digits(d.c) - k
  BY <1>1, <1>8, <1>9
<1>11. ASSUME NEW n \in Nat, NEW q \in Int, SameNumber(d, n, q)
       PROVE  SameNumber(t, n, q)
  <2> DEFINE u == IF d.e <= q THEN d.e ELSE q
  <2>1. u \in Int /\ u <= d.e /\ u <= q /\ u <= t.e
    BY <1>1, <1>9
  <2> HIDE DEF u
  <2>2. Part(d, u) = n * Pow10[q - u]
    BY <1>11, <2>1, InUnits
  <2>3. Part(t, u) = Part(d, u)
    <3> DEFINE x == Pow10[k]
               y == Pow10[d.e - u]
    <3>1. d.e - u \in Nat /\ t.e - u = k + (d.e - u)
      BY <1>1, <1>9, <2>1
    <3>2. x \in Nat /\ y \in Nat /\ Pow10[t.e - u] = x * y
      <4>1. x \in Nat /\ y \in Nat
        BY <3>1, PowersAre
      <4>2. Pow10[k + (d.e - u)] = x * y
        BY <3>1, PowersAdd
      <4> QED
        BY <3>1, <4>1, <4>2
    <3>3. Part(t, u) = c * (x * y) /\ Part(d, u) = (c * x) * y
      BY <1>6, <1>9, <3>2 DEF Part
    <3> HIDE DEF x, y
    <3>4. c * (x * y) = (c * x) * y
      BY <1>5, <3>2
    <3> QED
      BY <3>3, <3>4
  <2> QED
    BY <1>9, <2>1, <2>2, <2>3, OutUnits
<1>12. /\ t \in Numbers /\ t.s = d.s /\ t.e = d.e + k /\ t.c \in Nat \ {0}
       /\ AdjExp(t) = AdjExp(d) /\ Digits(t.c) = Digits(d.c) - k
       /\ \A n \in Nat, q \in Int : SameNumber(d, n, q) => SameNumber(t, n, q)
  BY <1>5, <1>7, <1>9, <1>10, <1>11
<1> QED
  BY <1>12 DEF t, c

\* A number of nines ends in no zero.
LEMMA NinesEndInNine ==
  ASSUME NEW limits, ContextOK(limits)
  PROVE  TrailZeros(MaxCoeff(limits)) = 0
<1> DEFINE m == limits.prec - 1
           p == Pow10[m]
<1>1. m \in Nat /\ limits.prec = m + 1
  BY DEF ContextOK
<1>2. p \in Nat \ {0} /\ Pow10[m + 1] = 10 * p
  BY <1>1, Powers, PowersAre
<1> HIDE DEF p, m
<1>3. MaxCoeff(limits) = 10 * p - 1
  BY <1>1, <1>2 DEF MaxCoeff
<1>4. 10 * p - 1 \in Nat /\ (10 * p - 1) % 10 # 0
  BY <1>2
<1>5. (10 * p - 1) * Pow10[0] = 10 * p - 1
  BY <1>4, PowersAre
<1> QED
  BY <1>3, <1>4, <1>5, TrailZerosIs

LEMMA ReducedIsRounded ==
  ASSUME NEW limits, ContextOK(limits), limits.round \in Roundings, NEW a \in Numbers
  PROVE  LET r == QReduce(a, limits)
         IN IsRounded(r, Itself(a), limits) /\ (Fits(r.d, limits) \/ IsZero(r.d))
<1> DEFINE f == Finalize(a, limits)
           d == f.d
           top == IF limits.clamp = 1 THEN Etop(limits) ELSE limits.emax
           x == Itself(a)
           q == LastPlace(x, limits)
           n == RoundAt(x, q, limits.round).n
           r == QReduce(a, limits)
<1>1. IsRounded(f, x, limits) /\ d \in Fitting(limits) /\ ~IsNaN(d)
  <2>1. a \in Decimals
    BY DEF Decimals
  <2> QED
    BY <2>1, FinalizeRounds, FinalizeFits, FinalizeNoNaN
<1>2. d \in Decimals /\ FitsIn(d, limits) /\ Fits(d, limits)
  BY <1>1, FittingFits DEF Fitting
<1>3. r = Reduced(f, top)
  BY NumberFields DEF QReduce
<1> HIDE DEF r
<1>4. CASE IsSpecial(d)
  <2>1. r = f
    BY <1>3, <1>4 DEF Reduced
  <2> QED
    BY <1>1, <1>2, <2>1 DEF r
<1>5. ASSUME x.n # 0
      PROVE  q \in Int /\ n \in Nat
  <2>1. x \in Exacts /\ x.n > 0
    <3>1. x \in Exacts /\ x.n = a.c /\ a.c \in Nat
      BY ItselfIs, NumberFields
    <3> QED
      BY <1>5, <3>1
  <2> HIDE DEF x
  <2>2. q \in Int
    BY <2>1, LastPlaceIs
  <2> HIDE DEF q
  <2>3. Num(x, q) \div Den(x, q) \in Nat
    BY <2>1, <2>2, Rests
  <2> QED
    BY <2>2, <2>3 DEF RoundAt
<1>6. ASSUME NEW t \in Numbers, r.d = t, r.st = f.st, d \in Numbers,
             t.s = d.s, t.c = 0 <=> d.c = 0,
             \A k \in Nat, p \in Int : SameNumber(d, k, p) => SameNumber(t, k, p),
             d = Fin(x.s, MaxCoeff(limits), Etop(limits)) => t = d
      PROVE  IsRounded(r, x, limits)
  <2>1. CASE x.n = 0
    <3>1. IsZero(d)
      BY <1>1, <2>1 DEF IsRounded
    <3>2. IsZero(r.d)
      BY <1>6, <3>1, NumberFields DEF IsZero
    <3> QED
      BY <2>1, <3>2 DEF IsRounded
  <2>2. CASE x.n # 0 /\ Digits(n) + q - 1 > limits.emax
    <3>1. /\ f.st = {"Overflow", "Inexact", "Rounded"}
          /\ d = IF EndsAtLargest(x.s, limits)
                 THEN Fin(x.s, MaxCoeff(limits), Etop(limits)) ELSE Inf(x.s)
      BY <1>1, <2>2 DEF IsRounded
    <3>2. d # Inf(x.s)
      BY <1>6, NumberFields DEF Inf, Special
    <3>3. r.d = d
      BY <1>6, <3>1, <3>2
    <3> HIDE DEF f, d
    <3> QED
      BY <1>1, <1>6, <3>3, SameParts DEF d
  <2>3. CASE x.n # 0 /\ ~(Digits(n) + q - 1 > limits.emax)
    <3>1. /\ SameNumber(d, n, q) /\ d.s = x.s
          /\ ("Inexact" \in f.st) = ~RoundAt(x, q, limits.round).exact
          /\ ("Subnormal" \in f.st) = (Leading(x) < limits.emin)
          /\ ("Underflow" \in f.st)
               = (Leading(x) < limits.emin /\ ~RoundAt(x, q, limits.round).exact)
          /\ "Overflow" \notin f.st
      BY <1>1, <2>3 DEF IsRounded
    <3>2. SameNumber(r.d, n, q) /\ r.d.s = x.s
      BY <1>5, <1>6, <2>3, <3>1
    <3> QED
      BY <1>6, <2>3, <3>1, <3>2 DEF IsRounded
  <2> QED
    BY <2>1, <2>2, <2>3
<1>7. CASE ~IsSpecial(d) /\ d.c = 0
  <2> DEFINE t == Fin(d.s, 0, 0)
  <2>1. d \in Numbers /\ d.k = "fin" /\ d.s \in {0, 1} /\ d.e \in Int
    BY <1>2, <1>7, Kinds DEF IsSpecial
  <2>2. t \in Numbers /\ t.s = d.s /\ t.c = 0 /\ t.k = "fin" /\ t.e = 0
    BY <2>1, FinFields
  <2>3. r = Result(t, f.st)
    BY <1>3, <1>7 DEF Reduced
  <2>4. r.d = t /\ r.st = f.st
    BY <2>3 DEF Result
  <2> HIDE DEF t
  <2>5. ASSUME NEW k \in Nat, NEW p \in Int, SameNumber(d, k, p)
        PROVE  SameNumber(t, k, p)
    <3>1. k = 0
      BY <1>7, <2>1, <2>5, NumberAt
    <3> DEFINE u == IF p <= 0 THEN p ELSE 0
    <3>2. u \in Int /\ u <= p /\ u <= 0 /\ p - u \in Nat /\ 0 - u \in Nat
      OBVIOUS
    <3> HIDE DEF u
    <3>3. Part(t, u) = k * Pow10[p - u]
      <4>1. Pow10[p - u] \in Nat /\ Pow10[0 - u] \in Nat
        BY <3>2, PowersAre
      <4> QED
        BY <2>2, <3>1, <4>1 DEF Part
    <3> QED
      BY <2>2, <3>2, <3>3, OutUnits
  <2>6. d # Fin(x.s, MaxCoeff(limits), Etop(limits))
    <3>1. MaxCoeff(limits) # 0
      <4>1. Pow10[limits.prec] > 1
        <5>1. limits.prec \in Nat \ {0}
          BY DEF ContextOK
        <5> QED
          BY <5>1, PowersGrow, PowersAre
      <4>2. Pow10[limits.prec] \in Nat
        BY PowersAre DEF ContextOK
      <4> QED
        BY <4>1, <4>2 DEF MaxCoeff
    <3>2. Fin(x.s, MaxCoeff(limits), Etop(limits)).c = MaxCoeff(limits)
      BY DEF Fin
    <3> QED
      BY <1>7, <3>1, <3>2
  <2>7. IsRounded(r, x, limits)
    BY <1>6, <1>7, <2>1, <2>2, <2>4, <2>5, <2>6
  <2>8. IsZero(r.d)
    BY <2>2, <2>4 DEF IsZero
  <2> QED
    BY <2>7, <2>8 DEF r
<1>8. CASE ~IsSpecial(d) /\ d.c # 0
  <2> DEFINE z == TrailZeros(d.c)
             k == ZerosToDrop(d.c, top - d.e)
             t == Fin(d.s, d.c \div Pow10[k], d.e + k)
  <2>1. /\ d \in Numbers /\ d.k = "fin" /\ d.s \in {0, 1} /\ d.e \in Int
        /\ d.c \in Nat \ {0} /\ Digits(d.c) \in Nat \ {0}
        /\ AdjExp(d) = d.e + Digits(d.c) - 1
    BY <1>2, <1>8, Kinds, NumberFields DEF IsSpecial
  <2>2. /\ limits.emax \in Nat /\ limits.prec \in Nat \ {0} /\ limits.clamp \in {0, 1}
        /\ Etop(limits) \in Int /\ Etop(limits) = limits.emax - limits.prec + 1
        /\ Etiny(limits) \in Int
    BY Limits DEF ContextOK
  <2>3. /\ Digits(d.c) <= limits.prec /\ d.e >= Etiny(limits)
        /\ AdjExp(d) <= limits.emax /\ (limits.clamp = 1 => d.e <= Etop(limits))
    BY <1>2, <2>1 DEF Fits
  <2>4. top - d.e \in Nat
    BY <2>1, <2>2, <2>3
  <2>5. z \in Nat
    BY <2>1, TrailZerosAre
  <2>6. k \in Nat /\ k <= z /\ k <= top - d.e
    <3>1. k = IF z <= top - d.e THEN z ELSE top - d.e
      BY <2>4, <2>5, MinOfTwo DEF ZerosToDrop
    <3> HIDE DEF z, top, k
    <3> QED
      BY <2>4, <2>5, <3>1
  <2>7. r = Result(t, f.st)
    BY <1>3, <1>8 DEF Reduced
  <2>8. r.d = t /\ r.st = f.st
    BY <2>7 DEF Result
  <2> HIDE DEF k
  <2>9. /\ t \in Numbers /\ t.s = d.s /\ t.e = d.e + k /\ t.c \in Nat \ {0}
        /\ AdjExp(t) = AdjExp(d) /\ Digits(t.c) = Digits(d.c) - k
        /\ \A m \in Nat, p \in Int : SameNumber(d, m, p) => SameNumber(t, m, p)
    BY <2>1, <2>6, ZerosTakenOff
  <2>10. d = Fin(x.s, MaxCoeff(limits), Etop(limits)) => t = d
    <3> SUFFICES ASSUME d = Fin(x.s, MaxCoeff(limits), Etop(limits))
                 PROVE  t = d
      OBVIOUS
    <3>1. d.c = MaxCoeff(limits) /\ d = Fin(d.s, d.c, d.e)
      BY DEF Fin
    <3>2. k = 0
      <4>1. z = 0
        BY <3>1, NinesEndInNine
      <4> QED
        BY <2>5, <2>6, <4>1
    <3>3. d.c \div Pow10[k] = d.c /\ d.e + k = d.e
      BY <2>1, <3>2, PowersAre
    <3> QED
      BY <3>1, <3>3
  <2> HIDE DEF t, z
  <2>11. IsRounded(r, x, limits)
    <3>1. t.c = 0 <=> d.c = 0
      BY <2>1, <2>9
    <3> QED
      BY <1>6, <2>1, <2>8, <2>9, <2>10, <3>1
  <2>12. Fits(t, limits)
    <3>1. /\ Digits(t.c) <= limits.prec /\ t.e >= Etiny(limits)
          /\ AdjExp(t) <= limits.emax
      BY <2>1, <2>2, <2>3, <2>6, <2>9
    <3>2. limits.clamp = 1 => t.e <= Etop(limits)
      BY <2>1, <2>2, <2>6, <2>9
    <3> QED
      BY <3>1, <3>2 DEF Fits
  <2> QED
    BY <2>8, <2>11, <2>12 DEF r
<1> HIDE DEF x, d
<1>9. IsRounded(r, x, limits) /\ (Fits(r.d, limits) \/ IsZero(r.d))
  BY <1>4, <1>7, <1>8 DEF x, d, r
<1> QED
  BY <1>9 DEF x, r

------------------------------------------------------------------------------
(* Operands that are C integers.                                            *)

\* Any word fits the largest context.
LEMMA WordsFit ==
  ASSUME NEW c \in Nat, c <= UintMax, NEW s \in {0, 1}
  PROVE  /\ Digits(c) <= RDigits + 1
         /\ Finalize(Fin(s, c, 0), MaxCtx) = Result(Fin(s, c, 0), {})
<1> DEFINE d == Fin(s, c, 0)
<1>1. /\ UintMax \in Nat /\ RDigits + 1 \in Nat \ {0} /\ MaxPrec \in Nat \ {0}
      /\ MaxEmax \in Nat /\ MinEmin \in Int /\ MinEmin <= 0 /\ MaxPrec <= MaxEmax + 1
      /\ UintMax < Pow10[MaxPrec] /\ UintMax < Pow10[RDigits + 1]
  BY WordsAssumption, WordDigitsAssumption, LimitsAssumption
<1>2. Pow10[MaxPrec] \in Nat /\ Pow10[RDigits + 1] \in Nat
  BY <1>1, PowersAre
<1>3. c < Pow10[MaxPrec] /\ c < Pow10[RDigits + 1]
  BY <1>1, <1>2
<1>4. Digits(c) <= MaxPrec /\ Digits(c) <= RDigits + 1 /\ Digits(c) \in Nat \ {0}
  BY <1>1, <1>3, DigitsBound, DigitsAre
<1>5. /\ MaxCtx.prec = MaxPrec /\ MaxCtx.emax = MaxEmax /\ MaxCtx.emin = MinEmin
      /\ MaxCtx.clamp = 0
  BY DEF MaxCtx
<1>6. ContextOK(MaxCtx)
  BY <1>1, <1>5 DEF ContextOK
<1>7. Etiny(MaxCtx) <= 0
  BY <1>1, <1>5 DEF Etiny
<1>8. d \in Fitting(MaxCtx) /\ d.k = "fin" /\ AdjExp(d) = 0 + Digits(c) - 1
  <2>1. d \in Fitting(MaxCtx)
    BY <1>1, <1>4, <1>5, <1>6, <1>7, FinFits
  <2> QED
    BY <2>1, FinFields
<1>9. ~(AdjExp(d) < MaxCtx.emin)
  BY <1>1, <1>4, <1>5, <1>8
<1> HIDE DEF d
<1> QED
  BY <1>4, <1>6, <1>8, <1>9, FinalizeKeeps DEF d

LEMMA WordIs ==
  ASSUME NEW a \in Numbers, a.e = 0, a.c <= UintMax
  PROVE  /\ GetUint(FALSE, a) = a.c /\ (a.s = 0 => GetUint(TRUE, a) = a.c)
         /\ a.c # NotAnInteger
<1>1. a.c \in Nat /\ ~IsSpecial(a) /\ UintMax \in Nat /\ UintMax > 0 /\ a.s \in {0, 1}
  BY NumberFields, WordsAssumption
<1>2. ~(Digits(a.c) + a.e > RDigits + 1)
  <2>1. Digits(a.c) \in Nat /\ Digits(a.c) <= RDigits + 1
    BY <1>1, WordsFit, DigitsAre
  <2> QED
    BY <2>1, WordsAssumption
<1>3. IsInt(a)
  <2>1. a.c # 0 => TrailZeros(a.c) \in Nat
    BY <1>1, TrailZerosAre
  <2> QED
    BY <2>1 DEF IsInt
<1>4. (IF a.e < 0 THEN a.c \div Pow10[-a.e] ELSE a.c * Pow10[a.e]) = a.c
  <2>1. a.c * Pow10[0] = a.c
    BY <1>1, PowersAre
  <2> QED
    BY <2>1
<1>5. a.c # NotAnInteger
  BY <1>1 DEF NotAnInteger
<1> QED
  BY <1>1, <1>2, <1>3, <1>4, <1>5 DEF GetUint

\* What stands for a C integer is read as one, and made again of it.
LEMMA SsizeIs ==
  ASSUME NEW a, IsSsize(a)
  PROVE  /\ a \in Numbers /\ a = Fin(a.s, a.c, 0) /\ a.c <= UintMax
         /\ GetSsize(a) = IF a.s = 1 THEN -a.c ELSE a.c
         /\ \A c : FromInt(GetSsize(a), c) = Finalize(a, c)
         /\ Integer(GetSsize(a)) = Result(a, {})
<1> DEFINE n == GetSsize(a)
<1>1. /\ a \in Numbers /\ a.e = 0 /\ a.c \in a.s..(SsizeMax + a.s) /\ a.s \in {0, 1}
      /\ a.c \in Nat /\ SsizeMax \in Nat /\ UintMax \in Nat /\ SsizeMax < UintMax
  BY NumberFields, WordsAssumption DEF IsSsize
<1>2. a.c <= UintMax
  BY <1>1
<1>3. n = IF a.s = 1 THEN -a.c ELSE a.c
  <2>1. GetUint(FALSE, a) = a.c /\ a.c # NotAnInteger
    BY <1>1, <1>2, WordIs
  <2>2. CASE a.c <= SsizeMax
    <3>1. n = ArithSign(a) * a.c
      BY <2>1, <2>2 DEF GetSsize
    <3> QED
      BY <1>1, <3>1 DEF ArithSign
  <2>3. CASE ~(a.c <= SsizeMax)
    <3>1. a.s = 1 /\ a.c = SsizeMax + 1
      BY <1>1, <2>3
    <3>2. n = -a.c
      BY <2>1, <2>3, <3>1 DEF GetSsize
    <3> QED
      BY <3>1, <3>2
  <2> QED
    BY <2>2, <2>3
<1>4. a = Fin(a.s, a.c, 0)
  BY <1>1 DEF Numbers, Fin
<1> HIDE DEF n
<1>5. (IF n < 0 THEN 1 ELSE 0) = a.s /\ (IF n < 0 THEN -n ELSE n) = a.c
  BY <1>1, <1>3
<1>6. ASSUME NEW c
      PROVE  FromInt(n, c) = Finalize(a, c)
  BY <1>4, <1>5 DEF FromInt
<1>7. Integer(n) = Result(a, {})
  BY <1>1, <1>2, <1>4, <1>6, WordsFit DEF Integer
<1> QED
  BY <1>1, <1>2, <1>3, <1>4, <1>6, <1>7 DEF n

LEMMA UintIs ==
  ASSUME NEW a, IsUint(a)
  PROVE  /\ a \in Numbers
         /\ \A c : FromInt(GetUint(TRUE, a), c) = Finalize(a, c)
<1>1. a \in Numbers /\ a.e = 0 /\ a.s = 0 /\ a.c <= UintMax /\ a.c \in Nat
  BY NumberFields DEF IsUint
<1>2. GetUint(TRUE, a) = a.c
  BY <1>1, WordIs
<1>3. a = Fin(0, a.c, 0) /\ ~(a.c < 0)
  BY <1>1 DEF Numbers, Fin
<1> QED
  BY <1>1, <1>2, <1>3 DEF FromInt

LEMMA IntegerCallsAre ==
  ASSUME NEW a, NEW b
  PROVE  /\ Call2("set_ssize", a, b) = FromInt(GetSsize(a), ctx)
         /\ Call2("set_uint", a, b) = FromInt(GetUint(TRUE, a), ctx)
         /\ Call2("scaleb", a, b) = QScaleb(a, b, ctx)
         /\ Call2("add_ssize", a, b) = AddInteger(a, Integer(GetSsize(b)))
         /\ Call2("sub_ssize", a, b) = SubInteger(a, Integer(GetSsize(b)))
         /\ Call2("div_ssize", a, b) = DivInteger(a, Integer(GetSsize(b)))
         /\ Call2("mul_ssize", a, b) = MulInteger(a, Integer(GetSsize(b)))
         /\ Call2("sqrt", a, b) = QSqrt(a, ctx)
<1>1. ASSUME NEW op \in SetOps
      PROVE  Call2(op, a, b) = SetCall(op, a)
  <2>1. /\ op \notin ConversionOps /\ op \notin LogicOps /\ op \notin SumOps
        /\ op \notin QuotientOps /\ op \notin ProductOps /\ op \notin RescaleOps
    BY DEF SetOps, ConversionOps, LogicOps, SumOps, QuotientOps, ProductOps, RescaleOps
  <2> QED
    BY <2>1 DEF Call2
<1>2. Call2("scaleb", a, b) = LogicCall("scaleb", a, b)
  <2>1. /\ "scaleb" \notin ConversionOps /\ "scaleb" \notin SetOps
        /\ "scaleb" \in LogicOps /\ "scaleb" \notin SumOps
        /\ "scaleb" \notin QuotientOps /\ "scaleb" \notin ProductOps
        /\ "scaleb" \notin RescaleOps
    BY DEF ConversionOps, SetOps, LogicOps, SumOps, QuotientOps, ProductOps, RescaleOps
  <2> QED
    BY <2>1 DEF Call2
<1>3. ASSUME NEW op \in {"add_ssize", "sub_ssize"}
      PROVE  Call2(op, a, b) = SumCall(op, a, b)
  <2>1. /\ op \notin ConversionOps /\ op \notin SetOps /\ op \notin LogicOps
        /\ op \in SumOps /\ op \notin QuotientOps /\ op \notin ProductOps
        /\ op \notin RescaleOps
    BY DEF ConversionOps, SetOps, LogicOps, SumOps, QuotientOps, ProductOps, RescaleOps
  <2> QED
    BY <2>1 DEF Call2
<1>4. Call2("div_ssize", a, b) = QuotientCall("div_ssize", a, b)
  <2>1. /\ "div_ssize" \notin ConversionOps /\ "div_ssize" \notin SetOps
        /\ "div_ssize" \notin LogicOps /\ "div_ssize" \notin SumOps
        /\ "div_ssize" \in QuotientOps /\ "div_ssize" \notin ProductOps
        /\ "div_ssize" \notin RescaleOps
    BY DEF ConversionOps, SetOps, LogicOps, SumOps, QuotientOps, ProductOps, RescaleOps
  <2> QED
    BY <2>1 DEF Call2
<1>5. Call2("mul_ssize", a, b) = ProductCall("mul_ssize", a, b)
  <2>1. /\ "mul_ssize" \notin ConversionOps /\ "mul_ssize" \notin SetOps
        /\ "mul_ssize" \notin LogicOps /\ "mul_ssize" \notin SumOps
        /\ "mul_ssize" \notin QuotientOps /\ "mul_ssize" \in ProductOps
        /\ "mul_ssize" \notin RescaleOps
    BY DEF ConversionOps, SetOps, LogicOps, SumOps, QuotientOps, ProductOps, RescaleOps
  <2> QED
    BY <2>1 DEF Call2
<1>6. Call2("sqrt", a, b) = RescaleCall("sqrt", a, b)
  <2>1. /\ "sqrt" \notin ConversionOps /\ "sqrt" \notin SetOps
        /\ "sqrt" \notin LogicOps /\ "sqrt" \notin SumOps
        /\ "sqrt" \notin QuotientOps /\ "sqrt" \notin ProductOps
        /\ "sqrt" \in RescaleOps
    BY DEF ConversionOps, SetOps, LogicOps, SumOps, QuotientOps, ProductOps, RescaleOps
  <2> QED
    BY <2>1 DEF Call2
<1>7. /\ SetCall("set_ssize", a) = FromInt(GetSsize(a), ctx)
      /\ SetCall("set_uint", a) = FromInt(GetUint(TRUE, a), ctx)
      /\ "set_ssize" \in SetOps /\ "set_uint" \in SetOps
  BY DEF SetCall, SetOps
<1>8. LogicCall("scaleb", a, b) = QScaleb(a, b, ctx)
  BY DEF LogicCall
<1>9. /\ SumCall("add_ssize", a, b) = AddInteger(a, Integer(GetSsize(b)))
      /\ SumCall("sub_ssize", a, b) = SubInteger(a, Integer(GetSsize(b)))
  BY DEF SumCall
<1>10. /\ QuotientCall("div_ssize", a, b) = DivInteger(a, Integer(GetSsize(b)))
       /\ ProductCall("mul_ssize", a, b) = MulInteger(a, Integer(GetSsize(b)))
       /\ RescaleCall("sqrt", a, b) = QSqrt(a, ctx)
  BY DEF QuotientCall, ProductCall, RescaleCall
<1> QED
  BY <1>1, <1>2, <1>3, <1>4, <1>5, <1>6, <1>7, <1>8, <1>9, <1>10

\* Of a number, _mpd_qget_uint returns the magnitude, unless it is not an
\* integer or larger than a word.
LEMMA UintOf ==
  ASSUME NEW a \in Numbers
  PROVE  LET u == GetUint(FALSE, a)
             t == RoundAt(Itself(a), 0, "ROUND_DOWN")
         IN /\ t.n \in Nat
            /\ u # NotAnInteger =>
                 /\ u \in Nat /\ u <= UintMax /\ u = t.n
                 /\ IF a.e < 0 THEN a.c = u * Pow10[-a.e] ELSE u = a.c * Pow10[a.e]
            /\ u = NotAnInteger => t.n > UintMax \/ ~t.exact
<1> DEFINE x == Itself(a)
           u == GetUint(FALSE, a)
           t == RoundAt(x, 0, "ROUND_DOWN")
           v == IF a.e < 0 THEN a.c \div Pow10[-a.e] ELSE a.c * Pow10[a.e]
           rest == IF a.e < 0 THEN a.c % Pow10[-a.e] ELSE 0
<1>1. /\ a.c \in Nat /\ a.e \in Int /\ ~IsSpecial(a) /\ UintMax \in Nat
      /\ UintMax > 0 /\ RDigits \in Nat /\ UintMax < Pow10[RDigits + 1]
      /\ Pow10[RDigits + 1] \in Nat
  BY NumberFields, WordsAssumption, WordDigitsAssumption, PowersAre
<1>0. /\ a.e < 0 => v = a.c \div Pow10[-a.e] /\ rest = a.c % Pow10[-a.e]
      /\ ~(a.e < 0) => v = a.c * Pow10[a.e] /\ rest = 0
  OBVIOUS
<1> HIDE DEF t, v, rest
<1>2. t.n = v /\ (t.exact <=> rest = 0) /\ v \in Nat
  <2>1. /\ t.n = Num(x, 0) \div Den(x, 0)
        /\ t.exact <=> Num(x, 0) % Den(x, 0) = 0
    <3>1. \A s, low, r, whole : ~AwayFromZero("ROUND_DOWN", s, low, r, whole)
      BY DEF AwayFromZero
    <3>2. t = [n |-> Num(x, 0) \div Den(x, 0), exact |-> Num(x, 0) % Den(x, 0) = 0]
      BY <3>1 DEF RoundAt, t
    <3> HIDE DEF x
    <3> QED
      BY <3>2
  <2> HIDE DEF x
  <2>2. CASE a.e < 0
    <3>1. 0 >= a.e /\ 0 - a.e = -a.e /\ -a.e \in Nat
      BY <1>1, <2>2
    <3>2. Num(x, 0) = a.c /\ Den(x, 0) = Pow10[-a.e]
      BY <3>1, ItselfIs DEF x
    <3>3. a.c \div Pow10[-a.e] \in Nat
      BY <1>1, <3>1, PowersDivide
    <3>4. v = a.c \div Pow10[-a.e] /\ rest = a.c % Pow10[-a.e]
      BY <1>0, <2>2
    <3> QED
      BY <2>1, <3>2, <3>3, <3>4
  <2>3. CASE ~(a.e < 0)
    <3>1. 0 <= a.e /\ a.e - 0 = a.e /\ a.e \in Nat
      BY <1>1, <2>3
    <3>2. Num(x, 0) = a.c * Pow10[a.e] /\ Den(x, 0) = 1
      BY <3>1, ItselfIs DEF x
    <3>3. Pow10[a.e] \in Nat
      BY <3>1, PowersAre
    <3> DEFINE p == a.c * Pow10[a.e]
    <3>4. p \in Nat
      BY <1>1, <3>3
    <3>6. v = p /\ rest = 0
      BY <1>0, <2>3
    <3>7. Num(x, 0) = p
      BY <3>2
    <3> HIDE DEF p
    <3>5. p \div 1 = p /\ p % 1 = 0
      BY <3>4
    <3> QED
      BY <2>1, <3>2, <3>4, <3>5, <3>6, <3>7
  <2> QED
    BY <2>2, <2>3
<1> HIDE DEF x
<1>3. CASE a.c = 0
  <2>1. u = 0
    BY <1>1, <1>3 DEF GetUint
  <2>2. v = 0 /\ rest = 0 /\ (a.e < 0 => 0 * Pow10[-a.e] = 0)
        /\ (~(a.e < 0) => 0 * Pow10[a.e] = 0)
    <3>1. CASE a.e < 0
      <4>1. Pow10[-a.e] \in Nat \ {0}
        <5>1. -a.e \in Nat
          BY <1>1, <3>1
        <5> QED
          BY <5>1, PowersAre
      <4> DEFINE m == Pow10[-a.e]
      <4>2. m \in Nat \ {0}
        BY <4>1
      <4>3. v = a.c \div m /\ rest = a.c % m
        BY <1>0, <3>1
      <4> HIDE DEF m
      <4>4. 0 \div m = 0 /\ 0 % m = 0 /\ 0 * m = 0
        BY <4>2
      <4> QED
        BY <1>3, <3>1, <4>3, <4>4 DEF m
    <3>2. CASE ~(a.e < 0)
      <4>1. Pow10[a.e] \in Nat
        BY <1>1, <3>2, PowersAre
      <4>2. v = a.c * Pow10[a.e] /\ rest = 0
        BY <1>0, <3>2
      <4> DEFINE m == Pow10[a.e]
      <4>3. m \in Nat /\ v = a.c * m
        BY <4>1, <4>2
      <4> HIDE DEF m
      <4>4. 0 * m = 0
        BY <4>3
      <4> QED
        BY <1>3, <3>2, <4>2, <4>3, <4>4 DEF m
    <3> QED
      BY <3>1, <3>2
  <2>3. 0 # NotAnInteger
    BY <1>1 DEF NotAnInteger
  <2> HIDE DEF u
  <2>4. u # NotAnInteger /\ u \in Nat /\ u <= UintMax /\ u = t.n
    BY <1>1, <1>2, <2>1, <2>2, <2>3
  <2>5. IF a.e < 0 THEN a.c = u * Pow10[-a.e] ELSE u = a.c * Pow10[a.e]
    BY <1>3, <2>1, <2>2
  <2>6. t.n \in Nat
    BY <1>2
  <2> QED
    BY <2>4, <2>5, <2>6 DEF t, x, u
<1>4. CASE a.c # 0
  <2> DEFINE z == TrailZeros(a.c)
  <2>1. PICK q \in Nat : q % 10 # 0 /\ a.c = q * Pow10[z]
    BY <1>1, <1>4, TrailZerosAre
  <2>2. z \in Nat
    BY <1>1, <1>4, TrailZerosAre
  <2> HIDE DEF z
  <2>3. IsInt(a) <=> a.e + z >= 0
    BY <1>4 DEF IsInt, z
  <2>4. IsInt(a) => rest = 0
    <3> SUFFICES ASSUME a.e < 0, IsInt(a) PROVE a.c % Pow10[-a.e] = 0
      BY <1>0
    <3>1. -a.e \in Nat /\ -a.e <= z
      BY <1>1, <2>2, <2>3
    <3>2. (q * Pow10[z]) % Pow10[-a.e] = 0
      BY <2>2, <3>1, PowersCancel
    <3> QED
      BY <2>1, <3>2
  <2>5. rest = 0 /\ a.e < 0 => a.c = v * Pow10[-a.e]
    <3> SUFFICES ASSUME a.e < 0, rest = 0 PROVE a.c = v * Pow10[-a.e]
      OBVIOUS
    <3> DEFINE m == Pow10[-a.e]
    <3>1. m \in Nat \ {0}
      <4>1. -a.e \in Nat
        BY <1>1
      <4> QED
        BY <4>1, PowersAre
    <3>2. v = a.c \div m /\ a.c % m = 0
      BY <1>0
    <3> HIDE DEF m
    <3>3. a.c = m * (a.c \div m) + (a.c % m)
      BY <1>1, <3>1, QuotientsBound
    <3>4. m * v = v * m
      BY <1>2, <3>1
    <3> QED
      BY <1>1, <1>2, <3>1, <3>2, <3>3, <3>4 DEF m
  <2>6. rest = 0 => IsInt(a)
    <3> SUFFICES ASSUME rest = 0, ~(a.e + z >= 0) PROVE FALSE
      BY <2>3
    <3>1. a.e < 0 /\ -a.e \in Nat /\ z < -a.e
      BY <1>1, <2>2
    <3>2. a.c = v * Pow10[-a.e]
      BY <2>5, <3>1
    <3>3. v # 0
      <4>1. 0 * Pow10[-a.e] = 0
        BY <3>1, PowersAre
      <4> QED
        BY <1>4, <3>2, <4>1
    <3> DEFINE w == TrailZeros(v)
    <3>4. w \in Nat
      BY <1>2, <3>3, TrailZerosAre
    <3>5. PICK r \in Nat : r % 10 # 0 /\ v = r * Pow10[w]
      BY <1>2, <3>3, TrailZerosAre
    <3> HIDE DEF w
    <3>6. Pow10[w + (-a.e)] = Pow10[w] * Pow10[-a.e]
      BY <3>1, <3>4, PowersAdd
    <3> DEFINE f == Pow10[w]
               g == Pow10[-a.e]
    <3>7. f \in Nat /\ g \in Nat
      BY <3>1, <3>4, PowersAre
    <3>8. a.c = (r * f) * g /\ Pow10[w + (-a.e)] = f * g
      BY <3>2, <3>5, <3>6
    <3> HIDE DEF f, g
    <3>9. (r * f) * g = r * (f * g)
      BY <3>5, <3>7
    <3>10. a.c = r * Pow10[w + (-a.e)] /\ w + (-a.e) \in Nat
      BY <3>1, <3>4, <3>8, <3>9
    <3>11. z = w + (-a.e)
      BY <3>5, <3>10, TrailZerosIs DEF z
    <3> QED
      BY <1>1, <3>1, <3>4, <3>11
  <2>7. Digits(a.c) + a.e > RDigits + 1 => v > UintMax
    <3> SUFFICES ASSUME Digits(a.c) + a.e > RDigits + 1 PROVE v > UintMax
      OBVIOUS
    <3>1. Digits(a.c) \in Nat /\ a.c > 0
      BY <1>1, <1>4, DigitsAre
    <3>2. Digits(v) = Digits(a.c) + a.e
      <4>1. CASE a.e < 0
        <5>0. v = a.c \div Pow10[-a.e]
          BY <1>0, <4>1
        <5>1. -a.e \in Nat /\ -a.e < Digits(a.c)
          BY <1>1, <3>1, <4>1
        <5>2. Digits(a.c \div Pow10[-a.e]) = Digits(a.c) - (-a.e)
          BY <1>1, <3>1, <5>1, DigitsShiftRight
        <5> QED
          BY <1>1, <3>1, <4>1, <5>0, <5>2
      <4>2. CASE ~(a.e < 0)
        <5>0. v = a.c * Pow10[a.e]
          BY <1>0, <4>2
        <5>1. a.e \in Nat
          BY <1>1, <4>2
        <5> QED
          BY <1>1, <3>1, <4>2, <5>0, <5>1, DigitsShiftLeft
      <4> QED
        BY <4>1, <4>2
    <3>3. ~(v < Pow10[RDigits + 1])
      <4>1. RDigits + 1 \in Nat /\ RDigits + 1 >= 1
        BY <1>1
      <4>2. ~(Digits(v) <= RDigits + 1)
        BY <1>1, <3>1, <3>2
      <4> QED
        BY <1>2, <4>1, <4>2, DigitsBound
    <3> QED
      BY <1>1, <1>2, <3>3
  <2>8. u = IF Digits(a.c) + a.e > RDigits + 1 \/ ~IsInt(a) THEN NotAnInteger
            ELSE IF v > UintMax THEN NotAnInteger ELSE v
    BY <1>1, <1>4 DEF GetUint, v
  <2>9. v # NotAnInteger
    BY <1>1, <1>2 DEF NotAnInteger
  <2> HIDE DEF u
  <2>10. u = NotAnInteger => v > UintMax \/ rest # 0
    BY <2>6, <2>7, <2>8, <2>9
  <2>11. u # NotAnInteger => u = v /\ rest = 0 /\ ~(v > UintMax)
    BY <2>4, <2>8
  <2>12. ~(a.e < 0) => v = a.c * Pow10[a.e]
    BY <1>0
  <2>13. u # NotAnInteger => u \in Nat /\ u <= UintMax /\ u = v
    BY <1>1, <1>2, <2>11
  <2>14. u # NotAnInteger =>
           IF a.e < 0 THEN a.c = u * Pow10[-a.e] ELSE u = a.c * Pow10[a.e]
    BY <2>5, <2>11, <2>12
  <2>15. u = NotAnInteger => t.n > UintMax \/ ~t.exact
    BY <1>2, <2>10
  <2>16. t.n \in Nat /\ (u # NotAnInteger => u = t.n)
    BY <1>2, <2>13
  <2> QED
    BY <2>13, <2>14, <2>15, <2>16 DEF t, x, u
<1> QED
  BY <1>3, <1>4

\* mpd_qget_ssize returns the integer that the number is, or finds none.
LEMMA SsizeOf ==
  ASSUME NEW a \in Numbers
  PROVE  LET n == GetSsize(a)
             t == RoundAt(Itself(a), 0, "ROUND_DOWN")
         IN IF n # NotAnInteger THEN SumOf(a, FromInt(-n, MaxCtx).d).n = 0
            ELSE t.n > SsizeMax \/ ~t.exact
<1> DEFINE n == GetSsize(a)
           u == GetUint(FALSE, a)
           t == RoundAt(Itself(a), 0, "ROUND_DOWN")
<1>1. /\ t.n \in Nat
      /\ u # NotAnInteger =>
           /\ u \in Nat /\ u <= UintMax /\ u = t.n
           /\ IF a.e < 0 THEN a.c = u * Pow10[-a.e] ELSE u = a.c * Pow10[a.e]
      /\ u = NotAnInteger => t.n > UintMax \/ ~t.exact
  BY UintOf
<1>2. /\ UintMax \in Nat /\ SsizeMax \in Nat /\ SsizeMax < UintMax
      /\ NotAnInteger \in Int /\ NotAnInteger < -UintMax
      /\ a.s \in {0, 1} /\ a.c \in Nat /\ a.e \in Int
  BY NumberFields, WordsAssumption DEF NotAnInteger
<1> HIDE DEF t
<1>3. n = IF u = NotAnInteger THEN NotAnInteger
          ELSE IF u <= SsizeMax THEN ArithSign(a) * u
          ELSE IF a.s = 1 /\ u = SsizeMax + 1 THEN -u ELSE NotAnInteger
  BY DEF GetSsize
<1> HIDE DEF n, u
<1>4. CASE n # NotAnInteger
  <2>1. /\ u # NotAnInteger /\ u \in Nat /\ u <= UintMax
        /\ n = IF a.s = 1 THEN -u ELSE u
        /\ IF a.e < 0 THEN a.c = u * Pow10[-a.e] ELSE u = a.c * Pow10[a.e]
    <3>1. u # NotAnInteger
      BY <1>3, <1>4
    <3>2. u \in Nat /\ u <= UintMax
      BY <1>1, <3>1
    <3>3. CASE u <= SsizeMax
      <4>1. n = ArithSign(a) * u
        BY <1>3, <3>1, <3>3
      <4>2. (-1) * u = -u /\ 1 * u = u
        BY <3>2
      <4> QED
        BY <1>1, <3>1, <3>2, <4>1, <4>2 DEF ArithSign
    <3>4. CASE ~(u <= SsizeMax)
      BY <1>1, <1>3, <1>4, <3>1, <3>2, <3>4
    <3> QED
      BY <3>3, <3>4
  <2> DEFINE s == IF -n < 0 THEN 1 ELSE 0
             b == Fin(s, u, 0)
             e == Min({a.e, b.e})
  <2>2. FromInt(-n, MaxCtx).d = b
    <3>1. (IF -n < 0 THEN -(-n) ELSE -n) = u /\ s \in {0, 1}
      BY <2>1
    <3> HIDE DEF s
    <3>2. FromInt(-n, MaxCtx) = Finalize(b, MaxCtx)
      BY <3>1 DEF FromInt, s
    <3>3. Finalize(b, MaxCtx) = Result(b, {})
      BY <2>1, <3>1, WordsFit
    <3> QED
      BY <3>2, <3>3 DEF Result
  <2>3. /\ b \in Numbers /\ b.c = u /\ b.e = 0 /\ b.s = s
    <3>1. s \in {0, 1} /\ 0 \in Int
      OBVIOUS
    <3> HIDE DEF s
    <3> QED
      BY <2>1, <3>1, FinFields
  <2>4. u # 0 => s = IF a.s = 1 THEN 0 ELSE 1
    BY <1>2, <2>1
  <2> HIDE DEF b, s
  <2>5. /\ e \in Int /\ e <= a.e /\ e <= b.e /\ e = (IF a.e < 0 THEN a.e ELSE 0)
        /\ SumOf(a, b) = SumAt(a.s, Part(a, e), b.s, Part(b, e), e)
    <3>1. a.e \in Int /\ 0 \in Int /\ Min({a.e, 0}) = (IF a.e <= 0 THEN a.e ELSE 0)
      BY <1>2, MinOfTwo
    <3>2. (IF a.e <= 0 THEN a.e ELSE 0) = (IF a.e < 0 THEN a.e ELSE 0)
      BY <1>2
    <3>3. e = (IF a.e < 0 THEN a.e ELSE 0)
      BY <2>3, <3>1, <3>2
    <3> QED
      BY <2>3, <3>3, SumIs
  <2> HIDE DEF e
  <2>6. Part(a, e) = Part(b, e) /\ Part(a, e) \in Nat
    <3>1. CASE a.e < 0
      <4>1. e = a.e /\ a.e - e = 0 /\ 0 - e = -a.e
        BY <1>2, <2>5, <3>1
      <4>2. Part(a, e) = a.c * 1 /\ Part(b, e) = u * Pow10[-a.e]
        BY <2>3, <4>1, PowersAre DEF Part
      <4> QED
        BY <1>2, <2>1, <3>1, <4>2
    <3>2. CASE ~(a.e < 0)
      <4>1. e = 0 /\ a.e - e = a.e /\ 0 - e = 0
        BY <1>2, <2>5, <3>2
      <4>2. Part(a, e) = a.c * Pow10[a.e] /\ Part(b, e) = u * 1
        BY <2>3, <4>1, PowersAre DEF Part
      <4> QED
        BY <2>1, <3>2, <4>2
    <3> QED
      BY <3>1, <3>2
  <2>7. u = 0 => Part(b, e) = 0
    BY <2>3, <2>5, SignedIs
  <2> DEFINE p == Part(a, e)
             sum == (IF a.s = 1 THEN -p ELSE p) + (IF b.s = 1 THEN -p ELSE p)
  <2>8. SumOf(a, b).n = Magnitude(sum)
    BY <2>5, <2>6 DEF SumAt, Exactly
  <2>9. p \in Nat /\ (u = 0 => p = 0) /\ (u # 0 => b.s = IF a.s = 1 THEN 0 ELSE 1)
    BY <2>3, <2>4, <2>6, <2>7
  <2> HIDE DEF p
  <2>10. sum = 0
    BY <1>2, <2>9
  <2> HIDE DEF sum
  <2>11. SumOf(a, b).n = 0
    BY <2>8, <2>10 DEF Magnitude
  <2> QED
    BY <1>4, <2>2, <2>11 DEF n
<1>5. CASE n = NotAnInteger
  <2>1. t.n > SsizeMax \/ ~t.exact
    <3>1. CASE u = NotAnInteger
      BY <1>1, <1>2, <3>1
    <3>2. CASE u # NotAnInteger
      <4>1. u \in Nat /\ u <= UintMax /\ u = t.n
        BY <1>1, <3>2
      <4>2. ~(u <= SsizeMax)
        <5> SUFFICES ASSUME u <= SsizeMax PROVE FALSE
          OBVIOUS
        <5>1. n = ArithSign(a) * u
          BY <1>3, <3>2
        <5>2. n = u \/ n = -u
          <6>1. (-1) * u = -u /\ 1 * u = u
            BY <4>1
          <6> QED
            BY <5>1, <6>1 DEF ArithSign
        <5> QED
          BY <1>2, <1>5, <4>1, <5>2
      <4> QED
        BY <1>2, <4>1, <4>2
    <3> QED
      BY <3>1, <3>2
  <2> QED
    BY <1>5, <2>1 DEF n, t
<1> QED
  BY <1>4, <1>5

\* An exponent that is cut down to ExpInf or up to ExpClamp leads to the same
\* overflow or underflow as the one it stands for.
LEMMA FarOff ==
  ASSUME NEW limits, ContextOK(limits), WithinLimits(limits),
         NEW s \in {0, 1}, NEW c \in Nat \ {0}, Digits(c) <= MaxPrec,
         NEW e \in Int, NEW f \in Int,
         \/ e >= ExpInf /\ f >= ExpInf
         \/ e <= ExpClamp /\ f <= ExpClamp
  PROVE  Finalize(Fin(s, c, e), limits) = Finalize(Fin(s, c, f), limits)
<1>1. /\ limits.prec \in Nat \ {0} /\ limits.emax \in Nat /\ limits.emin \in Int
      /\ limits.prec <= MaxPrec /\ limits.emax <= MaxEmax /\ MinEmin <= limits.emin
      /\ MaxPrec \in Nat /\ MaxEmax \in Nat /\ MinEmin \in Int /\ -MaxEmax <= MinEmin
      /\ MaxPrec <= MaxEmax + 1
  BY LimitsAssumption DEF ContextOK, WithinLimits
<1>2. Etiny(limits) = limits.emin - limits.prec + 1 /\ Etop(limits) = limits.emax - limits.prec + 1
  BY Limits
<1>3. Digits(c) \in Nat \ {0} /\ c > 0
  BY DigitsAre
<1>4. ASSUME NEW i \in Int
      PROVE  LET d == Fin(s, c, i)
             IN /\ d.s = s /\ d.c = c /\ d.e = i /\ d.c # 0
                /\ AdjExp(d) = i + Digits(c) - 1
                /\ Finalize(d, limits) = RoundAfter(CheckExp(d, limits), limits)
  <2> DEFINE d == Fin(s, c, i)
  <2>1. d.s = s /\ d.c = c /\ d.e = i /\ AdjExp(d) = i + Digits(c) - 1
        /\ ~IsNaN(d) /\ ~IsInf(d)
    BY FinFields
  <2> HIDE DEF d
  <2>2. Finalize(d, limits) = RoundAfter(CheckExp(d, limits), limits)
    BY <2>1 DEF Finalize
  <2> QED
    BY <1>3, <2>1, <2>2 DEF d
<1>5. ASSUME NEW i \in Int, i >= ExpInf
      PROVE  CheckExp(Fin(s, c, i), limits)
               = Result(OverflowTo(s, limits), {"Overflow", "Inexact", "Rounded"})
  <2> DEFINE d == Fin(s, c, i)
  <2>1. d.s = s /\ d.c # 0 /\ AdjExp(d) = i + Digits(c) - 1
    BY <1>4
  <2> HIDE DEF d
  <2>2. AdjExp(d) > limits.emax
    BY <1>1, <1>3, <1>5, <2>1 DEF ExpInf
  <2> QED
    BY <2>1, <2>2 DEF CheckExp, d
<1>6. ASSUME NEW i \in Int, i <= ExpClamp
      PROVE  CheckExp(Fin(s, c, i), limits)
               = CutToEtiny(s, [c |-> 0, rnd |-> 1], limits)
  <2> DEFINE d == Fin(s, c, i)
             n == Etiny(limits) - i
  <2>1. d.s = s /\ d.c = c /\ d.c # 0 /\ d.e = i /\ AdjExp(d) = i + Digits(c) - 1
    BY <1>4
  <2> HIDE DEF d
  <2>2. i <= -4 * MaxEmax - 5
    BY <1>1, <1>6 DEF ExpClamp, ExpInf
  <2>3. /\ ~(AdjExp(d) > limits.emax) /\ AdjExp(d) < limits.emin
        /\ ~(d.e > Etop(limits)) /\ d.e < Etiny(limits)
        /\ n \in Nat /\ n # 0 /\ n > Digits(c)
    BY <1>1, <1>2, <1>3, <2>1, <2>2
  <2>4. CheckExp(d, limits) = RoundSubnormal(d, limits)
    BY <2>1, <2>3 DEF CheckExp
  <2>5. RoundSubnormal(d, limits) = CutToEtiny(s, ShiftR(c, n), limits)
    BY <2>1 DEF RoundSubnormal
  <2>6. ShiftR(c, n) = [c |-> 0, rnd |-> 1]
    BY <1>3, <2>3 DEF ShiftR
  <2> QED
    BY <2>4, <2>5, <2>6 DEF d
<1>7. Finalize(Fin(s, c, e), limits) = RoundAfter(CheckExp(Fin(s, c, e), limits), limits)
      /\ Finalize(Fin(s, c, f), limits) = RoundAfter(CheckExp(Fin(s, c, f), limits), limits)
  BY <1>4
<1>8. CheckExp(Fin(s, c, e), limits) = CheckExp(Fin(s, c, f), limits)
  <2>1. CASE e >= ExpInf /\ f >= ExpInf
    BY <1>5, <2>1
  <2>2. CASE e <= ExpClamp /\ f <= ExpClamp
    BY <1>6, <2>2
  <2> QED
    BY <2>1, <2>2
<1> QED
  BY <1>7, <1>8

LEMMA ScalebIsRounded ==
  ASSUME NEW limits, ContextOK(limits), limits.round \in Roundings, WithinLimits(limits),
         NEW a \in Numbers, NEW b \in Numbers, Digits(a.c) <= MaxPrec,
         "Invalid_operation" \notin QScaleb(a, b, limits).st
  PROVE  LET r == QScaleb(a, b, limits)
         IN /\ IsRounded(r, [Itself(a) EXCEPT !.e = @ + Signed(b, 0)], limits)
            /\ Fits(r.d, limits)
<1> DEFINE n == GetUint(FALSE, b)
           exp == a.e + n * ArithSign(b)
           kept == Min({Max({exp, ExpClamp}), ExpInf})
           r == QScaleb(a, b, limits)
           x == [Itself(a) EXCEPT !.e = @ + Signed(b, 0)]
           d == Fin(a.s, a.c, exp)
           g == Fin(a.s, a.c, kept)
<1>1. /\ a.s \in {0, 1} /\ a.c \in Nat /\ a.e \in Int /\ ~IsInf(a) /\ ~IsNaN(a)
      /\ b.s \in {0, 1} /\ b.c \in Nat /\ b.e \in Int /\ ~IsSpecial(b) /\ ~IsNaN(b)
      /\ ~AnyNaN(<<a, b>>)
  <2>1. a \in Decimals /\ b \in Decimals
    BY DEF Decimals
  <2> QED
    BY <2>1, NaNs, NumberFields
<1>2. r = IF ~IsPlainNumber(b) \/ n = NotAnInteger THEN Invalid
          ELSE IF n > 2 * (limits.emax + limits.prec) THEN Invalid
          ELSE Finalize([a EXCEPT !.e = kept], limits)
  BY <1>1 DEF QScaleb
<1> HIDE DEF r, kept
<1>3. b.e = 0 /\ n # NotAnInteger /\ r = Finalize([a EXCEPT !.e = kept], limits)
  <2>1. "Invalid_operation" \in Invalid.st
    BY DEF Invalid, SetError, Result
  <2>2. IsPlainNumber(b) /\ n # NotAnInteger /\ r = Finalize([a EXCEPT !.e = kept], limits)
    BY <1>2, <2>1 DEF r
  <2> QED
    BY <1>1, <2>2 DEF IsPlainNumber
<1>4. n = b.c
  <2>1. b.e < 0 \/ n = b.c * Pow10[b.e]
    <3>1. n # NotAnInteger =>
            IF b.e < 0 THEN b.c = n * Pow10[-b.e] ELSE n = b.c * Pow10[b.e]
      BY UintOf
    <3> QED
      BY <1>3, <3>1
  <2> HIDE DEF n
  <2>2. n = b.c * Pow10[0]
    BY <1>3, <2>1
  <2>3. b.c * 1 = b.c
    BY <1>1
  <2> QED
    BY <2>2, <2>3, PowersAre
<1> HIDE DEF n
<1>5. exp \in Int /\ Signed(b, 0) = n * ArithSign(b) /\ n * ArithSign(b) \in Int
  <2>1. b.e - 0 = 0
    BY <1>3
  <2>2. Signed(b, 0) = ArithSign(b) * b.c * 1
    BY <2>1, PowersAre DEF Signed
  <2>3. CASE b.s = 1
    <3>1. ArithSign(b) = -1
      BY <2>3 DEF ArithSign
    <3> QED
      BY <1>1, <1>4, <2>2, <3>1
  <2>4. CASE b.s # 1
    <3>1. ArithSign(b) = 1
      BY <2>4 DEF ArithSign
    <3> QED
      BY <1>1, <1>4, <2>2, <3>1
  <2> QED
    BY <2>3, <2>4
<1>6. x = Itself(d)
  BY <1>5 DEF Itself, Exactly, Fin
<1> HIDE DEF exp, x
<1>7. /\ kept \in Int
      /\ \/ kept = exp
         \/ exp >= ExpInf /\ kept >= ExpInf
         \/ exp <= ExpClamp /\ kept <= ExpClamp
  <2>1. MaxEmax \in Nat
    BY LimitsAssumption
  <2>2. ExpInf \in Int /\ ExpClamp \in Int /\ ExpClamp <= ExpInf
    BY <2>1 DEF ExpInf, ExpClamp
  <2> DEFINE m == Max({exp, ExpClamp})
  <2>3. m = IF exp >= ExpClamp THEN exp ELSE ExpClamp
    BY <1>5, <2>2, MaxOfTwo
  <2> HIDE DEF m
  <2>4. m \in Int
    BY <1>5, <2>2, <2>3
  <2>5. kept = IF m <= ExpInf THEN m ELSE ExpInf
    BY <2>2, <2>4, MinOfTwo DEF kept, m
  <2> QED
    BY <1>5, <2>2, <2>3, <2>4, <2>5
<1>8. [a EXCEPT !.e = kept] = g
  BY <1>7 DEF Numbers, Fin
<1>9. d \in Numbers /\ g \in Numbers /\ g \in Decimals /\ d.c = a.c /\ g.c = a.c
      /\ d.s = a.s /\ g.s = a.s
  BY <1>1, <1>5, <1>7, FinFields
<1>10. Fits(r.d, limits)
  BY <1>3, <1>8, <1>9, FinalizeFits, FittingFits
<1>11. IsRounded(r, x, limits)
  <2>1. CASE a.c = 0
    <3>1. x.n = 0
      BY <1>6, <1>9, <2>1, ItselfIs, <1>5
    <3>2. IsZero(r.d)
      <4> HIDE DEF g
      <4> QED
        BY <1>3, <1>8, <1>9, <2>1, ZerosStay
    <3> QED
      BY <3>1, <3>2 DEF IsRounded
  <2>2. CASE a.c # 0
    <3>1. Finalize(g, limits) = Finalize(d, limits)
      <4>1. CASE kept = exp
        BY <4>1
      <4>2. CASE kept # exp
        <5>1. a.c \in Nat \ {0}
          BY <1>1, <2>2
        <5> QED
          BY <1>1, <1>5, <1>7, <4>2, <5>1, FarOff
      <4> QED
        BY <4>1, <4>2
    <3> QED
      BY <1>3, <1>6, <1>8, <1>9, <3>1, FinalizeRounds
  <2> QED
    BY <2>1, <2>2
<1> QED
  BY <1>10, <1>11 DEF r, x

------------------------------------------------------------------------------
(* mpd_qsqrt.                                                               *)

\* The recursion of FloorRoot.
RootsOf(f, c) ==
  f = [x \in Nat \ {0} |->
         IF x <= c \div x THEN x ELSE f[(x + c \div x) \div 2]]

\* Newton's method goes down to a number that is smaller, but not to zero.
LEMMA NewtonDescends ==
  ASSUME NEW c \in Nat \ {0}, NEW x \in Nat \ {0}, ~(x <= c \div x)
  PROVE  (x + c \div x) \div 2 \in Nat \ {0} /\ (x + c \div x) \div 2 < x
<1> DEFINE q == c \div x
<1>1. q \in Nat
  BY QuotientsBound
<1>2. x = 1 => q = c
  OBVIOUS
<1> HIDE DEF q
<1>3. x > q
  BY <1>1 DEF q
<1>4. x >= 2
  BY <1>2, <1>3
<1>5. (x + q) \div 2 \in Nat \ {0} /\ (x + q) \div 2 < x
  BY <1>1, <1>3, <1>4
<1> QED
  BY <1>5 DEF q

LEMMA FloorRootDef ==
  ASSUME NEW c \in Nat \ {0}
  PROVE  \E f : /\ RootsOf(f, c)
                /\ \A start : FloorRoot(c, start) = f[start]
<1> DEFINE y(x) == (x + c \div x) \div 2
           stop == {x \in Nat : x = 0 \/ x <= c \div x}
           next == [x \in Nat |-> IF x \in stop THEN 0 ELSE y(x)]
           step == [x \in Nat |-> [d \in Nat |->
                      IF x \in stop THEN 0 ELSE (x - y(x)) + d]]
<1>1. ASSUME NEW x \in Nat, x \notin stop
      PROVE  y(x) \in Nat \ {0} /\ y(x) < x /\ x - y(x) \in Nat /\ x \in Nat \ {0}
  BY <1>1, NewtonDescends
<1> HIDE DEF y, stop
<1>2. next \in [Nat -> Nat] /\ \A x \in Nat : x \notin stop => next[x] < x
  BY <1>1
<1>3. step \in [Nat -> [Nat -> Nat]]
  BY <1>1
<1> HIDE DEF next, step
<1>4. PICK g \in [Nat -> Nat] : \A p \in Nat : Follows(g, p, 0, stop, next, step)
  BY <1>2, <1>3, DescentExists
<1> DEFINE f == [x \in Nat \ {0} |-> x - g[x]]
<1>5. RootsOf(f, c)
  <2>1. ASSUME NEW x \in Nat \ {0}
        PROVE  f[x] = IF x <= c \div x THEN x ELSE f[y(x)]
    <3>1. CASE x \in stop
      <4>1. g[x] = 0
        BY <1>4, <3>1 DEF Follows
      <4>2. x <= c \div x
        BY <3>1 DEF stop
      <4> QED
        BY <4>1, <4>2
    <3>2. CASE x \notin stop
      <4>1. g[x] = step[x][g[next[x]]]
        BY <1>4, <3>2 DEF Follows
      <4>2. next[x] = y(x)
        BY <3>2 DEF next
      <4>3. y(x) \in Nat \ {0} /\ g[y(x)] \in Nat
        BY <1>1, <3>2
      <4>4. g[x] = (x - y(x)) + g[y(x)]
        BY <3>2, <4>1, <4>2, <4>3 DEF step
      <4>5. ~(x <= c \div x)
        BY <3>2 DEF stop
      <4> QED
        BY <4>3, <4>4, <4>5
    <3> QED
      BY <3>1, <3>2
  <2> QED
    BY <2>1 DEF RootsOf, y
<1> DEFINE h == CHOOSE h : RootsOf(h, c)
<1>6. \A start : FloorRoot(c, start) = h[start]
  BY Zenon DEF FloorRoot, RootsOf
<1>7. RootsOf(h, c)
  BY <1>5, Zenon
<1> QED
  BY <1>6, <1>7, Zenon

\* Between the squares of two numbers that follow each other.
RootOf(r, c) == r \in Nat /\ r * r <= c /\ c < (r + 1) * (r + 1)

\* A step of Newton's method stays above the root.
LEMMA NewtonStaysAbove ==
  ASSUME NEW c \in Nat \ {0}, NEW x \in Nat \ {0}
  PROVE  LET y == (x + c \div x) \div 2 IN c < (y + 1) * (y + 1)
<1> DEFINE q == c \div x
           y == (x + q) \div 2
           t == q + 1
           w == y + 1
<1>1. q \in Nat /\ c < x * t
  <2>1. q \in Nat /\ c = x * q + (c % x) /\ c % x \in 0..(x - 1)
    BY QuotientsBound
  <2> HIDE DEF q
  <2>2. x * (q + 1) = x * q + x
    BY <2>1
  <2> QED
    BY <2>1, <2>2
<1> HIDE DEF q
<1>2. y \in Nat /\ 2 * w >= x + t
  BY <1>1
<1> HIDE DEF y
<1>3. t \in Nat /\ w \in Nat
  BY <1>1, <1>2
<1> HIDE DEF t, w
<1>4. (2 * w) * (2 * w) >= (x + t) * (x + t)
  BY <1>2, <1>3
<1>5. (x + t) * (x + t) = (x - t) * (x - t) + 4 * (x * t)
  BY <1>3
<1>6. (x - t) * (x - t) >= 0
  BY <1>3
<1>7. (2 * w) * (2 * w) = 4 * (w * w) /\ w * w \in Nat /\ x * t \in Nat
      /\ (x - t) * (x - t) \in Int
  BY <1>3
<1> DEFINE ww == w * w
           xt == x * t
           dd == (x - t) * (x - t)
<1>8. 4 * ww >= dd + 4 * xt /\ dd >= 0 /\ c < xt /\ ww \in Nat /\ xt \in Nat /\ dd \in Int
  BY <1>1, <1>4, <1>5, <1>6, <1>7
<1> HIDE DEF ww, xt, dd
<1>9. c < ww
  BY <1>8
<1> QED
  BY <1>9 DEF ww, w, y, q

LEMMA FloorRootIs ==
  ASSUME NEW c \in Nat \ {0}, NEW start \in Nat \ {0}, c < (start + 1) * (start + 1)
  PROVE  RootOf(FloorRoot(c, start), c)
<1>1. PICK f : RootsOf(f, c) /\ \A x : FloorRoot(c, x) = f[x]
  BY FloorRootDef
<1>2. ASSUME NEW x \in Nat \ {0}
      PROVE  f[x] = IF x <= c \div x THEN x ELSE f[(x + c \div x) \div 2]
  BY <1>1 DEF RootsOf
<1> DEFINE Bad == {x \in Nat \ {0} : c < (x + 1) * (x + 1) /\ ~RootOf(f[x], c)}
<1>3. Bad = {}
  <2> SUFFICES ASSUME Bad # {} PROVE FALSE
    OBVIOUS
  <2>1. Bad \in SUBSET Nat
    OBVIOUS
  <2> HIDE DEF Bad
  <2>2. PICK x \in Bad : \A i \in Bad : x <= i
    BY <2>1, HasSmallest
  <2>3. x \in Nat \ {0} /\ c < (x + 1) * (x + 1) /\ ~RootOf(f[x], c)
    BY <2>2 DEF Bad
  <2>4. CASE x <= c \div x
    <3>1. f[x] = x
      BY <1>2, <2>3, <2>4
    <3>2. x * x <= c
      <4> DEFINE q == c \div x
      <4>1. q \in Nat /\ c = x * q + (c % x) /\ c % x \in 0..(x - 1)
        BY <2>3, QuotientsBound
      <4> DEFINE r == c % x
      <4>2. x <= q
        BY <2>4
      <4> HIDE DEF q, r
      <4>3. x * x <= x * q
        BY <2>3, <4>1, <4>2
      <4>4. c = x * q + r /\ r \in Nat
        BY <2>3, <4>1 DEF r
      <4> QED
        BY <2>3, <4>1, <4>3, <4>4
    <3> QED
      BY <2>3, <3>1, <3>2 DEF RootOf
  <2>5. CASE ~(x <= c \div x)
    <3> DEFINE y == (x + c \div x) \div 2
    <3>1. y \in Nat \ {0} /\ y < x
      BY <2>3, <2>5, NewtonDescends
    <3>2. c < (y + 1) * (y + 1)
      BY <2>3, NewtonStaysAbove
    <3>3. f[x] = f[y]
      BY <1>2, <2>3, <2>5
    <3> HIDE DEF y
    <3>4. y \in Bad
      BY <2>3, <3>1, <3>2, <3>3 DEF Bad
    <3>5. x <= y
      BY <2>2, <3>4
    <3> QED
      BY <2>3, <3>1, <3>5
  <2> QED
    BY <2>4, <2>5
<1>4. RootOf(f[start], c)
  BY <1>3
<1> QED
  BY <1>1, <1>4

\* Squares are in the order of what they are the squares of.
LEMMA SquaresCompare ==
  ASSUME NEW x \in Nat, NEW y \in Nat
  PROVE  /\ x * x \in Nat /\ x * x <= y * y <=> x <= y
         /\ x * x = y * y <=> x = y
<1>1. ASSUME NEW i \in Nat, NEW j \in Nat, i <= j
      PROVE  i * i <= j * j
  BY <1>1
<1>2. ASSUME NEW i \in Nat, NEW j \in Nat, i < j
      PROVE  i * i < j * j
  <2>1. i + 1 <= j
    BY <1>2
  <2>2. (i + 1) * (i + 1) <= j * j
    BY <1>1, <2>1
  <2>3. (i + 1) * (i + 1) = i * i + 2 * i + 1 /\ i * i \in Nat /\ j * j \in Nat
    OBVIOUS
  <2> QED
    BY <2>2, <2>3
<1>3. x * x \in Nat /\ y * y \in Nat
  OBVIOUS
<1>4. x < y \/ x = y \/ y < x
  OBVIOUS
<1>5. CASE x < y
  <2>1. x * x < y * y
    BY <1>2, <1>5
  <2> QED
    BY <1>3, <1>5, <2>1
<1>6. CASE x = y
  BY <1>3, <1>6
<1>7. CASE y < x
  <2>1. y * y < x * x
    BY <1>2, <1>7
  <2> QED
    BY <1>3, <1>7, <2>1
<1> QED
  BY <1>4, <1>5, <1>6, <1>7

LEMMA PowerSquared ==
  ASSUME NEW k \in Nat
  PROVE  Pow10[2 * k] = Pow10[k] * Pow10[k] /\ 2 * k \in Nat
<1>1. k + k = 2 * k /\ 2 * k \in Nat
  OBVIOUS
<1>2. Pow10[k + k] = Pow10[k] * Pow10[k]
  BY PowersAdd
<1> QED
  BY <1>1, <1>2

\* A square that ends in a zero is the square of a number that does.
LEMMA TenDividesRoot ==
  ASSUME NEW r \in Nat, NEW w \in Nat, r * r = 10 * w
  PROVE  \E p \in Nat : r = 10 * p
<1> DEFINE p == r \div 10
           t == r % 10
           m == 10 * (p * p) + 2 * (p * t)
           tt == t * t
<1>1. p \in Nat /\ t \in 0..9 /\ r = 10 * p + t
  OBVIOUS
<1> HIDE DEF p, t
<1>2. p * p \in Nat /\ p * t \in Nat /\ tt \in Nat
  BY <1>1
<1>3. r * r = 10 * m + tt
  <2>1. r * r = (10 * p + t) * (10 * p + t)
    BY <1>1
  <2>2. (10 * p + t) * (10 * p + t) = 100 * (p * p) + 20 * (p * t) + t * t
    BY <1>1
  <2> QED
    BY <1>2, <2>1, <2>2
<1>4. m \in Nat
  BY <1>2
<1> HIDE DEF m
<1>5. tt = 10 * (w - m) /\ w - m \in Int
  BY <1>2, <1>3, <1>4
<1> DEFINE k == w - m
<1> HIDE DEF k
<1>6. tt = 10 * k /\ k \in Int
  BY <1>5 DEF k
<1>7. tt \in {0, 1, 4, 9, 16, 25, 36, 49, 64, 81} /\ (t # 0 => tt # 0)
  <2>1. t \in {0, 1, 2, 3, 4, 5, 6, 7, 8, 9}
    BY <1>1
  <2> QED
    BY <2>1
<1> HIDE DEF tt
<1>8. t = 0
  BY <1>6, <1>7
<1>9. r = 10 * p
  BY <1>1, <1>8
<1> QED
  BY <1>1, <1>9

\* The root of a square with 2k zeros ends in k zeros.
LEMMA ZerosOfRoot ==
  ASSUME NEW k \in Nat, NEW r \in Nat, NEW w \in Nat, r * r = w * Pow10[2 * k]
  PROVE  \E p \in Nat : r = p * Pow10[k]
<1> DEFINE Good == {n \in Nat : \A i, j \in Nat :
                      i * i = j * Pow10[2 * n] => \E p \in Nat : i = p * Pow10[n]}
<1>1. 0 \in Good
  <2>1. \A i \in Nat : i = i * Pow10[0]
    BY PowersAre
  <2> QED
    BY <2>1
<1>2. ASSUME NEW n \in Nat, n \in Good
      PROVE  n + 1 \in Good
  <2> SUFFICES ASSUME NEW i \in Nat, NEW j \in Nat, i * i = j * Pow10[2 * (n + 1)]
               PROVE  \E p \in Nat : i = p * Pow10[n + 1]
    OBVIOUS
  <2> DEFINE f == Pow10[n]
             g == Pow10[2 * n]
  <2>1. f \in Nat /\ g \in Nat /\ Pow10[n + 1] = 10 * f /\ g = f * f
    BY Powers, PowersAre, PowerSquared
  <2>2. Pow10[2 * (n + 1)] = 100 * g
    <3>1. Pow10[2 * (n + 1)] = (10 * f) * (10 * f)
      <4>1. n + 1 \in Nat
        OBVIOUS
      <4> QED
        BY <2>1, <4>1, PowerSquared
    <3>2. (10 * f) * (10 * f) = 100 * (f * f)
      BY <2>1
    <3> QED
      BY <2>1, <3>1, <3>2
  <2> HIDE DEF f, g
  <2> DEFINE m == j * g
  <2>3. m \in Nat /\ i * i = 10 * (10 * m) /\ 10 * m \in Nat
    <3>1. j * (100 * g) = 100 * (j * g) /\ m \in Nat
      BY <2>1
    <3> QED
      BY <2>2, <3>1
  <2> HIDE DEF m
  <2>4. PICK h \in Nat : i = 10 * h
    BY <2>3, TenDividesRoot
  <2>5. h * h = m
    <3>1. i * i = 100 * (h * h) /\ h * h \in Nat
      BY <2>4
    <3> DEFINE hh == h * h
    <3>2. 100 * hh = 100 * m /\ hh \in Nat
      BY <2>3, <3>1
    <3> HIDE DEF hh
    <3>3. hh = m
      BY <2>3, <3>2
    <3> QED
      BY <3>3 DEF hh
  <2>6. PICK p \in Nat : h = p * f
    BY <1>2, <2>5 DEF m, f, g
  <2>7. i = p * (10 * f)
    BY <2>1, <2>4, <2>6
  <2> QED
    BY <2>1, <2>7
<1> HIDE DEF Good
<1>3. k \in Good
  BY <1>1, <1>2, NatIsInductive
<1> QED
  BY <1>3 DEF Good

\* The terms of SqrtNumber.
RootOdd(a) == a.e % 2
RootExp(a) == (a.e - RootOdd(a)) \div 2
RootShift(a, limits) ==
  limits.prec + 1 - IF RootOdd(a) = 1 THEN Digits(a.c) \div 2 + 1
                    ELSE (Digits(a.c) + 1) \div 2
RootWhole(a) == IF RootOdd(a) = 1 THEN a.c * 10 ELSE a.c
RootOperand(a, limits) ==
  IF RootShift(a, limits) >= 0 THEN ShiftL(RootWhole(a), 2 * RootShift(a, limits))
  ELSE ShiftR(RootWhole(a), -2 * RootShift(a, limits)).c
RootFound(a, limits) == FloorRoot(RootOperand(a, limits), Pow10[limits.prec + 1])
RootExact(a, limits) ==
  /\ RootFound(a, limits) * RootFound(a, limits) = RootOperand(a, limits)
  /\ \/ RootShift(a, limits) >= 0
     \/ ShiftR(RootWhole(a), -2 * RootShift(a, limits)).rnd = 0
RootPlace(a, limits) == RootExp(a) - RootShift(a, limits)

LEMMA RootTerms ==
  ASSUME NEW limits, ContextOK(limits), NEW a \in Numbers, a.c # 0
  PROVE  LET w == RootWhole(a)
             s == RootShift(a, limits)
         IN /\ RootOdd(a) \in {0, 1} /\ RootExp(a) \in Int
            /\ a.e = 2 * RootExp(a) + RootOdd(a)
            /\ s \in Int /\ RootPlace(a, limits) \in Int
            /\ w \in Nat /\ w > 0
            /\ \A u \in Int : u < a.e =>
                 /\ 2 * RootExp(a) - u \in Nat
                 /\ Part(a, u) = w * Pow10[2 * RootExp(a) - u]
            /\ Digits(w) + 2 * s \in {2 * limits.prec + 1, 2 * limits.prec + 2}
            /\ Digits(w) \in Nat
<1> DEFINE w == RootWhole(a)
           s == RootShift(a, limits)
           o == RootOdd(a)
           i == RootExp(a)
<1>1. a.e \in Int /\ a.c \in Nat /\ a.c > 0 /\ Digits(a.c) \in Nat \ {0}
      /\ limits.prec \in Nat \ {0}
  BY NumberFields DEF ContextOK
<1>2. o \in {0, 1} /\ i \in Int /\ a.e = 2 * i + o
  <2> DEFINE e == a.e
             h == e \div 2
  <2>1. e \in Int /\ o = e % 2 /\ i = (e - o) \div 2
    BY <1>1 DEF RootOdd, RootExp
  <2> HIDE DEF e, o, i
  <2>2. o \in {0, 1} /\ h \in Int /\ e = 2 * h + o
    BY <2>1
  <2>3. e - o = 2 * h
    BY <2>1, <2>2
  <2> HIDE DEF h
  <2>4. (2 * h) \div 2 = h
    BY <2>2
  <2>5. i = h
    BY <2>1, <2>3, <2>4
  <2> QED
    BY <2>2, <2>5 DEF e
<1>3. w = a.c * Pow10[o]
  BY <1>1, <1>2, PowersAre DEF RootWhole
<1>4. w \in Nat \ {0} /\ Digits(w) = Digits(a.c) + o
  BY <1>1, <1>2, <1>3, DigitsShiftLeft
<1>5. s \in Int /\ Digits(w) + 2 * s \in {2 * limits.prec + 1, 2 * limits.prec + 2}
  <2>1. CASE o = 1
    <3>1. s = limits.prec + 1 - (Digits(a.c) \div 2 + 1)
      BY <2>1 DEF RootShift
    <3> HIDE DEF s, o
    <3> QED
      BY <1>1, <1>4, <2>1, <3>1
  <2>2. CASE o = 0
    <3>1. s = limits.prec + 1 - ((Digits(a.c) + 1) \div 2)
      BY <2>2 DEF RootShift
    <3> HIDE DEF s, o
    <3> QED
      BY <1>1, <1>4, <2>2, <3>1
  <2> QED
    BY <1>2, <2>1, <2>2
<1>6. RootPlace(a, limits) \in Int
  BY <1>2, <1>5 DEF RootPlace
<1> HIDE DEF o, i, w, s
<1>7. ASSUME NEW u \in Int, u < a.e
      PROVE  2 * i - u \in Nat /\ Part(a, u) = w * Pow10[2 * i - u]
  <2>1. 2 * i - u \in Nat /\ a.e - u = o + (2 * i - u)
    BY <1>1, <1>2, <1>7
  <2> DEFINE f == Pow10[2 * i - u]
             g == Pow10[o]
  <2>2. f \in Nat /\ g \in Nat /\ Pow10[a.e - u] = g * f
    <3>1. o \in Nat
      BY <1>2
    <3>2. Pow10[o + (2 * i - u)] = g * f
      BY <2>1, <3>1, PowersAdd
    <3> QED
      BY <2>1, <3>1, <3>2, PowersAre
  <2>3. Part(a, u) = a.c * (g * f) /\ w = a.c * g
    BY <1>3, <2>2 DEF Part
  <2> HIDE DEF f, g
  <2>4. a.c * (g * f) = (a.c * g) * f
    BY <1>1, <2>2
  <2> QED
    BY <2>1, <2>3, <2>4 DEF f
<1>8. Digits(w) \in Nat /\ w > 0
  BY <1>1, <1>2, <1>4
<1> QED
  BY <1>2, <1>4, <1>5, <1>6, <1>7, <1>8 DEF o, i, w, s

\* The operand of the root is the number, with enough digits before the cut,
\* and what is cut off is less than one of its units.
LEMMA OperandIs ==
  ASSUME NEW limits, ContextOK(limits), NEW a \in Numbers, a.c # 0
  PROVE  LET c == RootOperand(a, limits)
             s == RootShift(a, limits)
             kept == s >= 0 \/ ShiftR(RootWhole(a), -2 * s).rnd = 0
         IN /\ c \in Nat \ {0}
            /\ Digits(c) \in {2 * limits.prec + 1, 2 * limits.prec + 2}
            /\ s >= 0 => c = RootWhole(a) * Pow10[2 * s]
            /\ \A u \in Int : u < a.e /\ u <= 2 * RootPlace(a, limits) =>
                 LET unit == Pow10[2 * RootPlace(a, limits) - u]
                 IN \E e \in Nat : /\ Part(a, u) = c * unit + e /\ e < unit
                                   /\ kept <=> e = 0
<1> DEFINE w == RootWhole(a)
           s == RootShift(a, limits)
           i == RootExp(a)
           q == RootPlace(a, limits)
           c == RootOperand(a, limits)
           kept == s >= 0 \/ ShiftR(w, -2 * s).rnd = 0
           Goal == \A u \in Int : u < a.e /\ u <= 2 * q =>
                     \E e \in Nat : /\ Part(a, u) = c * Pow10[2 * q - u] + e
                                    /\ e < Pow10[2 * q - u]
                                    /\ (kept <=> e = 0)
<1>1. /\ w \in Nat /\ w > 0 /\ s \in Int /\ i \in Int /\ q = i - s
      /\ Digits(w) + 2 * s \in {2 * limits.prec + 1, 2 * limits.prec + 2}
      /\ Digits(w) \in Nat /\ limits.prec \in Nat \ {0}
  BY RootTerms DEF ContextOK, RootPlace
<1>2. ASSUME NEW u \in Int, u < a.e
      PROVE  2 * i - u \in Nat /\ Part(a, u) = w * Pow10[2 * i - u]
  BY <1>2, RootTerms
<1>3. c = IF s >= 0 THEN ShiftL(w, 2 * s) ELSE ShiftR(w, -2 * s).c
  BY DEF RootOperand
<1> HIDE DEF w, s, i, q, c
<1>4. CASE s >= 0
  <2> DEFINE k == 2 * s
  <2>1. k \in Nat
    BY <1>1, <1>4
  <2>2. c = w * Pow10[k]
    BY <1>1, <1>3, <1>4, <2>1, ShiftLIs
  <2>3. c \in Nat \ {0} /\ Digits(c) = Digits(w) + k
    BY <1>1, <2>1, <2>2, DigitsShiftLeft
  <2>4. Goal
    <3> SUFFICES ASSUME NEW u \in Int, u < a.e, u <= 2 * q
                 PROVE  \E e \in Nat : /\ Part(a, u) = c * Pow10[2 * q - u] + e
                                       /\ e < Pow10[2 * q - u]
                                       /\ (kept <=> e = 0)
      OBVIOUS
    <3>1. 2 * q - u \in Nat /\ 2 * i - u = k + (2 * q - u)
      BY <1>1, <1>2
    <3> DEFINE f == Pow10[k]
               g == Pow10[2 * q - u]
    <3>2. f \in Nat /\ g \in Nat \ {0} /\ Pow10[2 * i - u] = f * g
      BY <2>1, <3>1, PowersAre, PowersAdd
    <3>3. Part(a, u) = w * (f * g) /\ c = w * f
      BY <1>2, <2>2, <3>2
    <3> HIDE DEF f, g, k
    <3>4. w * (f * g) = (w * f) * g
      BY <1>1, <3>2
    <3>5. Part(a, u) = c * g /\ c * g \in Nat
      BY <2>3, <3>2, <3>3, <3>4
    <3>6. Part(a, u) = c * g + 0 /\ 0 < g /\ 0 \in Nat
      BY <3>2, <3>5
    <3>7. kept
      BY <1>4
    <3> QED
      BY <3>6, <3>7 DEF g
  <2>5. 2 * limits.prec + 1 \in Nat
    BY <1>1
  <2> QED
    BY <1>1, <2>2, <2>3, <2>4 DEF c, w, s, i, q
<1>5. CASE ~(s >= 0)
  <2> DEFINE k == -2 * s
             p == Pow10[k]
             rest == w % p
  <2>1. k \in Nat \ {0} /\ k < Digits(w)
    BY <1>1, <1>5
  <2>2. p \in Nat \ {0}
    BY <2>1, PowersAre
  <2>3. c = w \div p /\ c \in Nat
    BY <1>1, <1>3, <1>5, <2>1, ShiftRIs
  <2>4. c > 0 /\ Digits(c) = Digits(w) - k
    BY <1>1, <2>1, <2>3, DigitsShiftRight
  <2>5. w = p * c + rest /\ rest \in 0..(p - 1)
    BY <1>1, <2>2, <2>3, QuotientsBound
  <2>6. kept <=> rest = 0
    <3>1. ShiftR(w, k).rnd = 0 <=> w % Pow10[k] = 0
      BY <1>1, <2>1, IndicatorIs
    <3> QED
      BY <1>5, <3>1
  <2>7. c \in Nat \ {0} /\ Digits(c) \in {2 * limits.prec + 1, 2 * limits.prec + 2}
    BY <1>1, <2>1, <2>3, <2>4
  <2>8. Goal
    <3> SUFFICES ASSUME NEW u \in Int, u < a.e, u <= 2 * q
                 PROVE  \E e \in Nat : /\ Part(a, u) = c * Pow10[2 * q - u] + e
                                       /\ e < Pow10[2 * q - u]
                                       /\ (kept <=> e = 0)
      OBVIOUS
    <3>1. 2 * i - u \in Nat /\ 2 * q - u = k + (2 * i - u)
      BY <1>1, <1>2
    <3> DEFINE g == Pow10[2 * i - u]
               h == Pow10[2 * q - u]
    <3>2. g \in Nat \ {0} /\ h = p * g
      BY <2>1, <3>1, PowersAre, PowersAdd
    <3>3. Part(a, u) = w * g
      BY <1>2
    <3> HIDE DEF k, p, rest, g, h
    <3>4. rest \in Nat /\ rest < p
      BY <2>2, <2>5
    <3>5. w * g = c * (p * g) + rest * g
      <4>1. (p * c + rest) * g = c * (p * g) + rest * g
        BY <2>2, <2>3, <3>2, <3>4
      <4> QED
        BY <2>5, <4>1
    <3>6. rest * g \in Nat /\ rest * g < p * g /\ (rest = 0 <=> rest * g = 0)
      <4>1. rest * g \in Nat /\ p * g = rest * g + (p - rest) * g
        BY <2>2, <3>2, <3>4
      <4>2. p - rest \in Nat /\ p - rest >= 1
        BY <2>2, <3>4
      <4>3. (p - rest) * g > 0
        BY <3>2, <4>2
      <4>4. rest # 0 => rest * g # 0
        BY <3>2, <3>4
      <4>5. rest = 0 => rest * g = 0
        BY <3>2
      <4>6. (p - rest) * g \in Int
        BY <3>2, <4>2
      <4> QED
        BY <4>1, <4>3, <4>4, <4>5, <4>6
    <3> DEFINE e == rest * g
    <3>7. e \in Nat /\ Part(a, u) = c * h + e /\ e < h /\ (rest = 0 <=> e = 0)
      BY <3>2, <3>3, <3>5, <3>6
    <3> HIDE DEF e
    <3> QED
      BY <2>6, <3>7 DEF h
  <2> QED
    BY <1>5, <2>7, <2>8 DEF c, w, s, i, q
<1> QED
  BY <1>4, <1>5

LEMMA RootIs ==
  ASSUME NEW limits, ContextOK(limits), NEW a \in Numbers, a.c # 0
  PROVE  LET r == RootFound(a, limits)
             q == RootPlace(a, limits)
         IN /\ r \in Nat /\ Pow10[limits.prec] <= r /\ r < Pow10[limits.prec + 1]
            /\ r * r <= RootOperand(a, limits)
            /\ \A u \in Int : u < a.e /\ u <= 2 * q =>
                 LET unit == Pow10[2 * q - u]
                 IN /\ (r * r) * unit <= Part(a, u)
                    /\ Part(a, u) < ((r + 1) * (r + 1)) * unit
                    /\ RootExact(a, limits) <=> Part(a, u) = (r * r) * unit
<1> DEFINE c == RootOperand(a, limits)
           r == RootFound(a, limits)
           q == RootPlace(a, limits)
           s == RootShift(a, limits)
           kept == s >= 0 \/ ShiftR(RootWhole(a), -2 * s).rnd = 0
           p == Pow10[limits.prec]
           t == Pow10[limits.prec + 1]
<1>1. /\ c \in Nat \ {0}
      /\ Digits(c) \in {2 * limits.prec + 1, 2 * limits.prec + 2}
      /\ \A u \in Int : u < a.e /\ u <= 2 * q =>
           \E e \in Nat : /\ Part(a, u) = c * Pow10[2 * q - u] + e
                          /\ e < Pow10[2 * q - u]
                          /\ kept <=> e = 0
  BY OperandIs
<1>2. RootExact(a, limits) <=> r * r = c /\ kept
  BY DEF RootExact
<1>3. r = FloorRoot(c, t)
  BY DEF RootFound
<1> HIDE DEF c, r, q, kept
<1>4. limits.prec \in Nat /\ limits.prec + 1 \in Nat /\ p \in Nat \ {0} /\ t \in Nat \ {0}
  BY PowersAre DEF ContextOK
<1>5. p * p <= c /\ c < t * t
  <2>1. /\ Pow10[2 * limits.prec] = p * p /\ 2 * limits.prec \in Nat
        /\ Pow10[2 * (limits.prec + 1)] = t * t /\ 2 * (limits.prec + 1) \in Nat
    BY <1>4, PowerSquared
  <2>2. Digits(c) <= 2 * (limits.prec + 1) /\ ~(Digits(c) <= 2 * limits.prec)
    BY <1>1, <1>4
  <2>3. c < Pow10[2 * (limits.prec + 1)]
    BY <1>1, <2>1, <2>2, DigitsBound
  <2>4. ~(c < Pow10[2 * limits.prec])
    <3>1. 2 * limits.prec >= 1
      BY <1>4 DEF ContextOK
    <3> QED
      BY <1>1, <2>1, <2>2, <3>1, DigitsBound
  <2>5. p * p \in Nat
    BY <1>4
  <2> HIDE DEF p, t
  <2> QED
    BY <1>1, <2>1, <2>3, <2>4, <2>5
<1> HIDE DEF p, t
<1>6. c < (t + 1) * (t + 1)
  <2>1. (t + 1) * (t + 1) = t * t + 2 * t + 1 /\ t * t \in Nat
    BY <1>4
  <2> QED
    BY <1>1, <1>4, <1>5, <2>1
<1>7. r \in Nat /\ r * r <= c /\ c < (r + 1) * (r + 1)
  BY <1>1, <1>3, <1>4, <1>6, FloorRootIs DEF RootOf
<1>8. p <= r /\ r < t
  <2>1. r + 1 \in Nat /\ (r + 1) * (r + 1) \in Nat /\ r * r \in Nat
        /\ p * p \in Nat /\ t * t \in Nat
    BY <1>4, <1>7
  <2>2. ~((r + 1) * (r + 1) <= p * p)
    BY <1>1, <1>5, <1>7, <2>1
  <2>3. ~(r + 1 <= p)
    BY <1>4, <2>1, <2>2, SquaresCompare
  <2>4. ~(t * t <= r * r)
    BY <1>1, <1>5, <1>7, <2>1
  <2>5. ~(t <= r)
    BY <1>4, <1>7, <2>4, SquaresCompare
  <2> QED
    BY <1>4, <1>7, <2>3, <2>5
<1>9. ASSUME NEW u \in Int, u < a.e, u <= 2 * q
      PROVE  LET unit == Pow10[2 * q - u]
             IN /\ (r * r) * unit <= Part(a, u)
                /\ Part(a, u) < ((r + 1) * (r + 1)) * unit
                /\ RootExact(a, limits) <=> Part(a, u) = (r * r) * unit
  <2> DEFINE unit == Pow10[2 * q - u]
             low == r * r
             high == (r + 1) * (r + 1)
             x == Part(a, u)
  <2>1. PICK e \in Nat : x = c * unit + e /\ e < unit /\ (kept <=> e = 0)
    BY <1>1, <1>9
  <2>2. unit \in Nat \ {0}
    <3>1. 2 * q - u \in Nat
      <4>1. q \in Int
        BY RootTerms DEF q
      <4> QED
        BY <1>9, <4>1
    <3> QED
      BY <3>1, PowersAre
  <2>3. low \in Nat /\ high \in Nat /\ low <= c /\ c + 1 <= high
    BY <1>1, <1>7
  <2>4. RootExact(a, limits) <=> low = c /\ e = 0
    BY <1>2, <2>1
  <2> HIDE DEF unit, low, high, x
  <2>5. low * unit <= c * unit /\ (low * unit = c * unit <=> low = c)
        /\ low * unit \in Nat /\ c * unit \in Nat
    <3>1. /\ unit * low <= unit * c <=> low <= c
          /\ unit * low = unit * c <=> low = c
      BY <1>1, <2>2, <2>3, TimesCompare
    <3>2. unit * low = low * unit /\ unit * c = c * unit
      BY <1>1, <2>2, <2>3
    <3>3. low * unit \in Nat /\ c * unit \in Nat
      BY <1>1, <2>2, <2>3
    <3> QED
      BY <2>3, <3>1, <3>2, <3>3
  <2>6. c * unit + unit <= high * unit /\ high * unit \in Nat
    <3>1. unit * (c + 1) <= unit * high <=> c + 1 <= high
      BY <1>1, <2>2, <2>3, TimesCompare
    <3>2. unit * high = high * unit /\ unit * (c + 1) = c * unit + unit
          /\ high * unit \in Nat
      BY <1>1, <2>2, <2>3
    <3> QED
      BY <2>3, <3>1, <3>2
  <2> DEFINE lu == low * unit
             cu == c * unit
             hu == high * unit
  <2>7. /\ lu \in Nat /\ cu \in Nat /\ hu \in Nat /\ lu <= cu /\ (lu = cu <=> low = c)
        /\ cu + unit <= hu /\ x = cu + e
    BY <2>1, <2>5, <2>6
  <2> HIDE DEF lu, cu, hu
  <2>8. lu <= x /\ x < hu
    BY <2>1, <2>2, <2>7
  <2>9. x = lu <=> lu = cu /\ e = 0
    BY <2>1, <2>2, <2>7
  <2>10. RootExact(a, limits) <=> x = lu
    BY <2>4, <2>7, <2>9
  <2> QED
    BY <2>8, <2>10 DEF lu, hu, low, high, x, unit
<1>10. r \in Nat /\ p <= r /\ r < t /\ r * r <= c
  BY <1>7, <1>8
<1> QED
  BY <1>9, <1>10 DEF r, q, c, p, t

\* What is rounded: the root itself, or a number that shows that more
\* follows.
RootShown(a, limits) ==
  LET r == RootFound(a, limits)
  IN IF ~RootExact(a, limits) /\ r % 10 \in {0, 5} THEN r + 1 ELSE r

LEMMA SqrtNumberIs ==
  ASSUME NEW limits, ContextOK(limits), NEW a \in Numbers, a.c # 0,
         NEW half, ContextOK(half), NEW back
  PROVE  LET y == SqrtNumber(a, limits)
             d == Fin(0, RootShown(a, limits), RootPlace(a, limits))
         IN /\ y \in Numbers /\ y.c # 0
            /\ IsRounded(back, Itself(y), half) <=> IsRounded(back, Itself(d), half)
<1> DEFINE r == RootFound(a, limits)
           q == RootPlace(a, limits)
           s == RootShift(a, limits)
           i == RootExp(a)
           e == RootExact(a, limits)
           y == SqrtNumber(a, limits)
           d == Fin(0, RootShown(a, limits), q)
           Goal == /\ y \in Numbers /\ y.c # 0
                   /\ IsRounded(back, Itself(y), half) <=> IsRounded(back, Itself(d), half)
<1>1. y = IF e THEN Fin(0, IF s >= 0 THEN r \div Pow10[s] ELSE ShiftL(r, -s), i)
          ELSE Fin(0, IF r % 10 \in {0, 5} THEN r + 1 ELSE r, i - s)
  BY DEF SqrtNumber, RootExact, RootFound, RootOperand, RootShift, RootExp, RootOdd,
         RootWhole
<1>2. RootShown(a, limits) = IF ~e /\ r % 10 \in {0, 5} THEN r + 1 ELSE r
  BY DEF RootShown
<1>3. /\ r \in Nat /\ (r * r = RootOperand(a, limits) \/ ~e)
      /\ q = i - s /\ i \in Int /\ s \in Int
  BY RootIs, RootTerms DEF RootExact, RootPlace
<1>4. r \in Nat \ {0}
  <2>1. r \in Nat /\ Pow10[limits.prec] <= r
    BY RootIs
  <2>2. Pow10[limits.prec] \in Nat \ {0}
    BY PowersAre DEF ContextOK
  <2> QED
    BY <2>1, <2>2
<1>5. s >= 0 => RootOperand(a, limits) = RootWhole(a) * Pow10[2 * s]
  BY OperandIs
<1>6. RootWhole(a) \in Nat
  BY RootTerms
<1> HIDE DEF r, q, s, i, e, y
<1>7. CASE ~e
  <2>1. y = Fin(0, RootShown(a, limits), q)
    BY <1>1, <1>2, <1>3, <1>7
  <2>2. RootShown(a, limits) \in Nat \ {0}
    BY <1>2, <1>4
  <2>3. y \in Numbers /\ y.c # 0
    BY <1>3, <2>1, <2>2, FinFields
  <2> QED
    BY <2>1, <2>3 DEF y, q
<1>8. CASE e /\ s >= 0
  <2>1. PICK p \in Nat : r = p * Pow10[s]
    <3>1. r * r = RootWhole(a) * Pow10[2 * s] /\ s \in Nat
      BY <1>3, <1>5, <1>8
    <3> QED
      BY <1>4, <1>6, <3>1, ZerosOfRoot
  <2>2. s \in Nat /\ Pow10[s] \in Nat \ {0}
    BY <1>3, <1>8, PowersAre
  <2>3. r \div Pow10[s] = p
    <3>1. (p * Pow10[s]) \div Pow10[s] = p * Pow10[s - s] /\ s - s = 0
      BY <2>2, PowersCancel
    <3>2. p * Pow10[0] = p
      BY PowersAre
    <3> QED
      BY <2>1, <3>1, <3>2
  <2>4. p # 0
    <3>1. 0 * Pow10[s] = 0
      BY <2>2
    <3> QED
      BY <1>4, <2>1, <3>1
  <2>5. y = Fin(0, p, i) /\ d = Fin(0, p * Pow10[s], i - s)
    BY <1>1, <1>2, <1>3, <1>8, <2>1, <2>3
  <2>6. p * Pow10[s] = r
    BY <2>1
  <2>7. Itself(y) = Exactly(0, p, 1, i) /\ Itself(d) = Exactly(0, p * Pow10[s], 1, i - s)
    BY <2>5 DEF Itself, Fin
  <2>8. /\ IsRounded(back, Exactly(0, p * Pow10[s], 1, i - s), half)
             <=> IsRounded(back, Exactly(0, p, 1, i), half)
    <3>1. p \in Nat \ {0} /\ 0 \in {0, 1}
      BY <2>4
    <3> QED
      BY <1>3, <2>2, <3>1, ZerosRoundAlike
  <2>9. y \in Numbers /\ y.c # 0
    BY <1>3, <2>4, <2>5, FinFields
  <2> HIDE DEF d
  <2> QED
    BY <2>7, <2>8, <2>9 DEF d, y, q
<1>9. CASE e /\ ~(s >= 0)
  <2> DEFINE k == -s
             p == r * Pow10[k]
  <2>1. k \in Nat /\ i = q - k
    BY <1>3, <1>9
  <2>2. ShiftL(r, k) = p /\ p \in Nat /\ p # 0
    <3>1. r \in Nat /\ r > 0
      BY <1>4
    <3>2. ShiftL(r, k) = r * Pow10[k] /\ ShiftL(r, k) \in Nat /\ ShiftL(r, k) > 0
      BY <2>1, <3>1, ShiftLIs
    <3> QED
      BY <3>2
  <2>3. y = Fin(0, p, q - k) /\ d = Fin(0, r, q)
    BY <1>1, <1>2, <1>9, <2>1, <2>2
  <2>4. Itself(y) = Exactly(0, p, 1, q - k) /\ Itself(d) = Exactly(0, r, 1, q)
    <3> HIDE DEF p, k
    <3> QED
      BY <2>3 DEF Itself, Fin
  <2>5. q \in Int /\ q - k \in Int
    BY <1>3, <2>1
  <2>6. /\ IsRounded(back, Exactly(0, p, 1, q - k), half)
             <=> IsRounded(back, Exactly(0, r, 1, q), half)
    <3>1. 0 \in {0, 1}
      OBVIOUS
    <3> HIDE DEF k
    <3> QED
      BY <1>4, <2>1, <2>5, <3>1, ZerosRoundAlike
  <2>7. y \in Numbers /\ y.c # 0
    <3> HIDE DEF p, k
    <3> QED
      BY <2>2, <2>3, <2>5, FinFields
  <2> HIDE DEF d
  <2> QED
    BY <2>4, <2>6, <2>7 DEF d, y, q
<1> QED
  BY <1>7, <1>8, <1>9

\* r is within half a unit of 10 * n, and exactly half a unit away only where
\* r is the root itself and n is even.
NearestTo(n, r, exact) ==
  /\ 10 * n <= r + 5 /\ r <= 10 * n + 5
  /\ ~exact => r < 10 * n + 5
  /\ exact /\ (r = 10 * n + 5 \/ r + 5 = 10 * n) => n % 2 = 0

\* A number of which the last digit is rounded, half to even.
HalfEven(m) ==
  IF m % 10 # 0 /\ 2 * (m % 10) + ((m \div 10) % 2) > 10
  THEN m \div 10 + 1 ELSE m \div 10

LEMMA HalfEvenIs ==
  ASSUME NEW m \in Nat
  PROVE  LET n == HalfEven(m)
         IN /\ n \in Nat
            /\ 10 * n <= m + 5 /\ m <= 10 * n + 5
            /\ m = 10 * n + 5 \/ m + 5 = 10 * n => n % 2 = 0
<1> DEFINE l == m \div 10
           t == m % 10
           n == HalfEven(m)
<1>1. l \in Nat /\ t \in 0..9 /\ m = 10 * l + t
  OBVIOUS
<1>2. n = IF t # 0 /\ 2 * t + (l % 2) > 10 THEN l + 1 ELSE l
  BY DEF HalfEven
<1> HIDE DEF l, t, n
<1>3. n \in Nat /\ 10 * n <= m + 5 /\ m <= 10 * n + 5
  BY <1>1, <1>2
<1>4. m = 10 * n + 5 \/ m + 5 = 10 * n => n % 2 = 0
  BY <1>1, <1>2
<1> QED
  BY <1>3, <1>4 DEF n

LEMMA RootShownIs ==
  ASSUME NEW limits, ContextOK(limits), NEW a \in Numbers, a.c # 0
  PROVE  LET m == RootShown(a, limits)
             r == RootFound(a, limits)
             e == RootExact(a, limits)
             n == HalfEven(m)
         IN /\ m \in Nat \ {0} /\ Digits(m) = limits.prec + 1
            /\ n \in Nat /\ n <= Pow10[limits.prec]
            /\ Digits(n) \in {limits.prec, limits.prec + 1}
            /\ Digits(n) = limits.prec + 1 => n = Pow10[limits.prec]
            /\ NearestTo(n, r, e)
            /\ m % 10 = 0 <=> (e /\ r = 10 * n)
<1> DEFINE m == RootShown(a, limits)
           r == RootFound(a, limits)
           e == RootExact(a, limits)
           n == HalfEven(m)
           k == limits.prec - 1
           p == Pow10[k]
<1>1. k \in Nat /\ limits.prec = k + 1 /\ limits.prec \in Nat /\ limits.prec >= 1
  BY DEF ContextOK
<1>2. p \in Nat \ {0} /\ Pow10[limits.prec] = 10 * p /\ Pow10[limits.prec + 1] = 100 * p
  <2>1. Pow10[k + 1] = 10 * Pow10[k] /\ Pow10[(k + 1) + 1] = 10 * Pow10[k + 1]
    BY <1>1, Powers
  <2> QED
    BY <1>1, <2>1, PowersAre
<1>3. r \in Nat /\ 10 * p <= r /\ r < 100 * p
  BY <1>2, RootIs
<1>4. m = IF ~e /\ r % 10 \in {0, 5} THEN r + 1 ELSE r
  BY DEF RootShown
<1> HIDE DEF m, r, e, k, p
<1>5. m \in Nat /\ 10 * p <= m /\ m < 100 * p
  BY <1>2, <1>3, <1>4
<1>6. /\ n \in Nat /\ 10 * n <= m + 5 /\ m <= 10 * n + 5
      /\ m = 10 * n + 5 \/ m + 5 = 10 * n => n % 2 = 0
  BY <1>5, HalfEvenIs
<1>7. e => m = r
  BY <1>4
<1>8. ~e => m % 10 # 0 /\ m % 10 # 5 /\ (m = r \/ (m = r + 1 /\ m % 10 \in {1, 6}))
  BY <1>3, <1>4
<1>9. m % 10 = 0 => m = 10 * n
  BY <1>5, <1>6
<1> HIDE DEF n
<1>10. NearestTo(n, r, e)
  <2>1. CASE e
    BY <1>6, <1>7, <2>1 DEF NearestTo
  <2>2. CASE ~e
    <3>1. m % 10 # 5
      BY <1>8, <2>2
    <3>2. m # 10 * n + 5 /\ m + 5 # 10 * n
      BY <1>5, <1>6, <3>1
    <3>3. m = r \/ (m = r + 1 /\ m % 10 \in {1, 6})
      BY <1>8, <2>2
    <3>4. 10 * n <= r + 5 /\ r < 10 * n + 5
      BY <1>3, <1>5, <1>6, <3>2, <3>3
    <3> QED
      BY <1>3, <1>6, <2>2, <3>4 DEF NearestTo
  <2> QED
    BY <2>1, <2>2
<1>11. m % 10 = 0 <=> (e /\ r = 10 * n)
  <2>1. m % 10 = 0 => e /\ r = 10 * n
    BY <1>7, <1>8, <1>9
  <2>2. e /\ r = 10 * n => m % 10 = 0
    BY <1>6, <1>7
  <2> QED
    BY <2>1, <2>2
<1>12. p <= n /\ n <= 10 * p
  BY <1>2, <1>5, <1>6
<1>13. Digits(m) = limits.prec + 1
  <2>1. limits.prec + 1 \in Nat /\ limits.prec + 1 >= 1 /\ (limits.prec + 1) - 1 = limits.prec
    BY <1>1
  <2> QED
    BY <1>2, <1>5, <2>1, DigitsBound
<1>14. n < 10 * p => Digits(n) = limits.prec
  <2>1. limits.prec - 1 = k
    BY DEF k
  <2> QED
    BY <1>1, <1>2, <1>6, <1>12, <2>1, DigitsBound DEF p
<1>15. ~(n < 10 * p) => n = 10 * p /\ Digits(n) = limits.prec + 1
  <2> SUFFICES ASSUME ~(n < 10 * p)
               PROVE  n = 10 * p /\ Digits(n) = limits.prec + 1
    OBVIOUS
  <2>1. n = 10 * p
    BY <1>2, <1>6, <1>12
  <2>2. n < Pow10[limits.prec + 1] /\ Pow10[limits.prec] <= n
    BY <1>2, <2>1
  <2>3. limits.prec + 1 \in Nat /\ limits.prec + 1 >= 1 /\ (limits.prec + 1) - 1 = limits.prec
    BY <1>1
  <2> QED
    BY <1>6, <2>1, <2>2, <2>3, DigitsBound
<1>16. /\ Digits(n) \in {limits.prec, limits.prec + 1}
       /\ Digits(n) = limits.prec + 1 => n = 10 * p
  BY <1>1, <1>14, <1>15
<1>17. m \in Nat \ {0} /\ n \in Nat /\ n <= Pow10[limits.prec]
       /\ (Digits(n) = limits.prec + 1 => n = Pow10[limits.prec])
  BY <1>2, <1>5, <1>6, <1>12, <1>16
<1> QED
  BY <1>10, <1>11, <1>13, <1>16, <1>17 DEF m, r, e, n

\* What mpd_qsqrt returns is the root rounded half to even at the digit before
\* its last one.
LEMMA RootRounds ==
  ASSUME NEW limits, ContextOK(limits), NEW a \in Numbers, a.c # 0,
         NEW half, ContextOK(half), half.round = "ROUND_HALF_EVEN",
         half.prec = limits.prec,
         NEW back, back = Finalize(SqrtNumber(a, limits), half),
         ~IsInf(back.d), "Subnormal" \notin back.st
  PROVE  LET n == HalfEven(RootShown(a, limits))
             q == RootPlace(a, limits) + 1
         IN /\ back.d \in Numbers /\ SameNumber(back.d, n, q)
            /\ Fits(back.d, half) /\ Digits(back.d.c) <= limits.prec
            /\ "Inexact" \in back.st
                 <=> ~(RootExact(a, limits) /\ RootFound(a, limits) = 10 * n)
<1> DEFINE m == RootShown(a, limits)
           n == HalfEven(m)
           p == RootPlace(a, limits)
           q == p + 1
           d == Fin(0, m, p)
           x == Itself(d)
           y == SqrtNumber(a, limits)
           at == RoundAt(x, LastPlace(x, half), half.round)
           same == RootExact(a, limits) /\ RootFound(a, limits) = 10 * n
<1>2. half.round \in Roundings
  BY DEF Roundings
<1>3. IsRounded(back, Itself(y), half)
  <2>1. y \in Numbers
    BY SqrtNumberIs
  <2> HIDE DEF y
  <2>2. back = Finalize(y, half)
    BY DEF y
  <2> QED
    BY <1>2, <2>1, <2>2, FinalizeRounds
<1>4. IsRounded(back, x, half)
  BY <1>3, SqrtNumberIs
<1>5. back.d \in Fitting(half) /\ Fits(back.d, half) /\ ~IsNaN(back.d)
  <2>1. y \in Numbers
    BY SqrtNumberIs
  <2> HIDE DEF y
  <2>2. back = Finalize(y, half) /\ y \in Decimals
    BY <2>1 DEF y, Decimals
  <2> QED
    BY <1>2, <2>1, <2>2, FinalizeFits, FittingFits, FinalizeNoNaN
<1>6. back.d \in Numbers /\ back.d.k = "fin"
  BY <1>5, Kinds DEF Fitting
<1>7. /\ m \in Nat \ {0} /\ Digits(m) = limits.prec + 1 /\ n \in Nat
      /\ m % 10 = 0 <=> same
  BY RootShownIs
<1>8. p \in Int
  BY RootTerms
<1> HIDE DEF m, p, y, n, same
<1>9. d \in Numbers /\ d.c = m /\ d.c # 0 /\ d.e = p /\ d.s = 0
  BY <1>7, <1>8, FinFields
<1> HIDE DEF d
<1>10. /\ x.n # 0 /\ x.s = 0 /\ x \in Exacts /\ Leading(x) = AdjExp(d)
       /\ AdjExp(d) >= half.emin => LastPlace(x, half) = d.e + Digits(d.c) - half.prec
  <2>1. x.n > 0 /\ x.s = d.s /\ x \in Exacts
    BY <1>9, ItselfEnds
  <2> QED
    BY <1>9, <2>1, ItselfEnds
<1>11. ~EndsAtLargest(x.s, half)
  BY <1>10 DEF EndsAtLargest
<1>12. ~(Digits(at.n) + LastPlace(x, half) - 1 > half.emax)
  <2> SUFFICES ASSUME Digits(at.n) + LastPlace(x, half) - 1 > half.emax
               PROVE  FALSE
    OBVIOUS
  <2>1. back.d = Inf(x.s)
    BY <1>4, <1>10, <1>11 DEF IsRounded
  <2> QED
    BY <2>1 DEF Inf, Special, IsInf
<1>13. /\ SameNumber(back.d, at.n, LastPlace(x, half))
       /\ ("Inexact" \in back.st) = ~at.exact
       /\ ("Subnormal" \in back.st) = (Leading(x) < half.emin)
  BY <1>4, <1>10, <1>12 DEF IsRounded
<1>14. LastPlace(x, half) = q
  <2>1. ~(Leading(x) < half.emin)
    BY <1>13
  <2>2. AdjExp(d) \in Int /\ half.emin \in Int /\ half.prec \in Nat
    BY <1>9, NumberFields DEF ContextOK
  <2>3. LastPlace(x, half) = d.e + Digits(d.c) - half.prec
    BY <1>10, <2>1, <2>2
  <2> QED
    BY <1>7, <1>8, <1>9, <2>2, <2>3
<1>15. Num(x, q) = m /\ Den(x, q) = 10
  <2>1. q \in Int /\ q >= d.e /\ q - d.e = 1
    BY <1>8, <1>9
  <2>2. Num(x, q) = d.c /\ Den(x, q) = Pow10[q - d.e]
    BY <1>9, <2>1, ItselfIs
  <2> QED
    BY <1>9, <2>1, <2>2, PowersAre
<1>16. at.n = n /\ (at.exact <=> m % 10 = 0)
  <2>1. AwayFromZero(half.round, x.s, m \div 10, m % 10, 10)
          <=> m % 10 # 0 /\ 2 * (m % 10) + ((m \div 10) % 2) > 10
    BY DEF AwayFromZero
  <2>2. at = [n |-> IF AwayFromZero(half.round, x.s, m \div 10, m % 10, 10)
                    THEN m \div 10 + 1 ELSE m \div 10,
              exact |-> m % 10 = 0]
    BY <1>14, <1>15 DEF RoundAt
  <2> HIDE DEF at
  <2>3. at.n = n
    BY <2>1, <2>2 DEF n, HalfEven
  <2>4. at.exact <=> m % 10 = 0
    BY <2>2
  <2> QED
    BY <2>3, <2>4
<1> HIDE DEF at, x
<1>17. Digits(back.d.c) <= limits.prec
  BY <1>5, <1>6 DEF Fits
<1>18. SameNumber(back.d, n, q) /\ ("Inexact" \in back.st <=> ~same)
  BY <1>7, <1>13, <1>14, <1>16
<1> QED
  BY <1>5, <1>6, <1>17, <1>18 DEF n, m, p, same

\* A rounded root with all the digits of the precision: the carry out of
\* nines has moved the place by one.
LEMMA FullIs ==
  ASSUME NEW p \in Nat, NEW d \in Numbers, NEW n \in Nat, n # 0, NEW q \in Int,
         SameNumber(d, n, q), Digits(d.c) <= p, Digits(n) \in {p, p + 1}
  PROVE  LET full == d.c * Pow10[p - Digits(d.c)]
             place == d.e - (p - Digits(d.c))
         IN /\ full \in Nat \ {0} /\ place \in {q, q + 1}
            /\ place = q => n = full /\ Digits(n) = p
            /\ place = q + 1 => n = 10 * full /\ Digits(n) = p + 1
<1> DEFINE z == p - Digits(d.c)
           full == d.c * Pow10[z]
           place == d.e - z
<1>1. d.c \in Nat /\ d.e \in Int /\ Digits(d.c) \in Nat /\ AdjExp(d) = d.e + Digits(d.c) - 1
  BY NumberFields
<1>2. d.c # 0 /\ AdjExp(d) = Digits(n) + q - 1 /\ Digits(n) \in Nat
  BY NumberAt, DigitsAre
<1>3. z \in Nat /\ Pow10[z] \in Nat \ {0}
  <2>1. z \in Nat
    BY <1>1
  <2> QED
    BY <2>1, PowersAre
<1>4. full \in Nat \ {0}
  <2>1. d.c \in Nat /\ d.c > 0
    BY <1>1, <1>2
  <2> QED
    BY <1>3, <2>1, DigitsShiftLeft
<1>5. place \in Int /\ place = Digits(n) - p + q /\ place <= d.e /\ d.e - place = z
  <2> DEFINE dg == Digits(d.c)
             dn == Digits(n)
             ex == d.e
             adj == AdjExp(d)
  <2>1. dg \in Nat /\ dn \in Nat /\ ex \in Int /\ z \in Nat /\ z = p - dg
        /\ adj = ex + dg - 1 /\ adj = dn + q - 1
    BY <1>1, <1>2, <1>3
  <2> HIDE DEF dg, dn, ex, adj, z
  <2>2. ex - z \in Int /\ ex - z = dn - p + q /\ ex - z <= ex /\ ex - (ex - z) = z
    BY <2>1
  <2> QED
    BY <2>2 DEF dn, ex
<1>6. Part(d, place) = full
  BY <1>5 DEF Part
<1> HIDE DEF z, full, place
<1>7. CASE Digits(n) = p
  <2>1. place = q
    BY <1>2, <1>5, <1>7
  <2>2. Part(d, q) = n * Pow10[q - q]
    BY <1>5, <2>1, InUnits
  <2>3. n * 1 = n /\ q - q = 0
    OBVIOUS
  <2>4. n = full
    BY <1>6, <2>1, <2>2, <2>3, PowersAre
  <2> QED
    BY <1>4, <1>7, <2>1, <2>4 DEF full, place, z
<1>8. CASE Digits(n) = p + 1
  <2>1. place = q + 1 /\ q <= d.e /\ q <= place /\ place - q = 1
    BY <1>1, <1>2, <1>5, <1>8
  <2>2. Part(d, q) = n * Pow10[q - q]
    BY <2>1, InUnits
  <2>3. n * 1 = n /\ q - q = 0
    OBVIOUS
  <2>4. Part(d, q) = Pow10[place - q] * Part(d, place)
    BY <1>5, <2>1, PartsScale
  <2>5. n = 10 * full
    BY <1>6, <2>1, <2>2, <2>3, <2>4, PowersAre
  <2> QED
    BY <1>4, <1>8, <2>1, <2>5 DEF full, place, z
<1> QED
  BY <1>7, <1>8

\* Of a number in units of 10^y, the same in the units of 10^u.
LEMMA InSmallerUnits ==
  ASSUME NEW v \in Exacts, v.d = 1, NEW y \in Int, NEW u \in Int, u <= v.e, u <= y,
         NEW k \in Nat
  PROVE  /\ Num(v, y) \in Nat /\ Den(v, y) \in Nat \ {0}
         /\ k * Den(v, y) <= Num(v, y) <=> k * Pow10[y - u] <= v.n * Pow10[v.e - u]
         /\ k * Den(v, y) = Num(v, y) <=> k * Pow10[y - u] = v.n * Pow10[v.e - u]
<1>1. v.n \in Nat /\ v.e \in Int
  BY DEF Exacts
<1>2. y - u \in Nat /\ u + (y - u) = y
  OBVIOUS
<1>3. /\ (k * Pow10[y - u]) * Den(v, u) <= 1 * Num(v, u)
           <=> k * Den(v, y) <= 1 * Num(v, y)
      /\ (k * Pow10[y - u]) * Den(v, u) = 1 * Num(v, u)
           <=> k * Den(v, y) = 1 * Num(v, y)
  BY <1>2, Scaled
<1>4. Num(v, y) \in Nat /\ Den(v, y) \in Nat \ {0} /\ Num(v, u) \in Nat
  BY NumDenType
<1>5. Pow10[v.e - u] \in Nat /\ Pow10[y - u] \in Nat /\ Pow10[0] = 1
  <2>1. v.e - u \in Nat
    BY <1>1
  <2> QED
    BY <1>2, <2>1, PowersAre
<1>6. Den(v, u) = 1 /\ Num(v, u) = v.n * Pow10[v.e - u]
  <2>1. ~(u > v.e)
    BY <1>1
  <2>2. Den(v, u) = 1
    BY <2>1 DEF Den
  <2>3. CASE v.e > u
    BY <2>2, <2>3 DEF Num
  <2>4. CASE ~(v.e > u)
    <3>1. v.e - u = 0
      BY <1>1, <2>4
    <3>2. Num(v, u) = v.n * 1
      BY <1>1, <2>4 DEF Num
    <3> QED
      BY <1>5, <2>2, <3>1, <3>2
  <2> QED
    BY <2>3, <2>4
<1>7. k * Pow10[y - u] \in Nat
  BY <1>5
<1> DEFINE kp == k * Pow10[y - u]
           nu == Num(v, u)
           ny == Num(v, y)
           dy == k * Den(v, y)
<1>8. /\ kp * 1 <= 1 * nu <=> dy <= 1 * ny
      /\ kp * 1 = 1 * nu <=> dy = 1 * ny
      /\ kp \in Nat /\ nu \in Nat /\ ny \in Nat
      /\ nu = v.n * Pow10[v.e - u]
  BY <1>3, <1>4, <1>6, <1>7
<1> HIDE DEF kp, nu, ny, dy
<1>9. /\ kp <= nu <=> dy <= ny
      /\ kp = nu <=> dy = ny
  BY <1>8
<1> QED
  BY <1>4, <1>8, <1>9 DEF kp, nu, ny, dy

\* What lies between the squares of r and r + 1 tells the squares of the other
\* numbers apart as r does.
LEMMA BetweenSquares ==
  ASSUME NEW r \in Nat, NEW w \in Nat \ {0}, NEW x \in Nat, NEW exact \in BOOLEAN,
         (r * r) * w <= x, x < ((r + 1) * (r + 1)) * w,
         exact <=> x = (r * r) * w, NEW t \in Nat
  PROVE  /\ (t * t) * w <= x <=> t <= r
         /\ (t * t) * w = x <=> (t = r /\ exact)
<1>1. ASSUME NEW i \in Nat, NEW j \in Nat
      PROVE  /\ (i * i) * w \in Nat
             /\ (i * i) * w <= (j * j) * w <=> i <= j
             /\ (i * i) * w = (j * j) * w <=> i = j
  <2> DEFINE ii == i * i
             jj == j * j
  <2>1. /\ ii \in Nat /\ jj \in Nat
        /\ ii <= jj <=> i <= j
        /\ ii = jj <=> i = j
    BY SquaresCompare
  <2> HIDE DEF ii, jj
  <2>2. w * ii = ii * w /\ w * jj = jj * w /\ ii * w \in Nat
    BY <2>1
  <2>3. /\ w * ii <= w * jj <=> ii <= jj
        /\ w * ii = w * jj <=> ii = jj
    BY <2>1, TimesCompare
  <2> QED
    BY <2>1, <2>2, <2>3 DEF ii, jj
<1> DEFINE sq(i) == (i * i) * w
<1>2. /\ sq(t) \in Nat /\ sq(r) \in Nat /\ sq(r + 1) \in Nat
      /\ sq(t) <= sq(r) <=> t <= r
      /\ sq(t) = sq(r) <=> t = r
      /\ sq(r + 1) <= sq(t) <=> r + 1 <= t
  <2>1. r + 1 \in Nat
    OBVIOUS
  <2> QED
    BY <1>1, <2>1
<1>3. sq(r) <= x /\ x < sq(r + 1) /\ (exact <=> x = sq(r))
  OBVIOUS
<1> HIDE DEF sq
<1>4. sq(t) <= x <=> t <= r
  BY <1>2, <1>3
<1>5. sq(t) = x <=> (t = r /\ exact)
  BY <1>2, <1>3, <1>4
<1> QED
  BY <1>4, <1>5 DEF sq

\* The same of the squares of halves, where 2 * h units of r make one whole.
LEMMA HalvesCompare ==
  ASSUME NEW r \in Nat, NEW w \in Nat \ {0}, NEW x \in Nat, NEW exact \in BOOLEAN,
         (r * r) * w <= x, x < ((r + 1) * (r + 1)) * w,
         exact <=> x = (r * r) * w, NEW h \in Nat, NEW i \in Nat
  PROVE  /\ (i * i) * (4 * ((h * h) * w)) <= 4 * x <=> h * i <= r
         /\ (i * i) * (4 * ((h * h) * w)) = 4 * x <=> (h * i = r /\ exact)
<1> DEFINE t == h * i
           l == (t * t) * w
<1>1. t \in Nat
  OBVIOUS
<1> HIDE DEF t
<1>2. /\ l <= x <=> t <= r
      /\ l = x <=> (t = r /\ exact)
  BY <1>1, BetweenSquares
<1>3. (i * i) * (4 * ((h * h) * w)) = 4 * l /\ l \in Nat
  <2> DEFINE ii == i * i
             hh == h * h
             g == hh * w
  <2>1. ii \in Nat /\ hh \in Nat /\ g \in Nat
    OBVIOUS
  <2>2. t * t = hh * ii
    BY DEF t
  <2> HIDE DEF ii, hh, t
  <2>3. (hh * ii) * w = ii * g
    BY <2>1
  <2> HIDE DEF g
  <2>4. ii * (4 * g) = 4 * (ii * g) /\ ii * g \in Nat
    BY <2>1
  <2> QED
    BY <2>2, <2>3, <2>4 DEF ii, hh, g
<1> HIDE DEF l
<1>4. /\ 4 * l <= 4 * x <=> l <= x
      /\ 4 * l = 4 * x <=> l = x
  BY <1>3
<1> QED
  BY <1>2, <1>3, <1>4 DEF t

\* Where 10 * n is 2 * h times full, a root that is nearest to n is between
\* the halves below and above full.
LEMMA NearestHalves ==
  ASSUME NEW r \in Nat, NEW n \in Nat, NEW exact \in BOOLEAN, NearestTo(n, r, exact),
         NEW full \in Nat \ {0}, NEW h \in {5, 50},
         h = 5 => n = full, h = 50 => n = 10 * full
  PROVE  LET low == 2 * full - 1
             high == 2 * full + 1
         IN /\ low \in Nat /\ high \in Nat
            /\ h * low <= r
            /\ h * high <= r => h * high = r /\ exact
            /\ h * low = r /\ exact => full % 2 = 0
            /\ h * high = r /\ exact => full % 2 = 0
            /\ h * (2 * full) = 10 * n
<1>1. CASE h = 5
  BY <1>1 DEF NearestTo
<1>2. CASE h = 50
  BY <1>2 DEF NearestTo
<1> QED
  BY <1>1, <1>2

LEMMA RootIsRight ==
  ASSUME NEW limits, ContextOK(limits), NEW a \in Numbers, a.c # 0,
         NEW half, ContextOK(half), half.round = "ROUND_HALF_EVEN",
         half.prec = limits.prec,
         NEW back, back = Finalize(SqrtNumber(a, limits), half),
         ~IsInf(back.d), "Subnormal" \notin back.st
  PROVE  IsRoot(back, a, limits) /\ Fits(back.d, half)
<1> DEFINE n == HalfEven(RootShown(a, limits))
           p == RootPlace(a, limits)
           r == RootFound(a, limits)
           exact == RootExact(a, limits)
           d == back.d
           z == limits.prec - Digits(d.c)
           full == d.c * Pow10[z]
           place == d.e - z
           y == 2 * place
           u == IF 2 * p < a.e THEN 2 * p ELSE a.e - 1
           w == Pow10[2 * p - u]
           x == Part(a, u)
<1>1. /\ d \in Numbers /\ SameNumber(d, n, p + 1) /\ Digits(d.c) <= limits.prec
      /\ Fits(d, half)
      /\ "Inexact" \in back.st <=> ~(exact /\ r = 10 * n)
  BY RootRounds
<1>2. /\ n \in Nat \ {0} /\ Digits(n) \in {limits.prec, limits.prec + 1}
      /\ NearestTo(n, r, exact)
  <2>1. n \in Nat /\ 10 * n <= r + 5 /\ r <= 10 * n + 5
    BY RootShownIs DEF NearestTo
  <2>2. r \in Nat /\ Pow10[limits.prec] <= r /\ limits.prec \in Nat \ {0}
    BY RootIs DEF ContextOK
  <2>3. Pow10[limits.prec] >= 10
    <3>1. limits.prec - 1 \in Nat /\ (limits.prec - 1) + 1 = limits.prec
      BY <2>2
    <3>2. Pow10[limits.prec] = 10 * Pow10[limits.prec - 1] /\ Pow10[limits.prec - 1] \in Nat \ {0}
      BY <3>1, Powers, PowersAre
    <3> QED
      BY <3>2
  <2>4. n # 0
    <3> DEFINE f == Pow10[limits.prec]
    <3>1. f \in Int /\ f >= 10 /\ f <= r
      BY <2>2, <2>3, PowersAre
    <3> HIDE DEF f, n, r
    <3> QED
      BY <2>1, <2>2, <3>1
  <2> QED
    BY <2>1, <2>4, RootShownIs
<1>3. p \in Int /\ limits.prec \in Nat /\ a.e \in Int /\ a.c \in Nat /\ exact \in BOOLEAN
  BY RootTerms, NumberFields DEF ContextOK, RootExact
<1>4. u \in Int /\ u < a.e /\ u <= 2 * p /\ 2 * p - u \in Nat
  BY <1>3
<1>5. /\ r \in Nat /\ (r * r) * w <= x /\ x < ((r + 1) * (r + 1)) * w
      /\ exact <=> x = (r * r) * w
  BY <1>4, RootIs
<1>6. w \in Nat \ {0} /\ a.e - u \in Nat /\ Pow10[a.e - u] \in Nat /\ x \in Nat
      /\ x = a.c * Pow10[a.e - u]
  <2>1. a.e - u \in Nat
    BY <1>3, <1>4
  <2>2. w \in Nat \ {0} /\ Pow10[a.e - u] \in Nat
    BY <1>4, <2>1, PowersAre
  <2> QED
    BY <1>3, <2>1, <2>2 DEF Part
<1>7. /\ full \in Nat \ {0} /\ place \in {p + 1, (p + 1) + 1}
      /\ place = p + 1 => n = full
      /\ place = (p + 1) + 1 => n = 10 * full
  <2>1. p + 1 \in Int
    BY <1>3
  <2> HIDE DEF n, p, d
  <2> QED
    BY <1>1, <1>2, <1>3, <2>1, FullIs
<1> DEFINE h == IF place = p + 1 THEN 5 ELSE 50
<1>8. h \in {5, 50} /\ (h = 5 => n = full) /\ (h = 50 => n = 10 * full)
  BY <1>3, <1>7
<1> DEFINE low == 2 * full - 1
           mid == 2 * full
           high == 2 * full + 1
           Is(i) == (i * i) * Den(Exactly(0, 4 * a.c, 1, a.e), y)
           num == Num(Exactly(0, 4 * a.c, 1, a.e), y)
<1>9. y \in Int /\ u <= y /\ Pow10[y - u] = 4 * ((h * h) * w)
  <2>1. y = (2 * p + 2) \/ y = (2 * p + 4)
    BY <1>3, <1>7
  <2>2. ASSUME NEW k \in Nat
        PROVE  Pow10[k + (2 * p - u)] = Pow10[k] * w
    BY <1>4, PowersAdd
  <2>3. Pow10[2] = 100 /\ Pow10[4] = 10000
    <3>1. Pow10[0 + 1] = 10 * Pow10[0] /\ Pow10[1 + 1] = 10 * Pow10[1]
          /\ Pow10[2 + 1] = 10 * Pow10[2] /\ Pow10[3 + 1] = 10 * Pow10[3] /\ Pow10[0] = 1
      BY Powers, PowersAre
    <3> QED
      BY <3>1
  <2>4. CASE place = p + 1
    <3>1. y = 2 * p + 2 /\ y - u = 2 + (2 * p - u) /\ h = 5
      BY <1>3, <1>4, <2>4
    <3>2. Pow10[y - u] = 100 * w
      BY <2>2, <2>3, <3>1
    <3> HIDE DEF w, y, u, h
    <3> QED
      BY <1>3, <1>4, <1>6, <3>1, <3>2
  <2>5. CASE place = (p + 1) + 1
    <3>1. y = 2 * p + 4 /\ y - u = 4 + (2 * p - u) /\ h = 50
      BY <1>3, <1>4, <2>5
    <3>2. Pow10[y - u] = 10000 * w
      BY <2>2, <2>3, <3>1
    <3> HIDE DEF w, y, u, h
    <3> QED
      BY <1>3, <1>4, <1>6, <3>1, <3>2
  <2> QED
    BY <1>7, <2>4, <2>5
<1> HIDE DEF n, p, r, exact, d, z, full, place, y, u, w, x, h
<1>10. /\ low \in Nat /\ high \in Nat /\ mid \in Nat
       /\ h * low <= r
       /\ h * high <= r => h * high = r /\ exact
       /\ h * low = r /\ exact => full % 2 = 0
       /\ h * high = r /\ exact => full % 2 = 0
       /\ h * mid = 10 * n
  BY <1>2, <1>3, <1>5, <1>7, <1>8, NearestHalves
<1> HIDE DEF low, mid, high
<1>11. ASSUME NEW i \in Nat
       PROVE  /\ Is(i) \in Int /\ num \in Int
              /\ Is(i) <= num <=> h * i <= r
              /\ Is(i) = num <=> (h * i = r /\ exact)
  <2> DEFINE ii == i * i
  <2>1. ii \in Nat
    OBVIOUS
  <2>2. h \in Nat
    BY <1>8
  <2>3. /\ (i * i) * (4 * ((h * h) * w)) <= 4 * x <=> h * i <= r
        /\ (i * i) * (4 * ((h * h) * w)) = 4 * x <=> (h * i = r /\ exact)
    BY <1>3, <1>5, <1>6, <2>2, HalvesCompare
  <2>4. /\ ii * Pow10[y - u] <= 4 * x <=> h * i <= r
        /\ ii * Pow10[y - u] = 4 * x <=> (h * i = r /\ exact)
    BY <1>9, <2>3
  <2> HIDE DEF ii
  <2> DEFINE v == Exactly(0, 4 * a.c, 1, a.e)
  <2>5. /\ Num(v, y) \in Nat /\ Den(v, y) \in Nat \ {0}
        /\ ii * Den(v, y) <= Num(v, y) <=> ii * Pow10[y - u] <= 4 * x
        /\ ii * Den(v, y) = Num(v, y) <=> ii * Pow10[y - u] = 4 * x
    <3>1. 4 * a.c \in Nat
      BY <1>3
    <3>2. v \in Exacts /\ v.n = 4 * a.c /\ v.d = 1 /\ v.e = a.e
      BY <1>3, <3>1 DEF Exactly, Exacts
    <3>3. v.n * Pow10[v.e - u] = 4 * x
      <4> DEFINE c == a.c
                 f == Pow10[a.e - u]
      <4>1. c \in Nat /\ f \in Nat /\ v.n * Pow10[v.e - u] = (4 * c) * f /\ x = c * f
        BY <1>3, <1>6, <3>2
      <4> HIDE DEF c, f, v
      <4>2. (4 * c) * f = 4 * (c * f)
        BY <4>1
      <4> QED
        BY <4>1, <4>2
    <3>4. u \in Int /\ y \in Int /\ u <= y /\ u <= v.e
      BY <1>3, <1>4, <1>9, <3>2
    <3> HIDE DEF v, Is, num
    <3>5. /\ ii * Den(v, y) <= Num(v, y) <=> ii * Pow10[y - u] <= v.n * Pow10[v.e - u]
          /\ ii * Den(v, y) = Num(v, y) <=> ii * Pow10[y - u] = v.n * Pow10[v.e - u]
          /\ Num(v, y) \in Nat /\ Den(v, y) \in Nat \ {0}
      BY <2>1, <3>2, <3>4, InSmallerUnits
    <3> QED
      BY <3>3, <3>5
  <2> DEFINE den == Den(Exactly(0, 4 * a.c, 1, a.e), y)
  <2>6. /\ num \in Nat /\ den \in Nat
        /\ ii * den <= num <=> ii * Pow10[y - u] <= 4 * x
        /\ ii * den = num <=> ii * Pow10[y - u] = 4 * x
    BY <2>5
  <2> HIDE DEF den, num, v
  <2>7. ii * den \in Int
    BY <2>1, <2>6
  <2> QED
    BY <2>4, <2>6, <2>7 DEF ii, den
<1> HIDE DEF num
<1>12. Is(low) <= num /\ num <= Is(high) /\ Is(low) \in Int /\ Is(high) \in Int /\ num \in Int
  <2> HIDE DEF Is
  <2>1. Is(low) <= num /\ Is(low) \in Int /\ Is(high) \in Int /\ num \in Int
    BY <1>10, <1>11
  <2>2. Is(high) <= num => Is(high) = num
    BY <1>10, <1>11
  <2> QED
    BY <2>1, <2>2
<1>13. num \in {Is(low), Is(high)} => full % 2 = 0
  <2> HIDE DEF Is
  <2> QED
    BY <1>10, <1>11
<1>14. "Inexact" \in back.st <=> num # Is(mid)
  <2> HIDE DEF Is
  <2>1. Is(mid) = num <=> (h * mid = r /\ exact)
    BY <1>10, <1>11
  <2> QED
    BY <1>1, <1>10, <2>1
<1>15. mid * mid = 4 * full * full
  BY <1>7 DEF mid
<1> DEFINE den == Den(Exactly(0, 4 * a.c, 1, a.e), y)
<1>16. /\ num \in ((low * low) * den)..((high * high) * den)
       /\ num \in {(low * low) * den, (high * high) * den} => full % 2 = 0
       /\ ("Inexact" \in back.st) = (num # (4 * full * full) * den)
  BY <1>12, <1>13, <1>14, <1>15
<1> HIDE DEF den
<1>17. IsRoot(back, a, limits)
  BY <1>16 DEF IsRoot, num, den, low, high, y, place, full, z, d
<1> QED
  BY <1>1, <1>17 DEF d

------------------------------------------------------------------------------
(* Every call that rounds.                                                  *)

LEMMA RoundsOnce ==
  ASSUME ContextIsOK, NEW c, NEW back, Operands(c), Answers(c, back)
  PROVE  RoundedOnce(c, back, ctx)
<1> DEFINE Named == {"finalize", "plus", "minus", "abs", "add", "sub", "mul", "div",
                     "reduce", "set_ssize", "set_uint", "add_ssize", "sub_ssize",
                     "mul_ssize", "div_ssize", "scaleb"}
           x == ExactOf(c)
           Goal == IsRounded(back, x, ctx)
                   /\ (Fits(back.d, ctx) \/ (c.op = "reduce" /\ IsZero(back.d)))
<1> SUFFICES ASSUME c.op \in RoundedOps, AllNumbers(c),
                    ~(c.op \in DivideOps /\ c.b.c = 0),
                    "Invalid_operation" \notin back.st
             PROVE  Goal
  BY DEF RoundedOnce
<1>1. c.op \in Named \cup {"fma"}
  BY DEF RoundedOps, SetOps
<1>2. c.a \in Numbers /\ c.b \in Numbers /\ c.c \in Numbers
  <2>1. c.op \notin TextOps
    BY <1>1 DEF TextOps
  <2>2. c.a \in Decimals /\ c.b \in Decimals /\ c.c \in Decimals
    BY <2>1 DEF Operands
  <2> QED
    BY <2>2, Kinds DEF AllNumbers, IsSpecial
<1>3. ContextOK(ctx) /\ WithinLimits(ctx) /\ ctx.round \in Roundings
  BY DEF ContextIsOK
<1>4. c.op \in Named => back = Call2(c.op, c.a, c.b)
  BY DEF Answers, GetOps, TextOps
<1>5. c.op = "fma" => back = QFma(c.a, c.b, c.c, ctx)
  <2>1. "fma" \notin QuietOps \cup GetOps \cup TextOps \cup {"powmod", "to_sci", "to_eng"}
    BY DEF QuietOps, ConversionOps, SetOps, LogicOps, SumOps, QuotientOps,
           ProductOps, RescaleOps, TextOps, GetOps
  <2> QED
    BY <2>1 DEF Answers
<1>6. CASE c.op \in {"finalize", "plus"}
  <2>1. x = Itself(c.a)
    BY <1>6 DEF ExactOf
  <2> HIDE DEF x
  <2>2. CASE c.op = "finalize"
    <3>1. back = Finalize(c.a, ctx) /\ c.a \in Decimals
      BY <1>2, <1>4, <2>2, RoundedCallsAre DEF Decimals
    <3> QED
      BY <1>2, <1>3, <2>1, <3>1, FinalizeRounds, FinalizeFits, FittingFits
  <2>3. CASE c.op = "plus"
    <3>1. back = QPlus(c.a, ctx)
      BY <1>4, <2>3, RoundedCallsAre
    <3> QED
      BY <1>2, <2>1, <3>1, SignsAreRounded
  <2> QED
    BY <1>6, <2>2, <2>3
<1>7. CASE c.op = "minus"
  <2>1. x = Itself(Negate(c.a))
    BY <1>7 DEF ExactOf, SetOps
  <2>2. back = QMinus(c.a, ctx)
    BY <1>4, <1>7, RoundedCallsAre
  <2> HIDE DEF x
  <2> QED
    BY <1>2, <2>1, <2>2, SignsAreRounded
<1>8. CASE c.op = "abs"
  <2>1. x = Itself(CopyAbs(c.a))
    BY <1>8 DEF ExactOf, SetOps
  <2>2. back = QAbs(c.a, ctx)
    BY <1>4, <1>8, RoundedCallsAre
  <2> HIDE DEF x
  <2> QED
    BY <1>2, <2>1, <2>2, SignsAreRounded
<1>9. CASE c.op = "add"
  <2>1. x = SumOf(c.a, c.b)
    BY <1>9 DEF ExactOf, SetOps
  <2>2. back = QAdd(c.a, c.b, ctx)
    BY <1>4, <1>9, RoundedCallsAre
  <2> HIDE DEF x
  <2> QED
    BY <1>2, <1>3, <2>1, <2>2, SumsAreRounded
<1>10. CASE c.op = "sub"
  <2>1. x = SumOf(c.a, Negate(c.b))
    BY <1>10 DEF ExactOf, SetOps
  <2>2. back = QSub(c.a, c.b, ctx)
    BY <1>4, <1>10, RoundedCallsAre
  <2> HIDE DEF x
  <2> QED
    BY <1>2, <1>3, <2>1, <2>2, SumsAreRounded
<1>11. CASE c.op = "mul"
  <2>1. x = ProductOf(c.a, c.b)
    BY <1>11 DEF ExactOf, SetOps
  <2>2. back = QMul(c.a, c.b, ctx)
    BY <1>4, <1>11, RoundedCallsAre
  <2> HIDE DEF x
  <2> QED
    BY <1>2, <1>3, <2>1, <2>2, ProductsAreRounded
<1>12. CASE c.op = "div"
  <2>1. x = QuotientOf(c.a, c.b)
    BY <1>12 DEF ExactOf, SetOps
  <2>2. back = QDiv(c.a, c.b, ctx)
    BY <1>4, <1>12, RoundedCallsAre
  <2>3. c.b.c # 0
    BY <1>12 DEF DivideOps
  <2> HIDE DEF x
  <2> QED
    BY <1>2, <1>3, <2>1, <2>2, <2>3, QuotientsAreRounded
<1>13. CASE c.op = "reduce"
  <2>1. x = Itself(c.a)
    BY <1>13 DEF ExactOf
  <2>2. back = QReduce(c.a, ctx)
    BY <1>4, <1>13, RoundedCallsAre
  <2> HIDE DEF x
  <2> QED
    BY <1>2, <1>3, <1>13, <2>1, <2>2, ReducedIsRounded
<1>14. CASE c.op = "fma"
  <2>1. x = SumOf(Fin(Xor(c.a.s, c.b.s), c.a.c * c.b.c, c.a.e + c.b.e), c.c)
    BY <1>14 DEF ExactOf, SetOps
  <2> HIDE DEF x
  <2> QED
    BY <1>2, <1>5, <1>14, <2>1, FmaIsRounded
<1>15. CASE c.op \in {"set_ssize", "set_uint"}
  <2>1. x = Itself(c.a)
    BY <1>15 DEF ExactOf, SetOps
  <2>2. back = Finalize(c.a, ctx)
    <3>1. CASE c.op = "set_ssize"
      <4>1. IsSsize(c.a)
        BY <3>1 DEF Operands
      <4>2. FromInt(GetSsize(c.a), ctx) = Finalize(c.a, ctx)
        BY <4>1, SsizeIs
      <4>3. back = FromInt(GetSsize(c.a), ctx)
        BY <1>4, <3>1, IntegerCallsAre
      <4> QED
        BY <4>2, <4>3
    <3>2. CASE c.op = "set_uint"
      <4>1. IsUint(c.a)
        BY <3>2 DEF Operands
      <4> QED
        BY <1>4, <3>2, <4>1, IntegerCallsAre, UintIs
    <3> QED
      BY <1>15, <3>1, <3>2
  <2>3. c.a \in Decimals
    BY <1>2 DEF Decimals
  <2> HIDE DEF x
  <2> QED
    BY <1>2, <1>3, <2>1, <2>2, <2>3, FinalizeRounds, FinalizeFits, FittingFits
<1>16. ASSUME c.op \in SsizeOps
       PROVE  /\ c.op = "add_ssize" => back = Also({}, QAdd(c.a, c.b, ctx))
              /\ c.op = "sub_ssize" => back = Also({}, QSub(c.a, c.b, ctx))
              /\ c.op = "mul_ssize" => back = Also({}, QMul(c.a, c.b, ctx))
              /\ c.op = "div_ssize" => back = Also({}, QDiv(c.a, c.b, ctx))
  <2> DEFINE i == Integer(GetSsize(c.b))
  <2>1. IsSsize(c.b)
    BY <1>16 DEF Operands
  <2>2. i = Result(c.b, {})
    BY <2>1, SsizeIs
  <2>3. i.d = c.b /\ i.st = {}
    BY <2>2 DEF Result
  <2>4. back = Call2(c.op, c.a, c.b)
    BY <1>4, <1>16 DEF SsizeOps
  <2>5. /\ AddInteger(c.a, i) = Also({}, QAdd(c.a, c.b, ctx))
        /\ SubInteger(c.a, i) = Also({}, QSub(c.a, c.b, ctx))
        /\ MulInteger(c.a, i) = Also({}, QMul(c.a, c.b, ctx))
        /\ DivInteger(c.a, i) = Also({}, QDiv(c.a, c.b, ctx))
    BY <2>3 DEF AddInteger, SubInteger, MulInteger, DivInteger
  <2> HIDE DEF i
  <2> QED
    BY <2>4, <2>5, IntegerCallsAre DEF i
<1>17. ASSUME NEW r, back = Also({}, r), IsRounded(r, x, ctx), Fits(r.d, ctx)
       PROVE  Goal
  <2> HIDE DEF x
  <2>1. back.d = r.d /\ back.st = r.st
    BY <1>17, AlsoIs
  <2>2. IsRounded(back, x, ctx)
    BY <1>17, <2>1, SameParts
  <2> QED
    BY <1>17, <2>1, <2>2
<1>18. CASE c.op = "add_ssize"
  <2>1. x = SumOf(c.a, c.b)
    BY <1>18 DEF ExactOf, SetOps
  <2>2. back = Also({}, QAdd(c.a, c.b, ctx))
    BY <1>16, <1>18 DEF SsizeOps
  <2> HIDE DEF x, Goal
  <2> QED
    BY <1>2, <1>3, <1>17, <2>1, <2>2, SumsAreRounded
<1>19. CASE c.op = "sub_ssize"
  <2>1. x = SumOf(c.a, Negate(c.b))
    BY <1>19 DEF ExactOf, SetOps
  <2>2. back = Also({}, QSub(c.a, c.b, ctx))
    BY <1>16, <1>19 DEF SsizeOps
  <2> HIDE DEF x, Goal
  <2> QED
    BY <1>2, <1>3, <1>17, <2>1, <2>2, SumsAreRounded
<1>20. CASE c.op = "mul_ssize"
  <2>1. x = ProductOf(c.a, c.b)
    BY <1>20 DEF ExactOf, SetOps
  <2>2. back = Also({}, QMul(c.a, c.b, ctx))
    BY <1>16, <1>20 DEF SsizeOps
  <2> HIDE DEF x, Goal
  <2> QED
    BY <1>2, <1>3, <1>17, <2>1, <2>2, ProductsAreRounded
<1>21. CASE c.op = "div_ssize"
  <2>1. x = QuotientOf(c.a, c.b)
    BY <1>21 DEF ExactOf, SetOps
  <2>2. back = Also({}, QDiv(c.a, c.b, ctx))
    BY <1>16, <1>21 DEF SsizeOps
  <2>3. c.b.c # 0
    BY <1>21 DEF DivideOps
  <2> HIDE DEF x, Goal
  <2> QED
    BY <1>2, <1>3, <1>17, <2>1, <2>2, <2>3, QuotientsAreRounded
<1>22. CASE c.op = "scaleb"
  <2>1. x = [Itself(c.a) EXCEPT !.e = @ + Signed(c.b, 0)]
    BY <1>22 DEF ExactOf, SetOps
  <2>2. back = QScaleb(c.a, c.b, ctx)
    BY <1>4, <1>22, IntegerCallsAre
  <2>3. Digits(c.a.c) <= MaxPrec
    BY <1>22 DEF Operands
  <2> HIDE DEF x
  <2> QED
    BY <1>2, <1>3, <2>1, <2>2, <2>3, ScalebIsRounded
<1> HIDE DEF Goal
<1> QED
  BY <1>1, <1>6, <1>7, <1>8, <1>9, <1>10, <1>11, <1>12, <1>13, <1>14, <1>15,
     <1>18, <1>19, <1>20, <1>21, <1>22

LEMMA RoundedCalls ==
  ASSUME ContextIsOK, NEW c, NEW back, Operands(c), Answers(c, back)
  PROVE  CallIsRounded(c, back, ctx)
<1>1. ASSUME c.op \in IntegralOps \cup {"quantize"}
      PROVE  /\ back = Call2(c.op, c.a, c.b)
             /\ AllNumbers(c) => c.a \in Numbers /\ c.b \in Numbers
  <2>1. back = Call2(c.op, c.a, c.b)
    BY <1>1 DEF Answers, GetOps, TextOps, IntegralOps
  <2>2. c.op \notin TextOps
    BY <1>1 DEF TextOps, IntegralOps
  <2>3. c.a \in Decimals /\ c.b \in Decimals
    BY <2>2 DEF Operands
  <2> QED
    BY <2>1, <2>3, Kinds DEF AllNumbers, IsSpecial
<1>2. IntegralIsRight(c, back, ctx)
  <2> SUFFICES ASSUME c.op \in IntegralOps, AllNumbers(c)
               PROVE  back.d =
                        IF c.a.e >= 0 THEN c.a
                        ELSE Fin(c.a.s,
                                 RoundAt(Itself(c.a), 0, ModeOf(c.op, ctx.round)).n, 0)
    BY DEF IntegralIsRight
  <2> QED
    BY <1>1, IntegralCalls
<1>3. QuantizeIsRight(c, back, ctx)
  <2> DEFINE n == RoundAt(Itself(c.a), c.b.e, ctx.round).n
             fits == Fin(c.a.s, n, c.b.e)
  <2> SUFFICES ASSUME c.op = "quantize", AllNumbers(c)
               PROVE  IF IsNaN(back.d)
                      THEN \/ Digits(n) > ctx.prec \/ AdjExp(fits) > ctx.emax
                           \/ c.b.e \notin Etiny(ctx)..ctx.emax
                      ELSE /\ SameNumber(back.d, n, c.b.e) /\ back.d.s = c.a.s
                           /\ Fits(back.d, ctx)
                           /\ ctx.clamp = 0 \/ c.b.e <= Etop(ctx) => back.d = fits
    BY DEF QuantizeIsRight
  <2>1. back = QQuantize(c.a, c.b, ctx) /\ c.a \in Numbers /\ c.b \in Numbers
    BY <1>1, RoundedCallsAre
  <2>2. ContextOK(ctx) /\ ctx.round \in Roundings
    BY DEF ContextIsOK
  <2> QED
    BY <2>1, <2>2, QuantizeIs
<1>4. RootIsNearest(c, back, ctx)
  <2> SUFFICES ASSUME c.op = "sqrt", AllNumbers(c), c.a.s = 0, c.a.c # 0,
                      ~IsInf(back.d), "Subnormal" \notin back.st
               PROVE  IsRoot(back, c.a, ctx) /\ Fits(back.d, ctx)
    BY DEF RootIsNearest
  <2> DEFINE half == Rounding(ctx, "ROUND_HALF_EVEN")
  <2>1. c.a \in Numbers
    <3>1. c.a \in Decimals
      BY DEF Operands, TextOps
    <3> QED
      BY <3>1, Kinds DEF AllNumbers, IsSpecial
  <2>2. back = QSqrt(c.a, ctx)
    <3>1. back = Call2("sqrt", c.a, c.b)
      BY DEF Answers, GetOps, TextOps
    <3> QED
      BY <3>1, IntegerCallsAre
  <2>3. ~IsNaN(c.a) /\ ~IsInf(c.a)
    BY DEF AllNumbers, IsSpecial, IsNaN, IsInf
  <2>4. back = Finalize(SqrtNumber(c.a, ctx), half)
    BY <2>2, <2>3 DEF QSqrt
  <2>5. /\ ContextOK(ctx) /\ ContextOK(half) /\ half.round = "ROUND_HALF_EVEN"
        /\ SameRange(half, ctx)
    BY WorkContext DEF ContextIsOK
  <2> HIDE DEF half
  <2>6. half.prec = ctx.prec /\ (Fits(back.d, half) <=> Fits(back.d, ctx))
    BY <2>5, RangeKeeps DEF SameRange
  <2> QED
    BY <2>1, <2>4, <2>5, <2>6, RootIsRight
<1>5. SsizeIsRight(c, back)
  <2> DEFINE n == GetSsize(c.a)
             t == RoundAt(Itself(c.a), 0, "ROUND_DOWN")
  <2> SUFFICES ASSUME c.op = "get_ssize", AllNumbers(c)
               PROVE  IF back.st = {} THEN SumOf(c.a, FromInt(-back.n, MaxCtx).d).n = 0
                      ELSE t.n > SsizeMax \/ ~t.exact
    BY DEF SsizeIsRight
  <2>1. c.a \in Numbers
    <3>1. c.a \in Decimals
      BY DEF Operands, TextOps
    <3> QED
      BY <3>1, Kinds DEF AllNumbers, IsSpecial
  <2>2. back = Number(n, NotAnInteger)
    <3>1. "get_ssize" \notin QuietOps \cup TextOps \cup {"powmod", "to_sci", "to_eng"}
      BY DEF QuietOps, ConversionOps, SetOps, LogicOps, SumOps, QuotientOps,
             ProductOps, RescaleOps, TextOps
    <3>2. back = GetCall("get_ssize", c.a, c.b)
      BY <3>1 DEF Answers
    <3> QED
      BY <3>2 DEF GetCall
  <2>3. back.n = n /\ (back.st = {} <=> n # NotAnInteger)
    BY <2>2 DEF Number
  <2> HIDE DEF n, t
  <2>4. IF n # NotAnInteger THEN SumOf(c.a, FromInt(-n, MaxCtx).d).n = 0
        ELSE t.n > SsizeMax \/ ~t.exact
    BY <2>1, SsizeOf DEF n, t
  <2> QED
    BY <2>3, <2>4
<1> QED
  BY <1>2, <1>3, <1>4, <1>5, RoundsOnce DEF CallIsRounded

LEMMA RoundedStays ==
  ASSUME NEW c, NEW back, NEW old, NEW new, SameLimits(new, old),
         CallIsRounded(c, back, old)
  PROVE  CallIsRounded(c, back, new)
<1>1. /\ SameRange(new, old) /\ new.round = old.round /\ new.prec = old.prec
      /\ new.emax = old.emax /\ new.emin = old.emin /\ new.clamp = old.clamp
  BY DEF SameLimits, SameRange
<1>2. /\ Etiny(new) = Etiny(old) /\ Etop(new) = Etop(old)
      /\ MaxCoeff(new) = MaxCoeff(old)
      /\ \A x : LastPlace(x, new) = LastPlace(x, old)
      /\ \A a : Fits(a, new) <=> Fits(a, old)
  BY <1>1, RangeKeeps
<1>3. ASSUME NEW x, IsRounded(back, x, old)
      PROVE  IsRounded(back, x, new)
  <2>1. EndsAtLargest(x.s, new) <=> EndsAtLargest(x.s, old)
    BY <1>1 DEF EndsAtLargest
  <2> QED
    BY <1>1, <1>2, <1>3, <2>1 DEF IsRounded
<1>4. RoundedOnce(c, back, new)
  BY <1>2, <1>3 DEF CallIsRounded, RoundedOnce
<1>5. IntegralIsRight(c, back, new)
  BY <1>1 DEF CallIsRounded, IntegralIsRight
<1>6. QuantizeIsRight(c, back, new)
  BY <1>1, <1>2 DEF CallIsRounded, QuantizeIsRight
<1>7. RootIsNearest(c, back, new) /\ SsizeIsRight(c, back)
  <2>1. IsRoot(back, c.a, new) <=> IsRoot(back, c.a, old)
    BY <1>1 DEF IsRoot
  <2> QED
    BY <1>2, <2>1 DEF CallIsRounded, RootIsNearest
<1> QED
  BY <1>4, <1>5, <1>6, <1>7 DEF CallIsRounded

\* Whatever context the program sets up, and whatever numbers it calls with:
\* mpd_qfinalize, mpd_qplus, mpd_qminus, mpd_qabs, mpd_qadd, mpd_qsub,
\* mpd_qmul and mpd_qdiv, their forms for C integers, mpd_qset_ssize and
\* mpd_qset_uint, mpd_qfma, mpd_qscaleb, mpd_qreduce, mpd_qquantize and the
\* roundings to an integer return the exact result rounded once, mpd_qsqrt the
\* nearest number to the root, and mpd_qget_ssize the integer.
THEOREM CallsAreRounded == Spec => []CorrectlyRounded
<1> DEFINE IInv == ContextIsOK /\ CorrectlyRounded
<1>1. \A back, limits : CallIsRounded(NoCall, back, limits)
  <2>1. NoCall.op = "none"
    BY DEF NoCall
  <2>2. /\ "none" \notin RoundedOps /\ "none" \notin IntegralOps
        /\ "none" \notin {"quantize", "sqrt", "get_ssize"}
    BY DEF RoundedOps, IntegralOps, SetOps
  <2> QED
    BY <2>1, <2>2 DEF CallIsRounded, RoundedOnce, IntegralIsRight, QuantizeIsRight,
                      RootIsNearest, SsizeIsRight
<1>2. Init => IInv
  BY <1>1, InitContext DEF Init, CorrectlyRounded
<1>3. IInv /\ [Next]_vars => IInv'
  <2> SUFFICES ASSUME IInv, [Next]_vars PROVE IInv'
    OBVIOUS
  <2>1. /\ ContextIsOK' /\ SameLimits(ctx', ctx)
        /\ \/ UNCHANGED <<call, ret>>
           \/ call' = NoCall
           \/ Operands(call') /\ Answers(call', ret')
    BY Steps
  <2>2. CASE call' = NoCall
    BY <1>1, <2>1, <2>2 DEF CorrectlyRounded
  <2>3. CASE UNCHANGED <<call, ret>>
    <3>1. CallIsRounded(call, ret, ctx')
      BY <2>1, RoundedStays DEF CorrectlyRounded
    <3> QED
      BY <2>1, <2>3, <3>1 DEF CorrectlyRounded
  <2>4. CASE Operands(call') /\ Answers(call', ret')
    <3>1. CallIsRounded(call', ret', ctx)
      BY <2>4, RoundedCalls
    <3>2. CallIsRounded(call', ret', ctx')
      BY <2>1, <3>1, RoundedStays
    <3> QED
      BY <2>1, <3>2 DEF CorrectlyRounded
  <2> QED
    BY <2>1, <2>2, <2>3, <2>4
<1>4. IInv => CorrectlyRounded
  OBVIOUS
<1> QED
  BY <1>2, <1>3, <1>4, PTL DEF Spec
==============================================================================
