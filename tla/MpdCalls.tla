------------------------------- MODULE MpdCalls ------------------------------
(***************************************************************************)
(* A context of libmpdec and the functions that are called with it: the    *)
(* signaling ones of mpsignal.c, each the quiet function of mpdecimal.c    *)
(* with its flags added to the context, which raises those it traps        *)
(* (context.c).  mpd_exp, mpd_ln, mpd_log10 and mpd_invroot are left out.  *)
(***************************************************************************)
EXTENDS MpdLogic, MpdPower, MpdText

CONSTANTS
  Contexts, \* contexts the program has set up
  Offers    \* for each operation the operands it is called with

VARIABLES
  ctx,  \* mpd_context_t
  call, \* the call made last, or NoCall
  ret   \* and what it returned
vars == <<ctx, call, ret>>

\* MPD_Traps, of contexts that nothing else was set for
Traps == IEEEInvalid \cup {"Division_by_zero", "Overflow", "Underflow"}

\* mpd_defaultcontext
DefaultCtx == [prec |-> 2 * RDigits, emax |-> MaxEmax, emin |-> MinEmin,
               round |-> "ROUND_HALF_UP", clamp |-> 0, traps |-> Traps,
               status |-> {}, newtrap |-> {}]

\* What mpd_qsetprec and its like let through.
ValidContext(c) ==
  c \in [prec : 1..MaxPrec, emax : 0..MaxEmax, emin : MinEmin..0,
         round : Roundings, clamp : {0, 1}, traps : SUBSET Conditions,
         status : SUBSET Conditions, newtrap : SUBSET Conditions]

ASSUME ContextsAssumption == \A c \in Contexts : ValidContext(c)

\* Every function but two is given one to three decimals.
ASSUME OffersAssumption ==
  \A op \in DOMAIN Offers \ {"set_string", "format"} :
    \A args \in Offers[op] : args \in Seq(Decimals) /\ Len(args) \in 1..3

\* mpd_addstatus_raise
AddStatusRaise(c, flags) ==
  LET trapped == flags \cap c.traps
  IN [c EXCEPT !.status = @ \cup flags,
               !.newtrap = IF trapped = {} THEN @ ELSE trapped]

------------------------------------------------------------------------------
(* Operands that are C integers: mpd_qadd_ssize and its like.               *)

Integer(n) == FromInt(n, MaxCtx)
AddInteger(a, i) == Also(i.st, QAdd(a, i.d, ctx))
SubInteger(a, i) == Also(i.st, QSub(a, i.d, ctx))
MulInteger(a, i) == Also(i.st, QMul(a, i.d, ctx))
DivInteger(a, i) == Also(i.st, QDiv(a, i.d, ctx))

------------------------------------------------------------------------------
(* The functions, in the order of mpsignal.c.                               *)

ConversionCall(op, a, b) ==
  CASE op = "finalize" -> Finalize(a, ctx)
    [] op = "check_nans" -> IF AnyNaN(<<a, b>>) THEN CheckNaNs(<<a, b>>, ctx)
                            ELSE Result(a, {})
    [] op = "maxcoeff" -> Result(Fin(0, MaxCoeff(ctx), 0), {})
\* mpd_set_ssize and mpd_set_uint, of an operand that stands for a C integer.
SetCall(op, a) ==
  CASE op = "set_ssize" -> FromInt(GetSsize(a), ctx)
    [] op = "set_uint" -> FromInt(GetUint(TRUE, a), ctx)
\* mpd_get_ssize, mpd_get_uint, mpd_abs_uint and mpd_cmp: a C integer.
Number(n, error) ==
  [n |-> n, st |-> IF n = error THEN {"Invalid_operation"} ELSE {}]
GetCall(op, a, b) ==
  CASE op = "get_ssize" -> Number(GetSsize(a), NotAnInteger)
    [] op = "get_uint" -> Number(GetUint(TRUE, a), NotAnInteger)
    [] op = "abs_uint" -> Number(GetUint(FALSE, a), NotAnInteger)
    [] op = "cmp" -> Number(QCmp(a, b).c, IntMax)
LogicCall(op, a, b) ==
  CASE op = "and" -> QAnd(a, b, ctx)
    [] op = "copy_sign" -> Result(CopySign(a, b), {})
    [] op = "invert" -> QInvert(a, ctx)
    [] op = "logb" -> QLogb(a, ctx)
    [] op = "or" -> QOr(a, b, ctx)
    [] op = "rotate" -> QRotate(a, b, ctx)
    [] op = "scaleb" -> QScaleb(a, b, ctx)
    [] op = "shift" -> QShift(a, b, ctx)
    [] op = "shiftn" -> QShiftN(a, GetSsize(b), ctx)
    [] op = "xor" -> QXor(a, b, ctx)
    [] op = "abs" -> QAbs(a, ctx)
SumCall(op, a, b) ==
  CASE op = "compare" -> QCompare(a, b, ctx)
    [] op = "compare_signal" -> QCompareSignal(a, b, ctx)
    [] op = "add" -> QAdd(a, b, ctx)
    [] op = "sub" -> QSub(a, b, ctx)
    [] op = "add_ssize" -> AddInteger(a, Integer(GetSsize(b)))
    [] op = "sub_ssize" -> SubInteger(a, Integer(GetSsize(b)))
QuotientCall(op, a, b) ==
  CASE op = "div" -> QDiv(a, b, ctx)
    [] op = "div_ssize" -> DivInteger(a, Integer(GetSsize(b)))
    [] op = "divint" -> QDivInt(a, b, ctx)
    [] op = "max" -> QMax(a, b, ctx)
    [] op = "max_mag" -> QMaxMag(a, b, ctx)
    [] op = "min" -> QMin(a, b, ctx)
    [] op = "min_mag" -> QMinMag(a, b, ctx)
    [] op = "minus" -> QMinus(a, ctx)
ProductCall(op, a, b) ==
  CASE op = "mul" -> QMul(a, b, ctx)
    [] op = "mul_ssize" -> MulInteger(a, Integer(GetSsize(b)))
    [] op = "next_minus" -> QNextMinus(a, ctx)
    [] op = "next_plus" -> QNextPlus(a, ctx)
    [] op = "next_toward" -> QNextToward(a, b, ctx)
    [] op = "plus" -> QPlus(a, ctx)
    [] op = "pow" -> QPow(a, b, ctx)
RescaleCall(op, a, b) ==
  CASE op = "quantize" -> QQuantize(a, b, ctx)
    [] op = "rescale" -> QRescale(a, b.e, ctx)
    [] op = "reduce" -> QReduce(a, ctx)
    [] op = "rem" -> QRem(a, b, ctx)
    [] op = "rem_near" -> QRemNear(a, b, ctx)
    [] op = "round_to_intx" -> QRoundToIntx(a, ctx)
    [] op = "round_to_int" -> QRoundToInt(a, ctx)
    [] op = "trunc" -> QTrunc(a, ctx)
    [] op = "floor" -> QFloor(a, ctx)
    [] op = "ceil" -> QCeil(a, ctx)
    [] op = "sqrt" -> QSqrt(a, ctx)

ConversionOps == {"finalize", "check_nans", "maxcoeff"}
LogicOps == {"and", "copy_sign", "invert", "logb", "or", "rotate", "scaleb",
             "shift", "shiftn", "xor", "abs"}
SetOps == {"set_ssize", "set_uint"}
GetOps == {"get_ssize", "get_uint", "abs_uint", "cmp"}
SumOps == {"compare", "compare_signal", "add", "sub", "add_ssize",
           "sub_ssize"}
QuotientOps == {"div", "div_ssize", "divint", "max", "max_mag", "min",
                "min_mag", "minus"}
ProductOps == {"mul", "mul_ssize", "next_minus", "next_plus", "next_toward",
               "plus", "pow"}
RescaleOps == {"quantize", "rescale", "reduce", "rem", "rem_near",
               "round_to_intx", "round_to_int", "trunc", "floor", "ceil",
               "sqrt"}

\* The call with two operands; one that takes one is given it twice.
Call2(op, a, b) ==
  CASE op \in ConversionOps -> ConversionCall(op, a, b)
    [] op \in SetOps -> SetCall(op, a)
    [] op \in LogicOps -> LogicCall(op, a, b)
    [] op \in SumOps -> SumCall(op, a, b)
    [] op \in QuotientOps -> QuotientCall(op, a, b)
    [] op \in ProductOps -> ProductCall(op, a, b)
    [] op \in RescaleOps -> RescaleCall(op, a, b)

------------------------------------------------------------------------------
NoCall == [op |-> "none"]
Init == ctx \in Contexts /\ call = NoCall /\ ret = Result(QNaN, {})

\* A call; one operand stands for all that are missing.
Made(op, args) ==
  [op |-> op, a |-> args[1], b |-> args[IF Len(args) = 1 THEN 1 ELSE 2],
   c |-> args[Len(args)]]

\* The decimals that stand for an mpd_ssize_t and an mpd_uint_t.
IsSsize(a) == a \in Numbers /\ a.e = 0 /\ a.c \in a.s..(SsizeMax + a.s)
IsUint(a) == a \in Numbers /\ a.e = 0 /\ a.s = 0 /\ a.c <= UintMax

\* What the types of the operands, and the memory that a coefficient takes,
\* leave of them.
SsizeOps == {"add_ssize", "sub_ssize", "mul_ssize", "div_ssize"}
ASSUME OperandsAssumption ==
  \A op \in DOMAIN Offers : \A args \in Offers[op] :
    LET c == Made(op, args)
    IN /\ op \in SsizeOps => IsSsize(c.b)
       /\ op = "set_ssize" => IsSsize(c.a)
       /\ op = "set_uint" => IsUint(c.a)
       /\ op = "scaleb" => Digits(c.a.c) <= MaxPrec

Returns(c, r) ==
  /\ call' = c
  /\ ret' = r
  /\ ctx' = AddStatusRaise(ctx, r.st)

CallQuiet(c) ==
  /\ c.op \in ConversionOps \cup SetOps \cup LogicOps \cup SumOps
               \cup QuotientOps \cup ProductOps \cup RescaleOps
  /\ Returns(c, Call2(c.op, c.a, c.b))
CallGet(c) == c.op \in GetOps /\ Returns(c, GetCall(c.op, c.a, c.b))
CallDivMod(c) == c.op = "divmod" /\ Returns(c, QDivMod(c.a, c.b, ctx))
CallFma(c) == c.op = "fma" /\ Returns(c, QFma(c.a, c.b, c.c, ctx))
CallPowMod(c) == c.op = "powmod" /\ Returns(c, QPowMod(c.a, c.b, c.c, ctx))
\* mpd_set_string, mpd_format, and the two that need no context.
CallSetString(c) == c.op = "set_string" /\ Returns(c, SetString(c.a, ctx))
CallFormat(c) == c.op = "format" /\ Returns(c, Format(c.a, c.b, ctx))
CallToText(c) ==
  \/ c.op = "to_sci" /\ Returns(c, [text |-> ToSci(c.a), st |-> {}])
  \/ c.op = "to_eng" /\ Returns(c, [text |-> ToEng(c.a), st |-> {}])

\* The program takes the result and clears the flags (mpd_qsetstatus),
\* unless the trap has stopped it.
Continue ==
  /\ call # NoCall /\ ctx.newtrap = {}
  /\ ctx' = [ctx EXCEPT !.status = {}]
  /\ call' = NoCall
  /\ ret' = Result(QNaN, {})

Next ==
  \/ /\ call = NoCall
     /\ \E op \in DOMAIN Offers : \E args \in Offers[op] :
          LET c == Made(op, args)
          IN \/ CallQuiet(c) \/ CallGet(c) \/ CallDivMod(c) \/ CallFma(c)
             \/ CallPowMod(c) \/ CallSetString(c) \/ CallFormat(c)
             \/ CallToText(c)
  \/ Continue
Spec == Init /\ [][Next]_vars
==============================================================================
