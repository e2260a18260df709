----------------------------- MODULE GuestDecimal ----------------------------
(***************************************************************************)
(* The guest's Decimal (mruby-mpdecimal/src/ext.c): variables of a script  *)
(* that hold decimals, one context for all of them, and the methods, which *)
(* raise when the library reports more than that a result was rounded.     *)
(*                                                                         *)
(* A variable holds a decimal of MpdNumber, None, or Blank: what           *)
(* initialize leaves where to_s of its argument raises, a decimal without  *)
(* digits; nothing else is done with it here.  Every method of mruby is    *)
(* public, initialize too.                                                 *)
(***************************************************************************)
EXTENDS MpdText

CONSTANTS
  Variables, \* variables of the script
  Precision, \* PRECISION
  Arguments, \* what initialize is called with: [int |->], [text |->]
  MaxCalls   \* bound: calls that a script makes

\* MPD_MAX_PREC is MPD_MAX_EMAX, and less than MPD_SSIZE_MAX.
ASSUME GuestAssumption ==
  /\ MaxPrec <= MaxEmax /\ MaxPrec <= SsizeMax /\ Precision \in 1..MaxPrec
  /\ MaxCalls \in Nat
  /\ \A arg \in Arguments :
       \/ DOMAIN arg = {"int"} /\ arg.int \in Int
       \/ DOMAIN arg = {"text"} /\ IsText(arg.text)
       \/ DOMAIN arg = {"raises"}

VARIABLES
  value, \* the decimal in each variable
  calls  \* calls made so far
guestVars == <<value, calls>>

None == [k |-> "none"]
Blank == [k |-> "blank"]
Holds(v) == value[v].k \notin {"none", "blank"}

\* init_context: mpd_init of the default context, with the precision set.
Context == [prec |-> Precision, emax |-> MaxEmax, emin |-> MinEmin,
            round |-> "ROUND_HALF_UP", clamp |-> 0]

\* Mutant: only a result that lost something is let through.
IgnoresInexactOnly == {"Inexact"}
IgnoredConditions == {"Inexact", "Rounded"}
\* check_status
Raises(st) == st \ IgnoredConditions # {}

------------------------------------------------------------------------------
(* Methods that only answer: the value, or that they raise.                 *)

Answer(val, st) == [raised |-> Raises(st), val |-> val]

\* ext_decimal_to_s
TextOf(r) == Answer(r.text, r.st)
ToS(d) == TextOf(Format(d, [NoFormat EXCEPT !.type = "f"], Context))
\* ext_decimal_spaceship and ext_decimal_eql_p
Sign(r) == Answer(r.c, r.st)
Spaceship(d, e) == Sign(QCmp(d, e))
IsSame(r) == Answer(r.c = 0, r.st)
EqlP(d, e) == IsSame(QCmp(d, e))

\* Mutant: the decimal is hashed as it is.
HashUnreduced(d) == Answer(<<d.e, d.c>>, {})
\* ext_decimal_hash: what goes into the key, the exponent and the words of
\* the reduced decimal.
HashOf(r) == Answer(<<r.d.e, r.d.c>>, r.st)
Hash(d) == HashOf(QReduce(d, Context))

------------------------------------------------------------------------------
(* Methods that make a decimal.                                             *)

\* ext_decimal_initialize, of an integer, a text, or another decimal by way
\* of its text.
\* Where to_s of the decimal raises, so does initialize.
Raised == [raised |-> TRUE]
Built(r) == [raised |-> FALSE, d |-> r.d, st |-> r.st]
FromText(answer) ==
  IF answer.raised THEN Raised ELSE Built(SetString(answer.val, Context))
FromArgument(arg) ==
  CASE "int" \in DOMAIN arg -> Built(FromInt(arg.int, Context))
    [] "text" \in DOMAIN arg -> FromText(Answer(arg.text, {}))
    [] "decimal" \in DOMAIN arg -> FromText(ToS(arg.decimal))
    [] "raises" \in DOMAIN arg -> Raised
\* What initialize is called with: other decimals too, but never the one it
\* is called on, which it leaves alone.
AnyArgument(others) ==
  Arguments \cup {[decimal |-> value[v]] : v \in {w \in others : Holds(w)}}

GuestInit == value = [v \in Variables |-> None] /\ calls = 0

Counted == calls < MaxCalls /\ calls' = calls + 1
Assign(v, r) ==
  value' = IF Raises(r.st) THEN value ELSE [value EXCEPT ![v] = r.d]

AssignNew(v, built) ==
  IF built.raised THEN UNCHANGED value ELSE Assign(v, built)
\* v = Decimal.new(arg): nothing is assigned if it raises.
New(v) ==
  /\ Counted
  /\ \E arg \in AnyArgument(Variables) : AssignNew(v, FromArgument(arg))

Replace(v, built) ==
  value' = [value EXCEPT ![v] = IF built.raised THEN Blank ELSE built.d]
\* v.initialize(arg): the new decimal is put in place before it is set, and
\* stays there when the status is found bad.
Initialize(v) ==
  /\ Counted /\ Holds(v)
  /\ \E arg \in AnyArgument(Variables \ {v}) :
       Replace(v, FromArgument(arg))

\* ext_decimal_bin_op
BinOp(v) ==
  /\ Counted
  /\ \E self, other \in {w \in Variables : Holds(w)} :
       LET a == value[self]
           b == value[other]
       IN \/ Assign(v, QAdd(a, b, Context))
          \/ Assign(v, QSub(a, b, Context))
          \/ Assign(v, QMul(a, b, Context))
          \/ Assign(v, QDiv(a, b, Context))

\* ext_decimal_unary_op
UnaryOp(v) ==
  /\ Counted
  /\ \E self \in {w \in Variables : Holds(w)} :
       \/ Assign(v, QMinus(value[self], Context))
       \/ Assign(v, QRoundToInt(value[self], Context))
       \/ Assign(v, QFloor(value[self], Context))
       \/ Assign(v, QCeil(value[self], Context))

GuestNext ==
  \E v \in Variables : New(v) \/ Initialize(v) \/ BinOp(v) \/ UnaryOp(v)
GuestSpec == GuestInit /\ [][GuestNext]_guestVars

------------------------------------------------------------------------------
(* What scripts rely on.                                                    *)

Held == {value[v] : v \in {w \in Variables : Holds(w)}}

\* Decimals that are eql? have the same hash, whatever zeros they end with
\* and however they came about, so one finds the other in a Hash; and hash
\* raises for both or for neither.
EqlMeansSameHash ==
  \A d, e \in Held :
    ~EqlP(d, e).raised /\ EqlP(d, e).val => Hash(d) = Hash(e)

\* A text with more digits than a decimal may have is not read.
FitsText(d) == d.k = "fin" => d.e \in -MaxPrec..(MaxPrec - Digits(d.c))
Usual(d) == d.k = "fin" /\ d.c # 0 => AdjExp(d) >= MinEmin

\* Decimal.new(d.to_s), which is what Decimal.new(d) does, makes a decimal
\* with the value, the sign and the kind of d, and does not raise, for every
\* decimal that is not subnormal (initialize can leave one).
IsThe(d, built) ==
  /\ ~built.raised /\ ~Raises(built.st)
  /\ built.d.k = d.k /\ built.d.s = d.s
  /\ IF IsNaN(d) THEN built.d.c = d.c ELSE EqlP(d, built.d).val
TextMakesItAgain ==
  \A d \in Held :
    FitsText(d) /\ Usual(d) => IsThe(d, FromArgument([decimal |-> d]))
==============================================================================
