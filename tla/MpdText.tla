-------------------------------- MODULE MpdText ------------------------------
(***************************************************************************)
(* Decimals as text (io.c): mpd_qset_string, mpd_to_sci, mpd_to_eng and    *)
(* mpd_qformat.  A text is what its grammar makes of it:                   *)
(*                                                                         *)
(*   sign  int digits  [. frac digits]  [E exp]  [%]                       *)
(*                                                                         *)
(* with exp <<>> where no exponent is written; kind tells a number from    *)
(* "nan", "snan" (int is the payload), "inf" and "bad", text that has not  *)
(* this form.  left, inner and right count the fill characters before the  *)
(* text, after its sign and behind it; Sep stands among the digits for a   *)
(* separator.  Upper and lower case, the bytes of a fill character and of  *)
(* a locale's separators are left out.                                     *)
(***************************************************************************)
EXTENDS MpdArith

Text(sign, int, dot, frac, exp) ==
  [kind |-> "num", sign |-> sign, int |-> int, dot |-> dot, frac |-> frac,
   exp |-> exp, percent |-> FALSE, left |-> 0, inner |-> 0, right |-> 0]
Word(kind, sign, payload) ==
  [Text(sign, payload, FALSE, <<>>, <<>>) EXCEPT !.kind = kind]
NoText == Word("bad", "", <<>>)
Sep == -1
IsText(t) ==
  /\ t.kind \in {"num", "nan", "snan", "inf", "bad"} /\ t.exp \in Seq(Int)
  /\ t.int \in Seq(0..9) /\ t.frac \in Seq(0..9)

Zeros(n) == [i \in 1..n |-> 0]
DigitsOf(c) ==
  LET n == Digits(c) IN [i \in 1..n |-> (c \div Pow10[n - i]) % 10]
NumberOf(s) ==
  LET upto[i \in 0..Len(s)] == IF i = 0 THEN 0 ELSE 10 * upto[i - 1] + s[i]
  IN upto[Len(s)]

------------------------------------------------------------------------------
(* From text.                                                               *)

\* scan_payload, and the digits of a coefficient from the first that counts
\* on: without leading zeros, but one where there is nothing else.
Payload(s) ==
  LET counts == {i \in DOMAIN s : s[i] # 0}
  IN IF counts = {} THEN <<>> ELSE SubSeq(s, Min(counts), Len(s))
Relevant(s) == IF Payload(s) = <<>> THEN <<0>> ELSE Payload(s)

\* strtoexp: out of range is the last number in it.
StrToExp(n) == IF n > SsizeMax THEN SsizeMax
               ELSE IF n < -SsizeMax - 1 THEN -SsizeMax - 1 ELSE n
\* The exponent of the last digit, bounded so that sums with it do not
\* overflow later.
TextExp(exp, fracdigits) ==
  LET e == IF exp = <<>> THEN 0 ELSE StrToExp(exp[1])
      shifted == IF e < -SsizeMax - 1 + fracdigits THEN -SsizeMax - 1
                 ELSE e - fracdigits
  IN IF shifted > ExpInf THEN ExpInf
     ELSE IF shifted = -SsizeMax - 1 THEN -SsizeMax ELSE shifted

\* mpd_qset_string
SetString(t, ctx) ==
  LET s == IF t.sign = "-" THEN 1 ELSE 0
      error == SetError("Conversion_syntax")
      coeff == Relevant(t.int \o t.frac)
  IN CASE t.kind = "bad" -> error
       [] t.kind = "inf" -> Result(Inf(s), {})
       [] t.kind \in {"nan", "snan"} ->
            IF Len(Payload(t.int)) > ctx.prec - ctx.clamp THEN error
            ELSE Result([k |-> IF t.kind = "nan" THEN "qnan" ELSE "snan",
                         s |-> s, c |-> NumberOf(Payload(t.int)), e |-> 0],
                        {})
       [] t.kind = "num" ->
            IF \/ t.int \o t.frac = <<>>
               \/ t.dot /\ Len(t.frac) > MaxPrec
               \/ Len(coeff) > MaxPrec
            THEN error
            ELSE Finalize(Fin(s, NumberOf(coeff),
                              TextExp(t.exp, Len(t.frac))), ctx)

------------------------------------------------------------------------------
(* To text.                                                                 *)

SignOf(d, sign) ==
  IF d.s = 1 THEN "-" ELSE IF sign \in {" ", "+"} THEN sign ELSE ""

\* Mutant: a zero is moved as other numbers are.
DotPlaceZero(d, form, dplace) ==
  LET ldigits == Digits(d.c) + d.e
  IN IF form = "exp" THEN dplace
     ELSE IF form = "fixed" \/ (d.e <= 0 /\ ldigits > -6) THEN ldigits
     ELSE IF form = "eng" THEN dplace + ((d.e + 2) % 3)
     ELSE dplace

\* Where the decimal point goes, counted from the start of the coefficient.
DotPlace(d, form, dplace) ==
  LET ldigits == Digits(d.c) + d.e
  IN IF form = "exp" THEN dplace
     ELSE IF form = "fixed" \/ (d.e <= 0 /\ ldigits > -6) THEN ldigits
     ELSE IF form = "eng" THEN
       IF d.c = 0 THEN ((d.e + 2) % 3) - 1
       ELSE dplace + ((ldigits - 1) % 3)
     ELSE dplace

\* The space that _mpd_to_string takes for a number.
ExpDigits == Digits(MaxPrec - MinEtiny)
Space(d, place) ==
  (IF place <= 0 THEN 2 - place + Digits(d.c)
   ELSE IF place >= Digits(d.c) THEN place ELSE Digits(d.c))
  + ExpDigits + 1 + 6

\* The digits with the point at a place among, before or behind them.
Pointed(sg, digits, place, exp) ==
  IF place <= 0
  THEN Text(sg, <<0>>, TRUE, Zeros(-place) \o digits, exp)
  ELSE IF place >= Len(digits)
  THEN Text(sg, digits \o Zeros(place - Len(digits)), FALSE, <<>>, exp)
  ELSE Text(sg, SubSeq(digits, 1, place), TRUE,
            SubSeq(digits, place + 1, Len(digits)), exp)
\* A number: the exponent is written where the point is not in its place.
NumberText(sg, digits, e, form, place) ==
  Pointed(sg, digits, place,
          IF Len(digits) + e # place \/ form = "exp"
          THEN <<Len(digits) + e - place>> ELSE <<>>)

\* _mpd_to_string
ToText(d, form, sign, percent, dplace) ==
  [(IF IsNaN(d)
    THEN Word(IF d.k = "qnan" THEN "nan" ELSE "snan", SignOf(d, sign),
              IF d.c > 0 THEN DigitsOf(d.c) ELSE <<>>)
    ELSE IF IsInf(d) THEN Word("inf", SignOf(d, sign), <<>>)
    ELSE NumberText(SignOf(d, sign), DigitsOf(d.c), d.e, form,
                    DotPlace(d, form, dplace)))
   EXCEPT !.percent = percent]

ToSci(d) == ToText(d, "sci", "", FALSE, 1)
ToEng(d) == ToText(d, "eng", "", FALSE, 1)

WordLength(kind) ==
  CASE kind = "num" -> 0 [] kind = "nan" -> 3 [] kind = "snan" -> 4
    [] kind = "inf" -> 8 [] kind = "bad" -> 0
\* The characters of a text.
TextLength(t) ==
  (IF t.sign = "" THEN 0 ELSE 1) + WordLength(t.kind)
  + Len(t.int) + (IF t.dot THEN 1 ELSE 0) + Len(t.frac)
  + (IF t.exp = <<>> THEN 0
     ELSE 2 + Digits(IF t.exp[1] < 0 THEN -t.exp[1] ELSE t.exp[1]))
  + (IF t.percent THEN 1 ELSE 0) + t.left + t.inner + t.right

------------------------------------------------------------------------------
(* Formats: [[fill]align][sign][0][width][,][.prec][type]; a part left out  *)
(* is "", 0, FALSE or <<>>.                                                 *)

NoFormat == [align |-> "", sign |-> "", zero |-> FALSE, width |-> 0,
             comma |-> FALSE, prec |-> <<>>, type |-> ""]

\* mpd_parse_fmt_str refuses these.
RefusedFormat(f) ==
  \/ f.zero /\ f.align # ""
  \/ f.type = "n" /\ f.comma
  \/ f.width > SsizeMax
  \/ f.prec # <<>> /\ f.prec[1] > SsizeMax
\* and makes a mpd_spec_t of the others, in the locale that C starts with.
ParseFmt(f) ==
  [min_width |-> f.width, prec |-> IF f.prec = <<>> THEN -1 ELSE f.prec[1],
   type |-> IF f.type \in {"", "n"} THEN "g" ELSE f.type,
   align |-> IF f.zero THEN "z" ELSE IF f.align = "" THEN ">" ELSE f.align,
   sign |-> IF f.sign = "" THEN "-" ELSE f.sign,
   dot |-> f.comma \/ f.type = "n",
   sep |-> f.comma, grouping |-> IF f.comma THEN <<3, 3>> ELSE <<>>]

GroupSize(spec, g) == IF spec.grouping = <<>> THEN 0 ELSE spec.grouping[g]

\* Mutant: a separator among the padding is not counted as one of it.
AddSepUncounted(spec, src, others) ==
  LET add[left \in Int, take \in Int, g \in Nat, pad \in BOOLEAN,
          out \in Seq(Int)] ==
        LET size == GroupSize(spec, g)
            taken == IF size = 0 \/ take > left THEN left ELSE take
            rest == left - taken
            now == (IF pad THEN Zeros(taken)
                    ELSE SubSeq(src, rest + 1, rest + taken)) \o out
            next == IF size # 0 /\ g < Len(spec.grouping) THEN g + 1 ELSE g
            missing == spec.min_width - Len(now) - others
        IN IF rest # 0
           THEN add[rest, GroupSize(spec, next), next, pad, <<Sep>> \o now]
           ELSE IF spec.align = "z" /\ missing > 0
           THEN add[missing, size - taken, g, TRUE, now]
           ELSE now
  IN add[Len(src), GroupSize(spec, 1), 1, FALSE, <<>>]

\* _mpd_add_sep_dot, from the last digit to the first: left digits of src,
\* or zeros once it pads, take of them in this group.
AddSep(spec, src, others) ==
  LET add[left \in Int, take \in Int, g \in Nat, pad \in BOOLEAN,
          out \in Seq(Int)] ==
        LET size == GroupSize(spec, g)
            taken == IF size = 0 \/ take > left THEN left ELSE take
            rest == left - taken
            now == (IF pad THEN Zeros(taken)
                    ELSE SubSeq(src, rest + 1, rest + taken)) \o out
            next == IF size # 0 /\ g < Len(spec.grouping) THEN g + 1 ELSE g
            missing == spec.min_width - Len(now) - others
        IN IF rest # 0
           THEN add[IF spec.sep /\ pad /\ rest > 1 THEN rest - 1 ELSE rest,
                    GroupSize(spec, next), next, pad,
                    (IF spec.sep THEN <<Sep>> ELSE <<>>) \o now]
           ELSE IF spec.align = "z" /\ missing > 0
           THEN add[missing, size - taken, g, TRUE, now]
           ELSE now
  IN add[Len(src), GroupSize(spec, 1), 1, FALSE, <<>>]

\* _mpd_apply_lconv: others are the characters that no separator goes into.
ApplyLconv(t, spec) ==
  IF ~t.dot /\ ~spec.sep THEN t
  ELSE [t EXCEPT !.int =
          AddSep(spec, t.int, TextLength(t) - Len(t.int))]

\* _mpd_add_pad
AddPad(t, spec) ==
  LET add == spec.min_width - TextLength(t)
      signed == spec.align \in {"=", "z"} /\ t.sign # ""
  IN IF add <= 0 THEN t
     ELSE CASE spec.align = "<" -> [t EXCEPT !.right = add]
            [] spec.align = "^" ->
                 [t EXCEPT !.left = add \div 2, !.right = add - (add \div 2)]
            [] spec.align \in {">", "=", "z"} ->
                 IF signed THEN [t EXCEPT !.inner = add]
                 ELSE [t EXCEPT !.left = add]

\* _mpd_round; once more when the rounding carried into a further digit.
OneMore(r, prec, exp, ctx) ==
  IF Digits(r.d.c) > prec THEN Also(r.st, QRescaleFmt(r.d, exp + 1, ctx))
  ELSE r
RoundTo(d, prec, ctx) ==
  IF prec <= 0 THEN Invalid
  ELSE IF IsSpecial(d) \/ d.c = 0 THEN Result(d, {})
  ELSE OneMore(QRescaleFmt(d, d.e + Digits(d.c) - prec, ctx), prec,
               d.e + Digits(d.c) - prec, ctx)

\* The number that a specification shows: rounded to its precision, and a
\* zero of a fixed form without digits that are not written.
AsFixedZero(r, spec, ctx) ==
  IF spec.type \in {"f", "%"} /\ IsZero(r.d) /\ r.d.e > 0
  THEN Also(r.st, QRescale(r.d, 0, ctx)) ELSE r
FitPrec(x, spec, ctx) ==
  IF spec.prec < 0 THEN Result(x, {})
  ELSE CASE spec.type = "g" ->
              IF Digits(x.c) > (IF spec.prec = 0 THEN 1 ELSE spec.prec)
              THEN RoundTo(x, IF spec.prec = 0 THEN 1 ELSE spec.prec, ctx)
              ELSE Result(x, {})
         [] spec.type = "e" -> RoundTo(x, spec.prec + 1, ctx)
         [] spec.type \in {"f", "%"} -> QRescale(x, -spec.prec, ctx)
Shown(d, spec, ctx) ==
  AsFixedZero(FitPrec(IF spec.type = "%" THEN [d EXCEPT !.e = @ + 2] ELSE d,
                      spec, ctx), spec, ctx)

FormOf(type) == CASE type = "g" -> "sci" [] type = "e" -> "exp"
                  [] type \in {"f", "%"} -> "fixed"
\* The text of the number, with separators and padding.
Laid(plain, spec, special) ==
  IF spec.dot /\ ~special /\ TextLength(plain) > MaxPrec + 36
  THEN [text |-> NoText, st |-> {"Invalid_operation"}]
  ELSE [text |-> AddPad(IF spec.dot /\ ~special THEN ApplyLconv(plain, spec)
                        ELSE plain,
                        IF special /\ spec.align = "z"
                        THEN [spec EXCEPT !.align = ">"] ELSE spec),
        st |-> {}]
FormatShown(shown, spec, dplace) ==
  IF shown.st \cap Errors # {}
  THEN [text |-> NoText, st |-> shown.st \cap Errors]
  ELSE Laid(ToText(shown.d, FormOf(spec.type), spec.sign, spec.type = "%",
                   dplace), spec, IsSpecial(shown.d))

\* mpd_qformat_spec
FormatSpec(d, spec, ctx) ==
  IF spec.min_width > MaxPrec \/ (~IsSpecial(d) /\ spec.prec > MaxPrec)
  THEN [text |-> NoText, st |-> {"Invalid_operation"}]
  ELSE FormatShown(IF IsSpecial(d) THEN Result(d, {})
                   ELSE Shown(d, spec, ctx), spec,
                   IF spec.type = "e" /\ IsZero(d) /\ spec.prec >= 0
                   THEN 1 - spec.prec ELSE 1)

\* mpd_qformat
Format(d, f, ctx) ==
  IF RefusedFormat(f) THEN [text |-> NoText, st |-> {"Invalid_operation"}]
  ELSE FormatSpec(d, ParseFmt(f), ctx)
==============================================================================
