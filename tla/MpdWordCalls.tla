----------------------------- MODULE MpdWordCalls ----------------------------
(***************************************************************************)
(* The functions on coefficients, called with arrays of words: the sums,   *)
(* products, quotients and shifts that the operations of MpdArith rest on, *)
(* the three ways to multiply, and the conversion of integers from and to  *)
(* other bases (mpdecimal.c).  Each is compared with arithmetic on columns *)
(* of words that never carries before the end.                             *)
(***************************************************************************)
EXTENDS MpdProduct

CONSTANT WordOffers \* for each function the arrays it is called with

VARIABLES
  wcall, \* the call made last: op, u and v
  wret   \* what it returned
wordVars == <<wcall, wret>>

------------------------------------------------------------------------------
(* Other bases.                                                             *)

\* _baseconv_to_u16 and _baseconv_to_smaller, the second with Divide in
\* base MPD_RADIX too: the remainders, until nothing is left.
RECURSIVE ToBase(_, _)
ToBase(u, base) ==
  LET x == ShortDivB(u, base, Radix)
      rest == Slice(x.w, 0, RealSize(x.w))
  IN <<x.rem>> \o (IF rest = <<0>> THEN <<>> ELSE ToBase(rest, base))

\* Words, and one more where a carry is left.
WithCarry(x) == IF x.carry # 0 THEN Append(x.w, x.carry) ELSE x.w
\* Mutant: the carry of the sum is dropped.
FromU16NoCarry(words, base) ==
  LET n == Len(words)
      s[i \in 1..n] ==
        IF i = 1 THEN <<words[n]>>
        ELSE ShortAdd(WithCarry(ShortMulC(s[i - 1], base)),
                      words[n + 1 - i]).w
  IN s[n]
\* _coeff_from_u16
FromU16(words, base) ==
  LET n == Len(words)
      s[i \in 1..n] ==
        IF i = 1 THEN <<words[n]>>
        ELSE WithCarry(ShortAdd(WithCarry(ShortMulC(s[i - 1], base)),
                                words[n + 1 - i]))
  IN s[n]
\* _coeff_from_smaller_base
FromSmallerBase(words, base) ==
  LET n == Len(words)
      s[i \in 1..n] ==
        IF i = 1 THEN <<words[n]>>
        ELSE WithCarry(ShortAddB(WithCarry(ShortMulB(s[i - 1], base, Radix)),
                                 words[n + 1 - i], Radix))
  IN s[n]

------------------------------------------------------------------------------
(* The calls.                                                               *)

NoWords == [w |-> <<>>]
WordInit == wcall = [op |-> "none"] /\ wret = NoWords

ProductOps2 == {"mul", "kmul", "fntmul", "kmul_fnt"}
CallWords(op, u, v, r) == wcall' = [op |-> op, u |-> u, v |-> v] /\ wret' = r

CallSum(op, u, v) ==
  \/ op = "baseadd" /\ CallWords(op, u, v, BaseAdd(u, v))
  \/ op = "basesub" /\ CallWords(op, u, v, BaseSub(u, v))
  \/ op = "baseincr" /\ CallWords(op, u, v, BaseIncr(u))
CallProduct(op, u, v) ==
  \* of one decimal with itself, or with another one; and each method alone
  \/ \E same \in {u = v, FALSE} :
       LET big == Larger(u, v)
           small == Smaller(u, v)
           method == IF op = "mul" THEN Method(big, small) ELSE op
       IN /\ op \in ProductOps2
          /\ CallWords(op, u, v, MultiplyBy(method, big, small, same))
  \* a product modulo W - 2^k + 1; v is the other factor and k
  \/ op = "mulmod" /\ CallWords(op, u, v,
       [w |-> <<X64MulMod(u[1], v[1], v[2], W - 2^v[2] + 1)>>])
CallQuotient(op, u, v) ==
  \/ op = "basedivmod" /\ CallWords(op, u, v, BaseDivMod(u, v))
  \/ op = "shortdiv" /\ LET x == ShortDiv(u, v[1])
                        IN CallWords(op, u, v, [q |-> x.w, r |-> <<x.rem>>])
CallShift(op, u, v) ==
  \/ op = "baseshiftl" /\ CallWords(op, u, v, [w |-> BaseShiftL(u, v[1])])
  \/ op = "baseshiftr" /\ CallWords(op, u, v, BaseShiftR(u, v[1]))
\* mpd_qexport_u16/_u32 and mpd_qimport_u16/_u32, of integers; v is the base
CallConversion(op, u, v) ==
  \/ op = "export" /\ CallWords(op, u, v, [w |-> ToBase(u, v[1])])
  \/ op = "import_u16" /\ CallWords(op, u, v, [w |-> FromU16(u, v[1])])
  \/ op = "import_u32" /\ CallWords(op, u, v, [w |-> FromSmallerBase(u, v[1])])

WordNext ==
  /\ wcall.op = "none"
  /\ \E op \in DOMAIN WordOffers : \E args \in WordOffers[op] :
       \/ CallSum(op, args[1], args[2])
       \/ CallProduct(op, args[1], args[2])
       \/ CallQuotient(op, args[1], args[2])
       \/ CallShift(op, args[1], args[2])
       \/ CallConversion(op, args[1], args[2])
WordSpec == WordInit /\ [][WordNext]_wordVars

------------------------------------------------------------------------------
(* Numbers without a limit, as sums in columns of base b.                   *)

WordAt(u, i) == IF i + 1 \in DOMAIN u THEN u[i + 1] ELSE 0
\* The n lowest digits, and all that is left, of columns F(0), F(1) ...
Carried(F(_), n, b) ==
  LET s[i \in 0..n] ==
        IF i = 0 THEN [w |-> <<>>, carry |-> 0]
        ELSE LET prev == s[i - 1]
                 x == F(i - 1) + prev.carry
             IN [w |-> Append(prev.w, x % b), carry |-> x \div b]
  IN s[n]
\* Words that are a number with nothing above them.
IsNumber(w, F(_), b) ==
  LET c == Carried(F, Len(w), b) IN c.carry = 0 /\ w = c.w

\* The column i of a product: the low halves of the products that fall into
\* it, and the high halves of those below.
Pairs(u, v, i) == {j \in 0..i : j < Len(u) /\ i - j < Len(v)}
HalfSum(u, v, i, Part(_)) ==
  MapThenSumSet(LAMBDA j : Part(u[j + 1] * v[i - j + 1]), Pairs(u, v, i))
ProductColumn(u, v, i) ==
  HalfSum(u, v, i, LAMBDA x : x % Radix)
  + (IF i = 0 THEN 0 ELSE HalfSum(u, v, i - 1, LAMBDA x : x \div Radix))
IsProduct(w, u, v) == IsNumber(w, LAMBDA i : ProductColumn(u, v, i), Radix)

\* Below: -1, 0 or 1, from the highest word down.
OrderOf(u, v) ==
  LET n == Max({Len(u), Len(v)})
      differ == {i \in 0..n : WordAt(u, i) # WordAt(v, i)}
  IN IF differ = {} THEN 0
     ELSE Sgn(WordAt(u, Max(differ)) - WordAt(v, Max(differ)))

DigitOf(u, i) == (WordAt(u, i \div RDigits) \div 10^(i % RDigits)) % 10
Half(u, n) == \* what is cut off, against half a unit
  IF n = 0 THEN -1
  ELSE IF DigitOf(u, n - 1) # 5 THEN Sgn(DigitOf(u, n - 1) - 5)
  ELSE IF \E i \in 0..(n - 2) : DigitOf(u, i) # 0 THEN 1 ELSE 0

QuotientOps2 == {"basedivmod", "shortdiv"}

\* Sums, differences, quotients and shifts of coefficients are those of the
\* numbers: no carry is lost where a sum overflows the word, a quotient and
\* its remainder make the dividend again though every digit of it was
\* guessed, a shift tells what it cut off from half a unit.
WordsAreNumbers ==
  LET u == wcall.u
      v == wcall.v
  IN /\ wcall.op = "baseadd" =>
          IsNumber(Append(wret.w, wret.carry),
                   LAMBDA i : WordAt(u, i) + WordAt(v, i), Radix)
     /\ wcall.op = "baseincr" =>
          IsNumber(Append(wret.w, wret.carry),
                   LAMBDA i : WordAt(u, i) + (IF i = 0 THEN 1 ELSE 0), Radix)
     /\ wcall.op = "basesub" =>
          IsNumber(u, LAMBDA i : WordAt(wret.w, i) + WordAt(v, i), Radix)
     /\ wcall.op \in QuotientOps2 =>
          /\ OrderOf(wret.r, v) < 0
          /\ IsNumber(u, LAMBDA i : ProductColumn(wret.q, v, i)
                                    + WordAt(wret.r, i), Radix)
     /\ wcall.op = "baseshiftl" =>
          \A i \in 0..(RDigits * (Len(wret.w) + 1)) :
            DigitOf(wret.w, i) = IF i < v[1] THEN 0 ELSE DigitOf(u, i - v[1])
     /\ wcall.op = "baseshiftr" =>
          /\ \A i \in 0..(RDigits * Len(u)) :
               DigitOf(wret.w, i) = DigitOf(u, i + v[1])
          /\ Sgn(wret.rnd - 5) = Half(u, v[1])
          /\ (wret.rnd = 0) = (\A i \in 0..(v[1] - 1) : DigitOf(u, i) = 0)
     /\ wcall.op = "export" =>
          /\ Last(wret.w) # 0 \/ u = <<0>>
          /\ FromU16(wret.w, v[1]) = u /\ FromSmallerBase(wret.w, v[1]) = u
     /\ wcall.op \in {"import_u16", "import_u32"} =>
          ToBase(wret.w, v[1]) = Slice(u, 0, RealSize(u))

\* However two coefficients are multiplied, in rows, by Karatsuba's halves
\* or by transforms modulo three primes, the product is the same, and the
\* block of memory computed for Karatsuba's algorithm is never left.
ProductsAgree ==
  /\ wcall.op \in ProductOps2 =>
       wret.kept /\ IsProduct(wret.w, wcall.u, wcall.v)
  /\ wcall.op = "mulmod" =>
       wret.w[1] = (wcall.u[1] * wcall.v[1]) % (W - 2^wcall.v[2] + 1)
==============================================================================
