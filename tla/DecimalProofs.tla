---------------------------- MODULE DecimalProofs ----------------------------
(***************************************************************************)
(* The decimals of a script, for every precision, every limit of the       *)
(* exponent and every argument; and the sums, products and quotients of    *)
(* libmpdec, which are the exact result rounded once in every context.     *)
(***************************************************************************)
EXTENDS GuestDecimal, MpdExact, NatRecursion, SequenceTheorems

------------------------------------------------------------------------------
(* Powers of ten.                                                           *)

LEMMA Powers ==
  /\ Pow10 \in [Nat -> Nat] /\ Pow10[0] = 1
  /\ \A n \in Nat : Pow10[n + 1] = 10 * Pow10[n] /\ Pow10[n] >= 1
<1> DEFINE step == [n \in Nat |-> [x \in Int |-> 10 * x]]
           Obeyed(f) == f = [n \in Nat |-> IF n = 0 THEN 1 ELSE 10 * f[n - 1]]
           Good == {n \in Nat : Pow10[n] \in Nat /\ Pow10[n] >= 1}
<1>1. step \in [Nat -> [Int -> Int]]
  OBVIOUS
<1>2. PICK f \in [Nat -> Int] :
        f = [n \in Nat |-> IF n = 0 THEN 1 ELSE step[n][f[n - 1]]]
  <2> HIDE DEF step
  <2>1. \A base \in Int : \E f \in [Nat -> Int] :
          f = [n \in Nat |-> IF n = 0 THEN base ELSE step[n][f[n - 1]]]
    BY <1>1, IntRecursionExists, Zenon
  <2>2. 1 \in Int
    OBVIOUS
  <2> QED
    BY <2>1, <2>2, Zenon
<1>3. Obeyed(f)
  <2>1. ASSUME NEW n \in Nat
        PROVE  (IF n = 0 THEN 1 ELSE step[n][f[n - 1]])
                 = (IF n = 0 THEN 1 ELSE 10 * f[n - 1])
    OBVIOUS
  <2> QED
    BY <1>2, <2>1, Zenon
<1>4. Obeyed(Pow10)
  BY <1>3, Zenon DEF Pow10
<1>5. /\ Pow10[0] = 1
      /\ \A n \in Nat : Pow10[n + 1] = 10 * Pow10[n]
  <2>1. \A n \in Nat : Pow10[n] = IF n = 0 THEN 1 ELSE 10 * Pow10[n - 1]
    BY <1>4
  <2>2. \A n \in Nat : n + 1 \in Nat /\ n + 1 # 0 /\ (n + 1) - 1 = n
    OBVIOUS
  <2>3. Pow10[0] = 1
    BY <2>1
  <2>4. ASSUME NEW n \in Nat
        PROVE  Pow10[n + 1] = 10 * Pow10[n]
    BY <2>1, <2>2, Zenon
  <2> QED
    BY <2>3, <2>4
<1>6. 0 \in Good
  BY <1>5
<1>7. ASSUME NEW n \in Nat, n \in Good
      PROVE  n + 1 \in Good
  BY <1>5, <1>7
<1> HIDE DEF Good
<1>8. \A n \in Nat : n \in Good
  BY <1>6, <1>7, NatIsInductive
<1>9. \A n \in Nat : Pow10[n] \in Nat /\ Pow10[n] >= 1
  BY <1>8 DEF Good
<1>10. Pow10 \in [Nat -> Nat]
  <2>1. Pow10 = [n \in Nat |-> Pow10[n]]
    BY <1>4
  <2> QED
    BY <1>9, <2>1
<1> QED
  BY <1>5, <1>9, <1>10

LEMMA PowersAre ==
  /\ Pow10[0] = 1 /\ Pow10[1] = 10
  /\ \A n \in Nat : Pow10[n] \in Nat \ {0}
<1>1. Pow10[0 + 1] = 10 * Pow10[0]
  BY Powers
<1> QED
  BY <1>1, Powers

\* Powers multiply.
LEMMA PowersAdd ==
  ASSUME NEW m \in Nat, NEW n \in Nat
  PROVE  Pow10[m + n] = Pow10[m] * Pow10[n]
<1> DEFINE Good == {k \in Nat : Pow10[m + k] = Pow10[m] * Pow10[k]}
<1>1. 0 \in Good
  BY Powers
<1>2. ASSUME NEW k \in Nat, k \in Good
      PROVE  k + 1 \in Good
  <2>1. Pow10[m + (k + 1)] = 10 * Pow10[m + k]
    <3>1. m + (k + 1) = (m + k) + 1 /\ m + k \in Nat
      OBVIOUS
    <3> QED
      BY <3>1, Powers, Zenon
  <2> DEFINE a == Pow10[m]
             b == Pow10[k]
  <2>2. a \in Nat /\ b \in Nat /\ Pow10[m + k] = a * b /\ Pow10[k + 1] = 10 * b
    BY <1>2, Powers
  <2> HIDE DEF a, b
  <2>3. a * (10 * b) = 10 * (a * b)
    BY <2>2
  <2> QED
    BY <2>1, <2>2, <2>3 DEF a
<1> HIDE DEF Good
<1>3. \A k \in Nat : k \in Good
  BY <1>1, <1>2, NatIsInductive
<1> QED
  BY <1>3 DEF Good

\* A larger exponent is a larger power, and larger than the exponent.
LEMMA PowersGrow ==
  ASSUME NEW m \in Nat
  PROVE  /\ m < Pow10[m]
         /\ \A n \in Nat : m <= n => Pow10[m] <= Pow10[n]
         /\ \A n \in Nat : m < n => Pow10[m] < Pow10[n]
<1> DEFINE Good == {k \in Nat : k < Pow10[k]}
<1>1. 0 \in Good
  BY Powers
<1>2. ASSUME NEW k \in Nat, k \in Good
      PROVE  k + 1 \in Good
  BY <1>2, Powers
<1> HIDE DEF Good
<1>3. \A k \in Nat : k \in Good
  BY <1>1, <1>2, NatIsInductive
<1>4. ASSUME NEW n \in Nat, m <= n
      PROVE  Pow10[m] <= Pow10[n] /\ (m < n => Pow10[m] < Pow10[n])
  <2> DEFINE k == n - m
             a == Pow10[m]
             b == Pow10[k]
  <2>1. k \in Nat /\ n = m + k
    BY <1>4
  <2>2. Pow10[n] = a * b /\ a \in Nat /\ a >= 1 /\ b \in Nat /\ b >= 1
    BY <2>1, PowersAdd, Powers
  <2>3. m < n => b >= 10
    <3> SUFFICES ASSUME m < n
                 PROVE  b >= 10
      OBVIOUS
    <3>1. k - 1 \in Nat /\ k = (k - 1) + 1
      BY <2>1
    <3>2. b = 10 * Pow10[k - 1] /\ Pow10[k - 1] \in Nat /\ Pow10[k - 1] >= 1
      BY <3>1, Powers
    <3> QED
      BY <3>2
  <2> HIDE DEF a, b
  <2>4. PICK e \in Nat : b = 1 + e
    BY <2>2, b - 1 \in Nat
  <2>5. a * (1 + e) = a + a * e /\ a * e \in Nat
    BY <2>2
  <2>6. e >= 1 => a * e >= 1
    <3> SUFFICES ASSUME e >= 1
                 PROVE  a * e >= 1
      OBVIOUS
    <3>1. PICK x, y \in Nat : a = 1 + x /\ e = 1 + y
      BY <2>2, a - 1 \in Nat, e - 1 \in Nat
    <3>2. (1 + x) * (1 + y) = 1 + x + y + x * y /\ x * y \in Nat
      OBVIOUS
    <3> QED
      BY <3>1, <3>2
  <2> QED
    BY <2>2, <2>3, <2>4, <2>5, <2>6 DEF a
<1> QED
  BY <1>3, <1>4 DEF Good

\* Quotients of quotients by powers.
LEMMA PowersDivide ==
  ASSUME NEW c \in Nat, NEW m \in Nat, NEW n \in Nat
  PROVE  /\ c \div Pow10[m] \in Nat /\ c % Pow10[m] \in 0..(Pow10[m] - 1)
         /\ c = Pow10[m] * (c \div Pow10[m]) + (c % Pow10[m])
         /\ (c \div Pow10[m]) \div Pow10[n] = c \div Pow10[m + n]
<1> DEFINE a == Pow10[m]
           b == Pow10[n]
           q == c \div a
           r == c % a
           p == q \div b
           t == q % b
<1>1. a \in Nat \ {0} /\ b \in Nat \ {0}
  BY Powers
<1> HIDE DEF a, b
<1>2. q \in Nat /\ r \in 0..(a - 1) /\ c = a * q + r
  BY <1>1, QuotientsBound
<1>3. p \in Nat /\ t \in 0..(b - 1) /\ q = b * p + t
  BY <1>1, <1>2, QuotientsBound
<1> HIDE DEF q, r, p, t
<1>4. c = (a * b) * p + (a * t + r) /\ a * b \in Nat /\ a * t \in Nat
  <2>1. a * (b * p + t) = (a * b) * p + a * t /\ (a * b) * p \in Nat
        /\ a * b \in Nat /\ a * t \in Nat
    BY <1>1, <1>3
  <2> QED
    BY <1>2, <1>3, <2>1
<1>5. a * t + r < a * b
  <2>1. PICK x \in Nat : b = t + 1 + x
    BY <1>1, <1>3, b - t - 1 \in Nat
  <2>2. a * (t + 1 + x) = a * t + a + a * x /\ a * x \in Nat
    BY <1>1, <1>3
  <2> QED
    BY <1>1, <1>2, <1>4, <2>1, <2>2
<1>6. c \div (a * b) = p
  <2> DEFINE ab == a * b
             s == a * t + r
  <2>1. ab \in Nat \ {0} /\ s \in 0..(ab - 1) /\ c = ab * p + s
    BY <1>1, <1>2, <1>4, <1>5
  <2> HIDE DEF ab, s
  <2>2. c \div ab = p
    BY <1>3, <2>1, QuotientIs
  <2> QED
    BY <2>2 DEF ab
<1>7. Pow10[m + n] = a * b
  BY PowersAdd DEF a, b
<1>8. (c \div a) \div b = c \div (a * b)
  BY <1>6 DEF q, p
<1>9. c \div a \in Nat /\ c % a \in 0..(a - 1) /\ c = a * (c \div a) + (c % a)
  BY <1>1, QuotientsBound
<1>10. (c \div a) \div b = c \div Pow10[m + n]
  BY <1>7, <1>8
<1> QED
  BY <1>9, <1>10 DEF a, b

LEMMA PowersDivideByTen ==
  ASSUME NEW c \in Nat, NEW m \in Nat
  PROVE  c \div Pow10[m] \in Nat /\ (c \div Pow10[m]) \div 10 = c \div Pow10[m + 1]
<1>1. (c \div Pow10[m]) \div Pow10[1] = c \div Pow10[m + 1]
  BY PowersDivide, 1 \in Nat
<1> QED
  BY <1>1, PowersDivide, PowersAre

\* A product by a power, divided by it.
LEMMA PowersCancel ==
  ASSUME NEW c \in Nat, NEW n \in Nat, NEW m \in Nat, m <= n
  PROVE  /\ c * Pow10[n] \in Nat
         /\ (c * Pow10[n]) \div Pow10[m] = c * Pow10[n - m]
         /\ (c * Pow10[n]) % Pow10[m] = 0
<1> DEFINE a == Pow10[m]
           b == Pow10[n - m]
           d == c * b
<1>1. a \in Nat \ {0} /\ b \in Nat \ {0} /\ n - m \in Nat /\ m + (n - m) = n
  BY Powers
<1>2. Pow10[n] = a * b
  BY <1>1, PowersAdd
<1> HIDE DEF a, b
<1>3. c * (a * b) = a * (c * b) /\ d \in Nat
  BY <1>1
<1> HIDE DEF d
<1>4. c * Pow10[n] = a * d
  BY <1>2, <1>3 DEF d
<1> DEFINE x == c * Pow10[n]
<1>5. x \in Nat /\ x = a * d + 0
  BY <1>1, <1>3, <1>4
<1> HIDE DEF x
<1>6. x \div a = d
  <2>1. 0 \in 0..(a - 1)
    BY <1>1
  <2> QED
    BY <1>1, <1>3, <1>5, <2>1, QuotientIs
<1>7. x % a = 0
  <2>1. x = a * (x \div a) + (x % a) /\ x % a \in 0..(a - 1)
    BY <1>1, <1>5, QuotientsBound
  <2>2. x = a * d + (x % a)
    BY <1>6, <2>1
  <2> DEFINE y == a * d
             z == x % a
  <2>3. x = y + 0 /\ x = y + z /\ y \in Nat /\ z \in Int
    BY <1>1, <1>3, <1>5, <2>1, <2>2
  <2> HIDE DEF y, z
  <2>4. z = 0
    BY <2>3
  <2> QED
    BY <2>4 DEF z
<1> QED
  BY <1>5, <1>6, <1>7 DEF x, a, b, d

------------------------------------------------------------------------------
(* Digits of a coefficient, and the zeros it ends with.                     *)

\* mpd_word_digits obeys its recursion.
LEMMA WordDigitsDef ==
  \A c \in Nat :
    WordDigits[c] = IF c < 10 THEN 1 ELSE 1 + WordDigits[c \div 10]
<1> DEFINE stop == {c \in Nat : c < 10}
           next == [c \in Nat |-> c \div 10]
           step == [c \in Nat |-> [x \in Nat |-> 1 + x]]
           Obeyed(f) ==
             f = [c \in Nat |-> IF c < 10 THEN 1 ELSE 1 + f[c \div 10]]
<1>1. PICK f \in [Nat -> Nat] : \A p \in Nat : Follows(f, p, 1, stop, next, step)
  <2>1. next \in [Nat -> Nat] /\ step \in [Nat -> [Nat -> Nat]] /\ 1 \in Nat
    OBVIOUS
  <2>2. \A p \in Nat : p \notin stop => next[p] < p
    OBVIOUS
  <2> HIDE DEF stop, next, step
  <2> QED
    BY <2>1, <2>2, DescentExists
<1>2. Obeyed(f)
  <2>1. ASSUME NEW c \in Nat
        PROVE  f[c] = IF c < 10 THEN 1 ELSE 1 + f[c \div 10]
    <3>1. CASE c < 10
      BY <1>1, <3>1 DEF Follows
    <3>2. CASE ~(c < 10)
      <4>1. c \div 10 \in Nat /\ f[c \div 10] \in Nat
        OBVIOUS
      <4>2. f[c] = step[c][f[next[c]]]
        BY <1>1, <3>2 DEF Follows
      <4> QED
        BY <3>2, <4>1, <4>2
    <3> QED
      BY <3>1, <3>2
  <2> QED
    BY <2>1
<1>3. WordDigits = CHOOSE g : Obeyed(g)
  BY DEF WordDigits
<1> HIDE DEF Obeyed
<1>4. Obeyed(WordDigits)
  BY <1>2, <1>3
<1> QED
  BY <1>4 DEF Obeyed

\* A number lies between the powers that its digits say.
LEMMA DigitsAre ==
  ASSUME NEW c \in Nat
  PROVE  /\ Digits(c) \in Nat \ {0}
         /\ c < Pow10[Digits(c)]
         /\ c > 0 => Pow10[Digits(c) - 1] <= c
<1> DEFINE Measured(x) == /\ WordDigits[x] \in Nat \ {0}
                          /\ x < Pow10[WordDigits[x]]
                          /\ x > 0 => Pow10[WordDigits[x] - 1] <= x
           Good == {n \in Nat : \A x \in Nat : x < Pow10[n] => Measured(x)}
<1>1. ASSUME NEW x \in Nat, x < 10
      PROVE  Measured(x)
  <2>1. WordDigits[x] = 1
    BY <1>1, WordDigitsDef
  <2>2. Pow10[0] = 1 /\ Pow10[0 + 1] = 10
    BY Powers
  <2> QED
    BY <1>1, <2>1, <2>2
<1>2. 0 \in Good
  BY <1>1, Powers
<1>3. ASSUME NEW n \in Nat, n \in Good, NEW x \in Nat, x < Pow10[n + 1], x >= 10
      PROVE  Measured(x)
  <2> DEFINE q == x \div 10
             d == WordDigits[q]
  <2>1. q \in Nat /\ q < Pow10[n] /\ q > 0 /\ 10 * q <= x /\ x < 10 * q + 10
    BY <1>3, Powers
  <2>2. WordDigits[x] = 1 + d
    BY <1>3, WordDigitsDef
  <2>3. d \in Nat \ {0} /\ q < Pow10[d] /\ Pow10[d - 1] <= q
    <3> HIDE DEF q
    <3>1. \A y \in Nat : y < Pow10[n] => Measured(y)
      BY <1>3
    <3>2. Measured(q)
      BY <2>1, <3>1
    <3> QED
      BY <2>1, <3>2
  <2> HIDE DEF q, d
  <2>4. Pow10[d + 1] = 10 * Pow10[d] /\ Pow10[(d - 1) + 1] = 10 * Pow10[d - 1]
        /\ (d - 1) + 1 = d /\ Pow10[d] \in Nat /\ Pow10[d - 1] \in Nat
    BY <2>3, Powers
  <2>5. x < Pow10[1 + d] /\ Pow10[(1 + d) - 1] <= x
    BY <2>1, <2>3, <2>4
  <2> QED
    BY <2>2, <2>3, <2>5
<1>4. ASSUME NEW n \in Nat, n \in Good
      PROVE  n + 1 \in Good
  <2>1. ASSUME NEW x \in Nat, x < Pow10[n + 1]
        PROVE  Measured(x)
    <3> HIDE DEF Measured, Good
    <3> QED
      BY <1>1, <1>3, <1>4, <2>1
  <2> QED
    BY <2>1
<1> HIDE DEF Good
<1>5. \A n \in Nat : n \in Good
  BY <1>2, <1>4, NatIsInductive
<1>6. Measured(c)
  <2>1. c < Pow10[c]
    BY PowersGrow
  <2> QED
    BY <1>5, <2>1 DEF Good
<1>7. Digits(c) = WordDigits[c]
  BY DEF Digits
<1> QED
  BY <1>6, <1>7

\* And only by them; a smaller number has no more of them.
LEMMA DigitsBound ==
  ASSUME NEW c \in Nat, NEW n \in Nat
  PROVE  /\ n >= 1 /\ c < Pow10[n] => Digits(c) <= n
         /\ Digits(c) <= n => c < Pow10[n]
         /\ Pow10[n] <= c => Digits(c) > n
         /\ n >= 1 /\ c < Pow10[n] /\ Pow10[n - 1] <= c => Digits(c) = n
<1> DEFINE d == Digits(c)
<1>1. d \in Nat \ {0} /\ c < Pow10[d] /\ (c > 0 => Pow10[d - 1] <= c)
  BY DigitsAre
<1> HIDE DEF d
<1>2. Pow10[d] \in Nat /\ Pow10[n] \in Nat /\ Pow10[n] >= 1
  BY <1>1, Powers
<1>3. ASSUME d <= n
      PROVE  c < Pow10[n]
  BY <1>1, <1>2, <1>3, PowersGrow
<1>4. ASSUME n >= 1, c < Pow10[n]
      PROVE  d <= n
  <2>1. CASE c = 0
    <3>1. d = 1
      BY <2>1, WordDigitsDef DEF d, Digits
    <3> QED
      BY <1>4, <3>1
  <2>2. CASE c > 0
    <3>1. d - 1 \in Nat /\ Pow10[d - 1] \in Nat
      BY <1>1, Powers, SMTT(30)
    <3>2. n <= d - 1 => Pow10[n] <= Pow10[d - 1]
      BY <3>1, PowersGrow
    <3> QED
      BY <1>1, <1>2, <1>4, <2>2, <3>1, <3>2
  <2> QED
    BY <2>1, <2>2
<1>5. ASSUME Pow10[n] <= c
      PROVE  d > n
  BY <1>1, <1>2, <1>3, <1>5
<1>6. ASSUME n >= 1, c < Pow10[n], Pow10[n - 1] <= c
      PROVE  d = n
  <2>1. n - 1 \in Nat /\ Pow10[n - 1] \in Nat
    BY <1>6, Powers
  <2>2. d <= n - 1 => Pow10[d] <= Pow10[n - 1]
    BY <1>1, <2>1, PowersGrow
  <2> QED
    BY <1>1, <1>2, <1>4, <1>6, <2>1, <2>2
<1> QED
  BY <1>3, <1>4, <1>5, <1>6 DEF d

\* One digit more for every power.
LEMMA DigitsShiftLeft ==
  ASSUME NEW c \in Nat, c > 0, NEW n \in Nat
  PROVE  /\ c * Pow10[n] \in Nat \ {0}
         /\ Digits(c * Pow10[n]) = Digits(c) + n
<1> DEFINE d == Digits(c)
           a == Pow10[d - 1]
           b == Pow10[d]
           p == Pow10[n]
<1>1. d \in Nat \ {0} /\ c < b /\ a <= c
  BY DigitsAre
<1> HIDE DEF d
<1>2. a \in Nat \ {0} /\ b \in Nat \ {0} /\ p \in Nat \ {0}
  BY <1>1, Powers
<1>3. Pow10[d + n] = b * p /\ Pow10[(d - 1) + n] = a * p
  <2>1. d \in Nat /\ d - 1 \in Nat
    BY <1>1
  <2> HIDE DEF a, b, p
  <2> QED
    BY <2>1, PowersAdd, Zenon DEF a, b, p
<1> HIDE DEF a, b, p
<1>4. c * p \in Nat \ {0} /\ c * p < b * p /\ a * p <= c * p
  <2>1. PICK x, y, z \in Nat : c = a + x /\ b = c + 1 + y /\ p = 1 + z
    BY <1>1, <1>2, c - a \in Nat, b - c - 1 \in Nat, p - 1 \in Nat
  <2>2. /\ (a + x) * p = a * p + x * p /\ (c + 1 + y) * p = c * p + p + y * p
        /\ a * p \in Nat /\ x * p \in Nat /\ y * p \in Nat /\ c * p \in Nat
    BY <1>2, <2>1
  <2>3. c * (1 + z) = c + c * z /\ c * z \in Nat
    BY <2>1
  <2> QED
    BY <1>2, <2>1, <2>2, <2>3
<1> DEFINE x == c * p
<1>5. x \in Nat \ {0} /\ d + n \in Nat /\ d + n >= 1 /\ (d - 1) + n = (d + n) - 1
  BY <1>1, <1>4
<1>6. x < Pow10[d + n] /\ Pow10[(d + n) - 1] <= x
  BY <1>3, <1>4, <1>5
<1> HIDE DEF x
<1>7. Digits(x) = d + n
  BY <1>5, <1>6, DigitsBound
<1> QED
  BY <1>5, <1>7 DEF x, p, d

\* One digit less for every power, as long as there are any.
LEMMA DigitsShiftRight ==
  ASSUME NEW c \in Nat, c > 0, NEW n \in Nat
  PROVE  /\ c \div Pow10[n] \in Nat
         /\ n < Digits(c) => /\ c \div Pow10[n] > 0
                             /\ Digits(c \div Pow10[n]) = Digits(c) - n
         /\ n >= Digits(c) => c \div Pow10[n] = 0
<1> DEFINE d == Digits(c)
           p == Pow10[n]
           q == c \div p
<1>1. d \in Nat \ {0} /\ c < Pow10[d] /\ Pow10[d - 1] <= c
  BY DigitsAre
<1> HIDE DEF d
<1>2. p \in Nat \ {0}
  BY Powers
<1> HIDE DEF p
<1>3. q \in Nat
  BY <1>2, QuotientsBound
<1>4. ASSUME n < d
      PROVE  q > 0 /\ Digits(q) = d - n
  <2> DEFINE a == Pow10[d - n]
             b == Pow10[(d - n) - 1]
  <2>1. d - n \in Nat /\ (d - n) - 1 \in Nat /\ d - n >= 1
        /\ (d - n) + n = d /\ ((d - n) - 1) + n = d - 1
    BY <1>1, <1>4
  <2>2. a \in Nat /\ b \in Nat /\ b >= 1
    BY <2>1, Powers
  <2>3. Pow10[d] = a * p /\ Pow10[d - 1] = b * p
    BY <2>1, PowersAdd DEF p
  <2> HIDE DEF a, b
  <2>4. q < a /\ q >= b
    <3>1. c < a * p /\ c >= b * p
      BY <1>1, <2>3, <1>2, <2>2
    <3> QED
      BY <1>2, <2>2, <3>1, QuotientsBound
  <2> HIDE DEF q
  <2>5. Digits(q) = d - n
    BY <1>3, <2>1, <2>4, DigitsBound DEF a, b
  <2> QED
    BY <1>3, <2>2, <2>4, <2>5
<1>5. ASSUME n >= d
      PROVE  q = 0
  <2>1. c < p
    BY <1>1, <1>5, <1>2, Powers, PowersGrow DEF p
  <2>2. q < 1
    BY <1>2, <2>1, QuotientsBound, c < 1 * p
  <2> QED
    BY <1>3, <2>2
<1> QED
  BY <1>3, <1>4, <1>5 DEF d, p, q

\* mpd_trail_zeros obeys its recursion.
LEMMA EndZerosDef ==
  \A c \in Nat \ {0} :
    EndZeros[c] = IF c % 10 # 0 THEN 0 ELSE 1 + EndZeros[c \div 10]
<1> DEFINE stop == {c \in Nat : c % 10 # 0 \/ c = 0}
           next == [c \in Nat |-> c \div 10]
           step == [c \in Nat |-> [x \in Nat |-> 1 + x]]
           Obeyed(f) ==
             f = [c \in Nat \ {0} |-> IF c % 10 # 0 THEN 0 ELSE 1 + f[c \div 10]]
<1>1. PICK f \in [Nat -> Nat] : \A p \in Nat : Follows(f, p, 0, stop, next, step)
  <2>1. next \in [Nat -> Nat] /\ step \in [Nat -> [Nat -> Nat]] /\ 0 \in Nat
    OBVIOUS
  <2>2. \A p \in Nat : p \notin stop => next[p] < p
    OBVIOUS
  <2> HIDE DEF stop, next, step
  <2> QED
    BY <2>1, <2>2, DescentExists
<1> DEFINE g == [c \in Nat \ {0} |-> f[c]]
<1>2. Obeyed(g)
  <2>1. ASSUME NEW c \in Nat \ {0}
        PROVE  g[c] = IF c % 10 # 0 THEN 0 ELSE 1 + g[c \div 10]
    <3>1. CASE c % 10 # 0
      BY <1>1, <3>1 DEF Follows
    <3>2. CASE c % 10 = 0
      <4>1. c \div 10 \in Nat \ {0} /\ f[c \div 10] \in Nat
        BY <3>2
      <4>2. f[c] = step[c][f[next[c]]]
        BY <1>1, <3>2 DEF Follows
      <4> QED
        BY <3>2, <4>1, <4>2
    <3> QED
      BY <3>1, <3>2
  <2> QED
    BY <2>1
<1>3. EndZeros = CHOOSE h : Obeyed(h)
  BY DEF EndZeros
<1> HIDE DEF Obeyed
<1>4. Obeyed(EndZeros)
  BY <1>2, <1>3
<1> QED
  BY <1>4 DEF Obeyed

\* A number is what is left of it without its zeros, times a power.
LEMMA TrailZerosAre ==
  ASSUME NEW c \in Nat \ {0}
  PROVE  /\ TrailZeros(c) \in Nat
         /\ \E q \in Nat : q % 10 # 0 /\ c = q * Pow10[TrailZeros(c)]
<1> DEFINE Cut(x) == /\ EndZeros[x] \in Nat
                     /\ \E q \in Nat : q % 10 # 0 /\ x = q * Pow10[EndZeros[x]]
           Good == {n \in Nat : \A x \in Nat \ {0} : x <= n => Cut(x)}
<1>1. 0 \in Good
  OBVIOUS
<1>2. ASSUME NEW n \in Nat, n \in Good, NEW x \in Nat \ {0}, x <= n + 1
      PROVE  Cut(x)
  <2>1. CASE x % 10 # 0
    <3>1. EndZeros[x] = 0
      BY <2>1, EndZerosDef
    <3>2. x = x * Pow10[0]
      BY Powers
    <3> QED
      BY <2>1, <3>1, <3>2
  <2>2. CASE x % 10 = 0
    <3> DEFINE y == x \div 10
               z == EndZeros[y]
    <3>1. y \in Nat \ {0} /\ y <= n /\ x = 10 * y
      BY <1>2, <2>2
    <3>2. EndZeros[x] = 1 + z
      BY <2>2, EndZerosDef
    <3>3. z \in Nat /\ \E q \in Nat : q % 10 # 0 /\ y = q * Pow10[z]
      BY <1>2, <3>1
    <3> HIDE DEF y, z
    <3>4. PICK q \in Nat : q % 10 # 0 /\ y = q * Pow10[z]
      BY <3>3
    <3>5. Pow10[z + 1] = 10 * Pow10[z] /\ Pow10[z] \in Nat /\ z + 1 = 1 + z
      BY <3>3, Powers
    <3> DEFINE p == Pow10[z]
    <3>6. p \in Nat
      BY <3>5
    <3> HIDE DEF p
    <3>7. 10 * (q * p) = q * (10 * p)
      BY <3>4, <3>6
    <3>8. x = q * Pow10[1 + z]
      BY <3>1, <3>4, <3>5, <3>7 DEF p
    <3> QED
      BY <3>2, <3>3, <3>4, <3>8
  <2> QED
    BY <2>1, <2>2
<1>3. ASSUME NEW n \in Nat, n \in Good
      PROVE  n + 1 \in Good
  <2> HIDE DEF Cut
  <2> QED
    BY <1>2, <1>3
<1> HIDE DEF Good
<1>4. \A n \in Nat : n \in Good
  BY <1>1, <1>3, NatIsInductive
<1>5. Cut(c)
  <2> HIDE DEF Cut
  <2> QED
    BY <1>4, c <= c DEF Good
<1> QED
  BY <1>5 DEF TrailZeros

\* There is only one way to take them off.
LEMMA TrailZerosIs ==
  ASSUME NEW q \in Nat, q % 10 # 0, NEW n \in Nat
  PROVE  q * Pow10[n] \in Nat \ {0} /\ TrailZeros(q * Pow10[n]) = n
<1> DEFINE Good == {k \in Nat : /\ q * Pow10[k] \in Nat \ {0}
                                /\ EndZeros[q * Pow10[k]] = k}
<1>1. 0 \in Good
  <2>1. q * Pow10[0] = q /\ q \in Nat \ {0}
    BY Powers
  <2> QED
    BY <2>1, EndZerosDef
<1>2. ASSUME NEW k \in Nat, k \in Good
      PROVE  k + 1 \in Good
  <2> DEFINE p == Pow10[k]
             x == q * p
             y == q * Pow10[k + 1]
  <2>1. p \in Nat /\ Pow10[k + 1] = 10 * p
    BY Powers
  <2>2. x \in Nat \ {0} /\ EndZeros[x] = k
    BY <1>2
  <2> HIDE DEF p
  <2>3. q * (10 * p) = 10 * (q * p)
    BY <2>1
  <2>4. y = 10 * x
    BY <2>1, <2>3
  <2> HIDE DEF x, y
  <2>5. y \in Nat \ {0} /\ y % 10 = 0 /\ y \div 10 = x
    BY <2>2, <2>4
  <2>6. EndZeros[y] = k + 1
    BY <2>2, <2>5, EndZerosDef
  <2> QED
    BY <2>5, <2>6 DEF y
<1> HIDE DEF Good
<1>3. \A k \in Nat : k \in Good
  BY <1>1, <1>2, NatIsInductive
<1> QED
  BY <1>3 DEF Good, TrailZeros

------------------------------------------------------------------------------
(* Decimals, contexts, and the decimals that fit a context.                 *)

\* What mpd_qsetprec and its like let through.
ContextOK(ctx) ==
  /\ ctx.prec \in Nat \ {0} /\ ctx.emax \in Nat /\ ctx.emin \in Int
  /\ ctx.emin <= 0 /\ ctx.clamp \in {0, 1}

\* A number has its place in the context, and a NaN's payload too.
FitsIn(d, ctx) ==
  /\ d.k = "fin" => /\ Digits(d.c) <= ctx.prec
                    /\ Etiny(ctx) <= d.e
                    /\ AdjExp(d) <= ctx.emax
                    /\ ctx.clamp = 1 => d.e <= Etop(ctx)
  /\ IsNaN(d) => d.c < Pow10[ctx.prec - ctx.clamp]
Fitting(ctx) == {d \in Decimals : FitsIn(d, ctx)}

LEMMA Limits ==
  ASSUME NEW ctx, ContextOK(ctx)
  PROVE  /\ Etiny(ctx) \in Int /\ Etop(ctx) \in Int
         /\ Etiny(ctx) <= ctx.emin /\ Etiny(ctx) <= Etop(ctx)
         /\ Etop(ctx) = ctx.emax - ctx.prec + 1
         /\ Etiny(ctx) = ctx.emin - ctx.prec + 1
         /\ ctx.prec - ctx.clamp \in Nat
BY DEF ContextOK, Etiny, Etop

LEMMA NumberFields ==
  ASSUME NEW d \in Numbers
  PROVE  /\ d.k = "fin" /\ d.s \in {0, 1} /\ d.c \in Nat /\ d.e \in Int
         /\ ~IsNaN(d) /\ ~IsInf(d) /\ ~IsSpecial(d)
         /\ Digits(d.c) \in Nat \ {0} /\ AdjExp(d) \in Int
         /\ AdjExp(d) = d.e + Digits(d.c) - 1
<1>1. d.k = "fin" /\ d.s \in {0, 1} /\ d.c \in Nat /\ d.e \in Int
  BY DEF Numbers
<1>2. ~IsNaN(d) /\ ~IsInf(d) /\ ~IsSpecial(d)
  BY <1>1 DEF IsNaN, IsInf, IsSpecial
<1>3. Digits(d.c) \in Nat \ {0}
  BY <1>1, DigitsAre
<1> QED
  BY <1>1, <1>2, <1>3 DEF AdjExp

LEMMA FinFields ==
  ASSUME NEW s \in {0, 1}, NEW c \in Nat, NEW e \in Int
  PROVE  /\ Fin(s, c, e) \in Numbers /\ Fin(s, c, e) \in Decimals
         /\ Fin(s, c, e).k = "fin" /\ Fin(s, c, e).s = s
         /\ Fin(s, c, e).c = c /\ Fin(s, c, e).e = e
         /\ AdjExp(Fin(s, c, e)) = e + Digits(c) - 1
         /\ ~IsNaN(Fin(s, c, e)) /\ ~IsInf(Fin(s, c, e))
         /\ ~IsSpecial(Fin(s, c, e))
BY DEF Fin, Numbers, Decimals, AdjExp, IsNaN, IsInf, IsSpecial

LEMMA FinFits ==
  ASSUME NEW ctx, ContextOK(ctx), NEW s \in {0, 1}, NEW c \in Nat, NEW e \in Int,
         Digits(c) <= ctx.prec, Etiny(ctx) <= e,
         e + Digits(c) - 1 <= ctx.emax, ctx.clamp = 1 => e <= Etop(ctx)
  PROVE  Fin(s, c, e) \in Fitting(ctx)
BY FinFields DEF Fitting, FitsIn

LEMMA InfFits ==
  ASSUME NEW ctx, NEW s \in {0, 1}
  PROVE  Inf(s) \in Fitting(ctx) /\ IsInf(Inf(s)) /\ Inf(s).s = s
BY DEF Inf, Special, Fitting, FitsIn, Decimals, Infinities, IsNaN, IsInf

LEMMA NaNFits ==
  ASSUME NEW ctx, ContextOK(ctx), NEW k \in {"qnan", "snan"}, NEW s \in {0, 1},
         NEW c \in Nat, c < Pow10[ctx.prec - ctx.clamp]
  PROVE  [k |-> k, s |-> s, c |-> c, e |-> 0] \in Fitting(ctx)
BY DEF Fitting, FitsIn, Decimals, NotNumbers

LEMMA QNaNFits ==
  ASSUME NEW ctx, ContextOK(ctx)
  PROVE  QNaN \in Fitting(ctx) /\ QNaN \in Decimals
<1>1. 0 < Pow10[ctx.prec - ctx.clamp]
  BY Limits, Powers
<1> QED
  BY <1>1, NaNFits DEF QNaN, Special, Fitting

LEMMA Kinds ==
  ASSUME NEW d \in Decimals
  PROVE  /\ d \in Numbers <=> d.k = "fin"
         /\ d.k = "fin" \/ IsInf(d) \/ IsNaN(d)
         /\ IsNaN(d) <=> d \in NotNumbers
         /\ IsInf(d) <=> d \in Infinities
         /\ d.s \in {0, 1} /\ d.c \in Nat /\ d.e \in Int
BY DEF Decimals, Numbers, Infinities, NotNumbers, IsNaN, IsInf

------------------------------------------------------------------------------
(* Shifts and rounding.                                                     *)

\* What is left is the quotient by the power, and if nothing was cut off the
\* indicator says so.
LEMMA ShiftRIs ==
  ASSUME NEW c \in Nat, NEW n \in Nat
  PROVE  /\ ShiftR(c, n).c = c \div Pow10[n]
         /\ c \div Pow10[n] \in Nat
         /\ c % Pow10[n] = 0 => ShiftR(c, n).rnd = 0
<1>1. Pow10[0] = 1 /\ Pow10[n] \in Nat \ {0}
  BY Powers
<1>2. c \div Pow10[n] \in Nat
  BY PowersDivide
<1>3. CASE c = 0
  <2>1. 0 \div Pow10[n] = 0
    <3> DEFINE p == Pow10[n]
    <3>1. p \in Nat \ {0} /\ 0 \in 0..(p - 1) /\ 0 = p * 0 + 0
      BY <1>1
    <3> HIDE DEF p
    <3>2. 0 \div p = 0
      BY <3>1, QuotientIs
    <3> QED
      BY <3>2 DEF p
  <2> QED
    BY <1>2, <1>3, <2>1 DEF ShiftR
<1>4. CASE n = 0
  BY <1>1, <1>2, <1>4 DEF ShiftR
<1>5. CASE c # 0 /\ n # 0 /\ n > Digits(c)
  <2>1. c \div Pow10[n] = 0
    BY <1>5, DigitsShiftRight, DigitsAre
  <2>2. c % Pow10[n] # 0
    <3>1. c = Pow10[n] * 0 + (c % Pow10[n])
      BY <2>1, PowersDivide
    <3> QED
      BY <1>1, <1>5, <3>1
  <2> QED
    BY <1>2, <1>5, <2>1, <2>2 DEF ShiftR
<1>6. CASE c # 0 /\ n # 0 /\ ~(n > Digits(c))
  <2> DEFINE p == Pow10[n - 1]
             digit == (c \div p) % 10
             rest == c % p
  <2>1. ShiftR(c, n) = [c |-> c \div Pow10[n], rnd |-> Indicator(digit, rest)]
    BY <1>6 DEF ShiftR
  <2>2. ASSUME c % Pow10[n] = 0
        PROVE  digit = 0 /\ rest = 0
    <3> DEFINE q == c \div Pow10[n]
    <3>1. n - 1 \in Nat /\ n - 1 <= n /\ n - (n - 1) = 1
      BY <1>6
    <3>2. c = q * Pow10[n]
      <4>1. q \in Nat /\ c = Pow10[n] * q + 0
        BY <2>2, PowersDivide
      <4> HIDE DEF q
      <4> QED
        BY <1>1, <4>1
    <3>3. q \in Nat
      BY <1>2
    <3> HIDE DEF q
    <3>4. Pow10[1] = 10
      <4>1. Pow10[0 + 1] = 10 * Pow10[0]
        BY Powers
      <4> QED
        BY <1>1, <4>1
    <3>5. c \div p = q * 10 /\ c % p = 0
      <4>1. /\ (q * Pow10[n]) \div Pow10[n - 1] = q * Pow10[n - (n - 1)]
            /\ (q * Pow10[n]) % Pow10[n - 1] = 0
        BY <3>1, <3>3, PowersCancel
      <4> QED
        BY <3>1, <3>2, <3>4, <4>1
    <3> QED
      BY <3>3, <3>5
  <2> HIDE DEF digit, rest
  <2> QED
    BY <1>2, <2>1, <2>2 DEF Indicator
<1> QED
  BY <1>3, <1>4, <1>5, <1>6

\* The largest coefficient has all digits, and one more is a power.
LEMMA MaxCoeffIs ==
  ASSUME NEW ctx, ContextOK(ctx)
  PROVE  MaxCoeff(ctx) \in Nat /\ Digits(MaxCoeff(ctx)) = ctx.prec
<1> DEFINE n == ctx.prec
           p == Pow10[n]
           b == Pow10[n - 1]
<1>1. n \in Nat /\ n - 1 \in Nat /\ n >= 1 /\ (n - 1) + 1 = n
  BY DEF ContextOK
<1>2. p = 10 * b /\ b \in Nat /\ b >= 1
  BY <1>1, Powers
<1> HIDE DEF p, b
<1>3. p - 1 \in Nat /\ p - 1 < p /\ b <= p - 1
  BY <1>2
<1>4. Digits(p - 1) = n
  BY <1>1, <1>3, DigitsBound DEF p, b
<1> QED
  BY <1>3, <1>4 DEF MaxCoeff, p

LEMMA OverflowFits ==
  ASSUME NEW ctx, ContextOK(ctx), NEW s \in {0, 1}
  PROVE  OverflowTo(s, ctx) \in Fitting(ctx)
<1>1. Fin(s, MaxCoeff(ctx), Etop(ctx)) \in Fitting(ctx)
  <2>1. Etop(ctx) + ctx.prec - 1 <= ctx.emax
    BY Limits DEF ContextOK
  <2>2. Digits(MaxCoeff(ctx)) <= ctx.prec
    BY MaxCoeffIs DEF ContextOK
  <2> QED
    BY <2>1, <2>2, MaxCoeffIs, Limits, FinFits
<1> QED
  BY <1>1, InfFits DEF OverflowTo

LEMMA ZeroHasOneDigit == Digits(0) = 1
BY WordDigitsDef DEF Digits

\* What is cut to etiny fits.
LEMMA RoundSubnormalFits ==
  ASSUME NEW ctx, ContextOK(ctx), NEW d \in Numbers, d.c # 0,
         d.e < Etiny(ctx), AdjExp(d) < ctx.emin
  PROVE  RoundSubnormal(d, ctx).d \in Fitting(ctx)
<1> DEFINE n == Etiny(ctx) - d.e
           q == d.c \div Pow10[n]
           t == Etiny(ctx)
           m == Digits(d.c)
<1>1. /\ d.c \in Nat /\ d.c > 0 /\ d.e \in Int /\ d.s \in {0, 1}
      /\ m \in Nat \ {0} /\ d.e + m - 1 < ctx.emin /\ t \in Int
      /\ t = ctx.emin - ctx.prec + 1 /\ t <= Etop(ctx)
      /\ ctx.prec \in Nat \ {0} /\ ctx.emin <= 0 /\ ctx.emax >= 0
      /\ ctx.emin \in Int /\ ctx.emax \in Int
  BY NumberFields, Limits DEF ContextOK
<1>2. n \in Nat
  BY <1>1
<1>3. q \in Nat /\ ShiftR(d.c, n).c = q
  BY <1>1, <1>2, ShiftRIs
<1> HIDE DEF n, m
<1>4. q < Pow10[ctx.prec - 1]
  <2>1. ctx.prec - 1 \in Nat
    BY <1>1
  <2>2. CASE n >= m
    <3>1. q = 0
      BY <1>1, <1>2, <2>2, DigitsShiftRight DEF m
    <3>2. Pow10[ctx.prec - 1] \in Nat /\ Pow10[ctx.prec - 1] >= 1
      BY <2>1, Powers
    <3> QED
      BY <3>1, <3>2
  <2>3. CASE n < m
    <3>1. Digits(q) = m - n
      BY <1>1, <1>2, <2>3, DigitsShiftRight DEF m
    <3>2. m - n <= ctx.prec - 1
      BY <1>1 DEF n
    <3> QED
      BY <1>1, <1>3, <2>1, <3>1, <3>2, DigitsBound
  <2> QED
    BY <1>1, <1>2, <2>2, <2>3
<1> HIDE DEF q
<1>5. ASSUME NEW x \in {q, q + 1}
      PROVE  x \in Nat /\ Fin(d.s, x, t) \in Fitting(ctx)
  <2>1. x \in Nat /\ x <= Pow10[ctx.prec - 1] /\ ctx.prec - 1 \in Nat
        /\ ctx.prec \in Nat /\ ctx.prec - 1 < ctx.prec
    BY <1>1, <1>3, <1>4, <1>5, Powers
  <2>2. Pow10[ctx.prec - 1] < Pow10[ctx.prec] /\ Pow10[ctx.prec] \in Nat
        /\ Pow10[ctx.prec - 1] \in Nat
    BY <2>1, PowersGrow, Powers
  <2>3. Digits(x) <= ctx.prec /\ Digits(x) \in Nat
    BY <1>1, <2>1, <2>2, DigitsBound, DigitsAre
  <2>4. t + Digits(x) - 1 <= ctx.emax
    BY <1>1, <2>3
  <2> QED
    BY <1>1, <2>1, <2>3, <2>4, FinFits
<1>6. ApplyRoundExcess(Fin(d.s, q, t), ShiftR(d.c, n).rnd, ctx)
        \in {Fin(d.s, q, t), Fin(d.s, q + 1, t)}
  BY DEF ApplyRoundExcess, Fin
<1>7. RoundSubnormal(d, ctx).d
        = ApplyRoundExcess(Fin(d.s, q, t), ShiftR(d.c, n).rnd, ctx)
  BY <1>3 DEF RoundSubnormal, CutToEtiny, SubnormalResult, Result, n
<1> QED
  BY <1>5, <1>6, <1>7

\* _mpd_check_exp leaves a number alone or makes one that fits.
LEMMA CheckExpFits ==
  ASSUME NEW ctx, ContextOK(ctx), NEW d \in Numbers
  PROVE  \/ CheckExp(d, ctx).d \in Fitting(ctx)
         \/ /\ CheckExp(d, ctx) = Result(d, {})
            /\ ctx.emin <= AdjExp(d) /\ AdjExp(d) <= ctx.emax
            /\ Digits(d.c) > ctx.prec
<1> DEFINE r == CheckExp(d, ctx)
           t == Etiny(ctx)
           o == Etop(ctx)
           m == Digits(d.c)
           a == AdjExp(d)
<1>1. /\ d.c \in Nat /\ d.e \in Int /\ d.s \in {0, 1} /\ d.k = "fin"
      /\ m \in Nat \ {0} /\ a \in Int /\ a = d.e + m - 1
      /\ t \in Int /\ o \in Int /\ t <= o
      /\ t = ctx.emin - ctx.prec + 1 /\ o = ctx.emax - ctx.prec + 1
      /\ ctx.prec \in Nat \ {0} /\ ctx.emin <= 0 /\ ctx.emax >= 0
      /\ ctx.emin \in Int /\ ctx.emax \in Int
  BY NumberFields, Limits DEF ContextOK
<1>0. d = Fin(d.s, d.c, d.e)
  BY DEF Fin, Numbers
<1> HIDE DEF m, t, o, a
<1>2. CASE a > ctx.emax /\ d.c = 0
  <2> DEFINE e == IF ctx.clamp = 1 THEN o ELSE ctx.emax
  <2>1. r.d = Fin(d.s, 0, e)
    BY <1>2 DEF CheckExp, Result, a, o
  <2>2. e \in Int /\ t <= e /\ e <= ctx.emax /\ (ctx.clamp = 1 => e <= o)
    BY <1>1
  <2> HIDE DEF e
  <2>3. Digits(0) <= ctx.prec /\ e + Digits(0) - 1 <= ctx.emax
    BY <1>1, <2>2, ZeroHasOneDigit
  <2>4. Fin(d.s, 0, e) \in Fitting(ctx)
    BY <1>1, <2>2, <2>3, FinFits DEF t, o
  <2> QED
    BY <2>1, <2>4
<1>3. CASE a > ctx.emax /\ d.c # 0
  <2>1. r.d = OverflowTo(d.s, ctx)
    BY <1>3 DEF CheckExp, Result, a
  <2> QED
    BY <1>1, <2>1, OverflowFits
<1>4. CASE ~(a > ctx.emax) /\ ctx.clamp = 1 /\ d.e > o
  <2> DEFINE c == ShiftL(d.c, d.e - o)
  <2>1. r.d = Fin(d.s, c, o)
    BY <1>4 DEF CheckExp, Result, a, o
  <2>2. c \in Nat /\ Digits(c) <= ctx.prec
    <3>1. CASE d.c = 0
      BY <1>1, <3>1, ZeroHasOneDigit DEF ShiftL
    <3>2. CASE d.c # 0
      <4>1. d.e - o \in Nat
        BY <1>1, <1>4
      <4>2. c = d.c * Pow10[d.e - o]
        BY <3>2 DEF ShiftL
      <4>3. c \in Nat /\ Digits(c) = m + (d.e - o)
        BY <1>1, <3>2, <4>1, <4>2, DigitsShiftLeft DEF m
      <4> QED
        BY <1>1, <1>4, <4>3
    <3> QED
      BY <3>1, <3>2
  <2> HIDE DEF c
  <2>3. Digits(c) \in Nat
    BY <2>2, DigitsAre
  <2>4. Fin(d.s, c, o) \in Fitting(ctx)
    <3>1. o + Digits(c) - 1 <= ctx.emax
      BY <1>1, <2>2, <2>3
    <3> QED
      BY <1>1, <2>2, <3>1, FinFits DEF t, o
  <2> QED
    BY <2>1, <2>4
<1>5. CASE /\ ~(a > ctx.emax) /\ ~(ctx.clamp = 1 /\ d.e > o)
           /\ a < ctx.emin /\ d.c = 0 /\ d.e < t
  <2>1. r.d = Fin(d.s, 0, t)
    BY <1>5 DEF CheckExp, Result, a, o, t
  <2>2. Digits(0) <= ctx.prec /\ t + Digits(0) - 1 <= ctx.emax
    <3>1. 1 <= ctx.prec /\ t + 1 - 1 <= ctx.emax
      BY <1>1
    <3> QED
      BY <3>1, ZeroHasOneDigit
  <2>3. Fin(d.s, 0, t) \in Fitting(ctx)
    BY <1>1, <2>2, FinFits DEF t, o
  <2> QED
    BY <2>1, <2>3
<1>6. CASE /\ ~(a > ctx.emax) /\ ~(ctx.clamp = 1 /\ d.e > o)
           /\ a < ctx.emin /\ d.c # 0 /\ d.e < t
  <2>1. r = RoundSubnormal(d, ctx)
    BY <1>6 DEF CheckExp, a, o, t
  <2> QED
    BY <1>6, <2>1, RoundSubnormalFits DEF a, t
<1>7. CASE /\ ~(a > ctx.emax) /\ ~(ctx.clamp = 1 /\ d.e > o)
           /\ a < ctx.emin /\ ~(d.e < t)
  <2>1. r.d = d
    BY <1>7 DEF CheckExp, Result, a, o, t
  <2>2. m <= ctx.prec
    BY <1>1, <1>7
  <2>3. Fin(d.s, d.c, d.e) \in Fitting(ctx)
    BY <1>1, <1>7, <2>2, FinFits DEF t, o, m
  <2> QED
    BY <1>0, <2>1, <2>3
<1>8. CASE /\ ~(a > ctx.emax) /\ ~(ctx.clamp = 1 /\ d.e > o)
           /\ ~(a < ctx.emin)
  <2>1. r = Result(d, {})
    BY <1>8 DEF CheckExp, a, o
  <2>2. CASE m > ctx.prec
    BY <1>1, <1>8, <2>1, <2>2 DEF m, a
  <2>3. CASE ~(m > ctx.prec)
    <3>1. t <= d.e /\ m <= ctx.prec
      BY <1>1, <1>8, <2>3
    <3>2. Fin(d.s, d.c, d.e) \in Fitting(ctx)
      BY <1>1, <1>8, <3>1, FinFits DEF t, o, m
    <3> QED
      BY <1>0, <2>1, <3>2 DEF Result
  <2> QED
    BY <2>2, <2>3
<1> QED
  BY <1>2, <1>3, <1>4, <1>5, <1>6, <1>7, <1>8

\* Too many digits are cut to the precision, and a carry out of all nines
\* leaves as many.
LEMMA CheckRoundFits ==
  ASSUME NEW ctx, ContextOK(ctx), NEW d \in Numbers,
         ctx.emin <= AdjExp(d), AdjExp(d) <= ctx.emax, Digits(d.c) > ctx.prec
  PROVE  CheckRound(d, ctx).d \in Fitting(ctx)
<1> DEFINE n == Digits(d.c) - ctx.prec
           q == d.c \div Pow10[n]
           e == d.e + n
           rnd == ShiftR(d.c, n).rnd
           x == Fin(d.s, q, e)
           up == q + 1
           a == AdjExp(d)
           p == ctx.prec
<1>1. /\ d.c \in Nat /\ d.e \in Int /\ d.s \in {0, 1} /\ ~IsSpecial(d)
      /\ Digits(d.c) \in Nat \ {0} /\ a = d.e + Digits(d.c) - 1 /\ a \in Int
      /\ Etiny(ctx) = ctx.emin - p + 1 /\ Etop(ctx) = ctx.emax - p + 1
      /\ p \in Nat \ {0} /\ ctx.emin \in Int /\ ctx.emax \in Int
      /\ ctx.emin <= a /\ a <= ctx.emax
  BY NumberFields, Limits DEF ContextOK
<1>2. n \in Nat /\ n < Digits(d.c) /\ n > 0 /\ Digits(d.c) - n = p
  BY <1>1
<1>3. d.c > 0
  BY <1>1, <1>2, ZeroHasOneDigit
<1>4. q \in Nat /\ Digits(q) = p /\ ShiftR(d.c, n).c = q
  BY <1>1, <1>2, <1>3, DigitsShiftRight, ShiftRIs
<1>5. CheckRound(d, ctx).d = ApplyRound(x, rnd, ctx).d
  BY <1>1, <1>2, <1>4 DEF CheckRound, CutToPrec, Also, Result
<1>6. e \in Int /\ e + p - 1 = a
  BY <1>1, <1>2
<1> HIDE DEF n, q, e, rnd, a
<1>7. ASSUME NEW c \in Nat, Digits(c) <= p
      PROVE  Fin(d.s, c, e) \in Fitting(ctx)
  <2>1. /\ Digits(c) \in Nat /\ Etiny(ctx) <= e /\ e + Digits(c) - 1 <= ctx.emax
        /\ e <= Etop(ctx)
    BY <1>1, <1>6, <1>7, DigitsAre
  <2> QED
    BY <1>1, <1>6, <1>7, <2>1, FinFits
<1>8. up \in Nat /\ Digits(up) \in Nat
  BY <1>4, DigitsAre
<1>9. CASE ~RndIncr(x, rnd, ctx)
  <2>1. ApplyRound(x, rnd, ctx).d = x
    BY <1>9 DEF ApplyRound, Result
  <2>2. Digits(q) <= p
    BY <1>1, <1>4
  <2> QED
    BY <1>4, <1>5, <1>7, <2>1, <2>2
<1>10. CASE RndIncr(x, rnd, ctx) /\ Digits(up) <= p
  <2>1. ApplyRound(x, rnd, ctx).d = Fin(d.s, up, e)
    BY <1>10 DEF ApplyRound, Result, Fin
  <2> QED
    BY <1>5, <1>7, <1>8, <1>10, <2>1
<1>11. CASE RndIncr(x, rnd, ctx) /\ ~(Digits(up) <= p)
  <2> DEFINE y == Fin(d.s, up \div 10, e + 1)
  <2>1. ApplyRound(x, rnd, ctx) = CheckExp(y, ctx)
    BY <1>11 DEF ApplyRound, Fin
  <2>2. up \div 10 \in Nat /\ Digits(up \div 10) <= p
    <3>1. q < Pow10[p] /\ p - 1 \in Nat /\ (p - 1) + 1 = p
      BY <1>1, <1>4, DigitsAre
    <3>2. Pow10[p] = 10 * Pow10[p - 1] /\ Pow10[p - 1] \in Nat /\ Pow10[p - 1] >= 1
      BY <3>1, Powers
    <3>3. up \div 10 \in Nat /\ up \div 10 <= Pow10[p - 1]
      BY <1>4, <3>1, <3>2
    <3>4. up \div 10 < Pow10[p]
      BY <3>2, <3>3
    <3> QED
      BY <1>1, <3>3, <3>4, DigitsBound
  <2>3. y \in Numbers /\ y.c = up \div 10
    <3>1. \A s \in {0, 1}, c \in Nat, f \in Int :
            Fin(s, c, f) \in Numbers /\ Fin(s, c, f).c = c
      BY FinFields
    <3>2. d.s \in {0, 1} /\ up \div 10 \in Nat /\ e + 1 \in Int
      BY <1>1, <1>6, <2>2
    <3> QED
      BY <3>1, <3>2
  <2>4. ~(Digits(y.c) > p)
    BY <1>1, <2>2, <2>3, DigitsAre
  <2> HIDE DEF y
  <2> QED
    BY <1>5, <2>1, <2>3, <2>4, CheckExpFits
<1> QED
  BY <1>9, <1>10, <1>11

\* Whatever an operation computed, mpd_qfinalize makes a decimal of the
\* context of it: a number with no more digits than the precision and an
\* exponent within the limits, in each rounding mode, with or without clamp.
THEOREM FinalizeFits ==
  ASSUME NEW ctx, ContextOK(ctx), NEW d \in Decimals
  PROVE  Finalize(d, ctx).d \in Fitting(ctx)
<1>1. CASE IsNaN(d)
  <2> DEFINE p == Pow10[ctx.prec - ctx.clamp]
             c == d.c % p
  <2>1. d \in NotNumbers
    BY <1>1, Kinds
  <2>2. c \in Nat /\ c < p
    <3>1. p \in Nat \ {0} /\ d.c \in Nat
      BY <2>1, Limits, Powers DEF NotNumbers
    <3> HIDE DEF p
    <3> QED
      BY <3>1, QuotientsBound
  <2>3. Finalize(d, ctx).d = [k |-> d.k, s |-> d.s, c |-> c, e |-> 0]
    BY <1>1, <2>1 DEF Finalize, FixNaN, Result, NotNumbers
  <2>4. d.k \in {"qnan", "snan"} /\ d.s \in {0, 1}
    BY <2>1 DEF NotNumbers
  <2> HIDE DEF c
  <2> QED
    BY <2>2, <2>3, <2>4, NaNFits
<1>2. CASE IsInf(d)
  <2>1. Finalize(d, ctx).d = d /\ ~IsNaN(d) /\ d.k = "inf"
    BY <1>2 DEF Finalize, Result, IsInf, IsNaN
  <2> QED
    BY <2>1 DEF Fitting, FitsIn
<1>3. CASE d \in Numbers
  <2> DEFINE r == CheckExp(d, ctx)
  <2>1. Finalize(d, ctx).d = CheckRound(r.d, ctx).d
    BY <1>3, NumberFields DEF Finalize, RoundAfter, Also, Result
  <2>2. CASE r.d \in Fitting(ctx)
    <3>1. CheckRound(r.d, ctx).d = r.d
      <4>1. IsSpecial(r.d) \/ Digits(r.d.c) - ctx.prec <= 0
        <5>1. r.d.c \in Nat /\ (r.d.k = "fin" => Digits(r.d.c) <= ctx.prec)
          BY <2>2, Kinds DEF Fitting, FitsIn
        <5>2. Digits(r.d.c) \in Nat
          BY <5>1, DigitsAre
        <5> QED
          BY <5>1, <5>2 DEF IsSpecial, ContextOK
      <4> QED
        BY <4>1 DEF CheckRound, Result
    <3> QED
      BY <2>1, <2>2, <3>1
  <2>3. CASE r.d \notin Fitting(ctx)
    <3>1. /\ r.d = d /\ ctx.emin <= AdjExp(d) /\ AdjExp(d) <= ctx.emax
          /\ Digits(d.c) > ctx.prec
      BY <1>3, <2>3, CheckExpFits DEF Result
    <3> QED
      BY <1>3, <2>1, <3>1, CheckRoundFits
  <2> QED
    BY <2>2, <2>3
<1> QED
  BY <1>1, <1>2, <1>3, Kinds

\* A decimal that fits already stays what it is; the only flag that it can
\* raise says that it is subnormal.
LEMMA FinalizeKeeps ==
  ASSUME NEW ctx, ContextOK(ctx), NEW d \in Fitting(ctx), d.k = "fin"
  PROVE  Finalize(d, ctx) =
           Result(d, IF d.c # 0 /\ AdjExp(d) < ctx.emin THEN {"Subnormal"} ELSE {})
<1> DEFINE st == IF d.c # 0 /\ AdjExp(d) < ctx.emin THEN {"Subnormal"} ELSE {}
<1>1. d \in Numbers
  BY Kinds DEF Fitting
<1>2. /\ d.c \in Nat /\ Digits(d.c) \in Nat \ {0} /\ AdjExp(d) \in Int
      /\ d.e \in Int /\ ~IsNaN(d) /\ ~IsInf(d) /\ ctx.prec \in Nat
      /\ AdjExp(d) = d.e + Digits(d.c) - 1
      /\ Etiny(ctx) \in Int /\ Etop(ctx) \in Int
      /\ ctx.emin \in Int /\ ctx.emax \in Int
  BY <1>1, NumberFields, Limits DEF ContextOK
<1>3. /\ Digits(d.c) <= ctx.prec /\ Etiny(ctx) <= d.e /\ AdjExp(d) <= ctx.emax
      /\ (ctx.clamp = 1 => d.e <= Etop(ctx))
  BY <1>1 DEF Fitting, FitsIn
<1>4. CheckExp(d, ctx) = Result(d, st)
  <2>1. ~(AdjExp(d) > ctx.emax) /\ ~(ctx.clamp = 1 /\ d.e > Etop(ctx))
        /\ ~(d.e < Etiny(ctx))
    BY <1>2, <1>3
  <2> QED
    BY <2>1 DEF CheckExp
<1>5. CheckRound(d, ctx) = Result(d, {})
  <2>1. Digits(d.c) - ctx.prec <= 0
    BY <1>2, <1>3
  <2> QED
    BY <2>1 DEF CheckRound
<1> HIDE DEF st
<1>6. Finalize(d, ctx) = Result(d, st)
  BY <1>2, <1>4, <1>5 DEF Finalize, RoundAfter, Also, Result
<1> QED
  BY <1>6 DEF st

------------------------------------------------------------------------------
(* Equal decimals.                                                          *)

LEMMA MinOfTwo ==
  ASSUME NEW x \in Int, NEW y \in Int
  PROVE  Min({x, y}) = IF x <= y THEN x ELSE y
<1> DEFINE m == IF x <= y THEN x ELSE y
           Least(z) == z \in {x, y} /\ \A i \in {x, y} : z <= i
<1>1. Least(m)
  OBVIOUS
<1>2. \A z : Least(z) => z = m
  OBVIOUS
<1>3. Min({x, y}) = CHOOSE z : Least(z)
  BY DEF Min
<1> HIDE DEF Least, m
<1>4. Least(Min({x, y}))
  BY <1>1, <1>3
<1>5. Min({x, y}) = m
  BY <1>2, <1>4
<1> QED
  BY <1>5 DEF m

\* Decimals that compare equal, but for NaNs: both infinite on one side, both
\* zero, or numbers with one value and the same place of the first digit.
LEMMA CmpIsZero ==
  ASSUME NEW d \in Decimals, NEW e \in Decimals, ~IsNaN(d), ~IsNaN(e),
         Cmp(d, e) = 0
  PROVE  \/ d.k = "inf" /\ e.k = "inf" /\ d.s = e.s
         \/ d.k = "fin" /\ e.k = "fin" /\ d.c = 0 /\ e.c = 0
         \/ /\ d.k = "fin" /\ e.k = "fin" /\ d.c # 0 /\ e.c # 0 /\ d.s = e.s
            /\ AdjExp(d) = AdjExp(e)
            /\ d.e > e.e => d.c * Pow10[d.e - e.e] = e.c
            /\ d.e <= e.e => d.c = e.c * Pow10[e.e - d.e]
<1>1. /\ d.s \in {0, 1} /\ e.s \in {0, 1} /\ d.c \in Nat /\ e.c \in Nat
      /\ d.e \in Int /\ e.e \in Int
      /\ d.k \in {"fin", "inf"} /\ e.k \in {"fin", "inf"}
  BY Kinds DEF IsInf
<1>2. CASE d.k = "inf" \/ e.k = "inf"
  BY <1>1, <1>2 DEF Cmp, IsInf, ArithSign
<1>3. CASE ~IsInf(d) /\ ~IsInf(e) /\ (d.c = 0 \/ e.c = 0)
  BY <1>1, <1>3 DEF Cmp, IsInf, ArithSign
<1>4. CASE ~IsInf(d) /\ ~IsInf(e) /\ d.c # 0 /\ e.c # 0
  <2>1. d.k = "fin" /\ e.k = "fin" /\ d \in Numbers /\ e \in Numbers
    BY <1>1, <1>4, Kinds DEF IsInf
  <2>2. d.s = e.s
    BY <1>1, <1>4 DEF Cmp
  <2>3. CmpAbs(d, e) * ArithSign(d) = 0
    BY <1>4, <2>2 DEF Cmp
  <2>4. CmpAbs(d, e) = IF AdjExp(d) # AdjExp(e) THEN Sgn(AdjExp(d) - AdjExp(e))
                       ELSE CmpSameAdjExp(d, e)
    BY <1>4 DEF CmpAbs
  <2>5. AdjExp(d) \in Int /\ AdjExp(e) \in Int
    BY <2>1, NumberFields
  <2>6. \A n \in Int : Sgn(n) \in {-1, 0, 1} /\ (Sgn(n) = 0 <=> n = 0)
    BY DEF Sgn
  <2> DEFINE up == IF d.e > e.e THEN d.c * Pow10[d.e - e.e] ELSE d.c
             down == IF d.e > e.e THEN e.c ELSE e.c * Pow10[e.e - d.e]
  <2>7. up \in Int /\ down \in Int /\ CmpSameAdjExp(d, e) = Sgn(up - down)
    <3>1. CASE d.e > e.e
      <4>1. d.e - e.e \in Nat /\ d.e - e.e > 0
        BY <1>1, <3>1
      <4>2. Pow10[d.e - e.e] \in Nat
        BY <4>1, Powers
      <4> QED
        BY <1>1, <3>1, <4>1, <4>2 DEF CmpSameAdjExp
    <3>2. CASE ~(d.e > e.e)
      <4>1. e.e - d.e \in Nat /\ ~(d.e - e.e > 0) /\ -(d.e - e.e) = e.e - d.e
        BY <1>1, <3>2
      <4>2. Pow10[e.e - d.e] \in Nat
        BY <4>1, Powers
      <4> QED
        BY <1>1, <3>2, <4>1, <4>2 DEF CmpSameAdjExp
    <3> QED
      BY <3>1, <3>2
  <2>8. CmpAbs(d, e) \in {-1, 0, 1}
    <3> HIDE DEF up, down
    <3> QED
      BY <2>4, <2>5, <2>6, <2>7
  <2>9. CmpAbs(d, e) = 0
    <3>1. ArithSign(d) \in {-1, 1}
      BY DEF ArithSign
    <3> QED
      BY <2>3, <2>8, <3>1
  <2>10. AdjExp(d) = AdjExp(e)
    <3>1. AdjExp(d) # AdjExp(e) => Sgn(AdjExp(d) - AdjExp(e)) # 0
      BY <2>5, <2>6
    <3> QED
      BY <2>4, <2>9, <3>1
  <2>11. up = down
    <3> HIDE DEF up, down
    <3>1. Sgn(up - down) = 0
      BY <2>4, <2>7, <2>9, <2>10
    <3> QED
      BY <2>6, <2>7, <3>1
  <2> QED
    BY <1>1, <1>4, <2>1, <2>2, <2>10, <2>11
<1> QED
  BY <1>1, <1>2, <1>3, <1>4 DEF IsInf

\* The reduced form of a number: its zeros moved into the exponent, as far
\* as that may go.
ReducedAt(c, e, top) ==
  LET m == Min({TrailZeros(c), top - e}) IN <<e + m, c \div Pow10[m]>>

\* Numbers of one value have one reduced form.
LEMMA ReducedAgree ==
  ASSUME NEW c \in Nat \ {0}, NEW e \in Int, NEW k \in Nat, NEW top \in Int,
         e + k <= top
  PROVE  ReducedAt(c * Pow10[k], e, top) = ReducedAt(c, e + k, top)
<1> DEFINE z == TrailZeros(c)
           p == Pow10[k]
           d == c * p
           m == Min({z, top - (e + k)})
           n == Min({TrailZeros(d), top - e})
<1>1. PICK q \in Nat : q % 10 # 0 /\ c = q * Pow10[z]
  BY TrailZerosAre
<1>2. z \in Nat
  BY TrailZerosAre
<1> HIDE DEF z
<1>3. d = q * Pow10[z + k]
  <2> DEFINE a == Pow10[z]
  <2>1. a \in Nat /\ p \in Nat
    BY <1>2, Powers
  <2>2. Pow10[z + k] = a * p
    BY <1>2, PowersAdd
  <2>3. c = q * a
    BY <1>1
  <2> HIDE DEF a, p
  <2>4. (q * a) * p = q * (a * p)
    BY <1>1, <2>1
  <2> QED
    BY <2>2, <2>3, <2>4
<1>4. d \in Nat \ {0} /\ TrailZeros(d) = z + k
  BY <1>1, <1>2, <1>3, TrailZerosIs
<1> HIDE DEF d
<1>5. n = m + k /\ m \in Nat /\ m <= z
  <2>1. m = IF z <= top - (e + k) THEN z ELSE top - (e + k)
    BY <1>2, MinOfTwo
  <2>2. n = IF z + k <= top - e THEN z + k ELSE top - e
    BY <1>2, <1>4, MinOfTwo
  <2> HIDE DEF m, n
  <2> QED
    BY <1>2, <2>1, <2>2
<1> HIDE DEF m, n
<1>6. c \div Pow10[m] = q * Pow10[z - m]
  <2>0. z \in Nat /\ m \in Nat /\ m <= z /\ q \in Nat
    BY <1>1, <1>2, <1>5
  <2>1. (q * Pow10[z]) \div Pow10[m] = q * Pow10[z - m]
    BY <2>0, PowersCancel
  <2> QED
    BY <1>1, <2>1
<1>7. d \div Pow10[n] = q * Pow10[z - m]
  <2>1. n \in Nat /\ z + k \in Nat /\ n <= z + k /\ (z + k) - n = z - m
    BY <1>2, <1>5
  <2>2. (q * Pow10[z + k]) \div Pow10[n] = q * Pow10[(z + k) - n]
    BY <1>1, <2>1, PowersCancel
  <2> QED
    BY <1>3, <2>1, <2>2
<1>8. e + n = (e + k) + m
  BY <1>2, <1>5
<1> QED
  BY <1>6, <1>7, <1>8 DEF ReducedAt, m, n, d, z

\* mpd_qreduce, of a number that fits.
LEMMA QReduceIs ==
  ASSUME NEW ctx, ContextOK(ctx), ctx.clamp = 0, NEW d \in Fitting(ctx),
         d.k = "fin"
  PROVE  LET r == QReduce(d, ctx)
             at == ReducedAt(d.c, d.e, ctx.emax)
         IN IF d.c = 0 THEN <<r.d.e, r.d.c>> = <<0, 0>> /\ r.st = {}
            ELSE /\ <<r.d.e, r.d.c>> = at
                 /\ r.st = IF AdjExp(d) < ctx.emin THEN {"Subnormal"} ELSE {}
<1>1. d \in Numbers /\ ~IsNaN(d) /\ ~IsInf(d) /\ ~IsSpecial(d)
  BY Kinds, NumberFields DEF Fitting
<1> DEFINE st == IF d.c # 0 /\ AdjExp(d) < ctx.emin THEN {"Subnormal"} ELSE {}
<1>2. Finalize(d, ctx) = Result(d, st)
  BY FinalizeKeeps
<1>3. QReduce(d, ctx) = Reduced(Result(d, st), ctx.emax)
  BY <1>1, <1>2 DEF QReduce, ContextOK
<1> HIDE DEF st
<1>4. CASE d.c = 0
  <2>1. QReduce(d, ctx) = Result(Fin(d.s, 0, 0), st)
    BY <1>1, <1>3, <1>4 DEF Reduced, Result
  <2>2. st = {}
    BY <1>4 DEF st
  <2> QED
    BY <1>4, <2>1, <2>2 DEF Result, Fin
<1>5. CASE d.c # 0
  <2> DEFINE m == Min({TrailZeros(d.c), ctx.emax - d.e})
  <2>1. QReduce(d, ctx) = Result(Fin(d.s, d.c \div Pow10[m], d.e + m), st)
    BY <1>1, <1>3, <1>5 DEF Reduced, Result, ZerosToDrop
  <2>2. ReducedAt(d.c, d.e, ctx.emax) = <<d.e + m, d.c \div Pow10[m]>>
    BY DEF ReducedAt
  <2>3. st = IF AdjExp(d) < ctx.emin THEN {"Subnormal"} ELSE {}
    BY <1>5 DEF st
  <2> HIDE DEF m
  <2> QED
    BY <1>5, <2>1, <2>2, <2>3 DEF Result, Fin
<1> QED
  BY <1>4, <1>5

\* Two decimals that fit and are eql? have the same hash, or raise both.
LEMMA EqlAgree ==
  ASSUME ContextOK(Context), NEW d \in Fitting(Context), NEW e \in Fitting(Context),
         ~EqlP(d, e).raised, EqlP(d, e).val
  PROVE  Hash(d) = Hash(e)
<1>0. Context.clamp = 0
  BY DEF Context
<1>1. d \in Decimals /\ e \in Decimals
  BY DEF Fitting
<1>2. ~IsNaN(d) /\ ~IsNaN(e)
  <2> SUFFICES ASSUME IsNaN(d) \/ IsNaN(e)
               PROVE  FALSE
    OBVIOUS
  <2>1. QCmp(d, e).st = {"Invalid_operation"}
    BY DEF QCmp
  <2>2. "Invalid_operation" \in {"Invalid_operation"} \ IgnoredConditions
    BY DEF IgnoredConditions
  <2>3. Raises({"Invalid_operation"})
    BY <2>2 DEF Raises
  <2> QED
    BY <2>1, <2>3 DEF EqlP, IsSame, Answer
<1>3. Cmp(d, e) = 0
  BY <1>2 DEF EqlP, IsSame, Answer, QCmp
<1> DEFINE emax == Context.emax
<1>4. CASE d.k = "inf" /\ e.k = "inf" /\ d.s = e.s
  <2>1. d = e
    BY <1>1, <1>4 DEF Decimals, Numbers, Infinities, NotNumbers
  <2> QED
    BY <2>1
<1>5. CASE d.k = "fin" /\ e.k = "fin" /\ d.c = 0 /\ e.c = 0
  <2>1. /\ <<QReduce(d, Context).d.e, QReduce(d, Context).d.c>> = <<0, 0>>
        /\ <<QReduce(e, Context).d.e, QReduce(e, Context).d.c>> = <<0, 0>>
        /\ QReduce(d, Context).st = {} /\ QReduce(e, Context).st = {}
    BY <1>0, <1>5, QReduceIs
  <2> QED
    BY <2>1 DEF Hash, HashOf
<1>6. CASE /\ d.k = "fin" /\ e.k = "fin" /\ d.c # 0 /\ e.c # 0 /\ d.s = e.s
           /\ AdjExp(d) = AdjExp(e)
           /\ d.e > e.e => d.c * Pow10[d.e - e.e] = e.c
           /\ d.e <= e.e => d.c = e.c * Pow10[e.e - d.e]
  <2>1. /\ d.c \in Nat \ {0} /\ e.c \in Nat \ {0} /\ d.e \in Int /\ e.e \in Int
        /\ emax \in Int
    BY <1>1, <1>6, Kinds DEF ContextOK
  <2>2. d.e <= emax /\ e.e <= emax
    <3>1. ASSUME NEW x \in {d, e}
          PROVE  x.e <= emax
      <4>1. x \in Numbers /\ AdjExp(x) <= emax
        BY <1>1, <1>6, Kinds DEF Fitting, FitsIn
      <4> HIDE DEF emax
      <4> QED
        BY <2>1, <4>1, NumberFields
    <3> QED
      BY <3>1
  <2> HIDE DEF emax
  <2>3. ReducedAt(d.c, d.e, emax) = ReducedAt(e.c, e.e, emax)
    <3>1. CASE d.e > e.e
      <4> DEFINE k == d.e - e.e
      <4>1. k \in Nat /\ e.e + k = d.e /\ e.e + k <= emax /\ d.c * Pow10[k] = e.c
        BY <1>6, <2>1, <2>2, <3>1
      <4> HIDE DEF k
      <4>2. ReducedAt(d.c * Pow10[k], e.e, emax) = ReducedAt(d.c, e.e + k, emax)
        BY <2>1, <4>1, ReducedAgree, ZenonT(40)
      <4> QED
        BY <4>1, <4>2
    <3>2. CASE d.e <= e.e
      <4> DEFINE k == e.e - d.e
      <4>1. k \in Nat /\ d.e + k = e.e /\ d.e + k <= emax /\ e.c * Pow10[k] = d.c
        BY <1>6, <2>1, <2>2, <3>2
      <4> HIDE DEF k
      <4>2. ReducedAt(e.c * Pow10[k], d.e, emax) = ReducedAt(e.c, d.e + k, emax)
        BY <2>1, <4>1, ReducedAgree
      <4> QED
        BY <4>1, <4>2
    <3> QED
      BY <2>1, <3>1, <3>2
  <2> DEFINE u == QReduce(d, Context)
             v == QReduce(e, Context)
  <2>4. <<u.d.e, u.d.c>> = <<v.d.e, v.d.c>> /\ u.st = v.st
    BY <1>0, <1>6, <2>3, QReduceIs DEF emax
  <2> QED
    BY <2>4 DEF Hash, HashOf
<1> QED
  BY <1>1, <1>2, <1>3, <1>4, <1>5, <1>6, CmpIsZero

------------------------------------------------------------------------------
(* The number that a sequence of digits shows.                              *)

\* The sums that NumberOf makes.
SumsUp(f, s) ==
  f = [i \in 0..Len(s) |-> IF i = 0 THEN 0 ELSE 10 * f[i - 1] + s[i]]

\* The sum at the end is the number, whoever computed the sums.
LEMMA NumberIs ==
  ASSUME NEW s \in Seq(Int), NEW f \in [0..Len(s) -> Int], f[0] = 0,
         \A i \in 1..Len(s) : f[i] = 10 * f[i - 1] + s[i]
  PROVE  NumberOf(s) = f[Len(s)]
<1> DEFINE g == CHOOSE h : SumsUp(h, s)
<1>1. NumberOf(s) = g[Len(s)]
  BY DEF NumberOf, SumsUp
<1>2. SumsUp(f, s)
  <2>1. ASSUME NEW i \in 0..Len(s)
        PROVE  f[i] = IF i = 0 THEN 0 ELSE 10 * f[i - 1] + s[i]
    OBVIOUS
  <2> QED
    BY <2>1 DEF SumsUp
<1>3. SumsUp(g, s)
  BY <1>2
<1> HIDE DEF g
<1> DEFINE Good == {n \in Nat : n <= Len(s) => g[n] = f[n]}
<1>4. 0 \in Good
  BY <1>3 DEF SumsUp
<1>5. ASSUME NEW n \in Nat, n \in Good
      PROVE  n + 1 \in Good
  <2> SUFFICES ASSUME n + 1 <= Len(s)
               PROVE  g[n + 1] = f[n + 1]
    OBVIOUS
  <2>1. g[n + 1] = 10 * g[n] + s[n + 1]
    BY <1>3 DEF SumsUp
  <2>2. f[n + 1] = 10 * f[n] + s[n + 1]
    OBVIOUS
  <2>3. g[n] = f[n]
    BY <1>5
  <2> QED
    BY <2>1, <2>2, <2>3
<1> HIDE DEF Good
<1>6. \A n \in Nat : n \in Good
  BY <1>4, <1>5, NatIsInductive
<1> QED
  BY <1>1, <1>6 DEF Good

\* A number has no more digits than the sequence that shows it.
LEMMA NumberBound ==
  ASSUME NEW s \in Seq(0..9)
  PROVE  NumberOf(s) \in Nat /\ NumberOf(s) < Pow10[Len(s)]
<1> DEFINE m == Len(s)
           step == [i \in 1..m |-> [x \in Int |-> 10 * x + s[i]]]
<1>1. m \in Nat /\ \A i \in 1..m : s[i] \in 0..9
  OBVIOUS
<1>2. step \in [1..m -> [Int -> Int]]
  BY <1>1
<1>3. PICK f \in [0..m -> Int] :
        f = [n \in 0..m |-> IF n = 0 THEN 0 ELSE step[n][f[n - 1]]]
  <2> HIDE DEF step, m
  <2>1. \A base \in Int : \E f \in [0..m -> Int] :
          f = [n \in 0..m |-> IF n = 0 THEN base ELSE step[n][f[n - 1]]]
    BY <1>1, <1>2, IntRecursionUpToExists, Zenon
  <2>2. 0 \in Int
    OBVIOUS
  <2> QED
    BY <2>1, <2>2, Zenon
<1>4. f[0] = 0
  BY <1>1, <1>3
<1>5. ASSUME NEW i \in 1..m
      PROVE  f[i] = 10 * f[i - 1] + s[i]
  <2>1. i \in 0..m /\ i # 0 /\ f[i - 1] \in Int
    BY <1>1
  <2>2. f[i] = step[i][f[i - 1]]
    BY <1>3, <2>1
  <2> QED
    BY <2>1, <2>2
<1>6. NumberOf(s) = f[m]
  <2>1. s \in Seq(Int)
    OBVIOUS
  <2> HIDE DEF step
  <2> QED
    BY <1>4, <1>5, <2>1, NumberIs
<1> HIDE DEF step, m
<1> DEFINE Good == {n \in Nat : n <= m => f[n] \in Nat /\ f[n] < Pow10[n]}
<1>7. 0 \in Good
  BY <1>4, PowersAre
<1>8. ASSUME NEW n \in Nat, n \in Good
      PROVE  n + 1 \in Good
  <2> SUFFICES ASSUME n + 1 <= m
               PROVE  f[n + 1] \in Nat /\ f[n + 1] < Pow10[n + 1]
    OBVIOUS
  <2> DEFINE a == f[n]
             b == s[n + 1]
             p == Pow10[n]
  <2>1. f[n + 1] = 10 * f[n] + s[n + 1] /\ s[n + 1] \in 0..9
    <3>1. n + 1 \in 1..m /\ (n + 1) - 1 = n
      BY <1>1
    <3> QED
      BY <1>1, <1>5, <3>1
  <2>2. f[n] \in Nat /\ f[n] < Pow10[n]
    BY <1>1, <1>8
  <2>3. Pow10[n + 1] = 10 * p /\ p \in Nat
    BY Powers
  <2>4. f[n + 1] = 10 * a + b /\ b \in 0..9 /\ a \in Nat /\ a < p
    BY <2>1, <2>2
  <2> HIDE DEF a, b, p, Good
  <2>5. 10 * a + b \in Nat /\ 10 * a + b < 10 * p
    BY <2>3, <2>4
  <2> QED
    BY <2>3, <2>4, <2>5
<1> HIDE DEF Good
<1>9. \A n \in Nat : n \in Good
  BY <1>7, <1>8, NatIsInductive
<1> QED
  BY <1>1, <1>6, <1>9 DEF Good, m

\* The digits of a number, of which the first is not 0.
LEMMA DigitsOfAre ==
  ASSUME NEW c \in Nat
  PROVE  /\ DigitsOf(c) \in Seq(0..9) /\ Len(DigitsOf(c)) = Digits(c)
         /\ \A i \in 1..Digits(c) :
              DigitsOf(c)[i] = (c \div Pow10[Digits(c) - i]) % 10
         /\ c > 0 => DigitsOf(c)[1] # 0
         /\ c = 0 => DigitsOf(c) = <<0>>
<1> DEFINE n == Digits(c)
           d(i) == (c \div Pow10[n - i]) % 10
<1>1. n \in Nat \ {0}
  BY DigitsAre
<1>2. \A i \in 1..n : d(i) \in 0..9
  <2> SUFFICES ASSUME NEW i \in 1..n
               PROVE  d(i) \in 0..9
    OBVIOUS
  <2>1. n - i \in Nat
    BY <1>1
  <2>2. c \div Pow10[n - i] \in Nat
    BY <2>1, PowersDivide
  <2> QED
    BY <2>2
<1>3. DigitsOf(c) = [i \in 1..n |-> d(i)]
  BY DEF DigitsOf
<1>4. c > 0 => d(1) # 0
  <2> SUFFICES ASSUME c > 0
               PROVE  d(1) # 0
    OBVIOUS
  <2> DEFINE q == c \div Pow10[n - 1]
  <2>1. n - 1 \in Nat /\ n - 1 < n /\ n - (n - 1) = 1
    BY <1>1
  <2>2. q \in Nat /\ q > 0 /\ Digits(q) = 1
    BY <1>1, <2>1, DigitsShiftRight
  <2> HIDE DEF q
  <2>3. q < 10
    <3>1. q < Pow10[1] /\ Pow10[0 + 1] = 10
      BY <2>2, DigitsAre, Powers
    <3> QED
      BY <3>1
  <2> QED
    BY <2>2, <2>3 DEF q
<1>5. c = 0 => n = 1 /\ d(1) = 0
  BY ZeroHasOneDigit, Powers
<1> HIDE DEF d, n
<1>6. DigitsOf(c) \in Seq(0..9) /\ Len(DigitsOf(c)) = n
  BY <1>1, <1>2, <1>3
<1>7. \A i \in 1..n : DigitsOf(c)[i] = d(i)
  BY <1>3
<1>8. c = 0 => DigitsOf(c) = <<0>>
  BY <1>3, <1>5
<1> QED
  BY <1>1, <1>4, <1>6, <1>7, <1>8 DEF n, d

\* The digits of a number with zeros behind them show it times a power.
LEMMA NumberOfShown ==
  ASSUME NEW c \in Nat, NEW k \in Nat, NEW t \in Seq(0..9),
         Len(t) = Digits(c) + k,
         \A i \in 1..Digits(c) : t[i] = DigitsOf(c)[i],
         \A i \in (Digits(c) + 1)..(Digits(c) + k) : t[i] = 0
  PROVE  NumberOf(t) = c * Pow10[k]
<1> DEFINE n == Digits(c)
           v(i) == IF i <= n THEN c \div Pow10[n - i] ELSE c * Pow10[i - n]
           f == [i \in 0..(n + k) |-> v(i)]
<1>1. n \in Nat \ {0} /\ c < Pow10[n] /\ Pow10[0] = 1
  BY DigitsAre, PowersAre
<1>0. /\ Len(t) = n + k
      /\ \A i \in 1..n : t[i] = (c \div Pow10[n - i]) % 10
      /\ \A i \in (n + 1)..(n + k) : t[i] = 0
  BY DigitsOfAre
<1>11. c \div Pow10[n] = 0
  <2>1. Pow10[n] \in Nat \ {0}
    BY <1>1, PowersAre
  <2>2. c < 1 * Pow10[n]
    BY <1>1, <2>1
  <2>3. c \div Pow10[n] \in Nat /\ c \div Pow10[n] < 1
    BY <2>1, <2>2, QuotientsBound
  <2> QED
    BY <2>3
<1> HIDE DEF n
<1>2. ASSUME NEW i \in 0..(n + k)
      PROVE  v(i) \in Nat
  <2>1. CASE i <= n
    <3>1. n - i \in Nat
      BY <1>1, <2>1
    <3>2. c \div Pow10[n - i] \in Nat
      BY <3>1, PowersDivide
    <3> QED
      BY <2>1, <3>2
  <2>2. CASE ~(i <= n)
    <3>1. i - n \in Nat
      BY <1>1, <2>2
    <3>2. Pow10[i - n] \in Nat
      BY <3>1, PowersAre
    <3> QED
      BY <2>2, <3>2
  <2> QED
    BY <2>1, <2>2
<1>3. v(0) = 0
  BY <1>1, <1>11
<1>4. ASSUME NEW i \in 1..n
      PROVE  v(i) = 10 * v(i - 1) + t[i]
  <2> DEFINE w == n - i
             q == c \div Pow10[w]
  <2>1. w \in Nat /\ w + 1 = n - (i - 1) /\ i <= n /\ i - 1 <= n
    BY <1>1
  <2>2. v(i - 1) = c \div Pow10[w + 1] /\ v(i) = q
    BY <2>1
  <2>3. t[i] = q % 10
    BY <1>0
  <2> HIDE DEF w, v
  <2>4. q \in Nat /\ q \div 10 = c \div Pow10[w + 1]
    BY <2>1, PowersDivideByTen
  <2> HIDE DEF q
  <2>5. v(i - 1) = q \div 10
    BY <2>2, <2>4
  <2>6. q = 10 * (q \div 10) + (q % 10)
    BY <2>4
  <2> QED
    BY <2>2, <2>3, <2>5, <2>6
<1>5. ASSUME NEW i \in (n + 1)..(n + k)
      PROVE  v(i) = 10 * v(i - 1) + t[i]
  <2> DEFINE j == (i - 1) - n
             p == Pow10[j]
  <2>1. j \in Nat /\ i - n = j + 1 /\ n + j = i - 1 /\ ~(i <= n)
    BY <1>1
  <2>2. Pow10[j + 1] = 10 * p /\ p \in Nat
    BY <2>1, Powers
  <2>3. v(i) = c * (10 * p)
    BY <2>1, <2>2
  <2>4. v(i - 1) = c * p
    <3>1. CASE j = 0
      <4>1. i - 1 <= n /\ n - (i - 1) = 0
        BY <1>1, <2>1, <3>1
      <4>3. p = 1
        BY <1>1, <3>1
      <4>2. v(i - 1) = c \div Pow10[0]
        BY <4>1
      <4> QED
        BY <1>1, <4>2, <4>3
    <3>2. CASE j # 0
      <4>1. ~(i - 1 <= n)
        BY <1>1, <2>1, <3>2
      <4> QED
        BY <4>1
    <3> QED
      BY <3>1, <3>2
  <2>5. t[i] = 0
    BY <1>0
  <2> HIDE DEF v, p
  <2>6. c * (10 * p) = 10 * (c * p)
    BY <2>2
  <2>7. c * p \in Nat
    BY <2>2
  <2> QED
    BY <2>3, <2>4, <2>5, <2>6, <2>7
<1>6. v(n + k) = c * Pow10[k]
  <2>1. CASE k = 0
    <3>1. n + k <= n /\ n - (n + k) = 0
      BY <1>1, <2>1
    <3>2. v(n + k) = c \div Pow10[0]
      BY <3>1
    <3> QED
      BY <1>1, <2>1, <3>2
  <2>2. CASE k # 0
    <3>1. ~(n + k <= n) /\ (n + k) - n = k
      BY <1>1, <2>2
    <3> QED
      BY <3>1
  <2> QED
    BY <2>1, <2>2
<1> HIDE DEF v
<1>7. f \in [0..Len(t) -> Int] /\ Len(t) = n + k
  BY <1>0, <1>2
<1>8. f[0] = 0 /\ f[Len(t)] = c * Pow10[k]
  <2>1. 0 \in 0..(n + k) /\ n + k \in 0..(n + k)
    BY <1>1
  <2> QED
    BY <1>0, <1>3, <1>6, <2>1
<1>9. ASSUME NEW i \in 1..Len(t)
      PROVE  f[i] = 10 * f[i - 1] + t[i]
  <2>1. i \in 0..(n + k) /\ i - 1 \in 0..(n + k)
    BY <1>0, <1>1
  <2>2. v(i) = 10 * v(i - 1) + t[i]
    BY <1>0, <1>1, <1>4, <1>5, SMTT(30)
  <2> QED
    BY <2>1, <2>2
<1> HIDE DEF f
<1>10. t \in Seq(Int)
  OBVIOUS
<1> QED
  BY <1>7, <1>8, <1>9, <1>10, NumberIs

\* The smallest of some numbers.
LEMMA MinIs ==
  ASSUME NEW T \in SUBSET Nat, T # {}
  PROVE  Min(T) \in T /\ \A i \in T : Min(T) <= i
<1> DEFINE Least(n) == n \in T /\ \A i \in T : n <= i
<1>1. \E n : Least(n)
  BY HasSmallest
<1>2. Min(T) = CHOOSE n : Least(n)
  BY DEF Min
<1> HIDE DEF Least
<1>3. Least(Min(T))
  BY <1>1, <1>2
<1> QED
  BY <1>3 DEF Least

\* What is left of digits without the zeros that they start with.
LEMMA PayloadIs ==
  ASSUME NEW s \in Seq(0..9), NEW z \in 0..Len(s), \A i \in 1..z : s[i] = 0,
         z < Len(s) => s[z + 1] # 0
  PROVE  /\ Payload(s) \in Seq(0..9) /\ Len(Payload(s)) = Len(s) - z
         /\ \A i \in 1..(Len(s) - z) : Payload(s)[i] = s[z + i]
<1> DEFINE counts == {i \in DOMAIN s : s[i] # 0}
           n == Len(s)
<1>1. n \in Nat /\ DOMAIN s = 1..n /\ \A i \in 1..n : s[i] \in 0..9
  OBVIOUS
<1>2. Payload(s) = IF counts = {} THEN <<>> ELSE SubSeq(s, Min(counts), n)
  BY DEF Payload
<1>3. z \in 0..n /\ (z < n => s[z + 1] # 0)
  OBVIOUS
<1> SUFFICES /\ Payload(s) \in Seq(0..9) /\ Len(Payload(s)) = n - z
             /\ \A i \in 1..(n - z) : Payload(s)[i] = s[z + i]
  OBVIOUS
<1> HIDE DEF n
<1>4. z \in Nat /\ (z = n \/ z < n)
  BY <1>1, <1>3
<1>5. CASE z = n
  <2>1. counts = {}
    BY <1>1, <1>5
  <2> HIDE DEF counts
  <2>2. Payload(s) = <<>>
    BY <1>2, <2>1
  <2> QED
    BY <1>1, <1>5, <2>2
<1>6. CASE z < n
  <2>1. z + 1 \in counts /\ \A i \in counts : z + 1 <= i
    <3>1. z + 1 \in 1..n /\ s[z + 1] # 0
      BY <1>1, <1>3, <1>4, <1>6
    <3>2. ASSUME NEW i \in 1..n, s[i] # 0
          PROVE  z + 1 <= i
      <4>1. i \notin 1..z
        BY <3>2
      <4> QED
        BY <1>1, <1>4, <4>1
    <3> QED
      BY <1>1, <3>1, <3>2
  <2>2. counts \in SUBSET Nat /\ counts # {}
    BY <1>1, <2>1
  <2>3. Min(counts) = z + 1
    <3> HIDE DEF counts
    <3>1. Min(counts) \in counts /\ Min(counts) <= z + 1
      BY <2>1, <2>2, MinIs
    <3>2. z + 1 <= Min(counts) /\ Min(counts) \in Nat
      BY <2>1, <2>2, <3>1
    <3> QED
      BY <1>4, <3>1, <3>2
  <2>4. Payload(s) = SubSeq(s, z + 1, n)
    BY <1>2, <2>2, <2>3
  <2> HIDE DEF counts
  <2>5. z + 1 \in Int /\ n \in Int /\ (n - (z + 1)) + 1 = n - z /\ z + 1 <= n
        /\ \A i \in (z + 1)..n : i \in 1..n
    BY <1>1, <1>4, <1>6
  <2>6. \A i \in (z + 1)..n : s[i] \in 0..9
    BY <1>1, <2>5
  <2>7. /\ SubSeq(s, z + 1, n) \in Seq(0..9)
        /\ Len(SubSeq(s, z + 1, n)) = (n - (z + 1)) + 1
        /\ \A i \in 1..((n - (z + 1)) + 1) :
             SubSeq(s, z + 1, n)[i] = s[((z + 1) + i) - 1]
    BY <2>5, <2>6, SubSeqProperties
  <2>8. \A i \in 1..(n - z) : ((z + 1) + i) - 1 = z + i
    BY <1>1, <1>4
  <2> QED
    BY <2>4, <2>5, <2>7, <2>8
<1> QED
  BY <1>4, <1>5, <1>6

\* Digits start with some zeros, or none.
LEMMA ZerosBefore ==
  ASSUME NEW s \in Seq(0..9)
  PROVE  \E z \in 0..Len(s) : /\ \A i \in 1..z : s[i] = 0
                              /\ z < Len(s) => s[z + 1] # 0
<1> DEFINE n == Len(s)
           T == {z \in Nat : z = n \/ (z < n /\ s[z + 1] # 0)}
<1>1. n \in Nat /\ n \in T
  <2>1. n \in Nat
    OBVIOUS
  <2> HIDE DEF n
  <2> QED
    BY <2>1
<1>2. PICK z \in T : \A i \in T : z <= i
  <2>1. T \in SUBSET Nat /\ T # {}
    BY <1>1
  <2> HIDE DEF T
  <2> QED
    BY <2>1, HasSmallest
<1>3. z \in 0..n /\ (z < n => s[z + 1] # 0)
  BY <1>1
<1>4. ASSUME NEW i \in 1..z
      PROVE  s[i] = 0
  <2>1. i - 1 \in Nat /\ i - 1 < z /\ (i - 1) + 1 = i
    BY <1>1
  <2>2. i - 1 \notin T
    <3> HIDE DEF T
    <3> QED
      BY <1>1, <1>2, <1>3, <2>1
  <2> QED
    BY <1>1, <1>3, <2>1, <2>2
<1> QED
  BY <1>3, <1>4

\* Hence what scan_payload returns are digits, none more than there were.
LEMMA PayloadType ==
  ASSUME NEW s \in Seq(0..9)
  PROVE  /\ Payload(s) \in Seq(0..9) /\ Len(Payload(s)) <= Len(s)
         /\ Relevant(s) \in Seq(0..9)
<1>1. PICK z \in 0..Len(s) : /\ \A i \in 1..z : s[i] = 0
                             /\ z < Len(s) => s[z + 1] # 0
  BY ZerosBefore
<1>2. Payload(s) \in Seq(0..9) /\ Len(Payload(s)) = Len(s) - z
  BY <1>1, PayloadIs
<1>3. <<0>> \in Seq(0..9)
  OBVIOUS
<1>4. Len(s) - z <= Len(s)
  OBVIOUS
<1> QED
  BY <1>2, <1>3, <1>4, Zenon DEF Relevant

LEMMA TextExpType ==
  ASSUME NEW exp \in Seq(Int), NEW n \in Nat
  PROVE  TextExp(exp, n) \in Int
<1>1. exp # <<>> => exp[1] \in Int
  OBVIOUS
<1>2. \A x \in Int : StrToExp(x) \in Int
  BY WordsAssumption DEF StrToExp
<1> DEFINE e == IF exp = <<>> THEN 0 ELSE StrToExp(exp[1])
           shifted == IF e < -SsizeMax - 1 + n THEN -SsizeMax - 1 ELSE e - n
<1>3. e \in Int
  BY <1>1, <1>2
<1> HIDE DEF e
<1>4. shifted \in Int /\ ExpInf \in Int /\ -SsizeMax \in Int
  BY <1>3, WordsAssumption, LimitsAssumption DEF ExpInf
<1>5. TextExp(exp, n) = IF shifted > ExpInf THEN ExpInf
                        ELSE IF shifted = -SsizeMax - 1 THEN -SsizeMax ELSE shifted
  BY DEF TextExp, e
<1> HIDE DEF shifted
<1> QED
  BY <1>4, <1>5

------------------------------------------------------------------------------
(* Every operation of a script leaves a decimal of the context.             *)

LEMMA SetStringFits ==
  ASSUME NEW ctx, ContextOK(ctx), NEW t, IsText(t)
  PROVE  SetString(t, ctx).d \in Fitting(ctx)
<1> DEFINE s == IF t.sign = "-" THEN 1 ELSE 0
           coeff == Relevant(t.int \o t.frac)
           p == Payload(t.int)
<1>1. /\ s \in {0, 1} /\ t.int \in Seq(0..9) /\ t.frac \in Seq(0..9)
      /\ t.exp \in Seq(Int) /\ t.kind \in {"num", "nan", "snan", "inf", "bad"}
  BY DEF IsText
<1>2. SetError("Conversion_syntax").d \in Fitting(ctx)
  BY QNaNFits DEF SetError, Result
<1>3. CASE t.kind = "bad"
  BY <1>2, <1>3 DEF SetString
<1>4. CASE t.kind = "inf"
  <2>1. SetString(t, ctx).d = Inf(s)
    BY <1>4 DEF SetString, Result
  <2> HIDE DEF s
  <2> QED
    BY <1>1, <2>1, InfFits
<1>5. CASE t.kind \in {"nan", "snan"}
  <2> DEFINE k == IF t.kind = "nan" THEN "qnan" ELSE "snan"
             d == [k |-> k, s |-> s, c |-> NumberOf(p), e |-> 0]
  <2>1. SetString(t, ctx).d = IF Len(p) > ctx.prec - ctx.clamp
                              THEN SetError("Conversion_syntax").d ELSE d
    BY <1>5 DEF SetString, Result
  <2>2. Len(p) <= ctx.prec - ctx.clamp => d \in Fitting(ctx)
    <3> SUFFICES ASSUME Len(p) <= ctx.prec - ctx.clamp
                 PROVE  d \in Fitting(ctx)
      OBVIOUS
    <3>1. p \in Seq(0..9)
      BY <1>1, PayloadType
    <3>2. Len(p) \in Nat
      BY <3>1
    <3> HIDE DEF p
    <3>3. NumberOf(p) \in Nat /\ NumberOf(p) < Pow10[Len(p)]
      BY <3>1, NumberBound
    <3>4. Pow10[Len(p)] <= Pow10[ctx.prec - ctx.clamp]
      BY <3>2, Limits, PowersGrow
    <3>5. Pow10[Len(p)] \in Nat /\ Pow10[ctx.prec - ctx.clamp] \in Nat
      BY <3>2, Limits, PowersAre
    <3>6. NumberOf(p) < Pow10[ctx.prec - ctx.clamp]
      BY <3>3, <3>4, <3>5
    <3>7. k \in {"qnan", "snan"}
      OBVIOUS
    <3> HIDE DEF k, s
    <3> QED
      BY <1>1, <3>3, <3>6, <3>7, NaNFits
  <2>3. Len(p) \in Int /\ ctx.prec - ctx.clamp \in Int
    BY <1>1, PayloadType, Limits
  <2> HIDE DEF d, p
  <2> QED
    BY <1>2, <2>1, <2>2, <2>3
<1>6. CASE t.kind = "num"
  <2> DEFINE d == Fin(s, NumberOf(coeff), TextExp(t.exp, Len(t.frac)))
  <2>1. SetString(t, ctx).d \in {SetError("Conversion_syntax").d,
                                 Finalize(d, ctx).d}
    BY <1>6 DEF SetString
  <2>2. NumberOf(coeff) \in Nat
    <3>1. t.int \o t.frac \in Seq(0..9)
      BY <1>1
    <3>2. coeff \in Seq(0..9)
      BY <3>1, PayloadType
    <3> HIDE DEF coeff
    <3> QED
      BY <3>2, NumberBound
  <2>3. TextExp(t.exp, Len(t.frac)) \in Int
    <3>1. Len(t.frac) \in Nat
      BY <1>1
    <3> QED
      BY <1>1, <3>1, TextExpType
  <2>4. d \in Decimals
    <3> HIDE DEF s, coeff
    <3> QED
      BY <1>1, <2>2, <2>3, FinFields
  <2>5. Finalize(d, ctx).d \in Fitting(ctx)
    <3> HIDE DEF d
    <3> QED
      BY <2>4, FinalizeFits
  <2> HIDE DEF d
  <2> QED
    BY <1>2, <2>1, <2>5
<1> QED
  BY <1>1, <1>3, <1>4, <1>5, <1>6

LEMMA FromIntFits ==
  ASSUME NEW ctx, ContextOK(ctx), NEW n \in Int
  PROVE  FromInt(n, ctx).d \in Fitting(ctx)
<1> DEFINE s == IF n < 0 THEN 1 ELSE 0
           c == IF n < 0 THEN -n ELSE n
<1>1. s \in {0, 1} /\ c \in Nat /\ 0 \in Int
  OBVIOUS
<1>2. FromInt(n, ctx) = Finalize(Fin(s, c, 0), ctx)
  BY DEF FromInt
<1> HIDE DEF s, c
<1> QED
  BY <1>1, <1>2, FinFields, FinalizeFits

\* The NaN that an operation hands on.
LEMMA CheckNaNsFits ==
  ASSUME NEW ctx, ContextOK(ctx), NEW args \in Seq(Decimals), AnyNaN(args)
  PROVE  CheckNaNs(args, ctx).d \in Fitting(ctx) /\ IsNaN(CheckNaNs(args, ctx).d)
<1> DEFINE signals == \E i \in DOMAIN args : args[i].k = "snan"
           k == IF signals THEN "snan" ELSE "qnan"
           T == {i \in DOMAIN args : args[i].k = k}
           d == args[FirstOf(args, k)]
           c == d.c % Pow10[ctx.prec - ctx.clamp]
<1>1. T \in SUBSET Nat /\ T # {}
  <2>1. DOMAIN args \in SUBSET Nat
    OBVIOUS
  <2> QED
    BY <2>1 DEF AnyNaN, IsNaN
<1>2. FirstOf(args, k) \in T
  <2>1. FirstOf(args, k) = Min(T)
    BY DEF FirstOf
  <2> HIDE DEF T
  <2> QED
    BY <1>1, <2>1, MinIs
<1>3. d \in Decimals /\ d.k = k
  BY <1>2
<1>4. d \in NotNumbers
  <2> HIDE DEF d
  <2> QED
    BY <1>3, Kinds DEF IsNaN
<1>5. c \in Nat /\ c < Pow10[ctx.prec - ctx.clamp]
  <2> DEFINE p == Pow10[ctx.prec - ctx.clamp]
  <2>1. p \in Nat \ {0}
    BY Limits, PowersAre
  <2>2. d.c \in Nat
    BY <1>4 DEF NotNumbers
  <2> HIDE DEF p, d
  <2>3. d.c % p \in 0..(p - 1)
    BY <2>1, <2>2, QuotientsBound
  <2>4. d.c % p \in Nat /\ d.c % p < p
    BY <2>1, <2>3
  <2> QED
    BY <2>4 DEF p
<1>6. CheckNaNs(args, ctx).d = FixNaN([d EXCEPT !.k = "qnan"], ctx)
  BY DEF CheckNaNs, Result
<1> HIDE DEF d
<1>7. FixNaN([d EXCEPT !.k = "qnan"], ctx)
        = [k |-> "qnan", s |-> d.s, c |-> c, e |-> 0]
  <2>1. d = [k |-> d.k, s |-> d.s, c |-> d.c, e |-> 0]
    BY <1>4 DEF NotNumbers
  <2>2. [d EXCEPT !.k = "qnan"] = [k |-> "qnan", s |-> d.s, c |-> d.c, e |-> 0]
    BY <2>1
  <2>3. FixNaN([k |-> "qnan", s |-> d.s, c |-> d.c, e |-> 0], ctx)
          = [k |-> "qnan", s |-> d.s, c |-> c, e |-> 0]
    BY DEF FixNaN
  <2> QED
    BY <2>2, <2>3
<1>8. d.s \in {0, 1} /\ "qnan" \in {"qnan", "snan"}
  BY <1>4 DEF NotNumbers
<1> HIDE DEF c, k
<1>9. CheckNaNs(args, ctx).d \in Fitting(ctx)
  BY <1>5, <1>6, <1>7, <1>8, NaNFits
<1>10. IsNaN(CheckNaNs(args, ctx).d)
  BY <1>6, <1>7 DEF IsNaN
<1> QED
  BY <1>9, <1>10

LEMMA ShiftLIs ==
  ASSUME NEW c \in Nat, NEW n \in Nat
  PROVE  /\ ShiftL(c, n) \in Nat /\ ShiftL(c, n) = c * Pow10[n]
         /\ c > 0 => ShiftL(c, n) > 0
<1> DEFINE p == Pow10[n]
<1>1. p \in Nat \ {0}
  BY PowersAre
<1>2. ShiftL(c, n) = IF c = 0 THEN 0 ELSE c * p
  BY DEF ShiftL
<1> HIDE DEF p
<1>3. c * p \in Nat /\ (c = 0 => c * p = 0)
  BY <1>1
<1>4. c > 0 => c * p > 0
  <2> SUFFICES ASSUME c > 0
               PROVE  c * p > 0
    OBVIOUS
  <2>1. PICK x, y \in Nat : c = 1 + x /\ p = 1 + y
    BY <1>1, c - 1 \in Nat, p - 1 \in Nat
  <2>2. (1 + x) * (1 + y) = 1 + x + y + x * y /\ x * y \in Nat
    OBVIOUS
  <2> QED
    BY <2>1, <2>2
<1> QED
  BY <1>2, <1>3, <1>4 DEF p

LEMMA NegateType ==
  ASSUME NEW d \in Decimals
  PROVE  /\ Negate(d) \in Decimals /\ CopyAbs(d) \in Decimals
         /\ IsNaN(Negate(d)) <=> IsNaN(d)
BY DEF Negate, CopyAbs, Decimals, Numbers, Infinities, NotNumbers, IsNaN

LEMMA TinyType ==
  ASSUME NEW ctx, ContextOK(ctx), NEW small \in Numbers, NEW big \in Numbers
  PROVE  Tiny(small, big, ctx) \in Numbers
<1> DEFINE exp == big.e - 1 + IF Digits(big.c) > ctx.prec THEN 0
                              ELSE Digits(big.c) - ctx.prec - 1
           c == IF small.c = 0 THEN 0 ELSE 1
<1>1. exp \in Int /\ c \in Nat /\ small.s \in {0, 1}
  BY NumberFields DEF ContextOK
<1>2. Tiny(small, big, ctx) \in {Fin(small.s, c, exp), small}
  BY DEF Tiny
<1> HIDE DEF exp, c
<1> QED
  BY <1>1, <1>2, FinFields

LEMMA AddSubType ==
  ASSUME NEW ctx, ContextOK(ctx), NEW a \in Numbers, NEW b \in Numbers
  PROVE  AddSub(a, b, ctx) \in Decimals
<1> DEFINE x == Tiny(a, b, ctx)
           y == Tiny(b, a, ctx)
           exp == Min({x.e, y.e})
           cx == ShiftL(x.c, x.e - exp)
           cy == ShiftL(y.c, y.e - exp)
<1>1. AddSub(a, b, ctx) = SignedSum(x.s, cx, y.s, cy, exp, ctx)
  BY DEF AddSub, AddAligned
<1>2. x \in Numbers /\ y \in Numbers
  BY TinyType
<1> HIDE DEF x, y
<1>3. /\ x.s \in {0, 1} /\ y.s \in {0, 1} /\ x.c \in Nat /\ y.c \in Nat
      /\ x.e \in Int /\ y.e \in Int
  BY <1>2, NumberFields
<1>4. exp \in Int /\ x.e - exp \in Nat /\ y.e - exp \in Nat
  <2>1. exp = IF x.e <= y.e THEN x.e ELSE y.e
    BY <1>3, MinOfTwo
  <2> HIDE DEF exp
  <2> QED
    BY <1>3, <2>1
<1> HIDE DEF exp
<1>5. cx \in Nat /\ cy \in Nat
  BY <1>3, <1>4, ShiftLIs
<1> HIDE DEF cx, cy
<1> DEFINE z == IF ctx.round = "ROUND_FLOOR" THEN 1 ELSE 0
<1>6. SignedSum(x.s, cx, y.s, cy, exp, ctx) \in
        {Fin(y.s, cx + cy, exp)} \cup {Fin(z, 0, exp)}
        \cup (IF cx > cy THEN {Fin(x.s, cx - cy, exp)}
              ELSE {Fin(y.s, cy - cx, exp)})
  BY DEF SignedSum
<1>7. z \in {0, 1} /\ cx + cy \in Nat
      /\ (cx > cy => cx - cy \in Nat) /\ (~(cx > cy) => cy - cx \in Nat)
  BY <1>5
<1> HIDE DEF z
<1> QED
  BY <1>1, <1>3, <1>4, <1>6, <1>7, FinFields, SMTT(30)

LEMMA AddSignedFits ==
  ASSUME NEW ctx, ContextOK(ctx), NEW a \in Decimals, NEW b \in Decimals,
         ~IsNaN(a), ~IsNaN(b)
  PROVE  AddSigned(a, b, ctx).d \in Fitting(ctx)
<1>1. CASE IsSpecial(a) \/ IsSpecial(b)
  <2>1. AddSigned(a, b, ctx) = AddSubInf(a, b)
    BY <1>1 DEF AddSigned
  <2>2. AddSubInf(a, b).d \in {QNaN, Inf(a.s), Inf(b.s)}
    BY DEF AddSubInf, Invalid, SetError, Result
  <2> QED
    BY <2>1, <2>2, QNaNFits, InfFits, Kinds
<1>2. CASE ~(IsSpecial(a) \/ IsSpecial(b))
  <2>1. a \in Numbers /\ b \in Numbers
    BY <1>2, Kinds DEF IsSpecial
  <2>2. AddSigned(a, b, ctx) = Finalize(AddSub(a, b, ctx), ctx)
    BY <1>2 DEF AddSigned
  <2> QED
    BY <2>1, <2>2, AddSubType, FinalizeFits
<1> QED
  BY <1>1, <1>2

LEMMA NaNs ==
  ASSUME NEW ctx, ContextOK(ctx), NEW a \in Decimals, NEW b \in Decimals
  PROVE  IF IsNaN(a) \/ IsNaN(b)
         THEN /\ AnyNaN(<<a, b>>) /\ CheckNaNs(<<a, b>>, ctx).d \in Fitting(ctx)
              /\ IsNaN(a) => CheckNaNs(<<a>>, ctx).d \in Fitting(ctx)
         ELSE ~AnyNaN(<<a, b>>)
<1> DEFINE two == <<a, b>>
           one == <<a>>
<1>1. two \in Seq(Decimals) /\ DOMAIN two = {1, 2} /\ two[1] = a /\ two[2] = b
  OBVIOUS
<1>2. one \in Seq(Decimals) /\ DOMAIN one = {1} /\ one[1] = a
  OBVIOUS
<1> HIDE DEF one, two
<1>3. AnyNaN(two) <=> IsNaN(a) \/ IsNaN(b)
  BY <1>1 DEF AnyNaN
<1>4. AnyNaN(one) <=> IsNaN(a)
  BY <1>2 DEF AnyNaN
<1>5. AnyNaN(two) => CheckNaNs(two, ctx).d \in Fitting(ctx)
  BY <1>1, CheckNaNsFits
<1>6. AnyNaN(one) => CheckNaNs(one, ctx).d \in Fitting(ctx)
  BY <1>2, CheckNaNsFits
<1> QED
  BY <1>3, <1>4, <1>5, <1>6 DEF one, two

LEMMA QAddFits ==
  ASSUME NEW ctx, ContextOK(ctx), NEW a \in Decimals, NEW b \in Decimals
  PROVE  QAdd(a, b, ctx).d \in Fitting(ctx) /\ QSub(a, b, ctx).d \in Fitting(ctx)
<1>1. CASE IsNaN(a) \/ IsNaN(b)
  BY <1>1, NaNs DEF QAdd, QSub
<1>2. CASE ~(IsNaN(a) \/ IsNaN(b))
  <2>1. ~AnyNaN(<<a, b>>)
    BY <1>2, NaNs
  <2>2. Negate(b) \in Decimals /\ ~IsNaN(Negate(b))
    BY <1>2, NegateType
  <2> QED
    BY <1>2, <2>1, <2>2, AddSignedFits DEF QAdd, QSub
<1> QED
  BY <1>1, <1>2

LEMMA XorType ==
  ASSUME NEW s \in {0, 1}, NEW t \in {0, 1}
  PROVE  Xor(s, t) \in {0, 1}
BY DEF Xor

LEMMA QMulFits ==
  ASSUME NEW ctx, ContextOK(ctx), NEW a \in Decimals, NEW b \in Decimals
  PROVE  QMul(a, b, ctx).d \in Fitting(ctx)
<1> DEFINE m == Mul(a, b, ctx)
           s == Xor(a.s, b.s)
<1>1. QMul(a, b, ctx).d = Finalize(m.d, ctx).d
  BY DEF QMul, Finalized, Also, Result
<1>2. s \in {0, 1}
  BY Kinds, XorType
<1>3. m.d \in Decimals
  <2>1. CASE IsNaN(a) \/ IsNaN(b)
    BY <2>1, NaNs DEF Mul, Fitting
  <2>2. CASE ~(IsNaN(a) \/ IsNaN(b)) /\ (IsSpecial(a) \/ IsSpecial(b))
    <3>1. m = MulInf(a, b)
      BY <2>2, NaNs DEF Mul
    <3>2. MulInf(a, b).d \in {QNaN, Inf(s)}
      BY DEF MulInf, Invalid, SetError, Result
    <3> HIDE DEF m, s
    <3> QED
      BY <1>2, <3>1, <3>2, QNaNFits, InfFits DEF Fitting
  <2>3. CASE ~(IsNaN(a) \/ IsNaN(b)) /\ ~(IsSpecial(a) \/ IsSpecial(b))
    <3>1. m.d = Fin(s, a.c * b.c, a.e + b.e)
      BY <2>3, NaNs DEF Mul, Result
    <3>2. a.c * b.c \in Nat /\ a.e + b.e \in Int
      BY Kinds
    <3> HIDE DEF m, s
    <3> QED
      BY <1>2, <3>1, <3>2, FinFields
  <2> QED
    BY <2>1, <2>2, <2>3
<1> HIDE DEF m
<1> QED
  BY <1>1, <1>3, FinalizeFits

\* A quotient of numbers that are not zero, before it is rounded.
LEMMA DivCoeffType ==
  ASSUME NEW ctx, ContextOK(ctx), NEW a \in Numbers, NEW b \in Numbers,
         a.c # 0, b.c # 0
  PROVE  DivCoeff(a, b, ctx).c \in Nat /\ DivCoeff(a, b, ctx).e \in Int
<1> DEFINE shift == Digits(b.c) - Digits(a.c) + ctx.prec + 1
           n == IF shift > 0 THEN ShiftL(a.c, shift) ELSE a.c
           d == IF shift < 0 THEN ShiftL(b.c, -shift) ELSE b.c
           q == n \div d
           e == a.e - b.e - shift
           drop == Min({TrailZeros(q), shift})
<1>1. /\ a.c \in Nat /\ b.c \in Nat /\ a.e \in Int /\ b.e \in Int
      /\ Digits(a.c) \in Nat /\ Digits(b.c) \in Nat /\ ctx.prec \in Nat
  BY NumberFields DEF ContextOK
<1>2. DivCoeff(a, b, ctx) = Quotient(q, n % d = 0, e, shift)
  BY DEF DivCoeff
<1>3. shift \in Int /\ e \in Int
  BY <1>1
<1> HIDE DEF shift, e
<1>4. n \in Nat \ {0} /\ d \in Nat \ {0}
  <2>4. ASSUME NEW c \in Nat, c # 0, NEW k \in Nat
        PROVE  ShiftL(c, k) \in Nat /\ ShiftL(c, k) # 0
    BY <2>4, ShiftLIs
  <2>1. CASE shift > 0
    <3>1. ShiftL(a.c, shift) \in Nat /\ ShiftL(a.c, shift) # 0
      <4>1. shift \in Nat /\ a.c # 0
        BY <1>3, <2>1
      <4> QED
        BY <1>1, <4>1, <2>4
    <3>2. n = ShiftL(a.c, shift) /\ d = b.c
      BY <1>3, <2>1
    <3> QED
      BY <1>1, <3>1, <3>2
  <2>2. CASE shift < 0
    <3>1. -shift \in Nat
      BY <1>3, <2>2
    <3>2. ShiftL(b.c, -shift) \in Nat /\ ShiftL(b.c, -shift) # 0
      BY <1>1, <3>1, <2>4
    <3>3. n = a.c /\ d = ShiftL(b.c, -shift)
      BY <1>3, <2>2
    <3> QED
      BY <1>1, <3>2, <3>3
  <2>3. CASE shift = 0
    <3>1. n = a.c /\ d = b.c
      BY <2>3
    <3> QED
      BY <1>1, <3>1
  <2> QED
    BY <1>3, <2>1, <2>2, <2>3
<1> HIDE DEF n, d
<1>5. q \in Nat /\ (n % d = 0 => q # 0)
  <2>1. q \in Nat /\ n = d * q + (n % d)
    BY <1>4, QuotientsBound
  <2>2. d * 0 = 0
    BY <1>4
  <2> HIDE DEF q
  <2> QED
    BY <1>4, <2>1, <2>2
<1> HIDE DEF q
<1>6. CASE n % d = 0 /\ shift > 0
  <2>1. TrailZeros(q) \in Nat
    BY <1>5, <1>6, TrailZerosAre
  <2>2. drop \in Nat
    <3>1. drop = IF TrailZeros(q) <= shift THEN TrailZeros(q) ELSE shift
      BY <1>3, <2>1, MinOfTwo
    <3> HIDE DEF drop
    <3> QED
      BY <1>3, <1>6, <2>1, <3>1
  <2>3. q \div Pow10[drop] \in Nat
    <3> HIDE DEF drop
    <3> QED
      BY <1>5, <2>2, PowersDivide
  <2>4. DivCoeff(a, b, ctx) = [c |-> q \div Pow10[drop], e |-> e + drop]
    BY <1>2, <1>6 DEF Quotient
  <2> HIDE DEF drop
  <2> QED
    BY <1>3, <2>2, <2>3, <2>4
<1>7. CASE ~(n % d = 0 /\ shift > 0)
  <2>1. DivCoeff(a, b, ctx) \in {[c |-> q, e |-> e], [c |-> q + 1, e |-> e]}
    BY <1>2, <1>7 DEF Quotient
  <2> QED
    BY <1>3, <1>5, <2>1
<1> QED
  BY <1>6, <1>7

LEMMA QDivFits ==
  ASSUME NEW ctx, ContextOK(ctx), NEW a \in Decimals, NEW b \in Decimals
  PROVE  QDiv(a, b, ctx).d \in Fitting(ctx)
<1> DEFINE s == Xor(a.s, b.s)
           r == QDiv(a, b, ctx)
<1>1. s \in {0, 1}
  BY Kinds, XorType
<1>2. CASE IsNaN(a) \/ IsNaN(b)
  BY <1>2, NaNs DEF QDiv
<1>3. CASE ~(IsNaN(a) \/ IsNaN(b)) /\ (IsSpecial(a) \/ IsSpecial(b))
  <2>1. r = DivInf(a, b, ctx)
    BY <1>3, NaNs DEF QDiv
  <2>2. DivInf(a, b, ctx).d \in {QNaN, Inf(s), Fin(s, 0, Etiny(ctx))}
    BY DEF DivInf, Invalid, SetError, Result
  <2>3. Fin(s, 0, Etiny(ctx)) \in Fitting(ctx)
    <3>1. /\ Etiny(ctx) \in Int /\ Etiny(ctx) <= Etop(ctx)
          /\ Digits(0) <= ctx.prec /\ Etiny(ctx) + Digits(0) - 1 <= ctx.emax
      BY Limits, ZeroHasOneDigit DEF ContextOK
    <3> HIDE DEF s
    <3> QED
      BY <1>1, <3>1, FinFits
  <2> HIDE DEF r, s
  <2> QED
    BY <1>1, <2>1, <2>2, <2>3, QNaNFits, InfFits DEF r
<1>4. CASE ~(IsNaN(a) \/ IsNaN(b)) /\ ~(IsSpecial(a) \/ IsSpecial(b)) /\ b.c = 0
  <2>1. r.d \in {QNaN, Inf(s)}
    BY <1>4, NaNs DEF QDiv, SetError, Result
  <2> HIDE DEF r, s
  <2> QED
    BY <1>1, <2>1, QNaNFits, InfFits DEF r
<1>5. CASE ~(IsNaN(a) \/ IsNaN(b)) /\ ~(IsSpecial(a) \/ IsSpecial(b)) /\ b.c # 0
  <2> DEFINE d == IF a.c = 0 THEN Fin(s, 0, a.e - b.e)
                  ELSE WithSign(s, DivCoeff(a, b, ctx))
  <2>1. r = Finalize(d, ctx)
    BY <1>5, NaNs DEF QDiv
  <2>2. a \in Numbers /\ b \in Numbers
    BY <1>5, Kinds DEF IsSpecial
  <2>3. a.e - b.e \in Int
    BY Kinds
  <2>4. d \in Decimals
    <3> HIDE DEF s
    <3>1. CASE a.c = 0
      BY <1>1, <2>3, <3>1, FinFields
    <3>2. CASE a.c # 0
      <4>1. DivCoeff(a, b, ctx).c \in Nat /\ DivCoeff(a, b, ctx).e \in Int
        BY <1>5, <2>2, <3>2, DivCoeffType
      <4> QED
        BY <1>1, <3>2, <4>1, FinFields DEF WithSign
    <3> QED
      BY <3>1, <3>2
  <2> HIDE DEF d, r
  <2> QED
    BY <2>1, <2>4, FinalizeFits DEF r
<1> QED
  BY <1>2, <1>3, <1>4, <1>5

LEMMA QMinusFits ==
  ASSUME NEW ctx, ContextOK(ctx), NEW a \in Decimals
  PROVE  QMinus(a, ctx).d \in Fitting(ctx)
<1>1. IsNaN(a) => CheckNaNs(<<a>>, ctx).d \in Fitting(ctx)
  BY NaNs
<1>2. /\ Finalize(CopyAbs(a), ctx).d \in Fitting(ctx)
      /\ Finalize(Negate(a), ctx).d \in Fitting(ctx)
  BY NegateType, FinalizeFits
<1> QED
  BY <1>1, <1>2 DEF QMinus

\* A number rounded to an integer has at most one digit more before the
\* point, where it lost one behind it.
LEMMA RoundToIntegralFits ==
  ASSUME NEW ctx, ContextOK(ctx), ctx.prec <= ctx.emax, NEW mode,
         NEW a \in Fitting(ctx)
  PROVE  RoundToIntegral("TO_INT_SILENT", a, Rounding(ctx, mode)).d \in Fitting(ctx)
<1> DEFINE work == Rounding(ctx, mode)
           r == RoundToIntegral("TO_INT_SILENT", a, work)
           n == -a.e
           q == a.c \div Pow10[n]
<1>1. a \in Decimals
  BY DEF Fitting
<1>2. CASE IsNaN(a)
  <2>1. r = CheckNaNs(<<a>>, work)
    BY <1>2 DEF RoundToIntegral
  <2>2. CheckNaNs(<<a>>, work) = CheckNaNs(<<a>>, ctx)
    BY DEF CheckNaNs, FixNaN, Rounding, work
  <2> QED
    BY <1>1, <1>2, <2>1, <2>2, NaNs
<1>3. CASE ~IsNaN(a) /\ (IsInf(a) \/ a.e >= 0)
  BY <1>3 DEF RoundToIntegral, Result
<1>4. CASE ~IsNaN(a) /\ ~(IsInf(a) \/ a.e >= 0)
  <2>1. /\ a \in Numbers /\ a.c \in Nat /\ a.s \in {0, 1} /\ a.e \in Int /\ a.e < 0
        /\ Digits(a.c) \in Nat \ {0} /\ Digits(a.c) <= ctx.prec
        /\ ctx.prec \in Nat \ {0} /\ ctx.emax \in Nat
    BY <1>1, <1>4, Kinds, NumberFields DEF ContextOK, Fitting, FitsIn
  <2>2. n \in Nat /\ n >= 1
    BY <2>1
  <2>3. ASSUME NEW x \in Nat, x <= Pow10[ctx.prec - 1]
        PROVE  Fin(a.s, x, 0) \in Fitting(ctx)
    <3>1. ctx.prec - 1 \in Nat /\ ctx.prec - 1 < ctx.prec
      BY <2>1
    <3>2. Pow10[ctx.prec - 1] < Pow10[ctx.prec]
      BY <2>1, <3>1, PowersGrow
    <3>3. Pow10[ctx.prec - 1] \in Nat /\ Pow10[ctx.prec] \in Nat
      BY <2>1, <3>1, PowersAre
    <3>4. x < Pow10[ctx.prec] /\ ctx.prec >= 1 /\ ctx.prec \in Nat
      BY <2>1, <2>3, <3>2, <3>3
    <3>5. Digits(x) \in Nat /\ Digits(x) <= ctx.prec
      BY <3>4, DigitsBound, DigitsAre
    <3>6. Etiny(ctx) <= 0 /\ 0 + Digits(x) - 1 <= ctx.emax
          /\ (ctx.clamp = 1 => 0 <= Etop(ctx))
      BY <2>1, <3>5, Limits DEF ContextOK
    <3> QED
      BY <2>1, <3>5, <3>6, FinFits
  <2>4. Pow10[ctx.prec - 1] \in Nat /\ Pow10[ctx.prec - 1] >= 1
    BY <2>1, ctx.prec - 1 \in Nat, PowersAre
  <2>5. CASE a.c = 0
    <3>1. r.d = Fin(a.s, 0, 0)
      BY <1>4, <2>5 DEF RoundToIntegral, Result
    <3> HIDE DEF r
    <3> QED
      BY <2>3, <2>4, <3>1 DEF r
  <2>6. CASE a.c # 0
    <3> DEFINE cut == ShiftR(a.c, n)
    <3>1. q \in Nat /\ cut.c = q
      BY <2>1, <2>2, ShiftRIs
    <3>2. q < Pow10[ctx.prec - 1]
      <4> HIDE DEF n
      <4>1. CASE n < Digits(a.c)
        <5>1. Digits(q) = Digits(a.c) - n
          <6>1. a.c \in Nat \ {0} /\ n \in Nat
            BY <2>1, <2>2, <2>6
          <6> QED
            BY <6>1, <4>1, DigitsShiftRight
        <5>2. Digits(q) <= ctx.prec - 1 /\ ctx.prec - 1 \in Nat
          BY <2>1, <2>2, <5>1
        <5> HIDE DEF q
        <5> QED
          BY <3>1, <5>2, DigitsBound
      <4>2. CASE ~(n < Digits(a.c))
        <5>1. q = 0
          BY <2>1, <2>2, <2>6, <4>2, DigitsShiftRight
        <5> QED
          BY <2>4, <5>1
      <4> QED
        BY <4>1, <4>2
    <3>3. r.d = ApplyRoundExcess(Fin(a.s, cut.c, 0), cut.rnd, work)
      BY <1>4, <2>6 DEF RoundToIntegral, Result
    <3> HIDE DEF r, cut, q, work
    <3>4. r.d \in {Fin(a.s, q, 0), Fin(a.s, q + 1, 0)}
      BY <3>1, <3>3 DEF ApplyRoundExcess, Fin
    <3>5. q + 1 \in Nat /\ q <= Pow10[ctx.prec - 1] /\ q + 1 <= Pow10[ctx.prec - 1]
      BY <2>4, <3>1, <3>2
    <3> QED
      BY <2>3, <3>1, <3>4, <3>5 DEF r, work
  <2> QED
    BY <2>5, <2>6
<1> QED
  BY <1>2, <1>3, <1>4

------------------------------------------------------------------------------
(* to_s, and the decimal that is read from it.                              *)

LEMMA ContextIs ==
  /\ ContextOK(Context) /\ Context.clamp = 0 /\ Context.prec = Precision
  /\ Context.emax = MaxEmax /\ Context.emin = MinEmin
  /\ Context.round = "ROUND_HALF_UP"
  /\ Context.prec \in Nat \ {0} /\ Context.prec <= MaxPrec
  /\ Context.prec <= Context.emax
BY GuestAssumption, LimitsAssumption DEF ContextOK, Context

LEMMA TextFields ==
  ASSUME NEW sg, NEW int, NEW dot, NEW frac, NEW exp
  PROVE  LET t == Text(sg, int, dot, frac, exp)
         IN /\ t.kind = "num" /\ t.sign = sg /\ t.int = int /\ t.dot = dot
            /\ t.frac = frac /\ t.exp = exp /\ ~t.percent
            /\ t.left = 0 /\ t.inner = 0 /\ t.right = 0
BY DEF Text

LEMMA NoPercent ==
  ASSUME NEW sg, NEW int, NEW dot, NEW frac, NEW exp
  PROVE  [Text(sg, int, dot, frac, exp) EXCEPT !.percent = FALSE]
           = Text(sg, int, dot, frac, exp)
<1> DEFINE t == Text(sg, int, dot, frac, exp)
           parts == {"kind", "sign", "int", "dot", "frac", "exp", "percent",
                     "left", "inner", "right"}
<1>1. t = [x \in parts |-> t[x]]
  BY DEF Text
<1>2. t["percent"] = FALSE
  BY DEF Text
<1> HIDE DEF t
<1>3. [t EXCEPT !.percent = FALSE]
        = [x \in parts |-> IF x = "percent" THEN FALSE ELSE t[x]]
  BY <1>1
<1>4. [t EXCEPT !.percent = FALSE] = [x \in parts |-> t[x]]
  BY <1>2, <1>3
<1> QED
  BY <1>1, <1>4 DEF t

LEMMA WordFields ==
  ASSUME NEW kind, NEW sg, NEW payload
  PROVE  LET t == [Word(kind, sg, payload) EXCEPT !.percent = FALSE]
         IN /\ t.kind = kind /\ t.sign = sg /\ t.int = payload
            /\ t.frac = <<>> /\ t.exp = <<>> /\ ~t.percent
            /\ t.left = 0 /\ t.inner = 0 /\ t.right = 0
BY DEF Word, Text

LEMMA TextLengthIs ==
  ASSUME NEW t, t.kind \in {"num", "nan", "snan", "inf"}, t.exp = <<>>,
         t.int \in Seq(0..9), t.frac \in Seq(0..9), ~t.percent,
         t.left = 0, t.inner = 0, t.right = 0
  PROVE  TextLength(t) \in Nat
<1> DEFINE sign == IF t.sign = "" THEN 0 ELSE 1
           point == IF t.dot THEN 1 ELSE 0
           int == Len(t.int)
           frac == Len(t.frac)
           word == WordLength(t.kind)
<1>1. int \in Nat /\ frac \in Nat /\ sign \in Nat /\ point \in Nat
  OBVIOUS
<1>2. word \in Nat
  BY DEF WordLength
<1>3. TextLength(t) = sign + word + int + point + frac + 0 + 0 + 0 + 0 + 0
  BY DEF TextLength
<1> HIDE DEF sign, point, int, frac, word
<1> QED
  BY <1>1, <1>2, <1>3

LEMMA ZerosType ==
  ASSUME NEW n \in Nat
  PROVE  /\ Zeros(n) \in Seq(0..9) /\ Len(Zeros(n)) = n
         /\ \A i \in 1..n : Zeros(n)[i] = 0
BY DEF Zeros

\* A number as to_s writes it: its digits, with zeros behind them for a
\* positive exponent, or with the point in its place.
PlainOf(d, int, dot, frac) ==
  ToText(d, "fixed", "-", FALSE, 1)
    = Text(IF d.s = 1 THEN "-" ELSE "", int, dot, frac, <<>>)
LEMMA PlainNumber ==
  ASSUME NEW d \in Numbers
  PROVE  LET digits == DigitsOf(d.c)
             place == Digits(d.c) + d.e
         IN /\ d.e >= 0 => PlainOf(d, digits \o Zeros(d.e), FALSE, <<>>)
            /\ d.e < 0 /\ place <= 0
                 => PlainOf(d, <<0>>, TRUE, Zeros(-place) \o digits)
            /\ d.e < 0 /\ place > 0
                 => PlainOf(d, SubSeq(digits, 1, place), TRUE,
                            SubSeq(digits, place + 1, Digits(d.c)))
<1> DEFINE digits == DigitsOf(d.c)
           n == Digits(d.c)
           place == n + d.e
           sg == IF d.s = 1 THEN "-" ELSE ""
           t == Pointed(sg, digits, place, <<>>)
<1>1. /\ d.c \in Nat /\ d.e \in Int /\ n \in Nat \ {0} /\ ~IsNaN(d) /\ ~IsInf(d)
      /\ Len(digits) = n
  BY NumberFields, DigitsOfAre
<1>2. SignOf(d, "-") = sg
  BY DEF SignOf
<1>3. DotPlace(d, "fixed", 1) = place
  BY DEF DotPlace
<1> HIDE DEF n, digits, sg
<1>4. NumberText(sg, digits, d.e, "fixed", place) = t
  BY <1>1 DEF NumberText
<1> HIDE DEF t
<1>5. ToText(d, "fixed", "-", FALSE, 1) = [t EXCEPT !.percent = FALSE]
  BY <1>1, <1>2, <1>3, <1>4 DEF ToText, digits
<1>6. d.e >= 0 => t = Text(sg, digits \o Zeros(d.e), FALSE, <<>>, <<>>)
  <2> SUFFICES ASSUME d.e >= 0
               PROVE  t = Text(sg, digits \o Zeros(d.e), FALSE, <<>>, <<>>)
    OBVIOUS
  <2>1. ~(place <= 0) /\ place >= Len(digits) /\ place - Len(digits) = d.e
    BY <1>1
  <2> HIDE DEF place
  <2> QED
    BY <2>1 DEF t, Pointed
<1>7. d.e < 0 /\ place <= 0
        => t = Text(sg, <<0>>, TRUE, Zeros(-place) \o digits, <<>>)
  BY DEF t, Pointed
<1>8. d.e < 0 /\ place > 0
        => t = Text(sg, SubSeq(digits, 1, place), TRUE,
                    SubSeq(digits, place + 1, n), <<>>)
  <2> SUFFICES ASSUME d.e < 0, place > 0
               PROVE  t = Text(sg, SubSeq(digits, 1, place), TRUE,
                               SubSeq(digits, place + 1, n), <<>>)
    OBVIOUS
  <2>1. ~(place <= 0) /\ ~(place >= Len(digits))
    BY <1>1
  <2> HIDE DEF place
  <2> QED
    BY <1>1, <2>1 DEF t, Pointed
<1>9. ASSUME NEW int, NEW dot, NEW frac, t = Text(sg, int, dot, frac, <<>>)
      PROVE  PlainOf(d, int, dot, frac)
  <2> DEFINE u == Text(sg, int, dot, frac, <<>>)
  <2>1. [u EXCEPT !.percent = FALSE] = u
    BY NoPercent
  <2> HIDE DEF u
  <2>2. [t EXCEPT !.percent = FALSE] = u
    BY <1>9, <2>1 DEF u
  <2> QED
    BY <1>5, <2>2 DEF PlainOf, u, sg
<1> HIDE DEF place
<1> QED
  BY <1>6, <1>7, <1>8, <1>9 DEF place, digits, n

\* A zero of a positive exponent is shown without the zeros behind it.
Flat(d) == IF d.k = "fin" /\ d.c = 0 /\ d.e > 0 THEN Fin(d.s, 0, 0) ELSE d

LEMMA FlatFits ==
  ASSUME NEW d \in Fitting(Context)
  PROVE  /\ Flat(d) \in Fitting(Context) /\ Flat(d).k = d.k /\ Flat(d).s = d.s
         /\ Flat(d).c = d.c /\ (d.c = 0 => Flat(d).e <= 0)
<1>1. d \in Decimals
  BY DEF Fitting
<1>2. CASE d.k = "fin" /\ d.c = 0 /\ d.e > 0
  <2>1. /\ Digits(0) <= Context.prec /\ Etiny(Context) <= 0 /\ d.s \in {0, 1}
        /\ 0 + Digits(0) - 1 <= Context.emax
    BY <1>1, ContextIs, Limits, ZeroHasOneDigit, Kinds DEF ContextOK
  <2>2. Fin(d.s, 0, 0) \in Fitting(Context)
    BY <2>1, ContextIs, FinFits
  <2> QED
    BY <1>2, <2>1, <2>2, FinFields DEF Flat
<1>3. CASE ~(d.k = "fin" /\ d.c = 0 /\ d.e > 0)
  <2>1. d.k # "fin" => d.e = 0
    BY <1>1 DEF Decimals, Numbers, Infinities, NotNumbers
  <2> QED
    BY <1>1, <1>3, <2>1, Kinds DEF Flat
<1> QED
  BY <1>2, <1>3

\* A text of digits only, without a percent sign or fill characters.
Unadorned(t) ==
  /\ t.kind \in {"num", "nan", "snan", "inf"} /\ t.exp = <<>>
  /\ t.int \in Seq(0..9) /\ t.frac \in Seq(0..9) /\ ~t.percent
  /\ t.left = 0 /\ t.inner = 0 /\ t.right = 0
LEMMA TextUnadorned ==
  ASSUME NEW sg, NEW int \in Seq(0..9), NEW dot, NEW frac \in Seq(0..9)
  PROVE  Unadorned(Text(sg, int, dot, frac, <<>>))
BY TextFields DEF Unadorned
LEMMA WordUnadorned ==
  ASSUME NEW kind \in {"nan", "snan", "inf"}, NEW sg, NEW payload \in Seq(0..9)
  PROVE  Unadorned([Word(kind, sg, payload) EXCEPT !.percent = FALSE])
<1> DEFINE t == [Word(kind, sg, payload) EXCEPT !.percent = FALSE]
<1>1. /\ t.kind = kind /\ t.int = payload /\ t.frac = <<>> /\ t.exp = <<>>
      /\ ~t.percent /\ t.left = 0 /\ t.inner = 0 /\ t.right = 0
  BY WordFields
<1> HIDE DEF t
<1>2. Unadorned(t)
  BY <1>1 DEF Unadorned
<1> QED
  BY <1>2 DEF t

LEMMA PlainType ==
  ASSUME NEW d \in Decimals
  PROVE  LET t == ToText(d, "fixed", "-", FALSE, 1)
         IN IsText(t) /\ TextLength(t) \in Nat
<1> DEFINE t == ToText(d, "fixed", "-", FALSE, 1)
<1>1. Unadorned(t)
  <2>1. CASE d \in Numbers
    <3> DEFINE digits == DigitsOf(d.c)
               n == Digits(d.c)
               place == n + d.e
    <3>1. /\ d.e \in Int /\ n \in Nat \ {0} /\ digits \in Seq(0..9)
          /\ Len(digits) = n
      BY <2>1, NumberFields, DigitsOfAre
    <3>2. ASSUME NEW int \in Seq(0..9), NEW dot, NEW frac \in Seq(0..9),
                 PlainOf(d, int, dot, frac)
          PROVE  Unadorned(t)
      BY <3>2, TextUnadorned DEF PlainOf
    <3> HIDE DEF t
    <3>3. CASE d.e >= 0
      <4>1. digits \o Zeros(d.e) \in Seq(0..9) /\ <<>> \in Seq(0..9)
        BY <3>1, <3>3, ZerosType
      <4>2. PlainOf(d, digits \o Zeros(d.e), FALSE, <<>>)
        BY <2>1, <3>3, PlainNumber
      <4> HIDE DEF digits
      <4> QED
        BY <3>2, <4>1, <4>2
    <3>4. CASE d.e < 0 /\ place <= 0
      <4>1. -place \in Nat
        BY <3>1, <3>4
      <4>2. Zeros(-place) \o digits \in Seq(0..9) /\ <<0>> \in Seq(0..9)
        BY <3>1, <4>1, ZerosType
      <4>3. PlainOf(d, <<0>>, TRUE, Zeros(-place) \o digits)
        BY <2>1, <3>4, PlainNumber
      <4> HIDE DEF digits, place
      <4> QED
        BY <3>2, <4>2, <4>3
    <3>5. CASE d.e < 0 /\ place > 0
      <4>1. place \in 1..n
        BY <3>1, <3>5
      <4>2. /\ SubSeq(digits, 1, place) \in Seq(0..9)
            /\ SubSeq(digits, place + 1, n) \in Seq(0..9)
        <5> HIDE DEF digits, place, n
        <5> QED
          BY <3>1, <4>1
      <4>3. PlainOf(d, SubSeq(digits, 1, place), TRUE,
                    SubSeq(digits, place + 1, n))
        BY <2>1, <3>5, PlainNumber
      <4> HIDE DEF digits, place, n
      <4> QED
        BY <3>2, <4>2, <4>3
    <3> QED
      BY <3>1, <3>3, <3>4, <3>5
  <2>2. CASE IsNaN(d)
    <3> DEFINE payload == IF d.c > 0 THEN DigitsOf(d.c) ELSE <<>>
               kind == IF d.k = "qnan" THEN "nan" ELSE "snan"
    <3>1. payload \in Seq(0..9)
      BY Kinds, DigitsOfAre
    <3>2. kind \in {"nan", "snan"}
      OBVIOUS
    <3>3. t = [Word(kind, SignOf(d, "-"), payload) EXCEPT !.percent = FALSE]
      BY <2>2 DEF ToText
    <3> HIDE DEF t, payload, kind
    <3> QED
      BY <3>1, <3>2, <3>3, WordUnadorned
  <2>3. CASE IsInf(d)
    <3>1. t = [Word("inf", SignOf(d, "-"), <<>>) EXCEPT !.percent = FALSE]
      BY <2>3 DEF ToText, IsNaN, IsInf
    <3> HIDE DEF t
    <3> QED
      BY <3>1, <<>> \in Seq(0..9), WordUnadorned
  <2> QED
    BY <2>1, <2>2, <2>3, Kinds
<1> HIDE DEF t
<1>2. IsText(t)
  BY <1>1 DEF Unadorned, IsText
<1>3. TextLength(t) \in Nat
  BY <1>1, TextLengthIs DEF Unadorned
<1> QED
  BY <1>2, <1>3 DEF t

\* to_s never raises, and writes the whole number without an exponent.
LEMMA ToSIs ==
  ASSUME NEW d \in Fitting(Context)
  PROVE  /\ ToS(d) = [raised |-> FALSE,
                      val |-> ToText(Flat(d), "fixed", "-", FALSE, 1)]
         /\ IsText(ToS(d).val)
<1> DEFINE f == [NoFormat EXCEPT !.type = "f"]
           spec == ParseFmt(f)
           plain == ToText(Flat(d), "fixed", "-", FALSE, 1)
<1>0. f.width = 0
  BY DEF NoFormat
<1>1. /\ ~f.zero /\ f.type = "f" /\ ~f.comma /\ f.width = 0
      /\ f.prec = <<>> /\ f.align = "" /\ f.sign = ""
  BY DEF NoFormat
<1> HIDE DEF f
<1>2. /\ spec.min_width = 0 /\ spec.prec = -1 /\ spec.type = "f"
      /\ spec.sign = "-" /\ ~spec.dot /\ spec.align = ">"
  BY <1>1 DEF ParseFmt
<1>3. ~RefusedFormat(f)
  <2>1. ~(f.width > SsizeMax)
    BY <1>0, WordsAssumption
  <2>2. ~(f.type = "n" /\ f.comma)
    BY <1>1
  <2>3. ~(f.prec # <<>> /\ f.prec[1] > SsizeMax)
    BY <1>1
  <2>4. ~(f.zero /\ f.align # "")
    BY <1>1
  <2> QED
    BY <2>1, <2>2, <2>3, <2>4, Zenon DEF RefusedFormat
<1> HIDE DEF spec
<1>4. d \in Decimals
  BY DEF Fitting
<1>5. Format(d, f, Context) = FormatSpec(d, spec, Context)
  BY <1>3 DEF Format, spec
<1> DEFINE shown == IF IsSpecial(d) THEN Result(d, {})
                    ELSE Shown(d, spec, Context)
<1>6. shown = Result(Flat(d), {})
  <2>1. CASE IsSpecial(d)
    BY <2>1 DEF IsSpecial, Flat
  <2>2. CASE ~IsSpecial(d)
    <3>1. FitPrec(d, spec, Context) = Result(d, {})
      BY <1>2 DEF FitPrec
    <3>2. Shown(d, spec, Context)
            = AsFixedZero(Result(d, {}), spec, Context)
      BY <1>2, <3>1 DEF Shown
    <3>3. d.k = "fin"
      BY <2>2 DEF IsSpecial
    <3>4. CASE d.c = 0 /\ d.e > 0
      <4>1. AsFixedZero(Result(d, {}), spec, Context)
              = Also({}, QRescale(d, 0, Context))
        BY <1>2, <3>3, <3>4 DEF AsFixedZero, Result, IsZero
      <4>2. ~(0 > MaxEmax + 1) /\ ~(0 < MinEtiny)
        BY LimitsAssumption DEF MinEtiny
      <4>3. QRescale(d, 0, Context) = Result(Fin(d.s, 0, 0), {})
        BY <2>2, <3>4, <4>2 DEF QRescale, Rescale
      <4> QED
        BY <2>2, <3>2, <3>3, <3>4, <4>1, <4>3 DEF Also, Result, Flat
    <3>5. CASE ~(d.c = 0 /\ d.e > 0)
      <4>1. AsFixedZero(Result(d, {}), spec, Context) = Result(d, {})
        BY <1>2, <3>3, <3>5 DEF AsFixedZero, Result, IsZero
      <4> QED
        BY <2>2, <3>2, <3>3, <3>5, <4>1 DEF Flat
    <3> QED
      BY <3>4, <3>5
  <2> QED
    BY <2>1, <2>2
<1> HIDE DEF shown
<1>7. FormatSpec(d, spec, Context) = FormatShown(shown, spec, 1)
  BY <1>2, LimitsAssumption DEF FormatSpec, shown
<1>8. Flat(d) \in Decimals
  BY FlatFits DEF Fitting
<1>9. IsText(plain) /\ TextLength(plain) \in Nat
  BY <1>8, PlainType
<1>10. FormatShown(shown, spec, 1)
         = Laid(plain, spec, IsSpecial(Flat(d)))
  <2>1. shown.d = Flat(d) /\ shown.st \cap Errors = {}
    BY <1>6 DEF Result
  <2>2. FormOf("f") = "fixed"
    BY DEF FormOf
  <2> QED
    BY <1>2, <2>1, <2>2 DEF FormatShown
<1> HIDE DEF plain
<1>11. AddPad(plain, spec) = plain
  BY <1>2, <1>9 DEF AddPad
<1>12. Laid(plain, spec, IsSpecial(Flat(d))) = [text |-> plain, st |-> {}]
  BY <1>2, <1>11 DEF Laid
<1>13. Raises({}) = FALSE
  BY DEF Raises
<1>14. ToS(d) = Answer(plain, {})
  <2>1. Format(d, f, Context) = [text |-> plain, st |-> {}]
    BY <1>5, <1>7, <1>10, <1>12
  <2> DEFINE r == [text |-> plain, st |-> {}]
  <2>2. r.text = plain /\ r.st = {}
    OBVIOUS
  <2>3. ToS(d) = TextOf(Format(d, f, Context))
    BY DEF ToS, f
  <2> HIDE DEF r
  <2>4. TextOf(r) = Answer(plain, {})
    BY <2>2 DEF TextOf
  <2> QED
    BY <2>1, <2>3, <2>4 DEF r
<1>15. Answer(plain, {}) = [raised |-> FALSE, val |-> plain]
  BY <1>13 DEF Answer
<1>16. ToS(d).val = plain
  BY <1>14, <1>15
<1>17. IsText(ToS(d).val)
  BY <1>9, <1>16
<1> QED
  BY <1>14, <1>15, <1>17 DEF plain

LEMMA CmpOfSame ==
  ASSUME NEW s \in {0, 1}, NEW c \in Nat \ {0}, NEW e \in Int, NEW k \in Nat
  PROVE  Cmp(Fin(s, c, e), Fin(s, c * Pow10[k], e - k)) = 0
<1> DEFINE x == c * Pow10[k]
           d == Fin(s, c, e)
           y == Fin(s, x, e - k)
<1>1. x \in Nat \ {0} /\ Digits(x) = Digits(c) + k /\ Digits(c) \in Nat
  BY DigitsShiftLeft, DigitsAre
<1>2. e - k \in Int
  OBVIOUS
<1> HIDE DEF x
<1>3. /\ d.k = "fin" /\ d.s = s /\ d.c = c /\ d.e = e /\ ~IsInf(d)
      /\ AdjExp(d) = e + Digits(c) - 1
  BY FinFields
<1>4. /\ y.k = "fin" /\ y.s = s /\ y.c = x /\ y.e = e - k /\ ~IsInf(y)
      /\ AdjExp(y) = (e - k) + Digits(x) - 1
  <2>1. \A z \in Nat, f \in Int :
          LET q == Fin(s, z, f)
          IN /\ q.k = "fin" /\ q.s = s /\ q.c = z /\ q.e = f /\ ~IsInf(q)
             /\ AdjExp(q) = f + Digits(z) - 1
    BY FinFields
  <2>2. x \in Nat
    BY <1>1
  <2> QED
    BY <1>2, <2>1, <2>2
<1>5. AdjExp(d) = AdjExp(y)
  BY <1>1, <1>3, <1>4
<1>6. CmpSameAdjExp(d, y) = 0
  <2>1. CmpSameAdjExp(d, y) = IF k > 0 THEN Sgn(c * Pow10[k] - x)
                              ELSE Sgn(c - x * Pow10[-k])
    <3>1. d.e - y.e = k
      BY <1>3, <1>4
    <3> QED
      BY <1>3, <1>4, <3>1 DEF CmpSameAdjExp
  <2>2. x - x = 0 /\ c * Pow10[k] - x = x - x
    BY <1>1 DEF x
  <2>3. CASE k > 0
    BY <2>1, <2>2, <2>3 DEF Sgn
  <2>4. CASE ~(k > 0)
    <3>1. k = 0 /\ -k = 0 /\ c * 1 = c /\ c - c * 1 = 0
      BY <2>4
    <3>4. Pow10[k] = 1 /\ Pow10[-k] = 1
      BY <3>1, PowersAre, Zenon
    <3>2. x = c
      BY <3>1, <3>4 DEF x
    <3>3. c - x * Pow10[-k] = 0
      BY <3>1, <3>2, <3>4
    <3> QED
      BY <2>1, <2>4, <3>3 DEF Sgn
  <2> QED
    BY <2>3, <2>4
<1> HIDE DEF d, y
<1>7. CmpAbs(d, y) = 0
  BY <1>1, <1>3, <1>4, <1>5, <1>6 DEF CmpAbs
<1>8. Cmp(d, y) = CmpAbs(d, y) * ArithSign(d)
  BY <1>1, <1>3, <1>4 DEF Cmp
<1>9. 0 * ArithSign(d) = 0
  BY DEF ArithSign
<1> QED
  BY <1>7, <1>8, <1>9 DEF d, y, x

LEMMA EqlPIs ==
  ASSUME NEW a, NEW b, ~IsNaN(a), ~IsNaN(b), Cmp(a, b) = 0
  PROVE  EqlP(a, b).val
<1>1. QCmp(a, b) = [c |-> Cmp(a, b), st |-> {}]
  BY DEF QCmp
<1>2. QCmp(a, b).c = 0
  BY <1>1
<1> QED
  BY <1>2 DEF EqlP, IsSame, Answer

\* What a text without an exponent is read as.
LEMMA ReadNumber ==
  ASSUME NEW sg, NEW int \in Seq(0..9), NEW dot,
         NEW frac \in Seq(0..9), int # <<>>, Len(frac) <= MaxPrec,
         NEW c \in Nat, Len(Relevant(int \o frac)) <= MaxPrec,
         NumberOf(Relevant(int \o frac)) = c
  PROVE  SetString(Text(sg, int, dot, frac, <<>>), Context)
           = Finalize(Fin(IF sg = "-" THEN 1 ELSE 0, c, -Len(frac)), Context)
<1> DEFINE t == Text(sg, int, dot, frac, <<>>)
           n == Len(frac)
           all == int \o frac
<1>1. /\ t.kind = "num" /\ t.sign = sg /\ t.int = int /\ t.dot = dot
      /\ t.frac = frac /\ t.exp = <<>>
  BY TextFields
<1>2. n \in Nat /\ n <= MaxPrec /\ MaxPrec \in Nat /\ SsizeMax \in Nat
      /\ MaxPrec <= SsizeMax /\ ExpInf \in Int /\ ExpInf > 0
  BY LimitsAssumption, WordsAssumption, GuestAssumption DEF ExpInf
<1>3. all # <<>>
  <2>1. Len(int) \in Nat /\ Len(int) # 0 /\ Len(all) = Len(int) + Len(frac)
    OBVIOUS
  <2> HIDE DEF all
  <2>2. Len(all) # 0
    BY <1>2, <2>1
  <2> QED
    BY <2>2
<1> HIDE DEF t, n, all
<1>4. TextExp(<<>>, n) = -n
  <2>1. ~(0 < -SsizeMax - 1 + n)
    BY <1>2
  <2>2. 0 - n = -n /\ ~(-n > ExpInf) /\ ~(-n = -SsizeMax - 1)
    BY <1>2
  <2> QED
    BY <2>1, <2>2 DEF TextExp
<1>5. ~(n > MaxPrec) /\ ~(Len(Relevant(all)) > MaxPrec)
  <2>1. Len(Relevant(all)) <= MaxPrec
    BY DEF all
  <2>2. Len(Relevant(all)) \in Nat
    <3>1. all \in Seq(0..9)
      BY DEF all
    <3>2. Relevant(all) \in Seq(0..9)
      BY <3>1, PayloadType
    <3> QED
      BY <3>2
  <2> QED
    BY <1>2, <2>1, <2>2
<1>6. SetString(t, Context)
        = Finalize(Fin(IF sg = "-" THEN 1 ELSE 0, NumberOf(Relevant(all)),
                       TextExp(<<>>, n)), Context)
  BY <1>1, <1>3, <1>5 DEF SetString, all, n
<1> QED
  BY <1>4, <1>6 DEF t, n, all

\* The digits of a number between zeros.
ShownIn(s, c, z, k) ==
  /\ s \in Seq(0..9) /\ z \in Nat /\ k \in Nat
  /\ Len(s) = z + Digits(c) + k
  /\ \A i \in 1..z : s[i] = 0
  /\ \A i \in 1..Digits(c) : s[z + i] = DigitsOf(c)[i]
  /\ \A i \in (Digits(c) + 1)..(Digits(c) + k) : s[z + i] = 0

LEMMA RelevantIs ==
  ASSUME NEW c \in Nat, NEW s, NEW z, NEW k, ShownIn(s, c, z, k), c = 0 => k = 0
  PROVE  /\ Len(Relevant(s)) = Digits(c) + k
         /\ NumberOf(Relevant(s)) = c * Pow10[k]
<1> DEFINE n == Digits(c)
           p == Payload(s)
<1>1. /\ s \in Seq(0..9) /\ z \in Nat /\ k \in Nat /\ Len(s) = z + n + k
      /\ n \in Nat \ {0}
  BY DigitsAre DEF ShownIn
<1>2. /\ \A i \in 1..z : s[i] = 0
      /\ \A i \in 1..n : s[z + i] = DigitsOf(c)[i]
      /\ \A i \in (n + 1)..(n + k) : s[z + i] = 0
  BY DEF ShownIn
<1>3. Len(DigitsOf(c)) = n /\ (c > 0 => DigitsOf(c)[1] # 0)
      /\ (c = 0 => DigitsOf(c) = <<0>>)
  BY DigitsOfAre
<1>4. CASE c > 0
  <2>1. z \in 0..Len(s) /\ z < Len(s) /\ 1 \in 1..n
    BY <1>1
  <2>2. s[z + 1] # 0
    BY <1>2, <1>3, <1>4, <2>1
  <2>3. /\ p \in Seq(0..9) /\ Len(p) = Len(s) - z
        /\ \A i \in 1..(Len(s) - z) : p[i] = s[z + i]
    BY <1>1, <1>2, <2>1, <2>2, PayloadIs
  <2>4. Len(p) = n + k /\ Len(p) # 0
    BY <1>1, <2>3
  <2> HIDE DEF p, n
  <2>5. Relevant(s) = p
    BY <2>3, <2>4 DEF Relevant, p
  <2>6. \A i \in 1..n : p[i] = DigitsOf(c)[i]
    <3> TAKE i \in 1..n
    <3>1. i \in 1..(Len(s) - z)
      BY <1>1
    <3> QED
      BY <1>2, <2>3, <3>1
  <2>7. \A i \in (n + 1)..(n + k) : p[i] = 0
    <3> TAKE i \in (n + 1)..(n + k)
    <3>1. i \in 1..(Len(s) - z)
      BY <1>1
    <3> QED
      BY <1>2, <2>3, <3>1
  <2>8. NumberOf(p) = c * Pow10[k]
    BY <1>1, <2>3, <2>4, <2>6, <2>7, NumberOfShown DEF n
  <2> QED
    BY <2>4, <2>5, <2>8 DEF n
<1>5. CASE c = 0
  <2>1. k = 0 /\ n = 1 /\ Len(s) = z + 1
    BY <1>1, <1>5, ZeroHasOneDigit
  <2>2. s[z + 1] = 0
    BY <1>2, <1>3, <1>5, <2>1
  <2>3. \A i \in 1..Len(s) : s[i] = 0
    <3> TAKE i \in 1..Len(s)
    <3>1. i \in 1..z \/ i = z + 1
      BY <1>1, <2>1
    <3> QED
      BY <1>2, <2>2, <3>1
  <2>4. Len(s) \in 0..Len(s) /\ ~(Len(s) < Len(s)) /\ Len(s) - Len(s) = 0
    BY <1>1
  <2>5. p \in Seq(0..9) /\ Len(p) = Len(s) - Len(s)
    BY <1>1, <2>3, <2>4, PayloadIs
  <2> HIDE DEF p
  <2>6. p = <<>>
    BY <2>4, <2>5
  <2>7. Relevant(s) = <<0>>
    BY <2>6 DEF Relevant, p
  <2>8. NumberOf(<<0>>) = 0 * Pow10[0]
    <3> DEFINE t == <<0>>
    <3>1. t \in Seq(0..9) /\ Len(t) = Digits(0) + 0
      BY ZeroHasOneDigit
    <3>2. \A i \in 1..Digits(0) : t[i] = DigitsOf(0)[i]
      BY DigitsOfAre
    <3>3. \A i \in (Digits(0) + 1)..(Digits(0) + 0) : t[i] = 0
      BY ZeroHasOneDigit
    <3> HIDE DEF t
    <3>4. NumberOf(t) = 0 * Pow10[0]
      BY <3>1, <3>2, <3>3, NumberOfShown
    <3> QED
      BY <3>4 DEF t
  <2> QED
    BY <1>5, <2>1, <2>7, <2>8
<1> QED
  BY <1>4, <1>5

Behind(d) == IF d.e > 0 THEN d.e ELSE 0
ReadAs(d) == Fin(d.s, d.c * Pow10[Behind(d)], d.e - Behind(d))
Readable(d) ==
  d.e >= -MaxPrec /\ Digits(d.c) + Behind(d) <= MaxPrec
    /\ (d.c = 0 => d.e <= 0)

LEMMA ReadShown ==
  ASSUME NEW d \in Numbers, Readable(d), NEW int \in Seq(0..9), NEW dot,
         NEW frac \in Seq(0..9), NEW z, int # <<>>, PlainOf(d, int, dot, frac),
         Len(frac) = Behind(d) - d.e, ShownIn(int \o frac, d.c, z, Behind(d))
  PROVE  SetString(ToText(d, "fixed", "-", FALSE, 1), Context)
           = Finalize(ReadAs(d), Context)
<1> DEFINE sg == IF d.s = 1 THEN "-" ELSE ""
           k == Behind(d)
           c == d.c * Pow10[k]
<1>1. /\ d.s \in {0, 1} /\ d.c \in Nat /\ d.e \in Int /\ k \in Nat
      /\ Digits(d.c) \in Nat /\ k - d.e \in Nat /\ -(k - d.e) = d.e - k
      /\ k - d.e <= MaxPrec /\ (d.c = 0 => k = 0)
  BY NumberFields, LimitsAssumption DEF Behind, Readable
<1> HIDE DEF k
<1>2. Len(Relevant(int \o frac)) = Digits(d.c) + k
      /\ NumberOf(Relevant(int \o frac)) = c
  BY <1>1, RelevantIs DEF k
<1>3. Len(Relevant(int \o frac)) <= MaxPrec
  BY <1>2 DEF Readable, k
<1>4. c \in Nat
  <2>1. Pow10[k] \in Nat
    BY <1>1, PowersAre
  <2> QED
    BY <1>1, <2>1
<1> HIDE DEF c
<1>5. Len(frac) <= MaxPrec /\ -Len(frac) = d.e - k
  BY <1>1 DEF k
<1>6. (IF sg = "-" THEN 1 ELSE 0) = d.s
  BY <1>1, Zenon
<1> HIDE DEF sg
<1>7. SetString(Text(sg, int, dot, frac, <<>>), Context)
        = Finalize(Fin(IF sg = "-" THEN 1 ELSE 0, c, -Len(frac)), Context)
  BY <1>2, <1>3, <1>4, <1>5, ReadNumber
<1>8. SetString(Text(sg, int, dot, frac, <<>>), Context)
        = Finalize(Fin(d.s, c, d.e - k), Context)
  BY <1>5, <1>6, <1>7, Zenon
<1> QED
  BY <1>8, Zenon DEF PlainOf, sg, ReadAs, c, k

\* to_s of a number, read again.
LEMMA ReadBack ==
  ASSUME NEW d \in Numbers, Readable(d)
  PROVE  SetString(ToText(d, "fixed", "-", FALSE, 1), Context)
           = Finalize(ReadAs(d), Context)
<1> DEFINE digits == DigitsOf(d.c)
           n == Digits(d.c)
           place == n + d.e
           k == Behind(d)
<1>1. /\ d.c \in Nat /\ d.e \in Int /\ n \in Nat \ {0} /\ k \in Nat
      /\ digits \in Seq(0..9) /\ Len(digits) = n
  <2>1. d.c \in Nat /\ d.e \in Int /\ n \in Nat \ {0}
    BY NumberFields
  <2>2. k \in Nat
    BY <2>1 DEF Behind
  <2>3. digits \in Seq(0..9) /\ Len(digits) = n
    BY <2>1, DigitsOfAre
  <2> QED
    BY <2>1, <2>2, <2>3
<1>5. d.e >= 0 \/ (d.e < 0 /\ place <= 0) \/ (d.e < 0 /\ place > 0)
  <2> HIDE DEF n
  <2> QED
    BY <1>1
<1>2. CASE d.e >= 0
  <2> DEFINE zeros == Zeros(d.e)
             int == digits \o zeros
  <2>1. PlainOf(d, int, FALSE, <<>>)
    BY <1>2, PlainNumber
  <2>2. /\ zeros \in Seq(0..9) /\ Len(zeros) = d.e
        /\ \A i \in 1..d.e : zeros[i] = 0
    <3>1. d.e \in Nat
      BY <1>1, <1>2
    <3> HIDE DEF zeros
    <3>2. zeros = Zeros(d.e)
      BY DEF zeros
    <3> QED
      BY <3>1, <3>2, ZerosType
  <2>3. k = d.e /\ 0 = k - d.e
    BY <1>1, <1>2 DEF Behind
  <2> HIDE DEF digits, zeros, n, k
  <2>4. /\ int \o <<>> \in Seq(0..9) /\ Len(int \o <<>>) = 0 + n + d.e
        /\ int # <<>> /\ int \in Seq(0..9) /\ <<>> \in Seq(0..9)
        /\ Len(<<>>) = 0 /\ int \o <<>> = int
    BY <1>1, <1>2, <2>2, SMTT(30)
  <2>5. /\ \A i \in 1..n : (int \o <<>>)[0 + i] = digits[i]
        /\ \A i \in (n + 1)..(n + d.e) : (int \o <<>>)[0 + i] = 0
    BY <1>1, <1>2, <2>2
  <2> HIDE DEF int
  <2>6. ShownIn(int \o <<>>, d.c, 0, k)
    BY <1>1, <2>3, <2>4, <2>5 DEF ShownIn, n, digits
  <2> QED
    BY <2>1, <2>3, <2>4, <2>6, ReadShown DEF k
<1>3. CASE d.e < 0 /\ place <= 0
  <2> DEFINE zeros == Zeros(-place)
             int == <<0>>
             frac == zeros \o digits
             all == int \o frac
             z == 1 - place
  <2>1. PlainOf(d, int, TRUE, frac)
    BY <1>3, PlainNumber
  <2>2. -place \in Nat /\ z \in Nat /\ z = 1 + (-place) /\ place \in Int
        /\ -place + n = -d.e
    BY <1>1, <1>3
  <2>3. /\ zeros \in Seq(0..9) /\ Len(zeros) = -place
        /\ \A i \in 1..(-place) : zeros[i] = 0
    BY <2>2, ZerosType
  <2>4. k = 0 /\ -d.e = k - d.e
    BY <1>1, <1>3 DEF Behind
  <2> HIDE DEF digits, zeros, n, k, place
  <2>5. frac \in Seq(0..9) /\ Len(frac) = -d.e
    BY <1>1, <2>2, <2>3
  <2>6. /\ int \in Seq(0..9) /\ int # <<>> /\ all \in Seq(0..9)
        /\ Len(all) = z + n + 0
    BY <1>1, <2>2, <2>3
  <2>7. \A i \in 1..z : all[i] = 0
    BY <1>1, <2>2, <2>3
  <2>8. \A i \in 1..n : all[z + i] = digits[i]
    <3> TAKE i \in 1..n
    <3> DEFINE j == -place + i
    <3>1. j \in 1..Len(frac) /\ j > Len(zeros) /\ j - Len(zeros) = i
          /\ z + i = 1 + j
      BY <1>1, <2>2, <2>3, <2>5
    <3>2. frac[j] = digits[j - Len(zeros)]
      <4>1. j \in 1..(Len(zeros) + Len(digits)) /\ ~(j <= Len(zeros))
        BY <1>1, <2>2, <2>3
      <4> HIDE DEF j
      <4>2. \A x, y \in Seq(0..9) : \A q \in 1..(Len(x) + Len(y)) :
              (x \o y)[q] = IF q <= Len(x) THEN x[q] ELSE y[q - Len(x)]
        OBVIOUS
      <4> QED
        BY <1>1, <2>3, <4>1, <4>2
    <3>3. all[1 + j] = frac[j]
      <4> HIDE DEF j, frac
      <4> QED
        BY <2>5, <3>1
    <3> HIDE DEF j, all, frac, z
    <3> QED
      BY <3>1, <3>2, <3>3
  <2> HIDE DEF all, z, frac, int
  <2>9. ShownIn(all, d.c, z, k)
    BY <1>1, <2>2, <2>4, <2>6, <2>7, <2>8 DEF ShownIn, n, digits
  <2> QED
    BY <2>1, <2>4, <2>5, <2>6, <2>9, ReadShown DEF k, all
<1>4. CASE d.e < 0 /\ place > 0
  <2> DEFINE int == SubSeq(digits, 1, place)
             frac == SubSeq(digits, place + 1, n)
             all == int \o frac
  <2>1. PlainOf(d, int, TRUE, frac)
    BY <1>4, PlainNumber
  <2>2. place \in 1..n /\ n - place = -d.e
    BY <1>1, <1>4
  <2>3. k = 0 /\ -d.e = k - d.e
    BY <1>1, <1>4 DEF Behind
  <2> HIDE DEF digits, n, k, place
  <2>4. /\ int \in Seq(0..9) /\ Len(int) = place /\ int # <<>>
        /\ frac \in Seq(0..9) /\ Len(frac) = n - place
    BY <1>1, <2>2
  <2>5. all = digits
    BY <1>1, <2>2
  <2> HIDE DEF all, int, frac
  <2>6. ShownIn(all, d.c, 0, k)
    BY <1>1, <2>3, <2>5 DEF ShownIn, n, digits
  <2> QED
    BY <2>1, <2>2, <2>3, <2>4, <2>6, ReadShown DEF k, all
<1> QED
  BY <1>2, <1>3, <1>4, <1>5, Zenon

LEMMA FinSame ==
  ASSUME NEW d \in Numbers
  PROVE  Fin(d.s, d.c, d.e) = d
BY DEF Numbers, Fin

\* A number with zeros behind it loses zeros only.
LEMMA ReadAsIs ==
  ASSUME NEW d \in Fitting(Context), d.k = "fin", d.c = 0 => d.e <= 0, Usual(d)
  PROVE  \E j \in Nat :
           /\ d.c = 0 => j = 0
           /\ Finalize(ReadAs(d), Context).d = Fin(d.s, d.c * Pow10[j], d.e - j)
           /\ ~Raises(Finalize(ReadAs(d), Context).st)
<1> DEFINE ctx == Context
           n == Digits(d.c)
           k == Behind(d)
<1>1. /\ ContextOK(ctx) /\ ctx.clamp = 0 /\ ctx.prec \in Nat \ {0}
      /\ ctx.emax \in Nat /\ ctx.emin \in Int /\ ctx.emin <= 0
      /\ ctx.emin = MinEmin
  BY ContextIs DEF ContextOK
<1>2. /\ d \in Numbers /\ d.s \in {0, 1} /\ d.c \in Nat /\ d.e \in Int
      /\ n \in Nat \ {0} /\ AdjExp(d) = d.e + n - 1
  BY Kinds, NumberFields DEF Fitting
<1>3. n <= ctx.prec /\ AdjExp(d) <= ctx.emax
  BY <1>2 DEF Fitting, FitsIn
<1>4. ~Raises({}) /\ ~Raises({"Rounded"})
  BY DEF Raises, IgnoredConditions
<1>5. CASE d.e <= 0
  <2>1. k = 0 /\ d.c * Pow10[0] = d.c /\ d.e - 0 = d.e
    BY <1>2, <1>5, PowersAre DEF Behind
  <2>2. ReadAs(d) = d /\ Fin(d.s, d.c * Pow10[0], d.e - 0) = d
    BY <1>2, <2>1, FinSame DEF ReadAs
  <2>3. ~(d.c # 0 /\ AdjExp(d) < ctx.emin)
    <3>1. AdjExp(d) \in Int
      BY <1>2
    <3> QED
      BY <1>1, <3>1 DEF Usual
  <2>4. Finalize(d, ctx) = Result(d, {})
    BY <1>1, <2>3, FinalizeKeeps
  <2>5. Finalize(d, ctx).d = d /\ Finalize(d, ctx).st = {}
    BY <2>4 DEF Result
  <2> QED
    BY <1>4, <2>2, <2>5
<1>6. CASE d.e > 0
  <2> DEFINE e == d.e
             p == Pow10[e]
             big == d.c * p
             x == Fin(d.s, big, 0)
  <2>1. k = e /\ e - e = 0 /\ e \in Nat /\ d.c > 0
    BY <1>2, <1>6 DEF Behind
  <2>2. big \in Nat \ {0} /\ Digits(big) = n + e
    BY <1>2, <2>1, DigitsShiftLeft
  <2>3. ReadAs(d) = x
    BY <2>1 DEF ReadAs
  <2> HIDE DEF p, big
  <2>4. /\ x \in Numbers /\ x.k = "fin" /\ x.s = d.s /\ x.c = big /\ x.e = 0
        /\ ~IsNaN(x) /\ ~IsInf(x) /\ ~IsSpecial(x)
        /\ AdjExp(x) = 0 + Digits(big) - 1
    <3>1. \A s \in {0, 1}, c \in Nat, f \in Int :
            LET y == Fin(s, c, f)
            IN /\ y \in Numbers /\ y.k = "fin" /\ y.s = s /\ y.c = c /\ y.e = f
               /\ ~IsNaN(y) /\ ~IsInf(y) /\ ~IsSpecial(y)
               /\ AdjExp(y) = f + Digits(c) - 1
      BY FinFields
    <3>2. big \in Nat /\ 0 \in Int
      BY <2>2
    <3> QED
      BY <1>2, <3>1, <3>2, SMTT(30)
  <2> HIDE DEF x
  <2>5. AdjExp(x) = AdjExp(d)
    BY <1>2, <2>1, <2>2, <2>4
  <2>6. CheckExp(x, ctx) = Result(x, {})
    <3>1. ~(AdjExp(x) > ctx.emax) /\ ~(AdjExp(x) < ctx.emin) /\ ~(ctx.clamp = 1)
      BY <1>1, <1>2, <1>3, <2>1, <2>5
    <3> QED
      BY <3>1 DEF CheckExp
  <2>7. Finalize(x, ctx) = Also({}, CheckRound(x, ctx))
    BY <2>4, <2>6 DEF Finalize, RoundAfter, Result
  <2> DEFINE shift == Digits(x.c) - ctx.prec
  <2>8. shift = n + e - ctx.prec /\ shift <= e
    BY <1>1, <1>2, <1>3, <2>1, <2>2, <2>4
  <2>9. CASE shift <= 0
    <3>1. CheckRound(x, ctx) = Result(x, {})
      BY <2>9 DEF CheckRound
    <3>2. Finalize(x, ctx).d = x /\ Finalize(x, ctx).st = {}
      BY <2>7, <3>1 DEF Also, Result
    <3>3. x = Fin(d.s, d.c * Pow10[e], e - e)
      BY <2>1 DEF x, big, p
    <3> QED
      BY <1>4, <2>1, <2>3, <3>2, <3>3
  <2>10. CASE ~(shift <= 0)
    <3> DEFINE j == e - shift
               c == d.c * Pow10[j]
               cut == ShiftR(big, shift)
    <3>1. shift \in Nat /\ j \in Nat /\ e - j = shift /\ shift + j = e
      BY <1>1, <1>2, <2>1, <2>8, <2>10
    <3> HIDE DEF shift
    <3>2. big \div Pow10[shift] = c /\ big % Pow10[shift] = 0
      <4>1. d.c \in Nat /\ shift <= e
        BY <1>2, <3>1
      <4> HIDE DEF e
      <4>2. /\ (d.c * Pow10[e]) \div Pow10[shift] = d.c * Pow10[e - shift]
            /\ (d.c * Pow10[e]) % Pow10[shift] = 0
        BY <2>1, <3>1, <4>1, PowersCancel
      <4> QED
        BY <4>2 DEF big, p
    <3>3. cut.c = c /\ cut.rnd = 0
      <4>1. /\ ShiftR(big, shift).c = big \div Pow10[shift]
            /\ big % Pow10[shift] = 0 => ShiftR(big, shift).rnd = 0
        BY <2>2, <3>1, ShiftRIs
      <4> QED
        BY <3>2, <4>1
    <3> HIDE DEF j, c, cut
    <3>4. CheckRound(x, ctx) = CutToPrec(d.s, cut, 0 + shift, ctx)
      BY <2>4, <2>10 DEF CheckRound, shift, cut
    <3> DEFINE y == Fin(d.s, c, 0 + shift)
    <3>5. ~RndIncr(y, 0, ctx)
      BY ContextIs DEF RndIncr
    <3>6. ApplyRound(y, 0, ctx) = Result(y, {})
      BY <3>5 DEF ApplyRound
    <3> HIDE DEF y
    <3>7. CheckRound(x, ctx) = Also({"Rounded"} \cup {}, Result(y, {}))
      BY <3>3, <3>4, <3>6 DEF CutToPrec, y
    <3>8. Finalize(x, ctx).d = y /\ Finalize(x, ctx).st = {"Rounded"}
      BY <2>7, <3>7 DEF Also, Result
    <3>9. y = Fin(d.s, d.c * Pow10[j], e - j)
      BY <3>1 DEF y, c
    <3> QED
      BY <1>4, <2>1, <2>3, <3>1, <3>8, <3>9
  <2> QED
    BY <2>9, <2>10
<1> QED
  BY <1>2, <1>5, <1>6

LEMMA ReadWord ==
  ASSUME NEW t, t.kind \in {"nan", "snan", "inf"}, NEW sg, t.sign = sg,
         NEW c \in Nat, c < Pow10[Context.prec],
         t.int = IF c > 0 THEN DigitsOf(c) ELSE <<>>
  PROVE  LET s == IF sg = "-" THEN 1 ELSE 0
         IN SetString(t, Context)
              = Result(IF t.kind = "inf" THEN Inf(s)
                       ELSE [k |-> IF t.kind = "nan" THEN "qnan" ELSE "snan",
                             s |-> s, c |-> c, e |-> 0], {})
<1> DEFINE s == IF sg = "-" THEN 1 ELSE 0
           p == Payload(t.int)
<1>1. CASE t.kind = "inf"
  BY <1>1 DEF SetString
<1>2. CASE t.kind \in {"nan", "snan"}
  <2>1. Len(p) \in Nat /\ Len(p) <= Context.prec /\ NumberOf(p) = c
    <3>1. CASE c > 0
      <4> DEFINE digits == DigitsOf(c)
      <4>1. /\ digits \in Seq(0..9) /\ Len(digits) = Digits(c) /\ digits[1] # 0
            /\ Digits(c) \in Nat \ {0}
        BY <3>1, DigitsOfAre, DigitsAre
      <4> HIDE DEF digits
      <4>2. /\ 0 \in 0..Len(digits) /\ (\A i \in 1..0 : digits[i] = 0)
            /\ (0 < Len(digits) => digits[0 + 1] # 0)
        BY <4>1
      <4> DEFINE q == Payload(digits)
      <4>3. /\ q \in Seq(0..9) /\ Len(q) = Len(digits) - 0
            /\ \A i \in 1..(Len(digits) - 0) : q[i] = digits[0 + i]
        BY <4>1, <4>2, PayloadIs
      <4> HIDE DEF q
      <4>4. /\ Len(q) = Digits(c) + 0
            /\ \A i \in 1..Digits(c) : q[i] = digits[i]
            /\ \A i \in (Digits(c) + 1)..(Digits(c) + 0) : q[i] = 0
        BY <4>1, <4>3
      <4>5. NumberOf(q) = c * Pow10[0]
        BY <4>3, <4>4, NumberOfShown DEF digits
      <4>6. c * Pow10[0] = c
        BY PowersAre
      <4>7. Digits(c) <= Context.prec
        <5>1. Context.prec \in Nat /\ Context.prec >= 1
          BY ContextIs
        <5> QED
          BY <5>1, DigitsBound
      <4>8. p = q
        BY <3>1 DEF q, digits
      <4> HIDE DEF p
      <4> QED
        BY <4>1, <4>4, <4>5, <4>6, <4>7, <4>8
    <3>2. CASE c = 0
      <4>1. p = <<>>
        BY <3>2 DEF Payload
      <4>2. NumberOf(<<>>) = 0
        <5>1. <<>> \in Seq(0..9) /\ Len(<<>>) = 0
          OBVIOUS
        <5>2. NumberOf(<<>>) \in Nat /\ NumberOf(<<>>) < Pow10[0]
          BY <5>1, NumberBound
        <5> QED
          BY <5>2, PowersAre
      <4> HIDE DEF p
      <4> QED
        BY <3>2, <4>1, <4>2, ContextIs
    <3> QED
      BY <3>1, <3>2
  <2> HIDE DEF p, s
  <2>2. ~(Len(p) > Context.prec - Context.clamp)
    BY <2>1, ContextIs
  <2>3. SetString(t, Context)
          = Result([k |-> IF t.kind = "nan" THEN "qnan" ELSE "snan",
                    s |-> s, c |-> NumberOf(p), e |-> 0], {})
    BY <1>2, <2>2 DEF SetString, p, s
  <2> QED
    BY <1>2, <2>1, <2>3 DEF s
<1> QED
  BY <1>1, <1>2

LEMMA FromDecimalIs ==
  ASSUME NEW d \in Fitting(Context)
  PROVE  LET r == SetString(ToText(Flat(d), "fixed", "-", FALSE, 1), Context)
         IN /\ FromArgument([decimal |-> d])
                 = [raised |-> FALSE, d |-> r.d, st |-> r.st]
            /\ r.d \in Fitting(Context)
<1> DEFINE arg == [decimal |-> d]
           t == ToText(Flat(d), "fixed", "-", FALSE, 1)
<1>1. arg.decimal = d /\ DOMAIN arg = {"decimal"}
  OBVIOUS
<1> HIDE DEF arg, t
<1>2. FromArgument(arg) = FromText(ToS(d))
  BY <1>1 DEF FromArgument
<1>3. ~ToS(d).raised /\ ToS(d).val = t /\ IsText(t)
  <2>1. ToS(d) = [raised |-> FALSE, val |-> t] /\ IsText(ToS(d).val)
    BY ToSIs DEF t
  <2>2. ~ToS(d).raised /\ ToS(d).val = t
    BY <2>1
  <2> QED
    BY <2>1, <2>2
<1>4. FromText(ToS(d)) = Built(SetString(t, Context))
  BY <1>3 DEF FromText
<1>5. SetString(t, Context).d \in Fitting(Context)
  BY <1>3, ContextIs, SetStringFits
<1> QED
  BY <1>2, <1>4, <1>5 DEF Built, arg, t

\* Decimal.new(d.to_s) is d again, for every decimal a text can hold.
LEMMA TextAgain ==
  ASSUME NEW d \in Fitting(Context), FitsText(d), Usual(d)
  PROVE  IsThe(d, FromArgument([decimal |-> d]))
<1> DEFINE b == FromArgument([decimal |-> d])
           x == Flat(d)
           t == ToText(x, "fixed", "-", FALSE, 1)
           r == SetString(t, Context)
           sg == SignOf(x, "-")
<1>1. d \in Decimals /\ d.s \in {0, 1} /\ d.c \in Nat /\ d.e \in Int
  BY Kinds DEF Fitting
<1>2. /\ x \in Fitting(Context) /\ x.k = d.k /\ x.s = d.s /\ x.c = d.c
      /\ (d.c = 0 => x.e <= 0) /\ x \in Decimals
  BY FlatFits DEF Fitting
<1>3. b = [raised |-> FALSE, d |-> r.d, st |-> r.st]
  BY FromDecimalIs
<1> HIDE DEF b, r
<1>4. ~b.raised /\ b.d = r.d /\ b.st = r.st
  BY <1>3
<1>5. ~Raises({})
  BY DEF Raises
<1>6. (IF sg = "-" THEN 1 ELSE 0) = d.s
  BY <1>1, <1>2, Zenon DEF SignOf
<1>7. CASE IsNaN(d)
  <2> DEFINE kind == IF d.k = "qnan" THEN "nan" ELSE "snan"
             payload == IF d.c > 0 THEN DigitsOf(d.c) ELSE <<>>
             u == [Word(kind, sg, payload) EXCEPT !.percent = FALSE]
  <2>1. x = d /\ IsNaN(x) /\ d.k \in {"qnan", "snan"}
    BY <1>7 DEF Flat, IsNaN
  <2>2. t = u
    BY <2>1 DEF ToText
  <2>3. u.kind = kind /\ u.sign = sg /\ u.int = payload
    BY WordFields
  <2> HIDE DEF u, sg, t, x
  <2>4. d.c < Pow10[Context.prec]
    <3>1. Context.prec - Context.clamp = Context.prec
      BY ContextIs
    <3> QED
      BY <1>7, <3>1 DEF Fitting, FitsIn
  <2>5. r = Result([k |-> IF kind = "nan" THEN "qnan" ELSE "snan",
                    s |-> d.s, c |-> d.c, e |-> 0], {})
    <3>1. kind \in {"nan", "snan"} /\ kind # "inf"
      OBVIOUS
    <3> HIDE DEF kind
    <3>2. SetString(u, Context)
            = Result(IF u.kind = "inf" THEN Inf(IF sg = "-" THEN 1 ELSE 0)
                     ELSE [k |-> IF u.kind = "nan" THEN "qnan" ELSE "snan",
                           s |-> IF sg = "-" THEN 1 ELSE 0, c |-> d.c, e |-> 0],
                     {})
      BY <1>1, <2>3, <2>4, <3>1, ReadWord
    <3> QED
      BY <1>6, <2>2, <2>3, <3>1, <3>2 DEF r
  <2>6. (IF kind = "nan" THEN "qnan" ELSE "snan") = d.k
    BY <2>1
  <2> HIDE DEF kind
  <2>7. r.d.k = d.k /\ r.d.s = d.s /\ r.d.c = d.c /\ r.st = {}
    BY <2>5, <2>6 DEF Result
  <2> QED
    BY <1>4, <1>5, <1>7, <2>7 DEF IsThe, b
<1>8. CASE IsInf(d)
  <2> DEFINE u == [Word("inf", sg, <<>>) EXCEPT !.percent = FALSE]
  <2>1. x = d /\ IsInf(x) /\ ~IsNaN(x) /\ ~IsNaN(d) /\ d.k = "inf"
    BY <1>8 DEF Flat, IsInf, IsNaN
  <2>2. t = u
    BY <2>1 DEF ToText
  <2>3. u.kind = "inf" /\ u.sign = sg /\ u.int = <<>>
    BY WordFields
  <2> HIDE DEF u, sg, t, x
  <2>4. SetString(u, Context) = Result(Inf(IF sg = "-" THEN 1 ELSE 0), {})
    BY <2>3 DEF SetString
  <2>5. r = Result(Inf(d.s), {})
    BY <1>6, <2>2, <2>4 DEF r
  <2>6. r.d = Inf(d.s) /\ r.st = {}
    BY <2>5 DEF Result
  <2>7. Inf(d.s).k = "inf" /\ Inf(d.s).s = d.s /\ IsInf(Inf(d.s)) /\ ~IsNaN(Inf(d.s))
    BY DEF Inf, Special, IsInf, IsNaN
  <2>8. Cmp(d, Inf(d.s)) = 0
    <3>1. d.s - d.s = 0
      BY <1>1
    <3> QED
      BY <1>8, <2>7, <3>1 DEF Cmp
  <2>9. EqlP(d, Inf(d.s)).val
    BY <2>1, <2>7, <2>8, EqlPIs
  <2> QED
    BY <1>4, <1>5, <2>1, <2>6, <2>7, <2>9 DEF IsThe, b
<1>9. CASE d.k = "fin"
  <2>1. x \in Numbers /\ d \in Numbers /\ ~IsNaN(d) /\ x.e \in Int
    <3> HIDE DEF x
    <3>1. x.k = "fin"
      BY <1>2, <1>9
    <3>2. x \in Numbers /\ x.e \in Int
      BY <1>2, <3>1, Kinds
    <3>3. d \in Numbers /\ ~IsNaN(d)
      BY <1>1, <1>9, Kinds DEF IsNaN
    <3> QED
      BY <3>2, <3>3
  <2>2. Digits(d.c) \in Nat \ {0} /\ AdjExp(d) = d.e + Digits(d.c) - 1
    BY <2>1, NumberFields
  <2>3. d.e \in -MaxPrec..(MaxPrec - Digits(d.c)) /\ MaxPrec \in Nat
    BY <1>9, LimitsAssumption DEF FitsText
  <2>4. x.e = d.e \/ (d.c = 0 /\ x.e = 0)
    BY FinFields, <1>1 DEF Flat, Fin
  <2>5. Digits(d.c) <= MaxPrec
    <3>1. Digits(d.c) <= Context.prec
      BY <1>9 DEF Fitting, FitsIn
    <3> QED
      BY <2>2, <2>3, <3>1, ContextIs
  <2>6. Readable(x)
    <3>1. x.e >= -MaxPrec
      BY <2>3, <2>4
    <3>2. Digits(x.c) + Behind(x) <= MaxPrec
      BY <1>2, <2>1, <2>2, <2>3, <2>4, <2>5 DEF Behind
    <3> HIDE DEF x
    <3> QED
      BY <1>2, <3>1, <3>2 DEF Readable
  <2>7. Usual(x)
    <3>1. CASE d.c = 0
      BY <1>2, <3>1 DEF Usual
    <3>2. CASE d.c # 0
      BY <3>2 DEF Flat
    <3> QED
      BY <3>1, <3>2
  <2> HIDE DEF x, t
  <2>8. r = Finalize(ReadAs(x), Context)
    BY <2>1, <2>6, ReadBack DEF r, t
  <2>9. PICK j \in Nat :
          /\ x.c = 0 => j = 0
          /\ Finalize(ReadAs(x), Context).d = Fin(x.s, x.c * Pow10[j], x.e - j)
          /\ ~Raises(Finalize(ReadAs(x), Context).st)
    BY <1>2, <1>9, <2>7, ReadAsIs
  <2> DEFINE c == d.c * Pow10[j]
             y == Fin(d.s, c, x.e - j)
  <2>10. r.d = y /\ ~Raises(r.st)
    BY <1>2, <2>8, <2>9
  <2>11. c \in Nat /\ x.e - j \in Int
    <3>1. Pow10[j] \in Nat
      BY PowersAre
    <3> QED
      BY <1>1, <2>1, <3>1
  <2> HIDE DEF c
  <2>12. y.k = "fin" /\ y.s = d.s /\ y.c = c /\ ~IsNaN(y) /\ ~IsInf(y)
    BY <1>1, <2>11, FinFields
  <2>13. Cmp(d, y) = 0
    <3>1. CASE d.c = 0
      <4>1. c = 0
        <5>1. Pow10[j] \in Nat
          BY PowersAre
        <5> QED
          BY <3>1, <5>1 DEF c
      <4> HIDE DEF y
      <4> QED
        BY <1>9, <2>12, <3>1, <4>1 DEF Cmp, IsInf
    <3>2. CASE d.c # 0
      <4>1. x.e = d.e
        BY <2>4, <3>2
      <4>2. Cmp(Fin(d.s, d.c, d.e), Fin(d.s, d.c * Pow10[j], d.e - j)) = 0
        BY <1>1, <3>2, CmpOfSame
      <4> QED
        BY <2>1, <4>1, <4>2, FinSame DEF c
    <3> QED
      BY <3>1, <3>2
  <2> HIDE DEF y
  <2>14. EqlP(d, y).val
    BY <2>1, <2>12, <2>13, EqlPIs
  <2> QED
    BY <1>4, <1>9, <2>1, <2>10, <2>12, <2>14 DEF IsThe, b
<1> QED
  BY <1>1, <1>7, <1>8, <1>9, Kinds

------------------------------------------------------------------------------
(* A script and its decimals.                                               *)

\* A variable holds no decimal, one without digits, or one that fits the
\* context of the script.
GuestTypeOK ==
  /\ value \in [Variables -> {None, Blank} \cup Fitting(Context)]
  /\ calls \in 0..MaxCalls

LEMMA HoldsFits ==
  ASSUME GuestTypeOK, NEW v \in Variables, Holds(v)
  PROVE  value[v] \in Fitting(Context) /\ value[v] \in Decimals
BY DEF GuestTypeOK, Holds, None, Blank, Fitting

LEMMA FromArgumentFits ==
  ASSUME GuestTypeOK, NEW others \in SUBSET Variables,
         NEW arg \in AnyArgument(others), ~FromArgument(arg).raised
  PROVE  FromArgument(arg).d \in Fitting(Context)
<1>1. CASE arg \in Arguments /\ DOMAIN arg = {"int"} /\ arg.int \in Int
  <2>1. FromArgument(arg) = Built(FromInt(arg.int, Context))
    BY <1>1 DEF FromArgument
  <2>2. FromInt(arg.int, Context).d \in Fitting(Context)
    BY <1>1, ContextIs, FromIntFits
  <2> QED
    BY <2>1, <2>2 DEF Built
<1>2. CASE arg \in Arguments /\ DOMAIN arg = {"text"} /\ IsText(arg.text)
  <2>1. FromArgument(arg) = FromText(Answer(arg.text, {}))
    BY <1>2 DEF FromArgument
  <2>2. Raises({}) = FALSE
    BY DEF Raises
  <2>3. ~Answer(arg.text, {}).raised /\ Answer(arg.text, {}).val = arg.text
    BY <2>2 DEF Answer
  <2>4. FromText(Answer(arg.text, {})) = Built(SetString(arg.text, Context))
    BY <2>3 DEF FromText
  <2>5. SetString(arg.text, Context).d \in Fitting(Context)
    BY <1>2, ContextIs, SetStringFits
  <2> QED
    BY <2>1, <2>4, <2>5 DEF Built
<1>3. CASE arg \in Arguments /\ DOMAIN arg = {"raises"}
  <2>1. FromArgument(arg) = Raised
    BY <1>3 DEF FromArgument
  <2> QED
    BY <2>1 DEF Raised
<1>4. CASE \E v \in others : Holds(v) /\ arg = [decimal |-> value[v]]
  <2>1. PICK v \in others : Holds(v) /\ arg = [decimal |-> value[v]]
    BY <1>4
  <2> DEFINE d == value[v]
             r == SetString(ToText(Flat(d), "fixed", "-", FALSE, 1), Context)
  <2>2. d \in Fitting(Context)
    BY <2>1, HoldsFits
  <2> HIDE DEF d
  <2>3. /\ FromArgument([decimal |-> d])
             = [raised |-> FALSE, d |-> r.d, st |-> r.st]
        /\ r.d \in Fitting(Context)
    BY <2>2, FromDecimalIs
  <2> HIDE DEF r
  <2> QED
    BY <2>1, <2>3 DEF d
<1> QED
  BY <1>1, <1>2, <1>3, <1>4, GuestAssumption DEF AnyArgument

LEMMA AssignFits ==
  ASSUME GuestTypeOK, NEW v \in Variables, NEW r, r.d \in Fitting(Context),
         Assign(v, r)
  PROVE  value' \in [Variables -> {None, Blank} \cup Fitting(Context)]
BY DEF GuestTypeOK, Assign

LEMMA GuestInitType == GuestInit => GuestTypeOK
BY GuestAssumption DEF GuestInit, GuestTypeOK

LEMMA GuestStepType ==
  ASSUME GuestTypeOK, [GuestNext]_guestVars
  PROVE  GuestTypeOK'
<1> DEFINE values == [Variables -> {None, Blank} \cup Fitting(Context)]
<1>0. /\ ContextOK(Context) /\ Context.prec <= Context.emax
      /\ MaxCalls \in Nat /\ calls \in 0..MaxCalls /\ value \in values
  BY ContextIs, GuestAssumption DEF GuestTypeOK
<1>1. Counted => calls' \in 0..MaxCalls
  BY <1>0 DEF Counted
<1>2. ASSUME NEW v \in Variables, New(v)
      PROVE  value' \in values
  <2>1. PICK arg \in AnyArgument(Variables) : AssignNew(v, FromArgument(arg))
    BY <1>2 DEF New
  <2> DEFINE b == FromArgument(arg)
  <2>2. ~b.raised => b.d \in Fitting(Context)
    BY FromArgumentFits
  <2> HIDE DEF b
  <2>3. CASE b.raised
    BY <1>0, <2>1, <2>3 DEF AssignNew, b
  <2>4. CASE ~b.raised
    BY <2>1, <2>2, <2>4, AssignFits DEF AssignNew, b
  <2> QED
    BY <2>3, <2>4
<1>3. ASSUME NEW v \in Variables, Initialize(v)
      PROVE  value' \in values
  <2>1. PICK arg \in AnyArgument(Variables \ {v}) : Replace(v, FromArgument(arg))
    BY <1>3 DEF Initialize
  <2> DEFINE b == FromArgument(arg)
             d == IF b.raised THEN Blank ELSE b.d
  <2>2. ~b.raised => b.d \in Fitting(Context)
    BY FromArgumentFits
  <2>3. value' = [value EXCEPT ![v] = d]
    BY <2>1 DEF Replace
  <2> HIDE DEF b
  <2>4. d \in {None, Blank} \cup Fitting(Context)
    BY <2>2
  <2> HIDE DEF d
  <2> QED
    BY <1>0, <2>3, <2>4
<1>4. ASSUME NEW v \in Variables, BinOp(v)
      PROVE  value' \in values
  <2>1. PICK self, other \in {w \in Variables : Holds(w)} :
          LET a == value[self]
              b == value[other]
          IN \/ Assign(v, QAdd(a, b, Context))
             \/ Assign(v, QSub(a, b, Context))
             \/ Assign(v, QMul(a, b, Context))
             \/ Assign(v, QDiv(a, b, Context))
    BY <1>4 DEF BinOp
  <2> DEFINE a == value[self]
             b == value[other]
  <2>2. a \in Decimals /\ b \in Decimals
    BY HoldsFits
  <2> HIDE DEF a, b
  <2>3. /\ QAdd(a, b, Context).d \in Fitting(Context)
        /\ QSub(a, b, Context).d \in Fitting(Context)
        /\ QMul(a, b, Context).d \in Fitting(Context)
        /\ QDiv(a, b, Context).d \in Fitting(Context)
    BY <1>0, <2>2, QAddFits, QMulFits, QDivFits
  <2>4. PICK r : Assign(v, r) /\ r.d \in Fitting(Context)
    BY <2>1, <2>3 DEF a, b
  <2> QED
    BY <2>4, AssignFits
<1>5. ASSUME NEW v \in Variables, UnaryOp(v)
      PROVE  value' \in values
  <2>1. PICK self \in {w \in Variables : Holds(w)} :
          \/ Assign(v, QMinus(value[self], Context))
          \/ Assign(v, QRoundToInt(value[self], Context))
          \/ Assign(v, QFloor(value[self], Context))
          \/ Assign(v, QCeil(value[self], Context))
    BY <1>5 DEF UnaryOp
  <2> DEFINE a == value[self]
  <2>2. a \in Fitting(Context) /\ a \in Decimals
    BY HoldsFits
  <2> HIDE DEF a
  <2>3. Context = Rounding(Context, "ROUND_HALF_UP")
    BY DEF Context, Rounding
  <2>4. \A mode : RoundToIntegral("TO_INT_SILENT", a, Rounding(Context, mode)).d
                    \in Fitting(Context)
    BY <1>0, <2>2, RoundToIntegralFits
  <2>5. /\ QMinus(a, Context).d \in Fitting(Context)
        /\ QRoundToInt(a, Context).d \in Fitting(Context)
        /\ QFloor(a, Context).d \in Fitting(Context)
        /\ QCeil(a, Context).d \in Fitting(Context)
    <3>1. QMinus(a, Context).d \in Fitting(Context)
      BY <1>0, <2>2, QMinusFits
    <3>2. RoundToIntegral("TO_INT_SILENT", a, Context).d \in Fitting(Context)
      BY <2>3, <2>4
    <3> QED
      BY <2>4, <3>1, <3>2 DEF QRoundToInt, QFloor, QCeil
  <2>6. PICK r : Assign(v, r) /\ r.d \in Fitting(Context)
    BY <2>1, <2>5 DEF a
  <2> QED
    BY <2>6, AssignFits
<1>6. CASE GuestNext
  <2>1. PICK v \in Variables : New(v) \/ Initialize(v) \/ BinOp(v) \/ UnaryOp(v)
    BY <1>6 DEF GuestNext
  <2>2. Counted
    BY <2>1 DEF New, Initialize, BinOp, UnaryOp
  <2>3. value' \in values
    BY <2>1, <1>2, <1>3, <1>4, <1>5
  <2> QED
    BY <1>1, <2>2, <2>3 DEF GuestTypeOK
<1>7. CASE UNCHANGED guestVars
  BY <1>0, <1>7 DEF guestVars, GuestTypeOK
<1> QED
  BY <1>6, <1>7

\* Every decimal of a script fits its context: an operation rounds before the
\* result is assigned, and so does initialize, which keeps what it made where
\* the status is bad.
THEOREM DecimalsFit == GuestSpec => []GuestTypeOK
<1>1. GuestInit => GuestTypeOK
  BY GuestInitType
<1>2. GuestTypeOK /\ [GuestNext]_guestVars => GuestTypeOK'
  BY GuestStepType
<1> QED
  BY <1>1, <1>2, PTL DEF GuestSpec

\* Decimals that are eql? have the same hash.
THEOREM EqualDecimalsHashAlike == GuestSpec => []EqlMeansSameHash
<1>1. GuestTypeOK => EqlMeansSameHash
  <2> SUFFICES ASSUME GuestTypeOK, NEW d \in Held, NEW e \in Held,
                      ~EqlP(d, e).raised, EqlP(d, e).val
               PROVE  Hash(d) = Hash(e)
    BY DEF EqlMeansSameHash
  <2>1. d \in Fitting(Context) /\ e \in Fitting(Context)
    BY HoldsFits DEF Held
  <2> QED
    BY <2>1, ContextIs, EqlAgree
<1> QED
  BY <1>1, DecimalsFit, PTL

\* Decimal.new(d.to_s) is d, for every decimal that is not subnormal and not
\* too long for a text.
THEOREM DecimalsComeBackFromText == GuestSpec => []TextMakesItAgain
<1>1. GuestTypeOK => TextMakesItAgain
  <2> SUFFICES ASSUME GuestTypeOK, NEW d \in Held, FitsText(d), Usual(d)
               PROVE  IsThe(d, FromArgument([decimal |-> d]))
    BY DEF TextMakesItAgain
  <2>1. d \in Fitting(Context)
    BY HoldsFits DEF Held
  <2> QED
    BY <2>1, TextAgain
<1> QED
  BY <1>1, DecimalsFit, PTL
------------------------------------------------------------------------------
(* Fractions in units of a power of ten.                                    *)

Exacts == [s : {0, 1}, n : Nat, d : Nat \ {0}, e : Int]

LEMMA TimesCompare ==
  ASSUME NEW x \in Int, NEW y \in Int, NEW k \in Nat \ {0}
  PROVE  /\ k * x \in Int /\ k * y \in Int
         /\ k * x <= k * y <=> x <= y
         /\ k * x = k * y <=> x = y
<1>1. CASE x < y
  <2>1. k * (y - x) >= 1 /\ k * (y - x) = k * y - k * x
    BY <1>1
  <2> QED
    BY <1>1, <2>1
<1>2. CASE y < x
  <2>1. k * (x - y) >= 1 /\ k * (x - y) = k * x - k * y
    BY <1>2
  <2> QED
    BY <1>2, <2>1
<1>3. CASE x = y
  BY <1>3
<1> QED
  BY <1>1, <1>2, <1>3

LEMMA NumDenType ==
  ASSUME NEW x \in Exacts, NEW q \in Int
  PROVE  /\ Num(x, q) \in Nat /\ Den(x, q) \in Nat \ {0}
         /\ x.n > 0 => Num(x, q) > 0
<1>1. x.n \in Nat /\ x.d \in Nat \ {0} /\ x.e \in Int
  BY DEF Exacts
<1> DEFINE a == IF x.e > q THEN Pow10[x.e - q] ELSE 1
           b == IF q > x.e THEN Pow10[q - x.e] ELSE 1
<1>2. a \in Nat \ {0} /\ b \in Nat \ {0}
  BY <1>1, PowersAre
<1>3. Num(x, q) = x.n * a /\ Den(x, q) = x.d * b
  BY DEF Num, Den
<1> HIDE DEF a, b
<1>4. x.n * a \in Nat /\ x.d * b \in Nat \ {0} /\ (x.n > 0 => x.n * a > 0)
  BY <1>1, <1>2
<1> QED
  BY <1>3, <1>4

\* The same number in smaller units.
LEMMA ScaleBy ==
  ASSUME NEW x \in Exacts, NEW u \in Int, NEW j \in Nat
  PROVE  \E k \in Nat \ {0} :
           /\ Num(x, u) = k * Num(x, u + j)
           /\ Pow10[j] * Den(x, u) = k * Den(x, u + j)
<1> DEFINE n == x.n
           d == x.d
           e == x.e
           q == u + j
<1>1. n \in Nat /\ d \in Nat \ {0} /\ e \in Int /\ q \in Int
  BY DEF Exacts
<1>2. Pow10[j] \in Nat \ {0}
  BY PowersAre
<1>3. CASE e >= q
  <2> DEFINE p == Pow10[e - q]
             o == Pow10[j]
  <2>1. e - q \in Nat /\ (e - q) + j = e - u /\ e - u \in Nat
    BY <1>1, <1>3
  <2>2. p \in Nat \ {0} /\ Pow10[e - u] = p * o
    <3>1. Pow10[(e - q) + j] = Pow10[e - q] * Pow10[j]
      BY <2>1, PowersAdd
    <3> QED
      BY <2>1, <3>1, PowersAre
  <2>3. Num(x, u) = n * (p * o)
    <3>1. CASE e > u
      BY <2>2, <3>1 DEF Num
    <3>2. CASE ~(e > u)
      <4>1. e = u /\ e - u = 0
        BY <1>1, <1>3, <3>2
      <4>2. p * o = 1
        BY <2>2, <4>1, PowersAre
      <4>3. Num(x, u) = n * 1
        BY <3>2 DEF Num
      <4> QED
        BY <4>2, <4>3
    <3> QED
      BY <3>1, <3>2
  <2>4. Num(x, q) = n * p
    <3>1. CASE e > q
      BY <3>1 DEF Num
    <3>2. CASE ~(e > q)
      <4>1. e - q = 0
        BY <1>1, <1>3, <3>2
      <4>2. p = 1
        BY <4>1, PowersAre
      <4>3. Num(x, q) = n * 1
        BY <3>2 DEF Num
      <4> QED
        BY <4>2, <4>3
    <3> QED
      BY <3>1, <3>2
  <2>5. Den(x, u) = d /\ Den(x, q) = d
    <3>1. ~(u > e) /\ ~(q > e)
      BY <1>1, <1>3
    <3>2. Den(x, u) = d * 1 /\ Den(x, q) = d * 1
      BY <3>1 DEF Den
    <3> QED
      BY <1>1, <3>2
  <2> HIDE DEF n, d, e, q, p
  <2>6. o \in Nat \ {0}
    BY <1>2
  <2> HIDE DEF o
  <2>7. n * (p * o) = o * (n * p)
    BY <1>1, <2>2, <2>6
  <2>8. Num(x, u) = o * Num(x, q) /\ o * Den(x, u) = o * Den(x, q)
    BY <2>3, <2>4, <2>5, <2>7
  <2> QED
    BY <2>6, <2>8 DEF o, q
<1>4. CASE e < q /\ u <= e
  <2> DEFINE p == Pow10[e - u]
             o == Pow10[q - e]
  <2>1. e - u \in Nat /\ q - e \in Nat /\ (e - u) + (q - e) = j
    BY <1>1, <1>4
  <2>2. p \in Nat \ {0} /\ o \in Nat \ {0} /\ Pow10[j] = p * o
    <3>1. Pow10[(e - u) + (q - e)] = Pow10[e - u] * Pow10[q - e]
      BY <2>1, PowersAdd
    <3> QED
      BY <2>1, <3>1, PowersAre
  <2>3. Num(x, u) = n * p
    <3>1. CASE e > u
      BY <3>1 DEF Num
    <3>2. CASE ~(e > u)
      <4>1. e - u = 0
        BY <1>1, <1>4, <3>2
      <4>2. p = 1
        BY <4>1, PowersAre
      <4>3. Num(x, u) = n * 1
        BY <3>2 DEF Num
      <4> QED
        BY <4>2, <4>3
    <3> QED
      BY <3>1, <3>2
  <2>4. Num(x, q) = n /\ Den(x, q) = d * o /\ Den(x, u) = d
    <3>1. ~(e > q) /\ q > e /\ ~(u > e)
      BY <1>1, <1>4
    <3>2. Num(x, q) = n * 1 /\ Den(x, q) = d * o /\ Den(x, u) = d * 1
      BY <3>1 DEF Num, Den
    <3> QED
      BY <1>1, <3>2
  <2> HIDE DEF n, d, e, q, p, o
  <2>5. (p * o) * d = p * (d * o) /\ n * p = p * n
    BY <1>1, <2>2
  <2>6. Num(x, u) = p * Num(x, q) /\ Pow10[j] * Den(x, u) = p * Den(x, q)
    BY <2>2, <2>3, <2>4, <2>5
  <2> QED
    BY <2>2, <2>6 DEF q
<1>5. CASE e < u
  <2> DEFINE p == Pow10[u - e]
             o == Pow10[j]
  <2>1. u - e \in Nat /\ (u - e) + j = q - e
    BY <1>1, <1>5
  <2>2. p \in Nat \ {0} /\ Pow10[q - e] = p * o
    <3>1. Pow10[(u - e) + j] = Pow10[u - e] * Pow10[j]
      BY <2>1, PowersAdd
    <3> QED
      BY <2>1, <3>1, PowersAre
  <2>3. Num(x, u) = n /\ Num(x, q) = n /\ Den(x, u) = d * p /\ Den(x, q) = d * (p * o)
    <3>1. ~(e > q) /\ q > e /\ u > e /\ ~(e > u)
      BY <1>1, <1>5
    <3>2. /\ Num(x, u) = n * 1 /\ Num(x, q) = n * 1
          /\ Den(x, u) = d * p /\ Den(x, q) = d * (p * o)
      BY <2>2, <3>1 DEF Num, Den
    <3> QED
      BY <1>1, <3>2
  <2> HIDE DEF n, d, e, q, p
  <2>4. o \in Nat \ {0}
    BY <1>2
  <2> HIDE DEF o
  <2>5. o * (d * p) = 1 * (d * (p * o)) /\ n = 1 * n
    BY <1>1, <2>2, <2>4
  <2>6. Num(x, u) = 1 * Num(x, q) /\ o * Den(x, u) = 1 * Den(x, q)
    BY <2>3, <2>5
  <2> QED
    BY <2>6 DEF o, q
<1> QED
  BY <1>1, <1>3, <1>4, <1>5

\* Comparisons in smaller units are those in larger ones.
LEMMA Scaled ==
  ASSUME NEW x \in Exacts, NEW u \in Int, NEW j \in Nat, NEW a \in Nat, NEW m \in Nat
  PROVE  LET q == u + j
         IN /\ (a * Pow10[j]) * Den(x, u) <= m * Num(x, u)
                 <=> a * Den(x, q) <= m * Num(x, q)
            /\ (a * Pow10[j]) * Den(x, u) = m * Num(x, u)
                 <=> a * Den(x, q) = m * Num(x, q)
<1> DEFINE q == u + j
           nu == Num(x, u)
           du == Den(x, u)
           nq == Num(x, q)
           dq == Den(x, q)
           p == Pow10[j]
<1>1. PICK k \in Nat \ {0} : nu = k * nq /\ p * du = k * dq
  BY ScaleBy
<1>2. /\ nu \in Nat /\ du \in Nat /\ nq \in Nat /\ dq \in Nat /\ p \in Nat
      /\ q \in Int
  BY NumDenType, PowersAre
<1> HIDE DEF q, nu, du, nq, dq, p
<1>3. (a * p) * du = a * (p * du) /\ a * (k * dq) = k * (a * dq)
      /\ m * (k * nq) = k * (m * nq)
  BY <1>1, <1>2
<1>4. (a * p) * du = k * (a * dq) /\ m * nu = k * (m * nq)
  BY <1>1, <1>3
<1>5. a * dq \in Int /\ m * nq \in Int
  BY <1>2
<1> DEFINE y == a * dq
           z == m * nq
<1> HIDE DEF y, z
<1>6. /\ k * y <= k * z <=> y <= z
      /\ k * y = k * z <=> y = z
  BY <1>5, TimesCompare DEF y, z
<1> QED
  BY <1>4, <1>6 DEF y, z, q, nu, du, nq, dq, p

\* Of an exact number that is not 0: one place is that of its first digit.
LeadsAt(x, p) == Den(x, p) <= Num(x, p) /\ Num(x, p) < 10 * Den(x, p)

LEMMA LeadsAtOne ==
  ASSUME NEW x \in Exacts, NEW p \in Int, NEW q \in Int, LeadsAt(x, p), LeadsAt(x, q)
  PROVE  p = q
<1>1. ASSUME NEW i \in Int, NEW j \in Nat, j > 0, LeadsAt(x, i), LeadsAt(x, i + j)
      PROVE  FALSE
  <2>1. (1 * Pow10[j]) * Den(x, i) <= 1 * Num(x, i)
          <=> 1 * Den(x, i + j) <= 1 * Num(x, i + j)
    BY Scaled
  <2>2. /\ Pow10[j] \in Nat /\ Den(x, i) \in Nat \ {0} /\ Num(x, i) \in Nat
        /\ i + j \in Int
    BY PowersAre, NumDenType
  <2>3. Den(x, i + j) \in Nat /\ Num(x, i + j) \in Nat
    BY <2>2, NumDenType
  <2>4. 10 <= Pow10[j]
    <3>1. Pow10[1] = 10 /\ 1 <= j
      BY <1>1, PowersAre
    <3> QED
      BY <3>1, PowersGrow
  <2> DEFINE o == Pow10[j]
             d == Den(x, i)
             n == Num(x, i)
  <2>5. o * d <= n /\ n < 10 * d
    BY <1>1, <2>1, <2>2, <2>3 DEF LeadsAt
  <2> HIDE DEF o, d, n
  <2>6. o \in Nat /\ d \in Nat \ {0} /\ n \in Nat /\ 10 <= o
    BY <2>2, <2>4 DEF o, d, n
  <2>7. 10 * d <= o * d
    BY <2>6
  <2> QED
    BY <2>5, <2>6, <2>7
<1>2. CASE p < q
  <2>1. q - p \in Nat /\ q - p > 0 /\ p + (q - p) = q
    BY <1>2
  <2> QED
    BY <1>1, <2>1
<1>3. CASE q < p
  <2>1. p - q \in Nat /\ p - q > 0 /\ q + (p - q) = p
    BY <1>3
  <2> QED
    BY <1>1, <2>1
<1> QED
  BY <1>2, <1>3

\* Leading finds it.
LEMMA LeadingIs ==
  ASSUME NEW x \in Exacts, x.n > 0
  PROVE  /\ Leading(x) \in Int /\ LeadsAt(x, Leading(x))
         /\ \A p \in Int : LeadsAt(x, p) => p = Leading(x)
<1> DEFINE n == x.n
           d == x.d
           e == x.e
           a == Digits(n)
           b == Digits(d)
           p == a - b + e
<1>1. n \in Nat \ {0} /\ d \in Nat \ {0} /\ e \in Int
  BY DEF Exacts
<1>2. /\ a \in Nat \ {0} /\ b \in Nat \ {0} /\ p \in Int
      /\ n < Pow10[a] /\ Pow10[a - 1] <= n /\ d < Pow10[b] /\ Pow10[b - 1] <= d
  BY <1>1, DigitsAre
<1> DEFINE t == IF a >= b THEN a ELSE b
           f == Pow10[t - 1]
<1>3. t \in Nat \ {0} /\ t - 1 \in Nat /\ t = (t - 1) + 1
  BY <1>2
<1>4. f \in Nat \ {0} /\ Pow10[t] = 10 * f
  BY <1>3, Powers, PowersAre
<1>5. Num(x, p) \in f..(10 * f - 1) /\ Den(x, p) \in f..(10 * f - 1)
  <2>1. CASE a > b
    <3> DEFINE o == Pow10[a - b]
               l == Pow10[b - 1]
    <3>1. a - b \in Nat /\ p > e /\ p - e = a - b /\ b - 1 \in Nat
          /\ (b - 1) + (a - b) = a - 1 /\ ~(e > p) /\ t = a
      BY <1>1, <1>2, <2>1
    <3>2. Num(x, p) = n * 1 /\ Den(x, p) = d * o
      BY <3>1 DEF Num, Den
    <3>3. Pow10[b] = 10 * l /\ l \in Nat \ {0} /\ o \in Nat \ {0}
      <4>1. b = (b - 1) + 1
        BY <1>2
      <4> QED
        BY <3>1, <4>1, Powers, PowersAre
    <3>4. f = l * o
      <4>1. Pow10[(b - 1) + (a - b)] = Pow10[b - 1] * Pow10[a - b]
        BY <3>1, PowersAdd
      <4> QED
        BY <3>1, <4>1
    <3>5. f <= n /\ n < 10 * f
      BY <1>2, <1>4, <3>1
    <3>6. l <= d /\ d < 10 * l
      BY <1>2, <3>3
    <3> HIDE DEF n, d, e, a, b, p, t, f, o, l
    <3>7. l * o <= d * o /\ d * o < (10 * l) * o /\ (10 * l) * o = 10 * (l * o)
      BY <1>1, <3>3, <3>6
    <3> QED
      BY <1>1, <1>4, <3>2, <3>3, <3>4, <3>5, <3>7
  <2>2. CASE a <= b
    <3> DEFINE o == Pow10[b - a]
               l == Pow10[a - 1]
    <3>1. b - a \in Nat /\ e - p = b - a /\ a - 1 \in Nat
          /\ (a - 1) + (b - a) = b - 1 /\ ~(p > e) /\ t = b
          /\ (e > p <=> a # b)
      BY <1>1, <1>2, <2>2
    <3>2. Num(x, p) = n * o /\ Den(x, p) = d * 1
      <4>1. CASE a # b
        BY <3>1, <4>1 DEF Num, Den
      <4>2. CASE a = b
        <5>1. b - a = 0
          BY <1>2, <4>2
        <5>2. o = 1
          BY <5>1, PowersAre
        <5>3. Num(x, p) = n * 1 /\ Den(x, p) = d * 1
          BY <3>1, <4>2 DEF Num, Den
        <5> QED
          BY <5>2, <5>3
      <4> QED
        BY <4>1, <4>2
    <3>3. Pow10[a] = 10 * l /\ l \in Nat \ {0} /\ o \in Nat \ {0}
      <4>1. a = (a - 1) + 1
        BY <1>2
      <4> QED
        BY <3>1, <4>1, Powers, PowersAre
    <3>4. f = l * o
      <4>1. Pow10[(a - 1) + (b - a)] = Pow10[a - 1] * Pow10[b - a]
        BY <3>1, PowersAdd
      <4> QED
        BY <3>1, <4>1
    <3>5. f <= d /\ d < 10 * f
      BY <1>2, <1>4, <3>1
    <3>6. l <= n /\ n < 10 * l
      BY <1>2, <3>3
    <3> HIDE DEF n, d, e, a, b, p, t, f, o, l
    <3>7. l * o <= n * o /\ n * o < (10 * l) * o /\ (10 * l) * o = 10 * (l * o)
      BY <1>1, <3>3, <3>6
    <3> QED
      BY <1>1, <1>4, <3>2, <3>3, <3>4, <3>5, <3>7
  <2> QED
    BY <1>2, <2>1, <2>2
<1> HIDE DEF t, f
<1>6. Leading(x) = IF Num(x, p) >= Den(x, p) THEN p ELSE p - 1
  BY DEF Leading
<1> HIDE DEF p
<1>7. CASE Num(x, p) >= Den(x, p)
  <2>1. Leading(x) = p
    BY <1>6, <1>7
  <2>2. LeadsAt(x, p)
    <3> DEFINE y == Num(x, p)
               z == Den(x, p)
    <3>1. y \in Nat /\ z \in Nat /\ f <= z /\ y < 10 * f /\ z <= y
      BY <1>4, <1>5, <1>7
    <3> HIDE DEF y, z
    <3>2. z <= y /\ y < 10 * z
      BY <1>4, <3>1
    <3> QED
      BY <3>2 DEF LeadsAt, y, z
  <2> QED
    BY <1>2, <2>1, <2>2, LeadsAtOne
<1>8. CASE ~(Num(x, p) >= Den(x, p))
  <2> DEFINE u == p - 1
             y == Num(x, u)
             z == Den(x, u)
             yp == Num(x, p)
             zp == Den(x, p)
  <2>1. Leading(x) = u
    BY <1>6, <1>8
  <2>2. u \in Int /\ u + 1 = p
    BY <1>2
  <2>3. /\ (1 * Pow10[1]) * z <= 10 * y <=> 1 * zp <= 10 * yp
        /\ (1 * Pow10[1]) * z <= 1 * y <=> 1 * zp <= 1 * yp
    <3>1. /\ (1 * Pow10[1]) * Den(x, u) <= 10 * Num(x, u)
               <=> 1 * Den(x, u + 1) <= 10 * Num(x, u + 1)
          /\ (1 * Pow10[1]) * Den(x, u) <= 1 * Num(x, u)
               <=> 1 * Den(x, u + 1) <= 1 * Num(x, u + 1)
      BY <2>2, Scaled
    <3> QED
      BY <2>2, <3>1
  <2>4. Pow10[1] = 10 /\ y \in Nat /\ z \in Nat /\ yp \in Nat /\ zp \in Nat
    BY <1>2, <2>2, PowersAre, NumDenType
  <2>5. f <= yp /\ zp < 10 * f /\ yp < zp
    BY <1>4, <1>5, <1>8, <2>4
  <2> HIDE DEF y, z, yp, zp
  <2>6. z <= y /\ y < 10 * z
    BY <1>4, <2>3, <2>4, <2>5
  <2>7. LeadsAt(x, u)
    BY <2>6 DEF LeadsAt, y, z
  <2> QED
    BY <2>1, <2>2, <2>7, LeadsAtOne
<1> QED
  BY <1>7, <1>8

LEMMA MaxOfTwo ==
  ASSUME NEW x \in Int, NEW y \in Int
  PROVE  Max({x, y}) = IF x >= y THEN x ELSE y
<1> DEFINE m == IF x >= y THEN x ELSE y
           Greatest(z) == z \in {x, y} /\ \A i \in {x, y} : z >= i
<1>1. Greatest(m)
  OBVIOUS
<1>2. \A z : Greatest(z) => z = m
  OBVIOUS
<1>3. Max({x, y}) = CHOOSE z : Greatest(z)
  BY DEF Max
<1> HIDE DEF Greatest, m
<1>4. Greatest(Max({x, y}))
  BY <1>1, <1>3
<1>5. Max({x, y}) = m
  BY <1>2, <1>4
<1> QED
  BY <1>5 DEF m

------------------------------------------------------------------------------
(* Numbers that are rounded alike.                                          *)

\* Whether a number lies above, or on, half of an integer, in units of 10^q.
Above(x, q, b) == b * Den(x, q) <= 2 * Num(x, q)
On(x, q, b) == b * Den(x, q) = 2 * Num(x, q)
Alike(x, y, q) ==
  \A b \in Nat : (Above(x, q, b) <=> Above(y, q, b)) /\ (On(x, q, b) <=> On(y, q, b))

\* What is left of a number says where it lies.
LEMMA Rests ==
  ASSUME NEW x \in Exacts, NEW q \in Int
  PROVE  LET low == Num(x, q) \div Den(x, q)
             rest == Num(x, q) % Den(x, q)
             d == Den(x, q)
         IN /\ low \in Nat /\ rest \in Nat /\ d \in Nat \ {0}
            /\ Above(x, q, 2 * low) /\ ~Above(x, q, 2 * low + 2)
            /\ rest = 0 <=> On(x, q, 2 * low)
            /\ 2 * rest >= d <=> Above(x, q, 2 * low + 1)
            /\ 2 * rest = d <=> On(x, q, 2 * low + 1)
<1> DEFINE n == Num(x, q)
           d == Den(x, q)
           l == n \div d
           r == n % d
<1>1. n \in Nat /\ d \in Nat \ {0}
  BY NumDenType
<1>2. l \in Nat /\ r \in 0..(d - 1) /\ n = d * l + r
  <2> HIDE DEF n, d
  <2> QED
    BY <1>1, QuotientsBound
<1> HIDE DEF l, r
<1>3. /\ (2 * l) * d <= 2 * n /\ ~((2 * l + 2) * d <= 2 * n)
      /\ r = 0 <=> (2 * l) * d = 2 * n
      /\ 2 * r >= d <=> (2 * l + 1) * d <= 2 * n
      /\ 2 * r = d <=> (2 * l + 1) * d = 2 * n
  <2> HIDE DEF n, d
  <2> DEFINE m == d * l
  <2>1. m \in Nat /\ n = m + r /\ (2 * l) * d = 2 * m
        /\ (2 * l + 2) * d = 2 * m + 2 * d /\ (2 * l + 1) * d = 2 * m + d
    BY <1>1, <1>2
  <2> HIDE DEF m
  <2>2. r \in Nat /\ r < d
    BY <1>1, <1>2
  <2> QED
    BY <1>1, <2>1, <2>2
<1> QED
  BY <1>1, <1>2, <1>3 DEF l, r, Above, On

LEMMA AboveLess ==
  ASSUME NEW x \in Exacts, NEW q \in Int, NEW b \in Nat, NEW c \in Nat, c <= b,
         Above(x, q, b)
  PROVE  Above(x, q, c)
<1> DEFINE n == Num(x, q)
           d == Den(x, q)
<1>1. n \in Nat /\ d \in Nat \ {0} /\ b * d <= 2 * n
  BY NumDenType DEF Above
<1> HIDE DEF n, d
<1>2. c * d <= b * d /\ c * d \in Nat /\ b * d \in Nat
  BY <1>1
<1>3. c * d <= 2 * n
  BY <1>1, <1>2
<1> QED
  BY <1>3 DEF n, d, Above

LEMMA AlikeRoundAlike ==
  ASSUME NEW x \in Exacts, NEW y \in Exacts, x.s = y.s, NEW q \in Int, Alike(x, y, q),
         NEW mode
  PROVE  RoundAt(x, q, mode) = RoundAt(y, q, mode)
<1> DEFINE lx == Num(x, q) \div Den(x, q)
           rx == Num(x, q) % Den(x, q)
           dx == Den(x, q)
           ly == Num(y, q) \div Den(y, q)
           ry == Num(y, q) % Den(y, q)
           dy == Den(y, q)
<1>1. /\ lx \in Nat /\ rx \in Nat /\ dx \in Nat
      /\ Above(x, q, 2 * lx) /\ ~Above(x, q, 2 * lx + 2)
      /\ rx = 0 <=> On(x, q, 2 * lx)
      /\ 2 * rx >= dx <=> Above(x, q, 2 * lx + 1)
      /\ 2 * rx = dx <=> On(x, q, 2 * lx + 1)
  BY Rests
<1>2. /\ ly \in Nat /\ ry \in Nat /\ dy \in Nat
      /\ Above(y, q, 2 * ly) /\ ~Above(y, q, 2 * ly + 2)
      /\ ry = 0 <=> On(y, q, 2 * ly)
      /\ 2 * ry >= dy <=> Above(y, q, 2 * ly + 1)
      /\ 2 * ry = dy <=> On(y, q, 2 * ly + 1)
  BY Rests
<1>0. RoundAt(x, q, mode) = [n |-> IF AwayFromZero(mode, x.s, lx, rx, dx)
                                   THEN lx + 1 ELSE lx, exact |-> rx = 0]
      /\ RoundAt(y, q, mode) = [n |-> IF AwayFromZero(mode, y.s, ly, ry, dy)
                                   THEN ly + 1 ELSE ly, exact |-> ry = 0]
  BY DEF RoundAt
<1> HIDE DEF lx, rx, dx, ly, ry, dy
<1>3. lx = ly
  <2>1. ~(lx < ly)
    <3>1. Above(x, q, 2 * ly)
      BY <1>2 DEF Alike
    <3> SUFFICES ASSUME lx < ly PROVE FALSE
      OBVIOUS
    <3>2. 2 * lx + 2 <= 2 * ly /\ 2 * lx + 2 \in Nat /\ 2 * ly \in Nat
      BY <1>1, <1>2
    <3> QED
      BY <1>1, <3>1, <3>2, AboveLess
  <2>2. ~(ly < lx)
    <3>1. Above(y, q, 2 * lx)
      BY <1>1 DEF Alike
    <3> SUFFICES ASSUME ly < lx PROVE FALSE
      OBVIOUS
    <3>2. 2 * ly + 2 <= 2 * lx /\ 2 * ly + 2 \in Nat /\ 2 * lx \in Nat
      BY <1>1, <1>2
    <3> QED
      BY <1>2, <3>1, <3>2, AboveLess
  <2> QED
    BY <1>1, <1>2, <2>1, <2>2
<1>4. /\ rx = 0 <=> ry = 0
      /\ 2 * rx >= dx <=> 2 * ry >= dy
      /\ 2 * rx = dx <=> 2 * ry = dy
  <2>1. 2 * lx \in Nat /\ 2 * lx + 1 \in Nat
    BY <1>1
  <2> QED
    BY <1>1, <1>2, <1>3, <2>1 DEF Alike
<1>5. /\ 2 * rx > dx <=> 2 * ry > dy
      /\ 2 * rx + (lx % 2) > dx <=> 2 * ry + (lx % 2) > dy
  <2>1. lx % 2 \in {0, 1}
    BY <1>1
  <2> QED
    BY <1>1, <1>2, <1>4, <2>1
<1>6. AwayFromZero(mode, x.s, lx, rx, dx) <=> AwayFromZero(mode, y.s, ly, ry, dy)
  BY <1>3, <1>4, <1>5 DEF AwayFromZero
<1> QED
  BY <1>0, <1>3, <1>4, <1>6

LEMMA LastPlaceIs ==
  ASSUME NEW ctx, ContextOK(ctx), NEW x \in Exacts, x.n > 0
  PROVE  LET l == Leading(x) - ctx.prec + 1
         IN /\ l \in Int /\ LastPlace(x, ctx) \in Int
            /\ LastPlace(x, ctx) = IF l >= Etiny(ctx) THEN l ELSE Etiny(ctx)
<1>1. Leading(x) \in Int /\ Etiny(ctx) \in Int /\ ctx.prec \in Nat
  BY LeadingIs, Limits DEF ContextOK
<1>2. Leading(x) - ctx.prec + 1 \in Int
  BY <1>1
<1> QED
  BY <1>1, <1>2, MaxOfTwo DEF LastPlace

\* Where two numbers begin and round alike, one is rounded where the other is.
LEMMA AlikeAreRounded ==
  ASSUME NEW ctx, ContextOK(ctx), NEW x \in Exacts, NEW y \in Exacts, x.s = y.s,
         x.n > 0, y.n > 0, Leading(x) = Leading(y),
         Alike(x, y, LastPlace(x, ctx)), NEW r
  PROVE  IsRounded(r, x, ctx) <=> IsRounded(r, y, ctx)
<1> DEFINE q == LastPlace(x, ctx)
<1>1. q \in Int /\ q = LastPlace(y, ctx)
  BY LastPlaceIs DEF LastPlace
<1>2. RoundAt(x, q, ctx.round) = RoundAt(y, q, ctx.round)
  BY <1>1, AlikeRoundAlike
<1>3. x.n # 0 /\ y.n # 0
  BY DEF Exacts
<1> HIDE DEF q
<1>4. IsRounded(r, x, ctx) <=> IsRounded(r, y, ctx)
  BY <1>1, <1>2, <1>3 DEF IsRounded, q
<1> QED
  BY <1>4

LEMMA LeadsAbove ==
  ASSUME NEW x \in Exacts, NEW p \in Int
  PROVE  LeadsAt(x, p) <=> Above(x, p, 2) /\ ~Above(x, p, 20)
<1> DEFINE n == Num(x, p)
           d == Den(x, p)
<1>1. n \in Nat /\ d \in Nat
  BY NumDenType
<1> HIDE DEF n, d
<1>2. d <= n /\ n < 10 * d <=> 2 * d <= 2 * n /\ ~(20 * d <= 2 * n)
  BY <1>1
<1> QED
  BY <1>2 DEF LeadsAt, Above, n, d

LEMMA AlikeLead ==
  ASSUME NEW x \in Exacts, NEW y \in Exacts, x.n > 0, y.n > 0,
         Alike(x, y, Leading(x))
  PROVE  Leading(x) = Leading(y)
<1>1. Leading(x) \in Int /\ LeadsAt(x, Leading(x))
  BY LeadingIs
<1>2. LeadsAt(y, Leading(x))
  BY <1>1, LeadsAbove DEF Alike
<1> QED
  BY <1>1, <1>2, LeadingIs

\* Numbers that begin where this one does have as many digits.
LEMMA LeadsAtLeast ==
  ASSUME NEW x \in Exacts, x.n > 0, NEW q \in Int, Above(x, q, 2)
  PROVE  q <= Leading(x)
<1> DEFINE l == Leading(x)
<1>1. l \in Int /\ ~Above(x, l, 20)
  BY LeadingIs, LeadsAbove
<1> HIDE DEF l
<1> SUFFICES ASSUME l < q PROVE FALSE
  BY <1>1 DEF l
<1>2. q - l \in Nat /\ 1 <= q - l /\ l + (q - l) = q
  BY <1>1
<1>3. Pow10[q - l] \in Nat /\ 10 <= Pow10[q - l]
  <2>1. Pow10[1] = 10
    BY PowersAre
  <2> QED
    BY <1>2, <2>1, PowersAre, PowersGrow
<1>4. (2 * Pow10[q - l]) * Den(x, l) <= 2 * Num(x, l)
        <=> 2 * Den(x, l + (q - l)) <= 2 * Num(x, l + (q - l))
  BY <1>1, <1>2, Scaled
<1>5. Above(x, l, 2 * Pow10[q - l])
  BY <1>2, <1>4 DEF Above
<1>6. 2 * Pow10[q - l] \in Nat /\ 20 <= 2 * Pow10[q - l]
  BY <1>3
<1> QED
  BY <1>1, <1>5, <1>6, AboveLess

SameAt(x, y, q) == Num(x, q) * Den(y, q) = Num(y, q) * Den(x, q)

LEMMA SameEverywhere ==
  ASSUME NEW x \in Exacts, NEW y \in Exacts, NEW u \in Int, NEW q \in Int,
         SameAt(x, y, u)
  PROVE  SameAt(x, y, q)
<1>1. ASSUME NEW i \in Int, NEW j \in Nat
      PROVE  SameAt(x, y, i) <=> SameAt(x, y, i + j)
  <2> DEFINE xu == Num(x, i)
             dxu == Den(x, i)
             yu == Num(y, i)
             dyu == Den(y, i)
             xq == Num(x, i + j)
             dxq == Den(x, i + j)
             yq == Num(y, i + j)
             dyq == Den(y, i + j)
             p == Pow10[j]
  <2>1. PICK k \in Nat \ {0} : xu = k * xq /\ p * dxu = k * dxq
    BY ScaleBy
  <2>2. PICK l \in Nat \ {0} : yu = l * yq /\ p * dyu = l * dyq
    BY ScaleBy
  <2>3. /\ xu \in Nat /\ dxu \in Nat /\ yu \in Nat /\ dyu \in Nat
        /\ p \in Nat \ {0} /\ i + j \in Int
    BY NumDenType, PowersAre
  <2>4. /\ xq \in Nat /\ dxq \in Nat /\ yq \in Nat /\ dyq \in Nat
    BY <2>3, NumDenType
  <2> HIDE DEF xu, dxu, yu, dyu, xq, dxq, yq, dyq, p
  <2> DEFINE a == xu * dyu
             b == yu * dxu
             c == xq * dyq
             d == yq * dxq
             m == k * l
  <2>5. a \in Nat /\ b \in Nat /\ c \in Nat /\ d \in Nat /\ m \in Nat \ {0}
    BY <2>3, <2>4
  <2>6. p * a = m * c
    <3>1. p * (xu * dyu) = xu * (p * dyu)
      BY <2>3
    <3>2. xu * (p * dyu) = (k * xq) * (l * dyq)
      BY <2>1, <2>2
    <3>3. (k * xq) * (l * dyq) = (k * l) * (xq * dyq)
      BY <2>4
    <3> QED
      BY <3>1, <3>2, <3>3
  <2>7. p * b = m * d
    <3>1. p * (yu * dxu) = yu * (p * dxu)
      BY <2>3
    <3>2. yu * (p * dxu) = (l * yq) * (k * dxq)
      BY <2>1, <2>2
    <3>3. (l * yq) * (k * dxq) = (k * l) * (yq * dxq)
      BY <2>4
    <3> QED
      BY <3>1, <3>2, <3>3
  <2> HIDE DEF a, b, c, d, m
  <2>8. p * a = p * b <=> a = b
    BY <2>3, <2>5, TimesCompare
  <2>9. m * c = m * d <=> c = d
    BY <2>5, TimesCompare
  <2>10. a = b <=> c = d
    BY <2>6, <2>7, <2>8, <2>9
  <2> QED
    BY <2>10 DEF SameAt, a, b, c, d, xu, dxu, yu, dyu, xq, dxq, yq, dyq
<1>2. CASE u <= q
  <2>1. q - u \in Nat /\ u + (q - u) = q
    BY <1>2
  <2>2. SameAt(x, y, u) <=> SameAt(x, y, u + (q - u))
    BY <1>1, <2>1
  <2> QED
    BY <2>1, <2>2
<1>3. CASE q <= u
  <2>1. u - q \in Nat /\ q + (u - q) = u
    BY <1>3
  <2>2. SameAt(x, y, q) <=> SameAt(x, y, q + (u - q))
    BY <1>1, <2>1
  <2> QED
    BY <2>1, <2>2
<1> QED
  BY <1>2, <1>3

LEMMA SameIsAlike ==
  ASSUME NEW x \in Exacts, NEW y \in Exacts, NEW q \in Int, SameAt(x, y, q)
  PROVE  Alike(x, y, q)
<1> DEFINE n == Num(x, q)
           d == Den(x, q)
           m == Num(y, q)
           f == Den(y, q)
<1>1. /\ n \in Nat /\ d \in Nat \ {0} /\ m \in Nat /\ f \in Nat \ {0}
      /\ n * f = m * d
  BY NumDenType DEF SameAt
<1> HIDE DEF n, d, m, f
<1>2. ASSUME NEW b \in Nat
      PROVE  /\ b * d <= 2 * n <=> b * f <= 2 * m
             /\ b * d = 2 * n <=> b * f = 2 * m
  <2> DEFINE g == b * d
             h == 2 * n
             i == b * f
             j == 2 * m
  <2>1. g \in Nat /\ h \in Nat /\ i \in Nat /\ j \in Nat
    BY <1>1
  <2>2. f * g = d * i
    <3>1. f * (b * d) = d * (b * f)
      BY <1>1
    <3> QED
      BY <3>1
  <2>3. f * h = d * j
    <3>1. f * (2 * n) = 2 * (n * f) /\ d * (2 * m) = 2 * (m * d)
      BY <1>1
    <3> QED
      BY <1>1, <3>1
  <2> HIDE DEF g, h, i, j
  <2>4. (f * g <= f * h <=> g <= h) /\ (f * g = f * h <=> g = h)
    BY <1>1, <2>1, TimesCompare
  <2>5. (d * i <= d * j <=> i <= j) /\ (d * i = d * j <=> i = j)
    BY <1>1, <2>1, TimesCompare
  <2>6. (g <= h <=> i <= j) /\ (g = h <=> i = j)
    BY <2>2, <2>3, <2>4, <2>5
  <2> QED
    BY <2>6 DEF g, h, i, j
<1> QED
  BY <1>2 DEF Alike, Above, On, n, d, m, f

\* How a number is written does not matter.
LEMMA SameAreRounded ==
  ASSUME NEW ctx, ContextOK(ctx), NEW x \in Exacts, NEW y \in Exacts, x.s = y.s,
         x.n > 0, y.n > 0, NEW u \in Int, SameAt(x, y, u), NEW r
  PROVE  /\ IsRounded(r, x, ctx) <=> IsRounded(r, y, ctx)
         /\ Leading(x) = Leading(y)
<1>1. \A q \in Int : Alike(x, y, q)
  BY SameEverywhere, SameIsAlike
<1>2. Leading(x) \in Int /\ LastPlace(x, ctx) \in Int
  BY LeadingIs, LastPlaceIs
<1>3. Leading(x) = Leading(y)
  BY <1>1, <1>2, AlikeLead
<1> QED
  BY <1>1, <1>2, <1>3, AlikeAreRounded

\* A number strictly between two multiples of 5, in units of 10^u, lies
\* between two halves of each larger unit, and is rounded like any other there.
Within(x, u, k) ==
  (5 * k) * Den(x, u) < Num(x, u) /\ Num(x, u) < (5 * k + 5) * Den(x, u)

LEMMA WithinAbove ==
  ASSUME NEW x \in Exacts, NEW u \in Int, NEW k \in Nat, Within(x, u, k),
         NEW i \in Nat \ {0}, NEW b \in Nat
  PROVE  /\ Above(x, u + i, b) <=> b * Pow10[i - 1] <= k
         /\ ~On(x, u + i, b)
<1> DEFINE n == Num(x, u)
           d == Den(x, u)
           p == Pow10[i - 1]
           m == b * p
<1>1. n \in Nat /\ d \in Nat \ {0} /\ (5 * k) * d < n /\ n < (5 * k + 5) * d
  BY NumDenType DEF Within
<1>2. p \in Nat \ {0} /\ Pow10[i] = 10 * p /\ m \in Nat
  <2>1. i - 1 \in Nat /\ i = (i - 1) + 1
    OBVIOUS
  <2>2. p \in Nat \ {0} /\ Pow10[i] = 10 * p
    BY <2>1, Powers, PowersAre
  <2> HIDE DEF p
  <2> QED
    BY <2>2
<1>3. /\ (b * Pow10[i]) * Den(x, u) <= 2 * Num(x, u)
           <=> b * Den(x, u + i) <= 2 * Num(x, u + i)
      /\ (b * Pow10[i]) * Den(x, u) = 2 * Num(x, u)
           <=> b * Den(x, u + i) = 2 * Num(x, u + i)
  BY Scaled
<1>4. /\ Above(x, u + i, b) <=> (b * (10 * p)) * d <= 2 * n
      /\ On(x, u + i, b) <=> (b * (10 * p)) * d = 2 * n
  BY <1>2, <1>3 DEF Above, On
<1> HIDE DEF n, d, p
<1>5. b * (10 * p) = 10 * m
  BY <1>2
<1> HIDE DEF m
<1>6. /\ (10 * m) * d <= 2 * n <=> m <= k
      /\ (10 * m) * d # 2 * n
  <2> DEFINE e == m * d
             f == k * d
  <2>1. e \in Nat /\ f \in Nat /\ (10 * m) * d = 10 * e /\ (5 * k) * d = 5 * f
        /\ (5 * k + 5) * d = 5 * f + 5 * d
    BY <1>1, <1>2
  <2>2. CASE m <= k
    <3>1. e <= f
      BY <1>1, <1>2, <2>2
    <3> HIDE DEF e, f
    <3> QED
      BY <1>1, <2>1, <2>2, <3>1
  <2>3. CASE ~(m <= k)
    <3>1. k + 1 <= m
      BY <1>2, <2>3
    <3>2. (k + 1) * d <= m * d /\ (k + 1) * d = f + d
      BY <1>1, <1>2, <3>1
    <3> HIDE DEF e, f
    <3>3. f + d <= e
      BY <3>2 DEF e
    <3> QED
      BY <1>1, <2>1, <2>3, <3>3
  <2> QED
    BY <2>2, <2>3
<1> QED
  <2>1. /\ Above(x, u + i, b) <=> m <= k
        /\ ~On(x, u + i, b)
    BY <1>4, <1>5, <1>6
  <2> QED
    BY <2>1 DEF m, p

LEMMA WithinAreRounded ==
  ASSUME NEW ctx, ContextOK(ctx), NEW x \in Exacts, NEW y \in Exacts, x.s = y.s,
         x.n > 0, y.n > 0, NEW u \in Int, NEW k \in Nat, Within(x, u, k),
         Within(y, u, k), Pow10[ctx.prec] <= 5 * k, NEW r
  PROVE  /\ IsRounded(r, x, ctx) <=> IsRounded(r, y, ctx)
         /\ Leading(x) = Leading(y)
<1>1. ASSUME NEW q \in Int, u < q
      PROVE  Alike(x, y, q)
  <2>1. q - u \in Nat \ {0} /\ u + (q - u) = q
    BY <1>1
  <2>2. \A b \in Nat : (Above(x, u + (q - u), b) <=> b * Pow10[q - u - 1] <= k)
                       /\ ~On(x, u + (q - u), b)
    BY <2>1, WithinAbove
  <2>3. \A b \in Nat : (Above(y, u + (q - u), b) <=> b * Pow10[q - u - 1] <= k)
                       /\ ~On(y, u + (q - u), b)
    BY <2>1, WithinAbove
  <2> QED
    BY <2>1, <2>2, <2>3 DEF Alike
<1>2. ctx.prec \in Nat \ {0}
  BY DEF ContextOK
<1>3. u + ctx.prec <= Leading(x)
  <2> DEFINE p == Pow10[ctx.prec - 1]
  <2>1. ctx.prec - 1 \in Nat /\ ctx.prec = (ctx.prec - 1) + 1
    BY <1>2
  <2>2. p \in Nat /\ Pow10[ctx.prec] = 10 * p
    BY <2>1, Powers
  <2>3. 2 * p <= k
    BY <2>2
  <2>4. Above(x, u + ctx.prec, 2) <=> 2 * p <= k
    BY <1>2, WithinAbove
  <2>5. Above(x, u + ctx.prec, 2) /\ u + ctx.prec \in Int
    BY <1>2, <2>3, <2>4
  <2> QED
    BY <2>5, LeadsAtLeast
<1>4. Leading(x) \in Int /\ LastPlace(x, ctx) \in Int
      /\ LastPlace(x, ctx) >= Leading(x) - ctx.prec + 1
  <2>1. Etiny(ctx) \in Int /\ Leading(x) - ctx.prec + 1 \in Int
    BY Limits, LastPlaceIs
  <2> QED
    BY <2>1, LeadingIs, LastPlaceIs
<1>5. u < Leading(x) /\ u < LastPlace(x, ctx)
  BY <1>2, <1>3, <1>4
<1>6. Leading(x) = Leading(y)
  BY <1>1, <1>4, <1>5, AlikeLead
<1> QED
  BY <1>1, <1>4, <1>5, <1>6, AlikeAreRounded

------------------------------------------------------------------------------
(* A coefficient that is cut off, and the digit that says what was cut.     *)

LEMMA ItselfIs ==
  ASSUME NEW d \in Numbers, NEW q \in Int
  PROVE  /\ Itself(d) \in Exacts /\ Itself(d).s = d.s
         /\ Itself(d).n = d.c /\ Itself(d).e = d.e
         /\ q >= d.e => /\ Num(Itself(d), q) = d.c
                        /\ Den(Itself(d), q) = Pow10[q - d.e]
         /\ q <= d.e => /\ Num(Itself(d), q) = d.c * Pow10[d.e - q]
                        /\ Den(Itself(d), q) = 1
<1> DEFINE x == Itself(d)
<1>1. d.s \in {0, 1} /\ d.c \in Nat /\ d.e \in Int
  BY NumberFields
<1>2. x.s = d.s /\ x.n = d.c /\ x.e = d.e /\ x.d = 1 /\ x \in Exacts
  BY <1>1 DEF Itself, Exactly, Exacts
<1> HIDE DEF x
<1>3. CASE q > d.e
  <2>1. ~(x.e > q) /\ q > x.e /\ ~(q <= d.e)
    BY <1>1, <1>2, <1>3
  <2>2. Num(x, q) = d.c * 1 /\ Den(x, q) = 1 * Pow10[q - d.e]
    BY <1>2, <2>1 DEF Num, Den
  <2>3. q - d.e \in Nat
    BY <1>1, <1>3
  <2>4. Pow10[q - d.e] \in Nat
    BY <2>3, PowersAre
  <2> QED
    BY <1>1, <1>2, <2>1, <2>2, <2>4 DEF x
<1>4. CASE q < d.e
  <2>1. ~(q > x.e) /\ x.e > q /\ ~(q >= d.e)
    BY <1>1, <1>2, <1>4
  <2>2. Num(x, q) = d.c * Pow10[d.e - q] /\ Den(x, q) = 1 * 1
    BY <1>2, <2>1 DEF Num, Den
  <2> QED
    BY <1>2, <2>1, <2>2 DEF x
<1>5. CASE q = d.e
  <2>1. ~(q > x.e) /\ ~(x.e > q) /\ q - d.e = 0 /\ d.e - q = 0
    BY <1>1, <1>2, <1>5
  <2>2. Num(x, q) = d.c * 1 /\ Den(x, q) = 1 * 1
    BY <1>2, <2>1 DEF Num, Den
  <2>3. Pow10[q - d.e] = 1 /\ Pow10[d.e - q] = 1
    BY <2>1, PowersAre
  <2> QED
    BY <1>1, <1>2, <2>2, <2>3 DEF x
<1> QED
  BY <1>1, <1>3, <1>4, <1>5

\* A number begins at its adjusted exponent.
LEMMA ItselfLeads ==
  ASSUME NEW d \in Numbers, d.c # 0
  PROVE  Itself(d).n > 0 /\ Leading(Itself(d)) = AdjExp(d)
<1> DEFINE x == Itself(d)
           a == AdjExp(d)
           m == Digits(d.c)
           p == Pow10[m - 1]
<1>1. d.c \in Nat /\ d.c > 0 /\ d.e \in Int /\ a \in Int /\ m \in Nat \ {0}
      /\ a = d.e + m - 1
  BY NumberFields
<1>2. p \in Nat /\ Pow10[m] = 10 * p /\ p <= d.c /\ d.c < 10 * p
  <2>1. m - 1 \in Nat /\ m = (m - 1) + 1
    BY <1>1
  <2> QED
    BY <1>1, <2>1, Powers, DigitsAre
<1>3. a >= d.e /\ a - d.e = m - 1
  BY <1>1
<1>4. x \in Exacts /\ x.n = d.c /\ Num(x, a) = d.c /\ Den(x, a) = p
  BY <1>1, <1>3, ItselfIs
<1> HIDE DEF x, a, m, p
<1>5. LeadsAt(x, a)
  BY <1>2, <1>4 DEF LeadsAt
<1>6. x.n > 0
  BY <1>1, <1>4
<1>7. a = Leading(x)
  BY <1>1, <1>4, <1>5, <1>6, LeadingIs
<1> QED
  BY <1>6, <1>7 DEF x, a

\* The rounding digit against what was cut off: equal to 0, on either side of
\* a half, or a half.
LEMMA IndicatorIs ==
  ASSUME NEW c \in Nat, c > 0, NEW n \in Nat \ {0}
  PROVE  LET rest == c % Pow10[n]
             whole == Pow10[n]
             rnd == ShiftR(c, n).rnd
         IN /\ rest \in Nat /\ whole \in Nat /\ rnd \in Nat
            /\ rnd = 0 <=> rest = 0
            /\ rnd >= 5 <=> 2 * rest >= whole
            /\ rnd > 5 <=> 2 * rest > whole
<1> DEFINE h == Pow10[n - 1]
           g == (c \div h) % 10
           t == c % h
           low == c \div Pow10[n]
           rest == c % Pow10[n]
           rnd == ShiftR(c, n).rnd
<1>1. n - 1 \in Nat /\ n = (n - 1) + 1
  OBVIOUS
<1>2. h \in Nat \ {0} /\ Pow10[n] = 10 * h
  BY <1>1, Powers, PowersAre
<1>3. /\ low \in Nat /\ rest \in Nat /\ rest < 10 * h
      /\ c = (10 * h) * low + rest
  <2>1. low \in Nat /\ rest \in 0..(Pow10[n] - 1) /\ c = Pow10[n] * low + rest
    BY PowersDivide
  <2> QED
    BY <1>2, <2>1
<1>4. CASE n > Digits(c)
  <2>1. rnd = 1
    <3>1. ShiftR(c, n) = [c |-> 0, rnd |-> 1]
      BY <1>4 DEF ShiftR
    <3> QED
      BY <3>1
  <2>2. c < h
    <3>1. Digits(c) <= n - 1
      BY <1>4, DigitsAre
    <3> QED
      BY <1>1, <3>1, DigitsBound
  <2>3. rest = c
    <3>1. Digits(c) \in Nat /\ n >= Digits(c)
      BY <1>4, DigitsAre
    <3>2. low = 0
      BY <3>1, DigitsShiftRight
    <3> HIDE DEF low, rest, h
    <3>3. (10 * h) * low = 0
      BY <1>2, <3>2
    <3> QED
      BY <1>3, <3>3
  <2> HIDE DEF h, rest, rnd
  <2>4. rest # 0 /\ 2 * rest < 10 * h
    BY <1>2, <2>2, <2>3
  <2> QED
    BY <1>2, <1>3, <2>1, <2>4 DEF rest, rnd
<1>5. CASE ~(n > Digits(c))
  <2>1. ShiftR(c, n) = [c |-> c \div Pow10[n], rnd |-> Indicator(g, t)]
    BY <1>5 DEF ShiftR
  <2>2. rnd = IF g \in {0, 5} /\ t # 0 THEN g + 1 ELSE g
    BY <2>1 DEF Indicator
  <2>3. /\ c \div h \in Nat /\ t \in Nat /\ t < h /\ c = h * (c \div h) + t
        /\ (c \div h) \div 10 = low
    <3>1. c \div h \in Nat /\ t \in 0..(h - 1) /\ c = h * (c \div h) + t
      BY <1>1, PowersDivide
    <3>2. (c \div h) \div 10 = c \div Pow10[(n - 1) + 1]
      BY <1>1, PowersDivideByTen
    <3> QED
      BY <1>1, <1>2, <3>1, <3>2
  <2>4. g \in 0..9 /\ c \div h = 10 * low + g
    <3> DEFINE y == c \div h
    <3>1. y \in Nat /\ y \div 10 = low /\ g = y % 10
      BY <2>3
    <3> HIDE DEF y, low, g
    <3> QED
      BY <3>1 DEF y
  <2> HIDE DEF rnd, rest, low, t, g
  <2>5. rest = g * h + t
    <3>1. h * (10 * low + g) = (10 * h) * low + g * h
      BY <1>2, <1>3, <2>4
    <3>2. c = h * (10 * low + g) + t
      BY <2>3, <2>4
    <3> DEFINE v == (10 * h) * low
               w == g * h
    <3>3. v \in Nat /\ w \in Nat /\ c = v + w + t /\ c = v + rest
      BY <1>2, <1>3, <2>4, <3>1, <3>2
    <3> HIDE DEF v, w
    <3>4. rest = w + t
      BY <1>3, <2>3, <3>3
    <3> QED
      BY <3>4 DEF w
  <2> HIDE DEF h
  <2>6. /\ g = 0 <=> g * h = 0
        /\ g >= 5 <=> g * h >= 5 * h
        /\ g >= 6 <=> g * h >= 6 * h
        /\ g = 5 <=> g * h = 5 * h
        /\ g * h \in Nat
    <3>1. g \in {0, 1, 2, 3, 4, 5, 6, 7, 8, 9}
      BY <2>4
    <3> QED
      BY <1>2, <3>1
  <2> DEFINE w == g * h
  <2> HIDE DEF w
  <2>7. /\ rnd \in Nat
        /\ rnd = 0 <=> rest = 0
        /\ rnd >= 5 <=> 2 * rest >= 10 * h
        /\ rnd > 5 <=> 2 * rest > 10 * h
    <3>1. rest = w + t /\ w \in Nat
          /\ (g = 0 <=> w = 0) /\ (g >= 5 <=> w >= 5 * h)
          /\ (g >= 6 <=> w >= 6 * h) /\ (g = 5 <=> w = 5 * h)
      BY <2>5, <2>6 DEF w
    <3>2. g <= 4 => w <= 4 * h
      <4>1. g \in {0, 1, 2, 3, 4, 5, 6, 7, 8, 9}
        BY <2>4
      <4> QED
        BY <1>2, <4>1 DEF w
    <3> QED
      BY <1>2, <2>2, <2>3, <2>4, <3>1, <3>2
  <2> QED
    BY <1>2, <1>3, <2>7 DEF rnd, rest
<1> QED
  BY <1>4, <1>5

\* _mpd_rnd_incr is the rule of the mode.
LEMMA RndIncrIs ==
  ASSUME NEW ctx, ctx.round \in Roundings, NEW c \in Nat, c > 0,
         NEW n \in Nat \ {0}, NEW s \in {0, 1}, NEW e
  PROVE  RndIncr(Fin(s, c \div Pow10[n], e), ShiftR(c, n).rnd, ctx)
           <=> AwayFromZero(ctx.round, s, c \div Pow10[n], c % Pow10[n], Pow10[n])
<1> DEFINE low == c \div Pow10[n]
           rest == c % Pow10[n]
           whole == Pow10[n]
           rnd == ShiftR(c, n).rnd
           d == Fin(s, low, e)
<1>1. /\ rest \in Nat /\ whole \in Nat /\ rnd \in Nat
      /\ rnd = 0 <=> rest = 0
      /\ rnd >= 5 <=> 2 * rest >= whole
      /\ rnd > 5 <=> 2 * rest > whole
  BY IndicatorIs
<1>2. low \in Nat
  BY PowersDivide
<1>3. d.c = low /\ d.s = s
  BY DEF Fin
<1> HIDE DEF low, rest, whole, rnd, d
<1>4. low % 2 \in {0, 1} /\ (low % 10 \in {0, 5} <=> low % 5 = 0)
  BY <1>2
<1>5. ctx.round = "ROUND_HALF_EVEN" =>
        (RndIncr(d, rnd, ctx) <=> AwayFromZero(ctx.round, s, low, rest, whole))
  <2>1. (rnd > 5 \/ (rnd = 5 /\ low % 2 = 1)) <=> (rest # 0 /\ 2 * rest + (low % 2) > whole)
    <3>1. rnd = 5 <=> 2 * rest = whole
      BY <1>1
    <3>2. rest = 0 => ~(rnd > 5) /\ rnd # 5
      BY <1>1
    <3> DEFINE b == low % 2
    <3>3. b \in {0, 1}
      BY <1>4
    <3> HIDE DEF b
    <3>4. (rnd > 5 \/ (rnd = 5 /\ b = 1)) <=> (rest # 0 /\ 2 * rest + b > whole)
      BY <1>1, <3>1, <3>2, <3>3
    <3> QED
      BY <3>4 DEF b
  <2> QED
    BY <1>3, <2>1 DEF RndIncr, AwayFromZero
<1>6. ctx.round # "ROUND_HALF_EVEN" =>
        (RndIncr(d, rnd, ctx) <=> AwayFromZero(ctx.round, s, low, rest, whole))
  <2>1. rnd >= 5 => rest # 0
    BY <1>1
  <2>2. rnd > 5 => rest # 0
    BY <1>1
  <2> QED
    BY <1>1, <1>3, <1>4, <2>1, <2>2 DEF RndIncr, AwayFromZero, Roundings
<1> QED
  BY <1>5, <1>6 DEF low, rest, whole, rnd, d

------------------------------------------------------------------------------
(* What mpd_qfinalize makes of a number.                                    *)

\* The parts a rounded number is made of.
LEMMA AtExact ==
  ASSUME NEW d \in Numbers, d.c # 0, NEW q \in Int, q <= d.e, NEW mode
  PROVE  /\ RoundAt(Itself(d), q, mode) = [n |-> d.c * Pow10[d.e - q], exact |-> TRUE]
         /\ d.c * Pow10[d.e - q] \in Nat
         /\ Digits(d.c * Pow10[d.e - q]) + q - 1 = AdjExp(d)
<1> DEFINE n == d.c * Pow10[d.e - q]
<1>1. d.c \in Nat /\ d.c > 0 /\ d.e \in Int /\ d.e - q \in Nat
  BY NumberFields
<1>2. n \in Nat /\ Digits(n) = Digits(d.c) + (d.e - q)
  BY <1>1, DigitsShiftLeft
<1>3. Num(Itself(d), q) = n /\ Den(Itself(d), q) = 1
  BY ItselfIs
<1>4. Digits(n) + q - 1 = AdjExp(d)
  BY <1>1, <1>2, NumberFields
<1> HIDE DEF n
<1>5. n \div 1 = n /\ n % 1 = 0
  BY <1>2
<1>6. RoundAt(Itself(d), q, mode) = [n |-> n, exact |-> TRUE]
  BY <1>3, <1>5 DEF RoundAt, AwayFromZero
<1>7. n = d.c * Pow10[d.e - q]
  BY DEF n
<1> QED
  BY <1>2, <1>4, <1>6, <1>7

LEMMA AtCut ==
  ASSUME NEW ctx, ctx.round \in Roundings, NEW d \in Numbers, d.c # 0,
         NEW q \in Int, q > d.e
  PROVE  LET cut == ShiftR(d.c, q - d.e)
             at == RoundAt(Itself(d), q, ctx.round)
         IN /\ cut.c = d.c \div Pow10[q - d.e] /\ cut.c \in Nat
            /\ at.n = IF RndIncr(Fin(d.s, cut.c, q), cut.rnd, ctx)
                      THEN cut.c + 1 ELSE cut.c
            /\ at.exact <=> cut.rnd = 0
            /\ at.exact \in BOOLEAN
            /\ RndIncr(Fin(d.s, cut.c, q), cut.rnd, ctx) => cut.rnd # 0
<1> DEFINE n == q - d.e
           cut == ShiftR(d.c, n)
           low == d.c \div Pow10[n]
           rest == d.c % Pow10[n]
           whole == Pow10[n]
<1>1. d.c \in Nat /\ d.c > 0 /\ n \in Nat \ {0} /\ d.s \in {0, 1}
  BY NumberFields
<1>2. cut.c = low /\ low \in Nat
  BY <1>1, ShiftRIs
<1>3. cut.rnd = 0 <=> rest = 0
  BY <1>1, IndicatorIs
<1>4. RndIncr(Fin(d.s, low, q), cut.rnd, ctx)
        <=> AwayFromZero(ctx.round, d.s, low, rest, whole)
  BY <1>1, RndIncrIs
<1>5. /\ Num(Itself(d), q) = d.c /\ Den(Itself(d), q) = whole
      /\ Itself(d).s = d.s
  <2>1. q >= d.e
    BY NumberFields
  <2> QED
    BY <2>1, ItselfIs
<1>6. RoundAt(Itself(d), q, ctx.round)
        = [n |-> IF AwayFromZero(ctx.round, d.s, low, rest, whole)
                 THEN low + 1 ELSE low, exact |-> rest = 0]
  BY <1>5 DEF RoundAt
<1> HIDE DEF n, cut, low, rest, whole
<1>7. AwayFromZero(ctx.round, d.s, low, rest, whole) => rest # 0
  BY DEF AwayFromZero
<1> DEFINE at == RoundAt(Itself(d), q, ctx.round)
           up == RndIncr(Fin(d.s, cut.c, q), cut.rnd, ctx)
<1>8. /\ at.n = IF AwayFromZero(ctx.round, d.s, low, rest, whole)
                THEN low + 1 ELSE low
      /\ at.exact = (rest = 0)
  BY <1>6
<1>9. up <=> AwayFromZero(ctx.round, d.s, low, rest, whole)
  BY <1>2, <1>4
<1> HIDE DEF at, up
<1>10. /\ cut.c = low /\ cut.c \in Nat
       /\ at.n = IF up THEN cut.c + 1 ELSE cut.c
       /\ at.exact <=> cut.rnd = 0
       /\ at.exact \in BOOLEAN
       /\ up => cut.rnd # 0
  BY <1>2, <1>3, <1>7, <1>8, <1>9
<1> QED
  BY <1>10 DEF n, cut, low, at, up

LEMMA SameHere ==
  ASSUME NEW s \in {0, 1}, NEW c \in Nat, NEW e \in Int, NEW n \in Nat, NEW q \in Int,
         q <= e, c * Pow10[e - q] = n
  PROVE  SameNumber(Fin(s, c, e), n, q)
<1>1. e - q \in Int /\ q - e \in Int /\ e - q >= 0 /\ q - e <= 0
  OBVIOUS
<1>2. Max({e - q, 0}) = e - q /\ Max({q - e, 0}) = 0
  <2>1. Max({e - q, 0}) = IF e - q >= 0 THEN e - q ELSE 0
    BY <1>1, MaxOfTwo
  <2>2. Max({q - e, 0}) = IF q - e >= 0 THEN q - e ELSE 0
    BY <1>1, MaxOfTwo
  <2> QED
    BY <1>1, <2>1, <2>2
<1>3. n * Pow10[0] = n
  BY PowersAre
<1>4. Fin(s, c, e).k = "fin" /\ Fin(s, c, e).c = c /\ Fin(s, c, e).e = e
  BY FinFields
<1> QED
  BY <1>2, <1>3, <1>4 DEF SameNumber

LEMMA RoundAfterKeeps ==
  ASSUME NEW ctx, ContextOK(ctx), NEW d, NEW st,
         IsSpecial(d) \/ (d \in Numbers /\ Digits(d.c) <= ctx.prec)
  PROVE  RoundAfter(Result(d, st), ctx) = Result(d, st)
<1>1. CheckRound(d, ctx) = Result(d, {})
  <2>1. CASE IsSpecial(d)
    BY <2>1 DEF CheckRound
  <2>2. CASE d \in Numbers /\ Digits(d.c) <= ctx.prec
    <3>1. Digits(d.c) \in Int /\ ctx.prec \in Int
      BY <2>2, NumberFields DEF ContextOK
    <3>2. Digits(d.c) - ctx.prec <= 0
      BY <2>2, <3>1
    <3> QED
      BY <3>2 DEF CheckRound
  <2> QED
    BY <2>1, <2>2
<1>2. Result(d, st).d = d /\ Result(d, st).st = st
  BY DEF Result
<1>3. Also(st, Result(d, {})) = Result(d, st)
  <2>1. Result(d, {}).d = d /\ Result(d, {}).st = {}
    BY DEF Result
  <2>2. {} \cup st = st
    OBVIOUS
  <2> QED
    BY <2>1, <2>2 DEF Also
<1> QED
  BY <1>1, <1>2, <1>3 DEF RoundAfter

LEMMA OverflowIs ==
  ASSUME NEW ctx, ContextOK(ctx), NEW s \in {0, 1}, NEW st
  PROVE  /\ OverflowTo(s, ctx) = IF EndsAtLargest(s, ctx)
                                 THEN Fin(s, MaxCoeff(ctx), Etop(ctx)) ELSE Inf(s)
         /\ RoundAfter(Result(OverflowTo(s, ctx), st), ctx)
              = Result(OverflowTo(s, ctx), st)
<1>1. EndsAtLargest(s, ctx) <=> \/ ctx.round \in {"ROUND_DOWN", "ROUND_05UP"}
                                \/ ctx.round = "ROUND_CEILING" /\ s = 1
                                \/ ctx.round = "ROUND_FLOOR" /\ s = 0
  BY DEF EndsAtLargest
<1>2. OverflowTo(s, ctx) = IF EndsAtLargest(s, ctx)
                           THEN Fin(s, MaxCoeff(ctx), Etop(ctx)) ELSE Inf(s)
  BY <1>1 DEF OverflowTo
<1>3. IsSpecial(Inf(s))
  BY DEF IsSpecial, Inf, Special
<1>4. MaxCoeff(ctx) \in Nat /\ Digits(MaxCoeff(ctx)) = ctx.prec /\ Etop(ctx) \in Int
  BY MaxCoeffIs, Limits
<1>5. LET d == Fin(s, MaxCoeff(ctx), Etop(ctx))
      IN d \in Numbers /\ Digits(d.c) <= ctx.prec
  BY <1>4, FinFields DEF ContextOK
<1>6. \/ IsSpecial(OverflowTo(s, ctx))
      \/ /\ OverflowTo(s, ctx) \in Numbers
         /\ Digits(OverflowTo(s, ctx).c) <= ctx.prec
  BY <1>2, <1>3, <1>5
<1>7. RoundAfter(Result(OverflowTo(s, ctx), st), ctx) = Result(OverflowTo(s, ctx), st)
  BY <1>6, RoundAfterKeeps
<1> QED
  BY <1>2, <1>7

\* IsRounded of a number, one case at a time.
LEMMA IsRoundedOver ==
  ASSUME NEW ctx, ContextOK(ctx), NEW x \in Exacts, x.n > 0,
         NEW q, q = LastPlace(x, ctx), NEW n, n = RoundAt(x, q, ctx.round).n,
         Digits(n) + q - 1 > ctx.emax
  PROVE  IsRounded(Result(OverflowTo(x.s, ctx), {"Overflow", "Inexact", "Rounded"}),
                   x, ctx)
<1>1. x.n # 0 /\ x.s \in {0, 1}
  BY DEF Exacts
<1>2. OverflowTo(x.s, ctx) = IF EndsAtLargest(x.s, ctx)
                             THEN Fin(x.s, MaxCoeff(ctx), Etop(ctx)) ELSE Inf(x.s)
  BY <1>1, OverflowIs
<1>3. LET r == Result(OverflowTo(x.s, ctx), {"Overflow", "Inexact", "Rounded"})
      IN r.d = OverflowTo(x.s, ctx) /\ r.st = {"Overflow", "Inexact", "Rounded"}
  BY DEF Result
<1> QED
  BY <1>1, <1>2, <1>3 DEF IsRounded

LEMMA IsRoundedNumber ==
  ASSUME NEW ctx, ContextOK(ctx), NEW x \in Exacts, x.n > 0,
         NEW q \in Int, q = LastPlace(x, ctx),
         NEW at, at = RoundAt(x, q, ctx.round), at.n \in Nat,
         Digits(at.n) + q - 1 <= ctx.emax,
         NEW r, SameNumber(r.d, at.n, q), r.d.s = x.s,
         "Overflow" \notin r.st, "Inexact" \in r.st <=> ~at.exact,
         "Subnormal" \in r.st <=> Leading(x) < ctx.emin,
         "Underflow" \in r.st <=> (Leading(x) < ctx.emin /\ ~at.exact)
  PROVE  IsRounded(r, x, ctx)
<1>1. x.n # 0
  BY DEF Exacts
<1>2. ~(Digits(at.n) + q - 1 > ctx.emax)
  BY DigitsAre DEF ContextOK
<1> QED
  BY <1>1, <1>2 DEF IsRounded

\* The last place of a number with the digits it has.
LEMMA ItselfEnds ==
  ASSUME NEW ctx, ContextOK(ctx), NEW d \in Numbers, d.c # 0
  PROVE  LET q == LastPlace(Itself(d), ctx)
         IN /\ q \in Int /\ q >= Etiny(ctx)
            /\ AdjExp(d) >= ctx.emin => q = d.e + Digits(d.c) - ctx.prec
            /\ AdjExp(d) < ctx.emin => q = Etiny(ctx)
            /\ Itself(d) \in Exacts /\ Itself(d).n > 0 /\ Itself(d).s = d.s
            /\ Leading(Itself(d)) = AdjExp(d)
<1>1. /\ Itself(d) \in Exacts /\ Itself(d).n > 0 /\ Leading(Itself(d)) = AdjExp(d)
      /\ Itself(d).s = d.s
  BY ItselfLeads, ItselfIs, NumberFields
<1> DEFINE l == AdjExp(d) - ctx.prec + 1
<1>2. LastPlace(Itself(d), ctx) = IF l >= Etiny(ctx) THEN l ELSE Etiny(ctx)
  BY <1>1, LastPlaceIs
<1>3. /\ AdjExp(d) = d.e + Digits(d.c) - 1 /\ Digits(d.c) \in Int /\ d.e \in Int
      /\ AdjExp(d) \in Int
  BY NumberFields
<1>4. Etiny(ctx) = ctx.emin - ctx.prec + 1 /\ Etiny(ctx) \in Int
  BY Limits
<1>5. ctx.prec \in Int /\ ctx.emin \in Int
  BY DEF ContextOK
<1> QED
  BY <1>1, <1>2, <1>3, <1>4, <1>5

\* Nothing is cut off.
LEMMA RoundsExact ==
  ASSUME NEW ctx, ContextOK(ctx), NEW d \in Numbers, d.c # 0,
         LastPlace(Itself(d), ctx) <= d.e, AdjExp(d) <= ctx.emax,
         NEW r, r.d.s = d.s,
         SameNumber(r.d, d.c * Pow10[d.e - LastPlace(Itself(d), ctx)],
                    LastPlace(Itself(d), ctx)),
         "Overflow" \notin r.st, "Inexact" \notin r.st, "Underflow" \notin r.st,
         "Subnormal" \in r.st <=> AdjExp(d) < ctx.emin
  PROVE  IsRounded(r, Itself(d), ctx)
<1> DEFINE x == Itself(d)
           q == LastPlace(x, ctx)
           n == d.c * Pow10[d.e - q]
           at == RoundAt(x, q, ctx.round)
<1>1. /\ q \in Int /\ x \in Exacts /\ x.n > 0 /\ x.s = d.s
      /\ Leading(x) = AdjExp(d)
  BY ItselfEnds
<1>2. at = [n |-> n, exact |-> TRUE] /\ n \in Nat /\ Digits(n) + q - 1 = AdjExp(d)
  BY <1>1, AtExact
<1>3. at.n = n /\ at.exact
  BY <1>2
<1>4. SameNumber(r.d, at.n, q) /\ r.d.s = x.s
  BY <1>1, <1>3
<1> HIDE DEF x, q, n, at
<1>5. Digits(at.n) + q - 1 <= ctx.emax /\ at.n \in Nat
  BY <1>2, <1>3
<1>6. q = LastPlace(x, ctx) /\ at = RoundAt(x, q, ctx.round)
  BY DEF q, at
<1>7. IsRounded(r, x, ctx)
  BY <1>1, <1>3, <1>4, <1>5, <1>6, IsRoundedNumber
<1> QED
  BY <1>7 DEF x

\* A digit is cut off, and what is left has its place.
LEMMA RoundsCut ==
  ASSUME NEW ctx, ContextOK(ctx), ctx.round \in Roundings, NEW d \in Numbers, d.c # 0,
         NEW q, q = LastPlace(Itself(d), ctx), q > d.e,
         NEW cut, cut = ShiftR(d.c, q - d.e),
         NEW n \in Nat, n = IF RndIncr(Fin(d.s, cut.c, q), cut.rnd, ctx)
                            THEN cut.c + 1 ELSE cut.c,
         Digits(n) + q - 1 <= ctx.emax,
         NEW r, r.d.s = d.s, SameNumber(r.d, n, q),
         "Overflow" \notin r.st, "Inexact" \in r.st <=> cut.rnd # 0,
         "Subnormal" \in r.st <=> AdjExp(d) < ctx.emin,
         "Underflow" \in r.st <=> (AdjExp(d) < ctx.emin /\ cut.rnd # 0)
  PROVE  IsRounded(r, Itself(d), ctx)
<1> DEFINE x == Itself(d)
           at == RoundAt(x, q, ctx.round)
<1>1. /\ q \in Int /\ x \in Exacts /\ x.n > 0 /\ x.s = d.s
      /\ Leading(x) = AdjExp(d)
  BY ItselfEnds
<1>2. at.n = n /\ (at.exact <=> cut.rnd = 0)
  BY <1>1, AtCut
<1>3. q = LastPlace(x, ctx) /\ at = RoundAt(x, q, ctx.round)
  OBVIOUS
<1> HIDE DEF x, at
<1>4. IsRounded(r, x, ctx)
  BY <1>1, <1>2, <1>3, IsRoundedNumber
<1> QED
  BY <1>4 DEF x

\* Case 1 of _mpd_check_exp: too large.
LEMMA RoundsOver ==
  ASSUME NEW ctx, ContextOK(ctx), ctx.round \in Roundings, NEW d \in Numbers, d.c # 0,
         AdjExp(d) > ctx.emax
  PROVE  IsRounded(RoundAfter(CheckExp(d, ctx), ctx), Itself(d), ctx)
<1> DEFINE x == Itself(d)
           q == LastPlace(x, ctx)
           n == RoundAt(x, q, ctx.round).n
           st == {"Overflow", "Inexact", "Rounded"}
<1>1. CheckExp(d, ctx) = Result(OverflowTo(d.s, ctx), st)
  BY DEF CheckExp
<1>2. d.s \in {0, 1}
  BY NumberFields
<1>3. RoundAfter(CheckExp(d, ctx), ctx) = Result(OverflowTo(d.s, ctx), st)
  BY <1>1, <1>2, OverflowIs
<1>4. /\ q \in Int /\ x \in Exacts /\ x.n > 0 /\ x.s = d.s
      /\ q = d.e + Digits(d.c) - ctx.prec
  <2>1. AdjExp(d) >= ctx.emin
    BY NumberFields DEF ContextOK
  <2> QED
    BY <2>1, ItselfEnds
<1>5. Digits(n) + q - 1 > ctx.emax
  <2>1. CASE q <= d.e
    <3>1. n = d.c * Pow10[d.e - q] /\ Digits(d.c * Pow10[d.e - q]) + q - 1 = AdjExp(d)
      BY <1>4, <2>1, AtExact
    <3> QED
      BY <3>1
  <2>2. CASE ~(q <= d.e)
    <3> DEFINE low == d.c \div Pow10[q - d.e]
    <3>1. low \in Nat /\ n \in {low, low + 1}
      <4>1. q > d.e
        BY <1>4, <2>2, NumberFields
      <4> QED
        BY <1>4, <4>1, AtCut
    <3>2. /\ d.c \in Nat /\ d.c > 0 /\ q - d.e \in Nat /\ q - d.e < Digits(d.c)
          /\ Digits(d.c) - (q - d.e) = ctx.prec
          /\ ctx.prec \in Nat \ {0}
      BY <1>4, <2>2, NumberFields DEF ContextOK
    <3>3. Digits(low) = ctx.prec /\ low > 0
      BY <3>2, DigitsShiftRight
    <3> HIDE DEF low, n
    <3>4. n \in Nat /\ Pow10[ctx.prec - 1] <= n
      <4>1. Pow10[ctx.prec - 1] <= low
        BY <3>1, <3>3, DigitsAre
      <4>2. Pow10[ctx.prec - 1] \in Nat
        BY <3>2, PowersAre
      <4> QED
        BY <3>1, <4>1, <4>2
    <3>5. Digits(n) > ctx.prec - 1 /\ Digits(n) \in Int
      BY <3>2, <3>4, DigitsBound, DigitsAre
    <3>6. q = AdjExp(d) - ctx.prec + 1 /\ AdjExp(d) \in Int /\ ctx.emax \in Int
      BY <1>4, NumberFields DEF ContextOK
    <3> HIDE DEF q
    <3> QED
      BY <3>2, <3>5, <3>6
  <2> QED
    BY <2>1, <2>2
<1>6. q = LastPlace(x, ctx) /\ n = RoundAt(x, q, ctx.round).n
  OBVIOUS
<1> HIDE DEF x, q, n
<1>7. IsRounded(Result(OverflowTo(d.s, ctx), st), x, ctx)
  BY <1>4, <1>5, <1>6, IsRoundedOver
<1> QED
  BY <1>3, <1>7 DEF x

\* Case 2: an exponent above Etop is brought there with zeros.
LEMMA RoundsPadded ==
  ASSUME NEW ctx, ContextOK(ctx), NEW d \in Numbers, d.c # 0,
         AdjExp(d) <= ctx.emax, ctx.clamp = 1, d.e > Etop(ctx)
  PROVE  IsRounded(RoundAfter(CheckExp(d, ctx), ctx), Itself(d), ctx)
<1> DEFINE q == LastPlace(Itself(d), ctx)
           top == Etop(ctx)
           c == d.c * Pow10[d.e - top]
           st == {"Clamped"} \cup (IF AdjExp(d) < ctx.emin THEN {"Subnormal"} ELSE {})
           r == Result(Fin(d.s, c, top), st)
<1>1. /\ d.c \in Nat /\ d.c > 0 /\ d.e \in Int /\ Digits(d.c) \in Nat \ {0}
      /\ d.s \in {0, 1} /\ AdjExp(d) = d.e + Digits(d.c) - 1 /\ AdjExp(d) \in Int
  BY NumberFields
<1>2. /\ top \in Int /\ top = ctx.emax - ctx.prec + 1 /\ Etiny(ctx) <= top
      /\ ctx.emax \in Int /\ ctx.prec \in Int /\ ctx.emin \in Int
      /\ Etiny(ctx) = ctx.emin - ctx.prec + 1 /\ Etiny(ctx) \in Int
  BY Limits DEF ContextOK
<1>3. q \in Int /\ q <= top
  <2>1. /\ q \in Int
        /\ AdjExp(d) >= ctx.emin => q = d.e + Digits(d.c) - ctx.prec
        /\ AdjExp(d) < ctx.emin => q = Etiny(ctx)
    BY ItselfEnds
  <2> HIDE DEF q, top
  <2> QED
    BY <1>1, <1>2, <2>1
<1>4. d.e - top \in Nat /\ top - q \in Nat /\ d.e - q = (d.e - top) + (top - q)
      /\ q <= d.e
  BY <1>1, <1>2, <1>3
<1>5. c \in Nat /\ Digits(c) = Digits(d.c) + (d.e - top) /\ Digits(c) <= ctx.prec
  <2>1. c \in Nat /\ Digits(c) = Digits(d.c) + (d.e - top)
    BY <1>1, <1>4, DigitsShiftLeft
  <2> QED
    BY <1>1, <1>2, <2>1
<1>6. CheckExp(d, ctx) = r
  <2>1. ShiftL(d.c, d.e - top) = c
    BY DEF ShiftL
  <2>2. ~(AdjExp(d) > ctx.emax)
    BY <1>1, <1>2
  <2> QED
    BY <2>1, <2>2 DEF CheckExp
<1>7. c * Pow10[top - q] = d.c * Pow10[d.e - q]
  <2>1. Pow10[d.e - q] = Pow10[d.e - top] * Pow10[top - q]
    BY <1>4, PowersAdd
  <2>2. Pow10[d.e - top] \in Nat /\ Pow10[top - q] \in Nat
    BY <1>4, PowersAre
  <2> DEFINE v == Pow10[d.e - top]
             w == Pow10[top - q]
  <2> HIDE DEF v, w
  <2>3. (d.c * v) * w = d.c * (v * w)
    BY <1>1, <2>2 DEF v, w
  <2> QED
    BY <2>1, <2>3 DEF v, w
<1>8. /\ Fin(d.s, c, top) \in Numbers /\ Fin(d.s, c, top).c = c
      /\ Fin(d.s, c, top).s = d.s
  <2>1. d.s \in {0, 1} /\ c \in Nat /\ top \in Int
    BY <1>1, <1>2, <1>5
  <2> HIDE DEF c, top
  <2> QED
    BY <2>1, FinFields
<1>9. d.c * Pow10[d.e - q] \in Nat
  BY <1>1, <1>4, DigitsShiftLeft
<1>10. SameNumber(Fin(d.s, c, top), d.c * Pow10[d.e - q], q)
  BY <1>1, <1>2, <1>3, <1>5, <1>7, <1>9, SameHere
<1>11. RoundAfter(r, ctx) = r
  BY <1>5, <1>8, RoundAfterKeeps
<1>12. r.d = Fin(d.s, c, top) /\ r.st = st
  BY DEF Result
<1> HIDE DEF r, c, top
<1>13. IsRounded(r, Itself(d), ctx)
  BY <1>4, <1>8, <1>10, <1>12, RoundsExact
<1> QED
  BY <1>6, <1>11, <1>13

\* Case 3: below emin.
LEMMA RoundsSubnormal ==
  ASSUME NEW ctx, ContextOK(ctx), ctx.round \in Roundings, NEW d \in Numbers, d.c # 0,
         AdjExp(d) < ctx.emin, ~(ctx.clamp = 1 /\ d.e > Etop(ctx))
  PROVE  IsRounded(RoundAfter(CheckExp(d, ctx), ctx), Itself(d), ctx)
<1> DEFINE q == Etiny(ctx)
<1>1. /\ d.c \in Nat /\ d.c > 0 /\ d.e \in Int /\ Digits(d.c) \in Nat \ {0}
      /\ d.s \in {0, 1} /\ AdjExp(d) = d.e + Digits(d.c) - 1 /\ AdjExp(d) \in Int
  BY NumberFields
<1>2. /\ q = ctx.emin - ctx.prec + 1 /\ q \in Int /\ ctx.prec \in Nat \ {0}
      /\ ctx.emin \in Int /\ ctx.emin <= 0 /\ ctx.emax \in Nat
  BY Limits DEF ContextOK
<1>3. LastPlace(Itself(d), ctx) = q
  BY ItselfEnds
<1>4. AdjExp(d) <= ctx.emax /\ ~(AdjExp(d) > ctx.emax)
  BY <1>1, <1>2
<1>5. CASE d.e >= q
  <2>1. CheckExp(d, ctx) = Result(d, {"Subnormal"})
    BY <1>1, <1>2, <1>4, <1>5 DEF CheckExp
  <2>2. Digits(d.c) <= ctx.prec
    BY <1>1, <1>2, <1>5
  <2>3. RoundAfter(Result(d, {"Subnormal"}), ctx) = Result(d, {"Subnormal"})
    BY <2>2, RoundAfterKeeps
  <2>4. SameNumber(d, d.c * Pow10[d.e - q], q)
    <3>1. d.c * Pow10[d.e - q] \in Nat
      BY <1>1, <1>2, <1>5, DigitsShiftLeft
    <3>2. Fin(d.s, d.c, d.e) = d
      BY FinSame
    <3>3. SameNumber(Fin(d.s, d.c, d.e), d.c * Pow10[d.e - q], q)
      BY <1>1, <1>2, <1>5, <3>1, SameHere
    <3> QED
      BY <3>2, <3>3
  <2>5. Result(d, {"Subnormal"}).d = d /\ Result(d, {"Subnormal"}).st = {"Subnormal"}
    BY DEF Result
  <2>6. IsRounded(Result(d, {"Subnormal"}), Itself(d), ctx)
    BY <1>3, <1>4, <1>5, <2>4, <2>5, RoundsExact
  <2> QED
    BY <2>1, <2>3, <2>6
<1>6. CASE ~(d.e >= q)
  <2> DEFINE cut == ShiftR(d.c, q - d.e)
             up == RndIncr(Fin(d.s, cut.c, q), cut.rnd, ctx)
             n == IF up THEN cut.c + 1 ELSE cut.c
             st == {"Subnormal", "Rounded"}
                   \cup (IF cut.rnd = 0 THEN {} ELSE {"Inexact", "Underflow"})
                   \cup (IF cut.rnd # 0 /\ n = 0 THEN {"Clamped"} ELSE {})
             r == Result(Fin(d.s, n, q), st)
  <2>1. q > d.e /\ q - d.e \in Nat \ {0} /\ d.e < Etiny(ctx)
    BY <1>1, <1>2, <1>6
  <2>2. cut.c = d.c \div Pow10[q - d.e] /\ cut.c \in Nat /\ n \in Nat
    BY <1>2, <2>1, AtCut
  <2>3. ApplyRoundExcess(Fin(d.s, cut.c, q), cut.rnd, ctx) = Fin(d.s, n, q)
    BY <2>2, <1>1, <1>2 DEF ApplyRoundExcess, Fin
  <2>4. Fin(d.s, n, q).c = n /\ Fin(d.s, n, q).s = d.s /\ Fin(d.s, n, q) \in Numbers
    <3>1. d.s \in {0, 1} /\ n \in Nat /\ q \in Int
      BY <1>1, <1>2, <2>2
    <3> HIDE DEF n, q
    <3> QED
      BY <3>1, FinFields
  <2>5. SubnormalResult(Fin(d.s, n, q), cut.rnd) = r
    BY <2>4 DEF SubnormalResult
  <2>6. CheckExp(d, ctx) = r
    <3>1. CheckExp(d, ctx) = RoundSubnormal(d, ctx)
      BY <1>1, <1>2, <1>4, <2>1 DEF CheckExp
    <3>2. RoundSubnormal(d, ctx) = CutToEtiny(d.s, cut, ctx)
      BY DEF RoundSubnormal
    <3> HIDE DEF cut, up, n, r, st
    <3>3. CutToEtiny(d.s, cut, ctx) = r
      BY <2>3, <2>5 DEF CutToEtiny
    <3> QED
      BY <3>1, <3>2, <3>3
  <2>7. n < Pow10[ctx.prec] /\ Digits(n) <= ctx.prec /\ Digits(n) \in Int
    <3>1. cut.c < Pow10[ctx.prec - 1]
      <4>1. CASE q - d.e < Digits(d.c)
        <5>1. Digits(cut.c) = Digits(d.c) - (q - d.e)
          BY <1>1, <2>1, <2>2, <4>1, DigitsShiftRight
        <5>2. Digits(cut.c) <= ctx.prec - 1 /\ ctx.prec - 1 \in Nat
          <6> HIDE DEF cut, q
          <6> QED
            BY <1>1, <1>2, <2>1, <4>1, <5>1
        <5> HIDE DEF cut
        <5> QED
          BY <2>2, <5>2, DigitsBound
      <4>2. CASE ~(q - d.e < Digits(d.c))
        <5>1. cut.c = 0
          BY <1>1, <2>1, <2>2, <4>2, DigitsShiftRight
        <5>2. Pow10[ctx.prec - 1] \in Nat \ {0}
          BY <1>2, PowersAre
        <5> QED
          BY <5>1, <5>2
      <4> QED
        BY <4>1, <4>2
    <3>2. Pow10[ctx.prec - 1] < Pow10[ctx.prec] /\ Pow10[ctx.prec] \in Nat
          /\ Pow10[ctx.prec - 1] \in Nat
      <4>1. ctx.prec - 1 \in Nat /\ ctx.prec \in Nat /\ ctx.prec - 1 < ctx.prec
        BY <1>2
      <4> QED
        BY <4>1, PowersGrow, PowersAre
    <3>3. n \in {cut.c, cut.c + 1}
      OBVIOUS
    <3> HIDE DEF n, cut
    <3>4. n < Pow10[ctx.prec]
      BY <2>2, <3>1, <3>2, <3>3
    <3> QED
      BY <1>2, <2>2, <3>4, DigitsBound, DigitsAre
  <2>8. /\ Fin(d.s, n, q) \in Numbers /\ Fin(d.s, n, q).s = d.s
        /\ SameNumber(Fin(d.s, n, q), n, q)
    <3> HIDE DEF n
    <3>1. q - q = 0 /\ n * Pow10[0] = n /\ q <= q
      BY <1>2, <2>2, PowersAre
    <3>2. n * Pow10[q - q] = n
      BY <3>1
    <3>3. SameNumber(Fin(d.s, n, q), n, q)
      BY <1>1, <1>2, <2>2, <3>1, <3>2, SameHere
    <3> QED
      BY <2>4, <3>3
  <2>9. RoundAfter(r, ctx) = r
    <3> DEFINE y == Fin(d.s, n, q)
    <3>1. y \in Numbers /\ Digits(y.c) <= ctx.prec
      <4>1. y.c = n
        BY DEF Fin
      <4> HIDE DEF n
      <4> QED
        BY <2>7, <2>8, <4>1
    <3> HIDE DEF y, st
    <3>2. RoundAfter(Result(y, st), ctx) = Result(y, st)
      BY <3>1, RoundAfterKeeps, Zenon
    <3> QED
      BY <3>2 DEF y
  <2>10. r.d = Fin(d.s, n, q) /\ r.st = st
    BY DEF Result
  <2>11. /\ "Overflow" \notin st /\ "Subnormal" \in st
         /\ "Inexact" \in st <=> cut.rnd # 0
         /\ "Underflow" \in st <=> cut.rnd # 0
    <3> HIDE DEF cut, n
    <3> QED
      OBVIOUS
  <2>12. Digits(n) + q - 1 <= ctx.emax
    <3> HIDE DEF n, q
    <3> QED
      BY <1>2, <2>7
  <2>13. q = LastPlace(Itself(d), ctx)
    BY <1>3
  <2> HIDE DEF st, r, q
  <2>14. /\ cut = ShiftR(d.c, q - d.e)
         /\ n = IF RndIncr(Fin(d.s, cut.c, q), cut.rnd, ctx)
                THEN cut.c + 1 ELSE cut.c
    OBVIOUS
  <2> HIDE DEF cut, n
  <2>15. IsRounded(r, Itself(d), ctx)
    BY <2>1, <2>2, <2>8, <2>10, <2>11, <2>12, <2>13, <2>14, RoundsCut
  <2> QED
    BY <2>6, <2>9, <2>15
<1> QED
  BY <1>5, <1>6

\* An increment that carries out of all nines.
LEMMA CarryIs ==
  ASSUME NEW ctx, ContextOK(ctx), NEW s \in {0, 1}, NEW q \in Int,
         q + ctx.prec >= ctx.emin
  PROVE  CheckExp(Fin(s, Pow10[ctx.prec - 1], q + 1), ctx)
           = IF q + ctx.prec > ctx.emax
             THEN Result(OverflowTo(s, ctx), {"Overflow", "Inexact", "Rounded"})
             ELSE Result(Fin(s, Pow10[ctx.prec - 1], q + 1), {})
<1> DEFINE c == Pow10[ctx.prec - 1]
           d == Fin(s, c, q + 1)
<1>1. /\ ctx.prec \in Nat \ {0} /\ ctx.emax \in Nat /\ ctx.emin \in Int
      /\ ctx.prec - 1 \in Nat /\ Etop(ctx) \in Int
      /\ Etop(ctx) = ctx.emax - ctx.prec + 1
  BY Limits DEF ContextOK
<1>2. c \in Nat /\ c > 0 /\ Digits(c) = ctx.prec
  <2>1. c \in Nat \ {0} /\ Pow10[ctx.prec - 1] <= c
    BY <1>1, PowersAre
  <2>2. c < Pow10[ctx.prec]
    <3>1. ctx.prec - 1 \in Nat /\ ctx.prec \in Nat /\ ctx.prec - 1 < ctx.prec
      BY <1>1
    <3> QED
      BY <3>1, PowersGrow
  <2> QED
    BY <1>1, <2>1, <2>2, DigitsBound
<1>3. /\ d.s = s /\ d.c = c /\ d.e = q + 1 /\ d.c # 0
      /\ AdjExp(d) = q + ctx.prec
  <2>1. c \in Nat /\ q + 1 \in Int
    BY <1>2
  <2>2. /\ d.s = s /\ d.c = c /\ d.e = q + 1
        /\ AdjExp(d) = (q + 1) + Digits(c) - 1
    <3> HIDE DEF c
    <3> QED
      BY <2>1, FinFields
  <2> QED
    BY <1>1, <1>2, <2>2
<1> HIDE DEF d
<1>4. CASE q + ctx.prec > ctx.emax
  BY <1>3, <1>4 DEF CheckExp, d
<1>5. CASE ~(q + ctx.prec > ctx.emax)
  <2>1. ~(AdjExp(d) > ctx.emax) /\ ~(d.e > Etop(ctx)) /\ ~(AdjExp(d) < ctx.emin)
    BY <1>1, <1>3, <1>5
  <2>2. CheckExp(d, ctx) = Result(d, {})
    BY <2>1 DEF CheckExp
  <2> QED
    BY <1>5, <2>2 DEF d
<1> QED
  BY <1>4, <1>5

\* _mpd_check_round, of a number between emin and emax.
LEMMA RoundsAtPrecision ==
  ASSUME NEW ctx, ContextOK(ctx), ctx.round \in Roundings, NEW d \in Numbers, d.c # 0,
         ctx.emin <= AdjExp(d), AdjExp(d) <= ctx.emax
  PROVE  IsRounded(CheckRound(d, ctx), Itself(d), ctx)
<1> DEFINE q == LastPlace(Itself(d), ctx)
           shift == Digits(d.c) - ctx.prec
<1>1. /\ d.c \in Nat /\ d.c > 0 /\ d.e \in Int /\ Digits(d.c) \in Nat \ {0}
      /\ d.s \in {0, 1} /\ AdjExp(d) = d.e + Digits(d.c) - 1 /\ AdjExp(d) \in Int
  BY NumberFields
<1>2. ctx.prec \in Nat \ {0} /\ ctx.emin \in Int /\ ctx.emax \in Nat
  BY DEF ContextOK
<1>3. q = d.e + Digits(d.c) - ctx.prec /\ q \in Int
  BY <1>1, <1>2, ItselfEnds
<1>4. shift \in Int /\ q = d.e + shift /\ q - d.e = shift /\ ~(AdjExp(d) < ctx.emin)
  BY <1>1, <1>2, <1>3
<1>5. ~IsSpecial(d)
  BY NumberFields
<1>6. CASE shift <= 0
  <2>1. CheckRound(d, ctx) = Result(d, {})
    BY <1>6 DEF CheckRound
  <2>2. q <= d.e /\ d.e - q \in Nat
    BY <1>1, <1>4, <1>6
  <2>3. SameNumber(d, d.c * Pow10[d.e - q], q)
    <3>1. d.c * Pow10[d.e - q] \in Nat
      BY <1>1, <2>2, DigitsShiftLeft
    <3>2. Fin(d.s, d.c, d.e) = d
      BY FinSame
    <3>3. SameNumber(Fin(d.s, d.c, d.e), d.c * Pow10[d.e - q], q)
      <4> HIDE DEF q
      <4> QED
        BY <1>1, <1>3, <2>2, <3>1, SameHere
    <3> QED
      BY <3>2, <3>3
  <2>4. Result(d, {}).d = d /\ Result(d, {}).st = {}
    BY DEF Result
  <2>5. IsRounded(Result(d, {}), Itself(d), ctx)
    BY <1>4, <2>2, <2>3, <2>4, RoundsExact
  <2> QED
    BY <2>1, <2>5
<1>7. CASE ~(shift <= 0)
  <2> DEFINE cut == ShiftR(d.c, shift)
             up == RndIncr(Fin(d.s, cut.c, q), cut.rnd, ctx)
             n == IF up THEN cut.c + 1 ELSE cut.c
             st == {"Rounded"} \cup (IF cut.rnd # 0 THEN {"Inexact"} ELSE {})
             e == ApplyRound(Fin(d.s, cut.c, q), cut.rnd, ctx)
  <2>1. q > d.e /\ shift \in Nat \ {0} /\ shift < Digits(d.c)
        /\ Digits(d.c) - shift = ctx.prec
    BY <1>1, <1>2, <1>4, <1>7
  <2>2. /\ cut.c = d.c \div Pow10[shift] /\ cut.c \in Nat /\ n \in Nat
        /\ up => cut.rnd # 0
    BY <1>3, <1>4, <2>1, AtCut
  <2>3. Digits(cut.c) = ctx.prec /\ cut.c < Pow10[ctx.prec] /\ Pow10[ctx.prec] \in Nat
        /\ cut.c > 0
    <3>1. Digits(cut.c) = ctx.prec /\ cut.c > 0
      BY <1>1, <2>1, <2>2, DigitsShiftRight
    <3> HIDE DEF cut
    <3> QED
      BY <1>2, <2>2, <3>1, DigitsBound, PowersAre
  <2>4. CheckRound(d, ctx) = Also(st, e)
    <3>1. CheckRound(d, ctx) = CutToPrec(d.s, cut, d.e + shift, ctx)
      BY <1>5, <1>7 DEF CheckRound
    <3>2. d.e + shift = q
      BY <1>4
    <3> HIDE DEF cut, shift, q
    <3>3. CutToPrec(d.s, cut, q, ctx) = Also(st, e)
      BY DEF CutToPrec
    <3> QED
      BY <3>1, <3>2, <3>3
  <2>5. cut = ShiftR(d.c, q - d.e) /\ q = LastPlace(Itself(d), ctx)
    BY <1>4
  <2>6. d.s \in {0, 1} /\ cut.c \in Nat /\ q \in Int
    BY <1>1, <1>3, <2>2
  <2> HIDE DEF cut, q, shift
  <2>7. /\ Fin(d.s, cut.c, q).s = d.s /\ Fin(d.s, cut.c, q).c = cut.c
        /\ Fin(d.s, cut.c, q).e = q
    BY <2>6, FinFields
  <2>8. q + ctx.prec = AdjExp(d) + 1 /\ Digits(cut.c) + q - 1 = AdjExp(d)
    BY <1>1, <1>2, <1>4, <2>1, <2>3
  <2>9. CASE Digits(n) <= ctx.prec
    <3>1. e = Result(Fin(d.s, n, q), {})
      <4>1. CASE up
        <5>1. [Fin(d.s, cut.c, q) EXCEPT !.c = cut.c + 1] = Fin(d.s, cut.c + 1, q)
          BY DEF Fin
        <5>2. n = cut.c + 1 /\ Digits(cut.c + 1) <= ctx.prec
          BY <2>9, <4>1
        <5> QED
          BY <2>7, <4>1, <5>1, <5>2 DEF ApplyRound
      <4>2. CASE ~up
        BY <4>2 DEF ApplyRound
      <4> QED
        BY <4>1, <4>2
    <3>2. Also(st, e).d = Fin(d.s, n, q) /\ Also(st, e).st = st
      BY <3>1 DEF Also, Result
    <3>3. Fin(d.s, n, q).s = d.s /\ SameNumber(Fin(d.s, n, q), n, q)
      <4> HIDE DEF n
      <4>1. q - q = 0 /\ n * Pow10[0] = n /\ q <= q
        BY <2>2, <2>6, PowersAre
      <4>2. n * Pow10[q - q] = n
        BY <4>1
      <4> QED
        BY <2>2, <2>6, <4>1, <4>2, SameHere, FinFields
    <3>4. /\ "Overflow" \notin st /\ "Subnormal" \notin st /\ "Underflow" \notin st
          /\ "Inexact" \in st <=> cut.rnd # 0
      OBVIOUS
    <3>5. Digits(n) + q - 1 <= ctx.emax
      <4>1. Digits(n) \in Int
        BY <2>2, DigitsAre
      <4> HIDE DEF n
      <4> QED
        BY <1>1, <1>2, <2>3, <2>6, <2>8, <2>9, <4>1
    <3> HIDE DEF st, e
    <3>6. n = IF RndIncr(Fin(d.s, cut.c, q), cut.rnd, ctx)
              THEN cut.c + 1 ELSE cut.c
      OBVIOUS
    <3> HIDE DEF n
    <3>7. IsRounded(Also(st, e), Itself(d), ctx)
      BY <1>4, <2>1, <2>2, <2>5, <2>6, <3>2, <3>3, <3>4, <3>5, <3>6, RoundsCut
    <3> QED
      BY <2>4, <3>7
  <2>10. CASE ~(Digits(n) <= ctx.prec)
    <3>1. up /\ n = cut.c + 1 /\ n = Pow10[ctx.prec] /\ Digits(cut.c + 1) > ctx.prec
      <4>1. up
        BY <1>2, <2>3, <2>10
      <4>2. n = cut.c + 1
        BY <4>1
      <4>3. ~(n < Pow10[ctx.prec])
        <5> HIDE DEF n
        <5> QED
          BY <1>2, <2>2, <2>10, DigitsBound
      <4>4. Digits(n) \in Int
        BY <2>2, DigitsAre
      <4> HIDE DEF n
      <4> QED
        BY <1>2, <2>3, <2>6, <2>10, <4>1, <4>2, <4>3, <4>4
    <3>2. (cut.c + 1) \div 10 = Pow10[ctx.prec - 1] /\ Pow10[ctx.prec - 1] \in Nat
          /\ Pow10[ctx.prec] = 10 * Pow10[ctx.prec - 1]
      <4>1. ctx.prec - 1 \in Nat /\ ctx.prec = (ctx.prec - 1) + 1
        BY <1>2
      <4>2. Pow10[ctx.prec] = 10 * Pow10[ctx.prec - 1] /\ Pow10[ctx.prec - 1] \in Nat
        BY <4>1, Powers, PowersAre
      <4>3. cut.c + 1 = 10 * Pow10[ctx.prec - 1]
        BY <3>1, <4>2
      <4> QED
        BY <4>2, <4>3
    <3>3. e = CheckExp(Fin(d.s, Pow10[ctx.prec - 1], q + 1), ctx)
      <4>1. ~(Digits(cut.c + 1) <= ctx.prec)
        BY <2>10, <3>1
      <4> QED
        BY <2>7, <3>1, <3>2, <4>1 DEF ApplyRound
    <3>4. q + ctx.prec >= ctx.emin
      BY <1>1, <1>2, <2>8
    <3>5. Digits(n) = ctx.prec + 1
      <4>1. ctx.prec + 1 \in Nat /\ Pow10[(ctx.prec + 1) - 1] <= n
            /\ ctx.prec + 1 >= 1
        <5>1. (ctx.prec + 1) - 1 = ctx.prec
          BY <1>2
        <5> HIDE DEF n
        <5> QED
          BY <1>2, <2>3, <3>1, <5>1
      <4>2. n < Pow10[ctx.prec + 1]
        <5>1. ctx.prec \in Nat /\ ctx.prec + 1 \in Nat /\ ctx.prec < ctx.prec + 1
          BY <1>2
        <5>2. Pow10[ctx.prec] < Pow10[ctx.prec + 1]
          BY <5>1, PowersGrow
        <5> HIDE DEF n
        <5> QED
          BY <3>1, <5>2
      <4> HIDE DEF n
      <4> QED
        BY <2>2, <4>1, <4>2, DigitsBound
    <3>6. /\ "Overflow" \notin st /\ "Subnormal" \notin st /\ "Underflow" \notin st
          /\ "Inexact" \in st /\ cut.rnd # 0
      BY <2>2, <3>1
    <3>7. CASE q + ctx.prec > ctx.emax
      <4>1. e = Result(OverflowTo(d.s, ctx), {"Overflow", "Inexact", "Rounded"})
        BY <2>6, <3>3, <3>4, <3>7, CarryIs
      <4>2. Also(st, e) = e
        <5>1. {"Overflow", "Inexact", "Rounded"} \cup st
                = {"Overflow", "Inexact", "Rounded"}
          OBVIOUS
        <5> HIDE DEF st
        <5> QED
          BY <4>1, <5>1 DEF Also, Result
      <4> DEFINE x == Itself(d)
                 m == RoundAt(x, q, ctx.round).n
      <4>3. /\ x \in Exacts /\ x.n > 0 /\ x.s = d.s /\ q = LastPlace(x, ctx)
            /\ m = n
        <5>1. m = n
          BY <2>1, <2>5, <2>6, AtCut
        <5> QED
          BY <2>5, <5>1, ItselfEnds
      <4>4. m = RoundAt(x, q, ctx.round).n
        OBVIOUS
      <4> HIDE DEF x, m, n
      <4>5. Digits(m) + q - 1 > ctx.emax
        BY <1>2, <2>6, <3>5, <3>7, <4>3
      <4>6. IsRounded(Result(OverflowTo(x.s, ctx), {"Overflow", "Inexact", "Rounded"}),
                      x, ctx)
        BY <4>3, <4>4, <4>5, IsRoundedOver
      <4> QED
        BY <2>4, <4>1, <4>2, <4>3, <4>6 DEF x
    <3>8. CASE ~(q + ctx.prec > ctx.emax)
      <4> DEFINE f == Fin(d.s, Pow10[ctx.prec - 1], q + 1)
      <4>1. e = Result(f, {})
        BY <2>6, <3>3, <3>4, <3>8, CarryIs
      <4>2. Also(st, e).d = f /\ Also(st, e).st = st
        BY <4>1 DEF Also, Result
      <4>3. f.s = d.s /\ SameNumber(f, n, q)
        <5>1. (q + 1) - q = 1 /\ Pow10[1] = 10 /\ q <= q + 1 /\ q + 1 \in Int
          BY <2>6, PowersAre
        <5>2. Pow10[ctx.prec - 1] * Pow10[(q + 1) - q] = n
          BY <3>1, <3>2, <5>1
        <5> HIDE DEF n
        <5> QED
          BY <2>2, <2>6, <3>2, <5>1, <5>2, SameHere, FinFields, SMTT(30)
      <4>4. Digits(n) + q - 1 <= ctx.emax
        <5> HIDE DEF n
        <5> QED
          BY <1>2, <2>6, <3>5, <3>8
      <4> HIDE DEF st, e, f
      <4>5. n = IF RndIncr(Fin(d.s, cut.c, q), cut.rnd, ctx)
                THEN cut.c + 1 ELSE cut.c
        OBVIOUS
      <4> HIDE DEF n
      <4>6. IsRounded(Also(st, e), Itself(d), ctx)
        BY <1>4, <2>1, <2>2, <2>5, <2>6, <3>6, <4>2, <4>3, <4>4, <4>5, RoundsCut
      <4> QED
        BY <2>4, <4>6
    <3> QED
      BY <3>7, <3>8
  <2> QED
    BY <2>9, <2>10
<1> QED
  BY <1>6, <1>7

\* Zeros stay zeros.
LEMMA ZerosStay ==
  ASSUME NEW ctx, ContextOK(ctx), NEW d \in Numbers, d.c = 0
  PROVE  /\ IsZero(Finalize(d, ctx).d) /\ Finalize(d, ctx).d.s = d.s
         /\ Finalize(d, ctx).st \in SUBSET {"Clamped"}
<1> DEFINE z == CheckExp(d, ctx)
<1>1. d.s \in {0, 1} /\ d.e \in Int /\ d.k = "fin" /\ d.c = 0
  BY NumberFields
<1>2. Etop(ctx) \in Int /\ Etiny(ctx) \in Int /\ ctx.emax \in Int
      /\ ctx.prec \in Nat \ {0}
  BY Limits DEF ContextOK
<1>3. \E e \in Int, st \in SUBSET {"Clamped"} : z = Result(Fin(d.s, 0, e), st)
  <2>1. d = Fin(d.s, 0, d.e)
    <3>1. Fin(d.s, d.c, d.e) = d
      BY FinSame
    <3> QED
      BY <1>1, <3>1
  <2>2. CASE AdjExp(d) > ctx.emax
    BY <1>1, <1>2, <2>2 DEF CheckExp
  <2>3. CASE ~(AdjExp(d) > ctx.emax) /\ ctx.clamp = 1 /\ d.e > Etop(ctx)
    <3>1. z = Result(Fin(d.s, 0, Etop(ctx)), {"Clamped"} \cup {})
      BY <1>1, <2>3 DEF CheckExp, ShiftL
    <3>2. {"Clamped"} \cup {} \in SUBSET {"Clamped"}
      OBVIOUS
    <3> HIDE DEF z
    <3> QED
      BY <1>2, <3>1, <3>2
  <2>4. CASE ~(AdjExp(d) > ctx.emax) /\ ~(ctx.clamp = 1 /\ d.e > Etop(ctx))
    <3>1. \/ z = Result(Fin(d.s, 0, Etiny(ctx)), {"Clamped"})
          \/ z = Result(d, {})
      BY <1>1, <2>4 DEF CheckExp
    <3> HIDE DEF z
    <3> QED
      BY <1>1, <1>2, <2>1, <3>1
  <2> QED
    BY <2>2, <2>3, <2>4
<1>4. PICK e \in Int, st \in SUBSET {"Clamped"} : z = Result(Fin(d.s, 0, e), st)
  BY <1>3
<1>5. 0 \in Nat /\ Digits(0) <= ctx.prec
  BY <1>2, ZeroHasOneDigit
<1>6. Fin(d.s, 0, e) \in Numbers /\ Fin(d.s, 0, e).c = 0 /\ Fin(d.s, 0, e).s = d.s
      /\ Fin(d.s, 0, e).k = "fin"
  BY <1>1, <1>5, FinFields
<1>7. RoundAfter(z, ctx) = z
  BY <1>4, <1>5, <1>6, RoundAfterKeeps
<1>8. Finalize(d, ctx) = RoundAfter(z, ctx)
  BY NumberFields DEF Finalize
<1>9. z.d = Fin(d.s, 0, e) /\ z.st = st
  BY <1>4 DEF Result
<1> HIDE DEF z
<1> QED
  BY <1>6, <1>7, <1>8, <1>9 DEF IsZero

\* Every operation that is put through mpd_qfinalize rounds once: what that
\* function makes of a number, in every rounding mode and for every precision
\* and limit, is the number itself rounded at the last place the context has
\* for it, with the flags that tell what happened: the subnormal numbers, those
\* that overflow, and those whose increment carries to one more digit included.
THEOREM FinalizeRounds ==
  ASSUME NEW ctx, ContextOK(ctx), ctx.round \in Roundings, NEW d \in Numbers
  PROVE  IsRounded(Finalize(d, ctx), Itself(d), ctx)
<1>1. Finalize(d, ctx) = RoundAfter(CheckExp(d, ctx), ctx)
  BY NumberFields DEF Finalize
<1>2. CASE d.c = 0
  <2>1. IsZero(Finalize(d, ctx).d) /\ Itself(d).n = 0
    BY <1>2, ZerosStay, ItselfIs, NumberFields
  <2> QED
    BY <2>1 DEF IsRounded
<1>3. CASE d.c # 0 /\ AdjExp(d) > ctx.emax
  BY <1>1, <1>3, RoundsOver
<1>4. CASE d.c # 0 /\ ~(AdjExp(d) > ctx.emax)
  <2>1. AdjExp(d) \in Int /\ ctx.emin \in Int /\ ctx.emax \in Int
    BY NumberFields DEF ContextOK
  <2>2. AdjExp(d) <= ctx.emax
    BY <1>4, <2>1
  <2>3. CASE ctx.clamp = 1 /\ d.e > Etop(ctx)
    BY <1>1, <1>4, <2>2, <2>3, RoundsPadded
  <2>4. CASE ~(ctx.clamp = 1 /\ d.e > Etop(ctx)) /\ AdjExp(d) < ctx.emin
    BY <1>1, <1>4, <2>4, RoundsSubnormal
  <2>5. CASE ~(ctx.clamp = 1 /\ d.e > Etop(ctx)) /\ ~(AdjExp(d) < ctx.emin)
    <3>1. CheckExp(d, ctx) = Result(d, {})
      BY <1>4, <2>5 DEF CheckExp
    <3>2. RoundAfter(Result(d, {}), ctx) = CheckRound(d, ctx)
      <4>1. \E e, st : CheckRound(d, ctx) = Result(e, st)
        BY DEF CheckRound, CutToPrec, Also
      <4>2. PICK e, st : CheckRound(d, ctx) = Result(e, st)
        BY <4>1
      <4>3. st \cup {} = st
        OBVIOUS
      <4>4. Result(e, st).d = e /\ Result(e, st).st = st
            /\ Result(d, {}).d = d /\ Result(d, {}).st = {}
        BY DEF Result
      <4> QED
        BY <4>2, <4>3, <4>4 DEF RoundAfter, Also
    <3>3. ctx.emin <= AdjExp(d)
      BY <2>1, <2>5
    <3>4. IsRounded(CheckRound(d, ctx), Itself(d), ctx)
      BY <1>4, <2>2, <3>3, RoundsAtPrecision
    <3> QED
      BY <1>1, <3>1, <3>2, <3>4
  <2> QED
    BY <2>3, <2>4, <2>5
<1> QED
  BY <1>2, <1>3, <1>4

------------------------------------------------------------------------------
(* Products.                                                                *)

\* Only the number and the flags count.
LEMMA SameParts ==
  ASSUME NEW r, NEW t, r.d = t.d, r.st = t.st, NEW x, NEW ctx
  PROVE  IsRounded(r, x, ctx) <=> IsRounded(t, x, ctx)
BY DEF IsRounded

LEMMA FittingFits ==
  ASSUME NEW ctx, ContextOK(ctx), NEW d \in Fitting(ctx)
  PROVE  Fits(d, ctx)
<1>1. FitsIn(d, ctx) /\ d \in Decimals
  BY DEF Fitting
<1>2. CASE d.k = "fin"
  <2>1. d.e \in Int /\ Etiny(ctx) \in Int
    BY <1>1, Kinds, Limits
  <2> QED
    BY <1>1, <1>2, <2>1 DEF Fits, FitsIn
<1>3. CASE d.k # "fin"
  BY <1>3 DEF Fits
<1> QED
  BY <1>2, <1>3

\* A product is the exact product, rounded once, and has its place in the
\* context.
THEOREM ProductsAreRounded ==
  ASSUME NEW ctx, ContextOK(ctx), ctx.round \in Roundings,
         NEW a \in Numbers, NEW b \in Numbers
  PROVE  /\ IsRounded(QMul(a, b, ctx), ProductOf(a, b), ctx)
         /\ Fits(QMul(a, b, ctx).d, ctx)
<1> DEFINE s == Xor(a.s, b.s)
           c == a.c * b.c
           e == a.e + b.e
           d == Fin(s, c, e)
           r == Finalize(d, ctx)
<1>1. /\ a.c \in Nat /\ b.c \in Nat /\ a.e \in Int /\ b.e \in Int
      /\ a.s \in {0, 1} /\ b.s \in {0, 1} /\ ~IsSpecial(a) /\ ~IsSpecial(b)
      /\ ~IsNaN(a) /\ ~IsNaN(b) /\ a \in Decimals /\ b \in Decimals
  BY NumberFields DEF Decimals
<1>2. s \in {0, 1} /\ c \in Nat /\ e \in Int
  BY <1>1, XorType
<1>3. Mul(a, b, ctx) = Result(d, {})
  <2>1. ~AnyNaN(<<a, b>>)
    BY <1>1, NaNs
  <2> QED
    BY <1>1, <2>1 DEF Mul
<1>4. ProductOf(a, b) = Exactly(s, c, 1, e)
  BY DEF ProductOf
<1> HIDE DEF s, c, e
<1>5. d \in Numbers /\ d \in Decimals /\ d.s = s /\ d.c = c /\ d.e = e
  BY <1>2, FinFields
<1>6. ProductOf(a, b) = Itself(d)
  BY <1>4, <1>5 DEF Itself
<1>7. IsRounded(r, Itself(d), ctx) /\ r.d \in Fitting(ctx)
  BY <1>5, FinalizeRounds, FinalizeFits
<1> HIDE DEF d
<1>8. QMul(a, b, ctx) = Also({}, r)
  <2>1. Result(d, {}).d = d /\ Result(d, {}).st = {}
    BY DEF Result
  <2> QED
    BY <1>3, <2>1 DEF QMul, Finalized
<1>9. Also({}, r).d = r.d /\ Also({}, r).st = r.st
  <2>1. Also({}, r) = Result(r.d, r.st \cup {})
    BY DEF Also
  <2>2. Result(r.d, r.st \cup {}).d = r.d /\ Result(r.d, r.st \cup {}).st = r.st \cup {}
    BY DEF Result
  <2>3. r.st \cup {} = r.st
    OBVIOUS
  <2> QED
    BY <2>1, <2>2, <2>3
<1> HIDE DEF r
<1>10. IsRounded(QMul(a, b, ctx), Itself(d), ctx)
  BY <1>7, <1>8, <1>9, SameParts
<1> QED
  BY <1>6, <1>7, <1>8, <1>9, <1>10, FittingFits

------------------------------------------------------------------------------
(* Sums.                                                                    *)

\* A sum without the sign: its parts, in units of 10^e.
Part(a, e) == a.c * Pow10[a.e - e]

LEMMA SignedIs ==
  ASSUME NEW a \in Numbers, NEW e \in Int, e <= a.e
  PROVE  /\ Part(a, e) \in Nat /\ (a.c # 0 => Part(a, e) > 0)
         /\ a.c = 0 => Part(a, e) = 0
         /\ Signed(a, e) = IF a.s = 1 THEN -Part(a, e) ELSE Part(a, e)
<1>1. a.c \in Nat /\ a.e - e \in Nat /\ a.s \in {0, 1}
  BY NumberFields
<1>2. Pow10[a.e - e] \in Nat \ {0}
  BY <1>1, PowersAre
<1>3. Part(a, e) \in Nat /\ (a.c # 0 => Part(a, e) > 0)
  BY <1>1, <1>2 DEF Part
<1>4. a.c = 0 => Part(a, e) = 0
  BY <1>2 DEF Part
<1>5. Signed(a, e) = IF a.s = 1 THEN -Part(a, e) ELSE Part(a, e)
  <2> DEFINE p == Pow10[a.e - e]
  <2> HIDE DEF p
  <2>1. p \in Nat
    BY <1>2 DEF p
  <2>2. CASE a.s = 1
    <3>1. ((-1) * a.c) * p = -(a.c * p)
      BY <1>1, <2>1
    <3> QED
      BY <2>2, <3>1 DEF Signed, ArithSign, Part, p
  <2>3. CASE a.s # 1
    <3>1. 1 * a.c * p = a.c * p
      BY <1>1, <2>1
    <3> QED
      BY <2>3, <3>1 DEF Signed, ArithSign, Part, p
  <2> QED
    BY <2>2, <2>3
<1> QED
  BY <1>3, <1>4, <1>5

\* The exact sum of two parts.
SumAt(s, cx, t, cy, e) ==
  LET n == (IF s = 1 THEN -cx ELSE cx) + (IF t = 1 THEN -cy ELSE cy)
  IN Exactly(IF n < 0 THEN 1 ELSE 0, Magnitude(n), 1, e)

LEMMA SumIs ==
  ASSUME NEW a \in Numbers, NEW b \in Numbers
  PROVE  LET e == Min({a.e, b.e})
         IN /\ e \in Int /\ e <= a.e /\ e <= b.e /\ e \in {a.e, b.e}
            /\ SumOf(a, b) = SumAt(a.s, Part(a, e), b.s, Part(b, e), e)
            /\ SumOf(a, b) \in Exacts
            /\ SumOf(a, b) = SumOf(b, a)
<1> DEFINE e == Min({a.e, b.e})
<1>1. a.e \in Int /\ b.e \in Int /\ e = IF a.e <= b.e THEN a.e ELSE b.e
  BY NumberFields, MinOfTwo
<1>2. e \in Int /\ e <= a.e /\ e <= b.e /\ e \in {a.e, b.e}
  BY <1>1
<1>3. SumOf(a, b) = LET n == Signed(a, e) + Signed(b, e)
                    IN Exactly(IF n < 0 THEN 1 ELSE 0, Magnitude(n), 1, e)
  BY DEF SumOf
<1>4. SumOf(b, a) = LET n == Signed(b, e) + Signed(a, e)
                    IN Exactly(IF n < 0 THEN 1 ELSE 0, Magnitude(n), 1, e)
  <2>1. {b.e, a.e} = {a.e, b.e}
    OBVIOUS
  <2> QED
    BY <2>1 DEF SumOf
<1> HIDE DEF e
<1>5. /\ Part(a, e) \in Nat /\ Part(b, e) \in Nat
      /\ Signed(a, e) = IF a.s = 1 THEN -Part(a, e) ELSE Part(a, e)
      /\ Signed(b, e) = IF b.s = 1 THEN -Part(b, e) ELSE Part(b, e)
  BY <1>2, SignedIs
<1>6. Signed(a, e) \in Int /\ Signed(b, e) \in Int
  BY <1>5
<1>7. Signed(b, e) + Signed(a, e) = Signed(a, e) + Signed(b, e)
  BY <1>6
<1>8. SumOf(a, b) = SumAt(a.s, Part(a, e), b.s, Part(b, e), e)
  BY <1>3, <1>5 DEF SumAt
<1>9. SumOf(b, a) = SumOf(a, b)
  BY <1>3, <1>4, <1>7
<1>10. SumOf(a, b) \in Exacts
  <2> DEFINE n == Signed(a, e) + Signed(b, e)
  <2>1. n \in Int /\ Magnitude(n) \in Nat
    <3>1. n \in Int
      BY <1>6
    <3> HIDE DEF n
    <3> QED
      BY <3>1 DEF Magnitude
  <2>2. SumOf(a, b) = [s |-> IF n < 0 THEN 1 ELSE 0, n |-> Magnitude(n), d |-> 1, e |-> e]
    BY <1>3 DEF Exactly
  <2> HIDE DEF n
  <2> QED
    BY <1>2, <2>1, <2>2 DEF Exacts
<1> QED
  BY <1>2, <1>8, <1>9, <1>10 DEF e

\* What _mpd_qaddsub adds up is the exact sum of what it is given.
LEMMA SignedSumIs ==
  ASSUME NEW ctx, NEW s \in {0, 1}, NEW t \in {0, 1}, NEW cx \in Nat, NEW cy \in Nat,
         NEW e \in Int
  PROVE  LET d == SignedSum(s, cx, t, cy, e, ctx)
             x == SumAt(s, cx, t, cy, e)
         IN /\ d \in Numbers
            /\ x.n = 0 <=> d.c = 0
            /\ x.n # 0 => x = Itself(d)
<1> DEFINE d == SignedSum(s, cx, t, cy, e, ctx)
           n == (IF s = 1 THEN -cx ELSE cx) + (IF t = 1 THEN -cy ELSE cy)
           x == SumAt(s, cx, t, cy, e)
<1>1. x = Exactly(IF n < 0 THEN 1 ELSE 0, Magnitude(n), 1, e)
  BY DEF SumAt
<1>2. /\ Magnitude(n) = IF n < 0 THEN -n ELSE n
      /\ x.n = Magnitude(n)
  BY <1>1 DEF Magnitude, Exactly
<1>3. ASSUME NEW u \in {0, 1}, NEW c \in Nat, d = Fin(u, c, e), c = Magnitude(n),
             c # 0 => u = IF n < 0 THEN 1 ELSE 0
      PROVE  d \in Numbers /\ (x.n = 0 <=> d.c = 0) /\ (x.n # 0 => x = Itself(d))
  <2>1. d \in Numbers /\ d.c = c /\ d.s = u /\ d.e = e
    <3> HIDE DEF d
    <3> QED
      BY <1>3, FinFields
  <2> HIDE DEF d, x, n
  <2> QED
    BY <1>1, <1>2, <1>3, <2>1 DEF Itself
<1>4. CASE s = t
  <2>1. d = Fin(t, cx + cy, e) /\ cx + cy \in Nat
    BY <1>4 DEF SignedSum
  <2>2. cx + cy = Magnitude(n) /\ (cx + cy # 0 => t = IF n < 0 THEN 1 ELSE 0)
    BY <1>2, <1>4
  <2> QED
    BY <1>3, <2>1, <2>2
<1>5. CASE s # t /\ cx = cy
  <2>1. \E u \in {0, 1} : d = Fin(u, 0, e)
    BY <1>5 DEF SignedSum
  <2>2. 0 = Magnitude(n)
    BY <1>2, <1>5
  <2> QED
    BY <1>3, <2>1, <2>2
<1>6. CASE s # t /\ cx > cy
  <2>1. d = Fin(s, cx - cy, e) /\ cx - cy \in Nat
    BY <1>6 DEF SignedSum
  <2>2. cx - cy = Magnitude(n) /\ (cx - cy # 0 => s = IF n < 0 THEN 1 ELSE 0)
    BY <1>2, <1>6
  <2> QED
    BY <1>3, <2>1, <2>2
<1>7. CASE s # t /\ cx < cy
  <2>1. d = Fin(t, cy - cx, e) /\ cy - cx \in Nat
    BY <1>7 DEF SignedSum
  <2>2. cy - cx = Magnitude(n) /\ (cy - cx # 0 => t = IF n < 0 THEN 1 ELSE 0)
    BY <1>2, <1>7
  <2> QED
    BY <1>3, <2>1, <2>2
<1>8. (x.n = 0 <=> d.c = 0) /\ d \in Numbers /\ (x.n # 0 => x = Itself(d))
  BY <1>4, <1>5, <1>6, <1>7
<1> QED
  BY <1>8

LEMMA AlignedIs ==
  ASSUME NEW ctx, NEW x \in Numbers, NEW y \in Numbers
  PROVE  LET d == AddAligned(x, y, ctx)
         IN /\ d \in Numbers
            /\ \A r : IsRounded(r, SumOf(x, y), ctx) <=> IsRounded(r, Itself(d), ctx)
<1> DEFINE d == AddAligned(x, y, ctx)
           e == Min({x.e, y.e})
<1>1. /\ e \in Int /\ e <= x.e /\ e <= y.e
      /\ SumOf(x, y) = SumAt(x.s, Part(x, e), y.s, Part(y, e), e)
  BY SumIs
<1>2. /\ x.s \in {0, 1} /\ y.s \in {0, 1} /\ x.c \in Nat /\ y.c \in Nat
      /\ x.e \in Int /\ y.e \in Int
  BY NumberFields
<1>3. d = SignedSum(x.s, ShiftL(x.c, x.e - e), y.s, ShiftL(y.c, y.e - e), e, ctx)
  BY DEF AddAligned
<1> HIDE DEF e
<1>4. ShiftL(x.c, x.e - e) = Part(x, e) /\ ShiftL(y.c, y.e - e) = Part(y, e)
  <2>1. x.e - e \in Nat /\ y.e - e \in Nat
    BY <1>1, <1>2
  <2> QED
    BY <1>2, <2>1, ShiftLIs DEF Part
<1>5. Part(x, e) \in Nat /\ Part(y, e) \in Nat
  BY <1>1, SignedIs
<1>6. d = SignedSum(x.s, Part(x, e), y.s, Part(y, e), e, ctx)
  BY <1>3, <1>4
<1> HIDE DEF d
<1>7. /\ d \in Numbers
      /\ SumOf(x, y).n = 0 <=> d.c = 0
      /\ SumOf(x, y).n # 0 => SumOf(x, y) = Itself(d)
  BY <1>1, <1>2, <1>5, <1>6, SignedSumIs
<1>8. Itself(d).n = d.c
  BY DEF Itself, Exactly
<1>9. \A r : IsRounded(r, SumOf(x, y), ctx) <=> IsRounded(r, Itself(d), ctx)
  <2>1. CASE d.c = 0
    BY <1>7, <1>8, <2>1 DEF IsRounded
  <2>2. CASE d.c # 0
    BY <1>7, <2>2
  <2> QED
    BY <2>1, <2>2
<1> QED
  BY <1>7, <1>9 DEF d

LEMMA SumSigned ==
  ASSUME NEW s \in {0, 1}, NEW t \in {0, 1}, NEW cx \in Nat, NEW cy \in Nat, cx < cy,
         NEW e
  PROVE  SumAt(s, cx, t, cy, e) = Exactly(t, IF s = t THEN cy + cx ELSE cy - cx, 1, e)
<1> DEFINE n == (IF s = 1 THEN -cx ELSE cx) + (IF t = 1 THEN -cy ELSE cy)
<1>1. (n < 0 <=> t = 1) /\ (n < 0 => -n = IF s = t THEN cy + cx ELSE cy - cx)
      /\ (~(n < 0) => n = IF s = t THEN cy + cx ELSE cy - cx)
  OBVIOUS
<1>2. (IF n < 0 THEN 1 ELSE 0) = t
  BY <1>1
<1>3. Magnitude(n) = IF s = t THEN cy + cx ELSE cy - cx
  BY <1>1 DEF Magnitude
<1> QED
  BY <1>2, <1>3 DEF SumAt

\* A number is rounded alike with zeros after its coefficient.
LEMMA ZerosRoundAlike ==
  ASSUME NEW ctx, ContextOK(ctx), NEW s \in {0, 1}, NEW c \in Nat \ {0}, NEW e \in Int,
         NEW k \in Nat, NEW r
  PROVE  /\ IsRounded(r, Exactly(s, c * Pow10[k], 1, e - k), ctx)
              <=> IsRounded(r, Exactly(s, c, 1, e), ctx)
         /\ c * Pow10[k] \in Nat \ {0}
<1> DEFINE x == Exactly(s, c * Pow10[k], 1, e - k)
           y == Exactly(s, c, 1, e)
<1>0. c \in Nat /\ c > 0
  OBVIOUS
<1>1. c * Pow10[k] \in Nat \ {0} /\ e - k \in Int /\ Pow10[k] \in Nat /\ Pow10[0] = 1
  <2> HIDE DEF x, y
  <2>1. Pow10[k] \in Nat \ {0} /\ Pow10[0] = 1
    BY PowersAre
  <2>2. c * Pow10[k] \in Nat \ {0}
    BY <1>0, DigitsShiftLeft
  <2> QED
    BY <2>1, <2>2
<1>2. x \in Exacts /\ y \in Exacts /\ x.s = y.s /\ x.n > 0 /\ y.n > 0
  BY <1>1 DEF Exacts, Exactly
<1>3. Num(x, e) = c * Pow10[k] /\ Den(y, e) = 1 /\ Num(y, e) = c
  BY <1>1 DEF Num, Den, Exactly
<1>4. Den(x, e) = Pow10[k]
  <2>1. CASE k = 0
    BY <1>1, <2>1 DEF Den, Exactly
  <2>2. CASE k # 0
    <3>1. e > e - k /\ e - (e - k) = k /\ 1 * Pow10[k] = Pow10[k]
      BY <1>1, <2>2
    <3>2. x.e = e - k /\ x.d = 1
      BY DEF Exactly
    <3> HIDE DEF x
    <3> QED
      BY <3>1, <3>2 DEF Den
  <2> QED
    BY <2>1, <2>2
<1>5. SameAt(x, y, e)
  BY <1>1, <1>3, <1>4 DEF SameAt
<1> HIDE DEF x, y
<1>6. IsRounded(r, x, ctx) <=> IsRounded(r, y, ctx)
  BY <1>2, <1>5, SameAreRounded
<1> QED
  BY <1>1, <1>6 DEF x, y

\* The place of the stand-in, and the larger operand in units of it.
LEMMA StandInPlace ==
  ASSUME NEW ctx, ContextOK(ctx), NEW big \in Numbers, big.c # 0
  PROVE  LET exp == big.e - 1 + IF Digits(big.c) > ctx.prec THEN 0
                               ELSE Digits(big.c) - ctx.prec - 1
         IN /\ exp \in Int /\ exp < big.e
            /\ Part(big, exp) \in Nat /\ Part(big, exp) >= 10 * Pow10[ctx.prec]
            /\ Pow10[ctx.prec] \in Nat \ {0}
            /\ \E t \in Nat : Part(big, exp) = 10 * t
<1> DEFINE exp == big.e - 1 + IF Digits(big.c) > ctx.prec THEN 0
                              ELSE Digits(big.c) - ctx.prec - 1
           j == big.e - exp
           m == Digits(big.c)
<1>1. /\ big.c \in Nat /\ big.c > 0 /\ big.e \in Int /\ m \in Nat \ {0}
      /\ ctx.prec \in Nat \ {0}
  BY NumberFields DEF ContextOK
<1>2. exp \in Int /\ exp < big.e /\ j \in Nat \ {0} /\ m + j >= ctx.prec + 2
  <2> HIDE DEF m
  <2>1. CASE m > ctx.prec
    BY <1>1, <2>1 DEF m
  <2>2. CASE ~(m > ctx.prec)
    BY <1>1, <2>2 DEF m
  <2> QED
    BY <2>1, <2>2
<1> HIDE DEF exp
<1>3. Part(big, exp) = big.c * Pow10[j]
  BY DEF Part
<1>4. big.c * Pow10[j] \in Nat \ {0} /\ Digits(big.c * Pow10[j]) = m + j
  BY <1>1, <1>2, DigitsShiftLeft
<1>5. Pow10[ctx.prec] \in Nat \ {0} /\ Pow10[ctx.prec + 1] = 10 * Pow10[ctx.prec]
  BY <1>1, Powers, PowersAre
<1>6. Part(big, exp) >= 10 * Pow10[ctx.prec]
  <2> DEFINE b == big.c * Pow10[j]
  <2> HIDE DEF b, j, m
  <2>1. (m + j) - 1 \in Nat /\ ctx.prec + 1 \in Nat /\ ctx.prec + 1 <= (m + j) - 1
    BY <1>1, <1>2
  <2>2. Pow10[(m + j) - 1] <= b /\ b \in Nat
    <3>1. b \in Nat /\ b > 0 /\ Digits(b) = m + j
      BY <1>4 DEF b
    <3> QED
      BY <3>1, DigitsAre
  <2>3. Pow10[ctx.prec + 1] <= Pow10[(m + j) - 1]
    BY <2>1, PowersGrow
  <2>4. Pow10[(m + j) - 1] \in Nat
    BY <2>1, PowersAre
  <2> QED
    BY <1>3, <1>5, <2>2, <2>3, <2>4 DEF b
<1>7. \E t \in Nat : Part(big, exp) = 10 * t
  <2>1. j - 1 \in Nat /\ j = (j - 1) + 1
    BY <1>2
  <2>2. Pow10[j] = 10 * Pow10[j - 1] /\ Pow10[j - 1] \in Nat
    BY <2>1, Powers, PowersAre
  <2>3. big.c * (10 * Pow10[j - 1]) = 10 * (big.c * Pow10[j - 1])
        /\ big.c * Pow10[j - 1] \in Nat
    <3> DEFINE p == Pow10[j - 1]
    <3> HIDE DEF p
    <3>1. p \in Nat
      BY <2>2 DEF p
    <3>2. big.c * (10 * p) = 10 * (big.c * p) /\ big.c * p \in Nat
      BY <1>1, <3>1
    <3> QED
      BY <3>2 DEF p
  <2>4. Part(big, exp) = 10 * (big.c * Pow10[j - 1])
    BY <1>3, <2>2, <2>3
  <2> QED
    BY <2>3, <2>4
<1>8. /\ exp \in Int /\ exp < big.e
      /\ Part(big, exp) \in Nat /\ Part(big, exp) >= 10 * Pow10[ctx.prec]
      /\ Pow10[ctx.prec] \in Nat \ {0}
      /\ \E t \in Nat : Part(big, exp) = 10 * t
  BY <1>2, <1>3, <1>4, <1>5, <1>6, <1>7
<1> QED
  BY <1>8 DEF exp

\* The stand-in for a small operand does not show.
LEMMA StandIn ==
  ASSUME NEW ctx, ContextOK(ctx), NEW small \in Numbers, NEW big \in Numbers, NEW r
  PROVE  LET t == Tiny(small, big, ctx)
         IN /\ t \in Numbers
            /\ IsRounded(r, SumOf(small, big), ctx) <=> IsRounded(r, SumOf(t, big), ctx)
<1> DEFINE t == Tiny(small, big, ctx)
           exp == big.e - 1 + IF Digits(big.c) > ctx.prec THEN 0
                              ELSE Digits(big.c) - ctx.prec - 1
           needed == small.e < big.e /\ big.c # 0 /\ AdjExp(small) < exp
           c == IF small.c = 0 THEN 0 ELSE 1
<1>1. t \in Numbers
  BY TinyType
<1>2. CASE ~needed
  <2>1. t = small
    BY <1>2 DEF Tiny
  <2> QED
    BY <1>1, <2>1
<1>3. CASE needed
  <2>1. t = Fin(small.s, c, exp)
    BY <1>3 DEF Tiny
  <2>2. /\ exp \in Int /\ exp < big.e
        /\ Part(big, exp) \in Nat /\ Part(big, exp) >= 10 * Pow10[ctx.prec]
        /\ Pow10[ctx.prec] \in Nat \ {0}
        /\ \E u \in Nat : Part(big, exp) = 10 * u
    BY <1>3, StandInPlace
  <2>3. small.e < big.e /\ big.c # 0 /\ AdjExp(small) < exp
    BY <1>3
  <2> HIDE DEF exp, needed
  <2>4. /\ small.s \in {0, 1} /\ small.c \in Nat /\ small.e \in Int
        /\ big.s \in {0, 1} /\ big.c \in Nat /\ big.e \in Int /\ c \in Nat
        /\ Digits(small.c) \in Nat \ {0} /\ AdjExp(small) = small.e + Digits(small.c) - 1
    BY NumberFields
  <2>5. small.e < exp /\ exp - small.e \in Nat \ {0} /\ Digits(small.c) <= exp - small.e
        /\ big.e - exp \in Nat \ {0}
        /\ big.e - small.e = (big.e - exp) + (exp - small.e) /\ big.e - small.e \in Nat
    BY <2>2, <2>3, <2>4
  <2>6. t.s = small.s /\ t.c = c /\ t.e = exp /\ t \in Numbers
    <3>1. small.s \in {0, 1} /\ c \in Nat /\ exp \in Int
      BY <2>2, <2>4
    <3> HIDE DEF c, t
    <3>2. LET f == Fin(small.s, c, exp)
          IN f.s = small.s /\ f.c = c /\ f.e = exp /\ f \in Numbers
      BY <3>1, FinFields
    <3> QED
      BY <2>1, <3>2
  <2> HIDE DEF t
  <2>7. SumOf(small, big) = SumAt(small.s, Part(small, small.e), big.s,
                                  Part(big, small.e), small.e)
    <3>1. Min({small.e, big.e}) = small.e
      BY <2>3, <2>4, MinOfTwo
    <3> QED
      BY <3>1, SumIs
  <2>8. SumOf(t, big) = SumAt(small.s, c, big.s, Part(big, exp), exp)
    <3>0. exp \in Int /\ big.e \in Int /\ exp <= big.e
      BY <2>2, <2>4
    <3>1. Min({t.e, big.e}) = exp
      <4>1. Min({exp, big.e}) = exp
        BY <3>0, MinOfTwo
      <4> QED
        BY <2>6, <4>1
    <3>2. Part(t, exp) = c
      <4>1. exp - exp = 0 /\ c * Pow10[0] = c
        BY <2>2, <2>4, PowersAre
      <4> QED
        BY <2>6, <4>1 DEF Part
    <3> QED
      BY <2>6, <3>1, <3>2, SumIs
  <2> DEFINE B == Part(big, exp)
             P == Pow10[exp - small.e]
             a == small.c
             W == B * P
  <2>9. P \in Nat \ {0} /\ a < P
    <3>1. exp - small.e \in Nat
      BY <2>5
    <3> QED
      BY <2>4, <2>5, <3>1, PowersAre, DigitsBound
  <2>10. Part(big, small.e) = W
    <3>1. Pow10[big.e - small.e] = Pow10[big.e - exp] * Pow10[exp - small.e]
      BY <2>5, PowersAdd
    <3> DEFINE p == Pow10[big.e - exp]
    <3>2. p \in Nat
      BY <2>5, PowersAre
    <3> HIDE DEF p, P
    <3>3. big.c * (p * P) = (big.c * p) * P
      BY <2>4, <2>9, <3>2
    <3> QED
      BY <3>1, <3>3 DEF Part, p, P
  <2>11. Part(small, small.e) = a
    <3>1. small.e - small.e = 0 /\ a * Pow10[0] = a
      BY <2>4, PowersAre
    <3> QED
      BY <3>1 DEF Part
  <2>12. PICK u \in Nat : B = 10 * u
    BY <2>2
  <2>13. /\ B \in Nat /\ B >= 10 /\ B >= 10 * Pow10[ctx.prec]
         /\ B - 5 >= Pow10[ctx.prec] /\ Pow10[ctx.prec] \in Nat
    BY <2>2
  <2> HIDE DEF B, P
  <2>14. W \in Nat /\ W >= P /\ a < W
    <3>1. B * P >= 1 * P /\ B * P \in Nat
      <4>1. B >= 1
        BY <2>13
      <4> QED
        BY <2>9, <2>13, <4>1
    <3> QED
      BY <2>4, <2>9, <3>1
  <2>15. ASSUME a = 0
         PROVE  IsRounded(r, SumOf(small, big), ctx) <=> IsRounded(r, SumOf(t, big), ctx)
    <3>1. SumOf(small, big) = Exactly(big.s, W, 1, small.e)
      <4>1. (IF small.s = big.s THEN W + 0 ELSE W - 0) = W
        BY <2>14
      <4> HIDE DEF W
      <4> QED
        BY <2>4, <2>7, <2>10, <2>11, <2>14, <2>15, <4>1, SumSigned
    <3>2. SumOf(t, big) = Exactly(big.s, B, 1, exp)
      <4>1. (IF small.s = big.s THEN B + 0 ELSE B - 0) = B /\ c = 0
        BY <2>13, <2>15
      <4>2. 0 < B /\ 0 \in Nat
        BY <2>13
      <4> QED
        BY <2>4, <2>8, <2>13, <4>1, <4>2, SumSigned DEF B
    <3>3. W = B * Pow10[exp - small.e] /\ exp - (exp - small.e) = small.e
          /\ B \in Nat \ {0} /\ exp - small.e \in Nat
      BY <2>2, <2>4, <2>5, <2>13 DEF P
    <3> HIDE DEF W
    <3>4. IsRounded(r, Exactly(big.s, W, 1, small.e), ctx)
            <=> IsRounded(r, Exactly(big.s, B, 1, exp), ctx)
      <4> DEFINE k == exp - small.e
      <4>1. k \in Nat /\ B * Pow10[k] = W /\ exp - k = small.e
        BY <3>3
      <4> HIDE DEF k
      <4>2. /\ IsRounded(r, Exactly(big.s, B * Pow10[k], 1, exp - k), ctx)
                <=> IsRounded(r, Exactly(big.s, B, 1, exp), ctx)
        BY <2>2, <2>4, <3>3, <4>1, ZerosRoundAlike
      <4> QED
        BY <4>1, <4>2
    <3> QED
      BY <2>6, <3>1, <3>2, <3>4
  <2>16. ASSUME a # 0
         PROVE  IsRounded(r, SumOf(small, big), ctx) <=> IsRounded(r, SumOf(t, big), ctx)
    <3> DEFINE m == IF small.s = big.s THEN W + a ELSE W - a
               n == IF small.s = big.s THEN B + 1 ELSE B - 1
               k == IF small.s = big.s THEN 2 * u ELSE 2 * u - 1
               x == Exactly(big.s, m, 1, small.e)
               y == Exactly(big.s, n, 1, exp)
    <3>1. SumOf(small, big) = x
      <4> HIDE DEF W
      <4> QED
        BY <2>4, <2>7, <2>10, <2>11, <2>14, SumSigned
    <3>2. SumOf(t, big) = y
      <4>1. c = 1 /\ 1 < B /\ 1 \in Nat
        BY <2>13, <2>16
      <4> QED
        BY <2>4, <2>8, <2>13, <4>1, SumSigned DEF B
    <3>3. /\ m \in Nat \ {0} /\ n \in Nat \ {0} /\ k \in Nat
          /\ 5 * k = IF small.s = big.s THEN B ELSE B - 5
      <4> HIDE DEF W
      <4> QED
        BY <2>4, <2>12, <2>13, <2>14
    <3>4. Pow10[ctx.prec] <= 5 * k
      <4> HIDE DEF k
      <4> QED
        BY <2>13, <3>3
    <3>5. /\ Num(x, exp) = m /\ Den(x, exp) = P /\ Num(y, exp) = n /\ Den(y, exp) = 1
          /\ x \in Exacts /\ y \in Exacts /\ x.s = y.s /\ x.n > 0 /\ y.n > 0
      <4> HIDE DEF m, n
      <4>1. x.e = small.e /\ x.n = m /\ x.d = 1 /\ y.e = exp /\ y.n = n /\ y.d = 1
            /\ x.s = big.s /\ y.s = big.s
        BY DEF Exactly
      <4>2. x \in Exacts /\ y \in Exacts
        BY <2>2, <2>4, <3>3 DEF Exacts, Exactly
      <4> HIDE DEF x, y
      <4>3. m * 1 = m /\ n * 1 = n /\ 1 * P = P
        BY <2>9, <3>3
      <4>4. ~(small.e > exp) /\ exp > small.e /\ ~(exp > exp)
        BY <2>2, <2>4, <2>5
      <4>5. Num(x, exp) = m /\ Num(y, exp) = n
        BY <4>1, <4>3, <4>4 DEF Num
      <4>6. Den(x, exp) = P /\ Den(y, exp) = 1
        BY <4>1, <4>3, <4>4 DEF Den, P
      <4> QED
        BY <3>3, <4>1, <4>2, <4>5, <4>6
    <3>6. (5 * k) * P < m /\ m < (5 * k + 5) * P
      <4>1. CASE small.s = big.s
        <5>1. (5 * k) * P = W /\ (5 * k + 5) * P = W + 5 * P
          <6>1. 5 * k = B
            BY <3>3, <4>1
          <6> HIDE DEF k
          <6>2. (5 * k) * P = W
            BY <6>1
          <6>3. (B + 5) * P = B * P + 5 * P
            BY <2>9, <2>13
          <6> QED
            BY <6>1, <6>2, <6>3
        <5> HIDE DEF k, W
        <5> QED
          BY <2>4, <2>9, <2>14, <2>16, <4>1, <5>1
      <4>2. CASE small.s # big.s
        <5>1. (5 * k) * P = W - 5 * P /\ (5 * k + 5) * P = W
          <6>1. 5 * k = B - 5 /\ 5 * k + 5 = B
            BY <2>13, <3>3, <4>2
          <6> HIDE DEF k
          <6>2. (5 * k + 5) * P = W
            BY <6>1
          <6>3. (B - 5) * P = B * P - 5 * P
            BY <2>9, <2>13
          <6> QED
            BY <6>1, <6>2, <6>3
        <5> HIDE DEF k, W
        <5> QED
          BY <2>4, <2>9, <2>14, <2>16, <4>2, <5>1
      <4> QED
        BY <4>1, <4>2
    <3>7. (5 * k) * 1 < n /\ n < (5 * k + 5) * 1
      <4> HIDE DEF k
      <4> QED
        BY <2>13, <3>3
    <3> HIDE DEF m, n, k, x, y
    <3>8. Within(x, exp, k) /\ Within(y, exp, k)
      BY <3>5, <3>6, <3>7 DEF Within
    <3>9. IsRounded(r, x, ctx) <=> IsRounded(r, y, ctx)
      BY <2>2, <3>3, <3>4, <3>5, <3>8, WithinAreRounded
    <3> QED
      BY <2>6, <3>1, <3>2, <3>9
  <2>17. IsRounded(r, SumOf(small, big), ctx) <=> IsRounded(r, SumOf(t, big), ctx)
    BY <2>15, <2>16
  <2> QED
    BY <2>6, <2>17 DEF t
<1> QED
  BY <1>2, <1>3

LEMMA AddSubRounds ==
  ASSUME NEW ctx, ContextOK(ctx), ctx.round \in Roundings,
         NEW a \in Numbers, NEW b \in Numbers
  PROVE  LET r == Finalize(AddSub(a, b, ctx), ctx)
         IN IsRounded(r, SumOf(a, b), ctx) /\ Fits(r.d, ctx)
<1> DEFINE t == Tiny(a, b, ctx)
           u == Tiny(b, a, ctx)
           d == AddAligned(t, u, ctx)
           r == Finalize(d, ctx)
<1>1. AddSub(a, b, ctx) = d
  BY DEF AddSub
<1>2. t \in Numbers /\ u \in Numbers
  BY TinyType
<1>3. IsRounded(r, SumOf(a, b), ctx) <=> IsRounded(r, SumOf(t, u), ctx)
  <2> HIDE DEF r
  <2>1. a.e \in Int /\ b.e \in Int
    BY NumberFields
  <2>2. CASE a.e < b.e
    <3>1. u = b
      BY <2>1, <2>2 DEF Tiny
    <3>2. IsRounded(r, SumOf(a, b), ctx) <=> IsRounded(r, SumOf(t, b), ctx)
      BY StandIn
    <3> QED
      BY <3>1, <3>2
  <2>3. CASE ~(a.e < b.e)
    <3>1. t = a
      BY <2>1, <2>3 DEF Tiny
    <3>2. IsRounded(r, SumOf(b, a), ctx) <=> IsRounded(r, SumOf(u, a), ctx)
      BY StandIn
    <3>3. SumOf(b, a) = SumOf(a, b) /\ SumOf(u, a) = SumOf(a, u)
      BY <1>2, SumIs
    <3> HIDE DEF t, u
    <3> QED
      BY <3>1, <3>2, <3>3
  <2> QED
    BY <2>2, <2>3
<1> HIDE DEF t, u
<1>4. /\ d \in Numbers
      /\ IsRounded(r, SumOf(t, u), ctx) <=> IsRounded(r, Itself(d), ctx)
  BY <1>2, AlignedIs
<1> HIDE DEF d
<1>5. IsRounded(r, Itself(d), ctx) /\ r.d \in Fitting(ctx)
  <2>1. d \in Decimals
    BY <1>4 DEF Decimals
  <2> QED
    BY <1>4, <2>1, FinalizeRounds, FinalizeFits
<1> HIDE DEF r
<1>6. IsRounded(r, SumOf(a, b), ctx) /\ Fits(r.d, ctx)
  BY <1>3, <1>4, <1>5, FittingFits
<1> QED
  BY <1>1, <1>6 DEF r

LEMMA NegateNumber ==
  ASSUME NEW d \in Numbers
  PROVE  Negate(d) \in Numbers /\ Negate(d) = Fin(1 - d.s, d.c, d.e)
<1>1. d.k = "fin" /\ d.s \in {0, 1} /\ d.c \in Nat /\ d.e \in Int
  BY NumberFields
<1>2. d = [k |-> "fin", s |-> d.s, c |-> d.c, e |-> d.e]
  <2>1. Fin(d.s, d.c, d.e) = d
    BY FinSame
  <2> QED
    BY <2>1 DEF Fin
<1>3. Negate(d) = Fin(1 - d.s, d.c, d.e)
  BY <1>2 DEF Negate, Fin
<1>4. 1 - d.s \in {0, 1}
  BY <1>1
<1> QED
  BY <1>1, <1>3, <1>4, FinFields

\* A sum and a difference are the exact ones, rounded once, and have their
\* place in the context: the digit that stands in for an operand too small to
\* reach the other one never shows.
THEOREM SumsAreRounded ==
  ASSUME NEW ctx, ContextOK(ctx), ctx.round \in Roundings,
         NEW a \in Numbers, NEW b \in Numbers
  PROVE  /\ IsRounded(QAdd(a, b, ctx), SumOf(a, b), ctx)
         /\ IsRounded(QSub(a, b, ctx), SumOf(a, Negate(b)), ctx)
         /\ Fits(QAdd(a, b, ctx).d, ctx) /\ Fits(QSub(a, b, ctx).d, ctx)
<1>1. /\ ~IsSpecial(a) /\ ~IsSpecial(b) /\ ~IsNaN(a) /\ ~IsNaN(b)
      /\ a \in Decimals /\ b \in Decimals
  BY NumberFields DEF Decimals
<1>2. ~AnyNaN(<<a, b>>)
  BY <1>1, NaNs
<1>3. Negate(b) \in Numbers /\ ~IsSpecial(Negate(b))
  BY NegateNumber, NumberFields
<1>4. QAdd(a, b, ctx) = Finalize(AddSub(a, b, ctx), ctx)
  BY <1>1, <1>2 DEF QAdd, AddSigned
<1>5. QSub(a, b, ctx) = Finalize(AddSub(a, Negate(b), ctx), ctx)
  BY <1>1, <1>2, <1>3 DEF QSub, AddSigned
<1> QED
  BY <1>3, <1>4, <1>5, AddSubRounds

------------------------------------------------------------------------------
(* Quotients.                                                               *)

\* The quotient of the coefficients in units of its last place.
Shift(a, b, ctx) == Digits(b.c) - Digits(a.c) + ctx.prec + 1
Dividend(a, b, ctx) ==
  IF Shift(a, b, ctx) > 0 THEN ShiftL(a.c, Shift(a, b, ctx)) ELSE a.c
Divisor(a, b, ctx) ==
  IF Shift(a, b, ctx) < 0 THEN ShiftL(b.c, -Shift(a, b, ctx)) ELSE b.c

LEMMA QuotientParts ==
  ASSUME NEW ctx, ContextOK(ctx), NEW a \in Numbers, NEW b \in Numbers,
         a.c # 0, b.c # 0
  PROVE  LET s == Shift(a, b, ctx)
             n == Dividend(a, b, ctx)
             d == Divisor(a, b, ctx)
             x == QuotientOf(a, b)
             e == a.e - b.e - s
         IN /\ s \in Int /\ e \in Int /\ n \in Nat \ {0} /\ d \in Nat \ {0}
            /\ Num(x, e) = n /\ Den(x, e) = d
            /\ n \div d >= Pow10[ctx.prec]
            /\ x \in Exacts /\ x.n > 0 /\ x.s = Xor(a.s, b.s)
<1> DEFINE s == Shift(a, b, ctx)
           n == Dividend(a, b, ctx)
           d == Divisor(a, b, ctx)
           x == QuotientOf(a, b)
           e == a.e - b.e - s
           i == Digits(a.c)
           j == Digits(b.c)
<1>1. /\ a.c \in Nat /\ a.c > 0 /\ b.c \in Nat /\ b.c > 0 /\ a.e \in Int /\ b.e \in Int
      /\ i \in Nat \ {0} /\ j \in Nat \ {0} /\ ctx.prec \in Nat \ {0}
      /\ a.s \in {0, 1} /\ b.s \in {0, 1}
  BY NumberFields DEF ContextOK
<1>2. s \in Int /\ e \in Int /\ s = j - i + ctx.prec + 1
  BY <1>1 DEF Shift
<1>3. /\ n \in Nat \ {0} /\ Digits(n) = i + (IF s > 0 THEN s ELSE 0)
      /\ n = a.c * (IF s > 0 THEN Pow10[s] ELSE 1)
  <2>1. CASE s > 0
    <3>1. n = ShiftL(a.c, s) /\ s \in Nat
      BY <1>2, <2>1 DEF Dividend
    <3>2. n = a.c * Pow10[s]
      BY <1>1, <3>1, ShiftLIs
    <3>3. a.c * Pow10[s] \in Nat \ {0} /\ Digits(a.c * Pow10[s]) = i + s
      BY <1>1, <3>1, DigitsShiftLeft
    <3> HIDE DEF n, s
    <3> QED
      BY <2>1, <3>2, <3>3
  <2>2. CASE ~(s > 0)
    <3>1. n = a.c
      BY <2>2 DEF Dividend
    <3> HIDE DEF n, s
    <3> QED
      BY <1>1, <2>2, <3>1
  <2> QED
    BY <2>1, <2>2
<1>4. /\ d \in Nat \ {0} /\ Digits(d) = j + (IF s < 0 THEN -s ELSE 0)
      /\ d = b.c * (IF s < 0 THEN Pow10[-s] ELSE 1)
  <2>1. CASE s < 0
    <3>1. d = ShiftL(b.c, -s) /\ -s \in Nat
      BY <1>2, <2>1 DEF Divisor
    <3>2. d = b.c * Pow10[-s]
      BY <1>1, <3>1, ShiftLIs
    <3>3. b.c * Pow10[-s] \in Nat \ {0} /\ Digits(b.c * Pow10[-s]) = j + (-s)
      BY <1>1, <3>1, DigitsShiftLeft
    <3> HIDE DEF d, s
    <3> QED
      BY <2>1, <3>2, <3>3
  <2>2. CASE ~(s < 0)
    <3>1. d = b.c
      BY <2>2 DEF Divisor
    <3> HIDE DEF d, s
    <3> QED
      BY <1>1, <2>2, <3>1
  <2> QED
    BY <2>1, <2>2
<1>5. /\ x.n = a.c /\ x.d = b.c /\ x.e = a.e - b.e /\ x.s = Xor(a.s, b.s)
      /\ x \in Exacts
  <2>1. Xor(a.s, b.s) \in {0, 1} /\ a.e - b.e \in Int /\ b.c \in Nat \ {0}
    BY <1>1, XorType
  <2> QED
    BY <1>1, <2>1 DEF QuotientOf, Exactly, Exacts
<1> HIDE DEF n, d, s, x
<1>6. Num(x, e) = n /\ Den(x, e) = d
  <2>1. /\ x.e > e <=> s > 0
        /\ e > x.e <=> s < 0
        /\ x.e - e = s /\ e - x.e = -s
    BY <1>1, <1>2, <1>5
  <2> HIDE DEF e
  <2> QED
    BY <1>3, <1>4, <1>5, <2>1 DEF Num, Den
<1>7. n \div d >= Pow10[ctx.prec]
  <2> DEFINE l == Digits(d)
  <2>1. Digits(n) = l + ctx.prec + 1 /\ l \in Nat \ {0}
    BY <1>1, <1>2, <1>3, <1>4
  <2>2. d < Pow10[l] /\ Pow10[Digits(n) - 1] <= n
    BY <1>3, <1>4, DigitsAre
  <2>3. Digits(n) - 1 = l + ctx.prec
    BY <1>1, <2>1
  <2>4. Pow10[l + ctx.prec] = Pow10[l] * Pow10[ctx.prec]
        /\ Pow10[l] \in Nat /\ Pow10[ctx.prec] \in Nat \ {0}
    BY <1>1, <2>1, PowersAdd, PowersAre
  <2> DEFINE p == Pow10[ctx.prec]
             w == Pow10[l]
  <2>5. w * p <= n /\ d < w /\ w \in Nat /\ p \in Nat
    BY <2>2, <2>3, <2>4
  <2> HIDE DEF p, w, l
  <2>6. p * d <= p * w
    BY <1>4, <2>5
  <2>7. n >= p * d /\ p * d \in Nat
    <3>1. p * w = w * p /\ p * w \in Nat /\ p * d \in Nat
      BY <1>4, <2>5
    <3> QED
      BY <1>3, <2>5, <2>6, <3>1
  <2>8. n \div d >= p
    BY <1>3, <1>4, <2>5, <2>7, QuotientsBound
  <2> QED
    BY <2>8 DEF p
<1>8. /\ s \in Int /\ e \in Int /\ n \in Nat \ {0} /\ d \in Nat \ {0}
      /\ Num(x, e) = n /\ Den(x, e) = d
      /\ n \div d >= Pow10[ctx.prec]
      /\ x \in Exacts /\ x.n > 0 /\ x.s = Xor(a.s, b.s)
  BY <1>1, <1>2, <1>3, <1>4, <1>5, <1>6, <1>7
<1> QED
  BY <1>8 DEF n, d, s, x

\* An exact quotient, without the zeros at its end.
LEMMA QuotientExact ==
  ASSUME NEW ctx, ContextOK(ctx), NEW a \in Numbers, NEW b \in Numbers,
         a.c # 0, b.c # 0, Dividend(a, b, ctx) % Divisor(a, b, ctx) = 0, NEW r
  PROVE  LET y == WithSign(Xor(a.s, b.s), DivCoeff(a, b, ctx))
         IN y \in Numbers /\ (IsRounded(r, QuotientOf(a, b), ctx)
                                <=> IsRounded(r, Itself(y), ctx))
<1> DEFINE s == Shift(a, b, ctx)
           n == Dividend(a, b, ctx)
           d == Divisor(a, b, ctx)
           x == QuotientOf(a, b)
           e == a.e - b.e - s
           q == n \div d
           g == Xor(a.s, b.s)
           f == DivCoeff(a, b, ctx)
           y0 == Exactly(g, q, 1, e)
<1>1. /\ s \in Int /\ e \in Int /\ n \in Nat \ {0} /\ d \in Nat \ {0}
      /\ Num(x, e) = n /\ Den(x, e) = d
      /\ q >= Pow10[ctx.prec]
      /\ x \in Exacts /\ x.n > 0 /\ x.s = g
  BY QuotientParts
<1>2. f = Quotient(q, TRUE, e, s)
  BY DEF DivCoeff, Shift, Dividend, Divisor
<1>3. g \in {0, 1}
  BY NumberFields, XorType
<1>4. q \in Nat \ {0} /\ n = d * q
  <2>1. Pow10[ctx.prec] \in Nat \ {0}
    BY PowersAre DEF ContextOK
  <2>2. n % d = 0
    OBVIOUS
  <2> HIDE DEF n, d, e, x
  <2>3. q \in Nat /\ n = d * q + (n % d)
    BY <1>1, QuotientsBound
  <2> DEFINE w == d * q
  <2>4. w \in Nat
    BY <1>1, <2>3
  <2> HIDE DEF w
  <2> QED
    BY <1>1, <2>1, <2>2, <2>3, <2>4 DEF w
<1> HIDE DEF s, n, d, x, e, q, g
<1>5. /\ y0 \in Exacts /\ y0.n = q /\ y0.d = 1 /\ y0.e = e /\ y0.s = g
  BY <1>1, <1>3, <1>4 DEF Exacts, Exactly
<1>6. Num(y0, e) = q /\ Den(y0, e) = 1
  <2>1. q * 1 = q /\ ~(e > e)
    BY <1>1, <1>4
  <2> HIDE DEF y0
  <2> QED
    BY <1>5, <2>1 DEF Num, Den
<1>7. SameAt(x, y0, e)
  <2>1. n * 1 = q * d
    BY <1>1, <1>4
  <2> HIDE DEF y0
  <2> QED
    BY <1>1, <1>6, <2>1 DEF SameAt
<1>8. IsRounded(r, x, ctx) <=> IsRounded(r, y0, ctx)
  <2>1. x.s = y0.s /\ y0.n > 0
    BY <1>1, <1>4, <1>5
  <2> HIDE DEF y0
  <2> QED
    BY <1>1, <1>5, <1>7, <2>1, SameAreRounded
<1> DEFINE y == Fin(g, f.c, f.e)
<1>9. y \in Numbers /\ (IsRounded(r, y0, ctx) <=> IsRounded(r, Itself(y), ctx))
  <2>1. CASE s > 0
    <3> DEFINE m == Min({TrailZeros(q), s})
    <3>1. f.c = q \div Pow10[m] /\ f.e = e + m
      BY <1>2, <2>1 DEF Quotient
    <3>2. PICK z \in Nat : q = z * Pow10[TrailZeros(q)]
      BY <1>4, TrailZerosAre
    <3>3. m \in Nat /\ TrailZeros(q) \in Nat /\ m <= TrailZeros(q)
      <4>1. TrailZeros(q) \in Nat
        BY <1>4, TrailZerosAre
      <4>2. m = IF TrailZeros(q) <= s THEN TrailZeros(q) ELSE s
        BY <1>1, <4>1, MinOfTwo
      <4> QED
        BY <1>1, <2>1, <4>1, <4>2
    <3> HIDE DEF m
    <3> DEFINE c == z * Pow10[TrailZeros(q) - m]
    <3>4. q \div Pow10[m] = c
      BY <3>2, <3>3, PowersCancel
    <3>5. c \in Nat /\ q = c * Pow10[m]
      <4> DEFINE t == TrailZeros(q)
      <4> HIDE DEF t
      <4>1. t - m \in Nat /\ (t - m) + m = t
        BY <3>3 DEF t
      <4>2. Pow10[t] = Pow10[t - m] * Pow10[m] /\ Pow10[t - m] \in Nat /\ Pow10[m] \in Nat
        BY <3>3, <4>1, PowersAdd, PowersAre
      <4> DEFINE v == Pow10[t - m]
                 w == Pow10[m]
      <4> HIDE DEF v, w
      <4>3. z * (v * w) = (z * v) * w /\ z * v \in Nat
        BY <4>2 DEF v, w
      <4>4. q = z * Pow10[t]
        BY <3>2 DEF t
      <4> QED
        BY <4>2, <4>3, <4>4 DEF v, w, t
    <3> HIDE DEF c
    <3>6. c \in Nat \ {0}
      <4>1. Pow10[m] \in Nat
        BY <3>3, PowersAre
      <4>2. c = 0 => c * Pow10[m] = 0
        BY <4>1
      <4> QED
        BY <1>4, <3>5, <4>2
    <3>7. f.c = c /\ f.e = e + m /\ e + m \in Int /\ (e + m) - m = e
      BY <1>1, <3>1, <3>3, <3>4
    <3> HIDE DEF f
    <3>8. y = Fin(g, c, e + m) /\ y \in Numbers
          /\ Itself(y) = Exactly(g, c, 1, e + m)
      <4>1. y = Fin(g, c, e + m)
        BY <3>7
      <4>2. LET h == Fin(g, c, e + m)
            IN h \in Numbers /\ h.s = g /\ h.c = c /\ h.e = e + m
        BY <1>3, <3>5, <3>7, FinFields
      <4> HIDE DEF y
      <4> QED
        BY <4>1, <4>2 DEF Itself
    <3>9. IsRounded(r, Exactly(g, c * Pow10[m], 1, (e + m) - m), ctx)
            <=> IsRounded(r, Exactly(g, c, 1, e + m), ctx)
      BY <1>3, <3>3, <3>6, <3>7, ZerosRoundAlike
    <3>10. Exactly(g, c * Pow10[m], 1, (e + m) - m) = y0
      BY <3>5, <3>7
    <3> HIDE DEF y, y0
    <3> QED
      BY <3>8, <3>9, <3>10
  <2>2. CASE ~(s > 0)
    <3>1. f.c = q /\ f.e = e
      BY <1>2, <2>2 DEF Quotient
    <3> HIDE DEF f
    <3>2. LET h == Fin(g, q, e)
          IN h \in Numbers /\ h.s = g /\ h.c = q /\ h.e = e
      <4>1. q \in Nat
        BY <1>4
      <4> QED
        BY <1>1, <1>3, <4>1, FinFields
    <3>3. y = Fin(g, q, e)
      BY <3>1
    <3> HIDE DEF y
    <3>4. Itself(y) = y0 /\ y \in Numbers
      BY <3>2, <3>3 DEF Itself
    <3> QED
      BY <3>4
  <2> QED
    BY <2>1, <2>2
<1>10. WithSign(g, f) = y
  BY DEF WithSign
<1> HIDE DEF y, y0, f
<1>11. WithSign(g, f) \in Numbers
       /\ (IsRounded(r, x, ctx) <=> IsRounded(r, Itself(WithSign(g, f)), ctx))
  BY <1>8, <1>9, <1>10
<1> QED
  BY <1>11 DEF x, f, g

\* A quotient with a remainder: the digit that is put in the place of a 0 or
\* a 5 tells that there is one.
LEMMA QuotientInexact ==
  ASSUME NEW ctx, ContextOK(ctx), NEW a \in Numbers, NEW b \in Numbers,
         a.c # 0, b.c # 0, Dividend(a, b, ctx) % Divisor(a, b, ctx) # 0, NEW r
  PROVE  LET y == WithSign(Xor(a.s, b.s), DivCoeff(a, b, ctx))
         IN y \in Numbers /\ (IsRounded(r, QuotientOf(a, b), ctx)
                                <=> IsRounded(r, Itself(y), ctx))
<1> DEFINE s == Shift(a, b, ctx)
           n == Dividend(a, b, ctx)
           d == Divisor(a, b, ctx)
           x == QuotientOf(a, b)
           e == a.e - b.e - s
           q == n \div d
           g == Xor(a.s, b.s)
           c == IF q % 10 \in {0, 5} THEN q + 1 ELSE q
           k == q \div 5
           y == Fin(g, c, e)
<1>1. /\ s \in Int /\ e \in Int /\ n \in Nat \ {0} /\ d \in Nat \ {0}
      /\ Num(x, e) = n /\ Den(x, e) = d
      /\ q >= Pow10[ctx.prec]
      /\ x \in Exacts /\ x.n > 0 /\ x.s = g
  BY QuotientParts
<1>2. DivCoeff(a, b, ctx) = [c |-> c, e |-> e]
  <2>1. DivCoeff(a, b, ctx) = Quotient(q, n % d = 0, e, s)
    BY DEF DivCoeff, Shift, Dividend, Divisor
  <2>2. ~(n % d = 0)
    OBVIOUS
  <2> HIDE DEF n, d, e, s, q
  <2> QED
    BY <2>1, <2>2 DEF Quotient
<1>3. WithSign(g, DivCoeff(a, b, ctx)) = y
  <2> HIDE DEF c, e, g
  <2> QED
    BY <1>2 DEF WithSign
<1>4. g \in {0, 1}
  BY NumberFields, XorType
<1>5. q \in Nat /\ d * q < n /\ n < d * q + d
  <2>1. n % d # 0
    OBVIOUS
  <2> HIDE DEF n, d, e, x
  <2>2. q \in Nat /\ n = d * q + (n % d) /\ n % d \in 0..(d - 1)
    BY <1>1, QuotientsBound
  <2> DEFINE w == d * q
             h == n % d
  <2>3. w \in Nat
    BY <1>1, <2>2
  <2> HIDE DEF w, h
  <2>4. h \in 0..(d - 1) /\ h # 0 /\ n = w + h
    BY <2>1, <2>2 DEF w, h
  <2>5. w < n /\ n < w + d
    BY <1>1, <2>3, <2>4
  <2> QED
    BY <2>2, <2>5 DEF w
<1> HIDE DEF s, n, d, x, e, q, g
<1>6. /\ k \in Nat /\ 5 * k <= q /\ q < 5 * k + 5
      /\ c \in Nat /\ 5 * k < c /\ c < 5 * k + 5
  BY <1>5
<1>7. Pow10[ctx.prec] <= 5 * k
  <2>1. ctx.prec - 1 \in Nat /\ ctx.prec = (ctx.prec - 1) + 1
    BY DEF ContextOK
  <2>2. Pow10[ctx.prec] = 10 * Pow10[ctx.prec - 1] /\ Pow10[ctx.prec - 1] \in Nat
    BY <2>1, Powers, PowersAre
  <2> DEFINE p == Pow10[ctx.prec - 1]
  <2> HIDE DEF p, k
  <2>3. p \in Nat /\ Pow10[ctx.prec] = 10 * p
    BY <2>2 DEF p
  <2>4. 10 * p <= 5 * k
    BY <1>1, <1>5, <1>6, <2>3
  <2> QED
    BY <2>3, <2>4
<1> HIDE DEF k, c
<1>8. y \in Numbers /\ y.s = g /\ y.c = c /\ y.e = e
  BY <1>1, <1>4, <1>6, FinFields
<1>9. /\ Itself(y) \in Exacts /\ Itself(y).s = g /\ Itself(y).n > 0
      /\ Num(Itself(y), e) = c /\ Den(Itself(y), e) = 1
  <2>1. Itself(y) = Exactly(g, c, 1, e)
    BY <1>8 DEF Itself
  <2>2. c * 1 = c /\ ~(e > e) /\ c > 0
    BY <1>1, <1>6
  <2>3. LET v == Exactly(g, c, 1, e)
        IN /\ v.s = g /\ v.n = c /\ v.d = 1 /\ v.e = e /\ v \in Exacts
    BY <1>1, <1>4, <1>6 DEF Exactly, Exacts
  <2> HIDE DEF y
  <2> QED
    BY <2>1, <2>2, <2>3 DEF Num, Den
<1> HIDE DEF y
<1>10. Within(x, e, k)
  <2>1. d * (5 * k) <= d * q /\ d * (q + 1) <= d * (5 * k + 5)
    <3>1. 5 * k <= q /\ q + 1 <= 5 * k + 5 /\ 5 * k \in Nat
      BY <1>5, <1>6
    <3> DEFINE v == 5 * k
    <3> HIDE DEF v
    <3>2. v \in Nat /\ v <= q /\ q + 1 <= v + 5
      BY <3>1 DEF v
    <3>3. d * v <= d * q /\ d * (q + 1) <= d * (v + 5)
      BY <1>1, <1>5, <3>2
    <3> QED
      BY <3>3 DEF v
  <2>2. d * (q + 1) = d * q + d /\ d * (5 * k) = (5 * k) * d
        /\ d * (5 * k + 5) = (5 * k + 5) * d
    BY <1>1, <1>5, <1>6
  <2>3. d * q \in Nat /\ (5 * k) * d \in Nat /\ (5 * k + 5) * d \in Nat
    BY <1>1, <1>5, <1>6
  <2> DEFINE v == d * q
             lo == (5 * k) * d
             hi == (5 * k + 5) * d
  <2>4. lo <= v /\ v + d <= hi /\ v < n /\ n < v + d
        /\ v \in Nat /\ lo \in Nat /\ hi \in Nat
    BY <1>5, <2>1, <2>2, <2>3
  <2> HIDE DEF v, lo, hi
  <2>5. lo < n /\ n < hi
    BY <1>1, <2>4
  <2> QED
    BY <1>1, <2>5 DEF Within, lo, hi
<1>11. Within(Itself(y), e, k)
  <2>1. (5 * k) * 1 = 5 * k /\ (5 * k + 5) * 1 = 5 * k + 5
    BY <1>6
  <2> QED
    BY <1>6, <1>9, <2>1 DEF Within
<1>12. IsRounded(r, x, ctx) <=> IsRounded(r, Itself(y), ctx)
  BY <1>1, <1>6, <1>7, <1>9, <1>10, <1>11, WithinAreRounded
<1>13. LET w == WithSign(g, DivCoeff(a, b, ctx))
       IN w \in Numbers /\ (IsRounded(r, x, ctx) <=> IsRounded(r, Itself(w), ctx))
  BY <1>3, <1>8, <1>12
<1> QED
  BY <1>13 DEF x, g

\* A quotient is the exact quotient, rounded once, and has its place in the
\* context: the guard digit shows whatever the division left.
THEOREM QuotientsAreRounded ==
  ASSUME NEW ctx, ContextOK(ctx), ctx.round \in Roundings,
         NEW a \in Numbers, NEW b \in Numbers, b.c # 0
  PROVE  /\ IsRounded(QDiv(a, b, ctx), QuotientOf(a, b), ctx)
         /\ Fits(QDiv(a, b, ctx).d, ctx)
<1> DEFINE g == Xor(a.s, b.s)
           y == IF a.c = 0 THEN Fin(g, 0, a.e - b.e)
                ELSE WithSign(g, DivCoeff(a, b, ctx))
           r == Finalize(y, ctx)
<1>1. /\ ~IsSpecial(a) /\ ~IsSpecial(b) /\ ~IsNaN(a) /\ ~IsNaN(b)
      /\ a \in Decimals /\ b \in Decimals /\ g \in {0, 1} /\ a.e - b.e \in Int
      /\ a.c \in Nat
  BY NumberFields, XorType DEF Decimals
<1>2. QDiv(a, b, ctx) = r
  <2>1. ~AnyNaN(<<a, b>>)
    BY <1>1, NaNs
  <2> QED
    BY <1>1, <2>1 DEF QDiv
<1>3. y \in Numbers /\ (IsRounded(r, QuotientOf(a, b), ctx)
                          <=> IsRounded(r, Itself(y), ctx))
  <2> HIDE DEF r, g
  <2>1. CASE a.c = 0
    <3>1. y = Fin(g, 0, a.e - b.e)
      BY <2>1
    <3>2. LET h == Fin(g, 0, a.e - b.e) IN h \in Numbers /\ h.c = 0
      BY <1>1, FinFields
    <3> HIDE DEF y
    <3>3. Itself(y).n = 0 /\ QuotientOf(a, b).n = 0
      BY <2>1, <3>1, <3>2 DEF Itself, QuotientOf, Exactly
    <3> QED
      BY <3>1, <3>2, <3>3 DEF IsRounded
  <2>2. CASE a.c # 0 /\ Dividend(a, b, ctx) % Divisor(a, b, ctx) = 0
    BY <2>2, QuotientExact DEF g
  <2>3. CASE a.c # 0 /\ Dividend(a, b, ctx) % Divisor(a, b, ctx) # 0
    BY <2>3, QuotientInexact DEF g
  <2> QED
    BY <2>1, <2>2, <2>3
<1> HIDE DEF y
<1>4. IsRounded(r, Itself(y), ctx) /\ r.d \in Fitting(ctx)
  <2>1. y \in Decimals
    BY <1>3 DEF Decimals
  <2> QED
    BY <1>3, <2>1, FinalizeRounds, FinalizeFits
<1> QED
  BY <1>2, <1>3, <1>4, FittingFits

------------------------------------------------------------------------------
(* Quotients with a remainder.                                              *)

LEMMA DigitsDivide ==
  ASSUME NEW n \in Nat, NEW d \in Nat \ {0}
  PROVE  /\ n \div d \in Nat
         /\ Digits(n) < Digits(d) => n < d
         /\ Digits(n) > Digits(d) => Digits(n \div d) >= Digits(n) - Digits(d)
<1> DEFINE N == Digits(n)
           D == Digits(d)
           q == n \div d
<1>1. /\ N \in Nat \ {0} /\ D \in Nat \ {0} /\ q \in Nat
      /\ n < Pow10[N] /\ d < Pow10[D] /\ Pow10[D - 1] <= d
      /\ n > 0 => Pow10[N - 1] <= n
  <2>1. N \in Nat \ {0} /\ n < Pow10[N] /\ (n > 0 => Pow10[N - 1] <= n)
    BY DigitsAre
  <2>2. D \in Nat \ {0} /\ d < Pow10[D] /\ Pow10[D - 1] <= d
    BY DigitsAre
  <2>3. q \in Nat
    BY QuotientsBound
  <2> QED
    BY <2>1, <2>2, <2>3
<1> HIDE DEF N, D, q
<1>2. ASSUME N < D
      PROVE  n < d
  <2>1. Pow10[N] \in Nat /\ Pow10[D - 1] \in Nat /\ Pow10[N] <= Pow10[D - 1]
    <3>1. D - 1 \in Nat /\ N <= D - 1
      BY <1>1, <1>2
    <3> QED
      BY <1>1, <3>1, PowersAre, PowersGrow
  <2> QED
    BY <1>1, <2>1
<1>3. ASSUME N > D
      PROVE  Digits(q) >= N - D
  <2> DEFINE j == N - D - 1
             p == Pow10[j]
             w == Pow10[D]
  <2>1. j \in Nat /\ N - 1 = j + D /\ N # 1
    BY <1>1, <1>3
  <2> HIDE DEF j
  <2>2. n > 0
    <3>1. Digits(0) = 1
      BY ZeroHasOneDigit
    <3> QED
      BY <2>1, <3>1 DEF N
  <2>3. p \in Nat /\ w \in Nat /\ Pow10[N - 1] = p * w
    <3>1. D \in Nat
      BY <1>1
    <3>2. Pow10[j + D] = p * w
      BY <2>1, <3>1, PowersAdd
    <3> QED
      BY <2>1, <3>1, <3>2, PowersAre
  <2>4. p * w <= n /\ d < w
    BY <1>1, <2>2, <2>3
  <2> HIDE DEF p, w
  <2>5. p * d <= p * w /\ p * d \in Nat /\ p * w \in Nat
    BY <2>3, <2>4
  <2>6. n >= p * d
    BY <2>4, <2>5
  <2>7. q >= p
    BY <2>3, <2>6, QuotientsBound DEF q
  <2>8. Digits(q) > j
    BY <1>1, <2>1, <2>7, DigitsBound DEF p
  <2>9. Digits(q) \in Nat
    BY <1>1, DigitsAre
  <2> QED
    BY <1>1, <2>1, <2>8, <2>9 DEF j
<1> QED
  BY <1>1, <1>2, <1>3 DEF N, D, q

\* Two numbers in units of the smaller one's last place.
LEMMA Units ==
  ASSUME NEW a \in Numbers, NEW b \in Numbers, b.c # 0
  PROVE  LET e == Min({a.e, b.e})
             n == Part(a, e)
             d == Part(b, e)
         IN /\ e \in Int /\ e <= a.e /\ e <= b.e
            /\ e = IF a.e <= b.e THEN a.e ELSE b.e
            /\ n \in Nat /\ d \in Nat \ {0}
            /\ n = 0 <=> a.c = 0
            /\ n = ShiftL(a.c, a.e - e) /\ d = ShiftL(b.c, b.e - e)
            /\ a.c # 0 => AdjExp(a) - AdjExp(b) = Digits(n) - Digits(d)
            /\ Num(QuotientOf(a, b), 0) = n /\ Den(QuotientOf(a, b), 0) = d
<1> DEFINE e == Min({a.e, b.e})
<1>1. /\ a.e \in Int /\ b.e \in Int /\ e = IF a.e <= b.e THEN a.e ELSE b.e
      /\ a.c \in Nat /\ b.c \in Nat
      /\ AdjExp(a) = a.e + Digits(a.c) - 1 /\ AdjExp(b) = b.e + Digits(b.c) - 1
  BY NumberFields, MinOfTwo
<1>2. e \in Int /\ e <= a.e /\ e <= b.e /\ a.e - e \in Nat /\ b.e - e \in Nat
  BY <1>1
<1>3. /\ Num(QuotientOf(a, b), 0) = Part(a, e)
      /\ Den(QuotientOf(a, b), 0) = Part(b, e)
  <2>1. /\ QuotientOf(a, b).n = a.c /\ QuotientOf(a, b).d = b.c
        /\ QuotientOf(a, b).e = a.e - b.e
    BY DEF QuotientOf, Exactly
  <2>2. Pow10[0] = 1
    BY PowersAre
  <2>3. CASE a.e <= b.e
    <3>1. /\ e = a.e /\ a.e - e = 0 /\ 0 - (a.e - b.e) = b.e - e
          /\ ~(a.e - b.e > 0) /\ (0 > a.e - b.e <=> b.e - e # 0)
      BY <1>1, <2>3
    <3> HIDE DEF e
    <3>2. b.e - e = 0 => Pow10[b.e - e] = 1
      BY <2>2
    <3> QED
      BY <2>1, <2>2, <3>1, <3>2 DEF Num, Den, Part
  <2>4. CASE a.e > b.e
    <3>1. /\ e = b.e /\ b.e - e = 0 /\ (a.e - b.e) - 0 = a.e - e
          /\ a.e - b.e > 0 /\ ~(0 > a.e - b.e)
      BY <1>1, <2>4
    <3> HIDE DEF e
    <3> QED
      BY <2>1, <2>2, <3>1 DEF Num, Den, Part
  <2> QED
    BY <1>1, <2>3, <2>4
<1> HIDE DEF e
<1> DEFINE n == Part(a, e)
           d == Part(b, e)
<1>4. n \in Nat /\ d \in Nat \ {0} /\ (n = 0 <=> a.c = 0)
  BY <1>2, SignedIs
<1>5. n = ShiftL(a.c, a.e - e) /\ d = ShiftL(b.c, b.e - e)
  BY <1>1, <1>2, ShiftLIs DEF Part
<1>6. a.c # 0 => AdjExp(a) - AdjExp(b) = Digits(n) - Digits(d)
  <2>1. Digits(d) = Digits(b.c) + (b.e - e)
    BY <1>1, <1>2, DigitsShiftLeft DEF Part
  <2>2. a.c # 0 => Digits(n) = Digits(a.c) + (a.e - e)
    BY <1>1, <1>2, DigitsShiftLeft DEF Part
  <2>3. Digits(a.c) \in Nat /\ Digits(b.c) \in Nat
    BY <1>1, DigitsAre
  <2> HIDE DEF n, d
  <2>4. Digits(b.c) = AdjExp(b) - b.e + 1 /\ Digits(a.c) = AdjExp(a) - a.e + 1
    BY <1>1, <2>3
  <2>5. a.c # 0 => Digits(n) = Digits(a.c) + (a.e - e)
    BY <2>2
  <2>6. AdjExp(a) \in Int /\ AdjExp(b) \in Int
    BY NumberFields
  <2> QED
    <3>1. a.e \in Int /\ b.e \in Int /\ e \in Int
      BY <1>1, <1>2
    <3> QED
      BY <2>1, <2>3, <2>4, <2>5, <2>6, <3>1
<1> QED
  BY <1>1, <1>2, <1>3, <1>4, <1>5, <1>6 DEF e

\* _mpd_qdivmod divides the one by the other, unless the quotient has more
\* digits than the precision.
LEMMA DivModIs ==
  ASSUME NEW ctx, ContextOK(ctx), NEW a \in Numbers, NEW b \in Numbers, b.c # 0
  PROVE  LET e == Min({a.e, b.e})
             n == Part(a, e)
             d == Part(b, e)
         IN DivMod(a, b, ctx) =
              IF Digits(n \div d) > ctx.prec THEN NaNPair({"Division_impossible"})
              ELSE Pair(Fin(Xor(a.s, b.s), n \div d, 0), Fin(a.s, n % d, e), {})
<1> DEFINE e == Min({a.e, b.e})
           n == Part(a, e)
           d == Part(b, e)
           diff == AdjExp(a) - AdjExp(b)
<1>1. /\ n \in Nat /\ d \in Nat \ {0} /\ (n = 0 <=> a.c = 0)
      /\ n = ShiftL(a.c, a.e - e) /\ d = ShiftL(b.c, b.e - e)
      /\ a.c # 0 => diff = Digits(n) - Digits(d)
  BY Units
<1>2. DivMod(a, b, ctx) =
        IF a.c = 0 THEN Pair(Fin(Xor(a.s, b.s), 0, 0), Fin(a.s, 0, e), {})
        ELSE IF diff < 0 THEN Pair(Fin(Xor(a.s, b.s), 0, 0), Fin(a.s, n, e), {})
        ELSE IF diff > ctx.prec THEN NaNPair({"Division_impossible"})
        ELSE IF Digits(n \div d) > ctx.prec THEN NaNPair({"Division_impossible"})
        ELSE Pair(Fin(Xor(a.s, b.s), n \div d, 0), Fin(a.s, n % d, e), {})
  <2> HIDE DEF n, d
  <2> QED
    BY <1>1 DEF DivMod
<1>3. ctx.prec \in Nat \ {0} /\ Digits(0) = 1 /\ Digits(n) \in Nat /\ Digits(d) \in Nat
      /\ n \div d \in Nat /\ Digits(n \div d) \in Nat
  <2> HIDE DEF n, d
  <2>1. n \div d \in Nat
    BY <1>1, QuotientsBound
  <2> QED
    BY <1>1, <2>1, DigitsAre, ZeroHasOneDigit DEF ContextOK
<1> DEFINE Goal ==
             DivMod(a, b, ctx) =
               IF Digits(n \div d) > ctx.prec THEN NaNPair({"Division_impossible"})
               ELSE Pair(Fin(Xor(a.s, b.s), n \div d, 0), Fin(a.s, n % d, e), {})
<1> SUFFICES Goal
  OBVIOUS
<1> HIDE DEF e, n, d, diff
<1>a. n \in Nat /\ d \in Nat \ {0}
  BY <1>1
<1>4. CASE n < d
  <2>1. n \div d = 0 /\ n % d = n
    <3>1. n = d * 0 + n /\ n \in 0..(d - 1)
      BY <1>1, <1>4
    <3>2. n \div d = 0
      BY <1>1, <3>1, QuotientIs
    <3>3. n = d * (n \div d) + (n % d) /\ n % d \in 0..(d - 1)
      BY <1>a, QuotientsBound
    <3>4. n = d * 0 + (n % d)
      BY <3>2, <3>3
    <3>5. n % d \in Nat
      BY <1>a, <3>3
    <3> DEFINE m == n % d
    <3> HIDE DEF m
    <3>6. m = n
      BY <1>a, <3>4, <3>5 DEF m
    <3> QED
      BY <3>2, <3>6 DEF m
  <2>2. ~(Digits(0) > ctx.prec)
    BY <1>3
  <2>3. a.c # 0 => diff <= 0
    BY <1>1, <1>3, <1>4, DigitsDivide
  <2>4. a.c # 0 => ~(diff > ctx.prec)
    <3>1. a.c # 0 => diff \in Int
      BY <1>1, <1>3
    <3> QED
      BY <1>3, <2>3, <3>1
  <2> QED
    BY <1>1, <1>2, <2>1, <2>2, <2>4
<1>5. CASE ~(n < d)
  <2>1. a.c # 0
    BY <1>1, <1>5
  <2>2. diff \in Int /\ ~(diff < 0)
    <3>1. ~(Digits(n) < Digits(d))
      BY <1>1, <1>5, DigitsDivide
    <3> QED
      BY <1>1, <1>3, <2>1, <3>1
  <2>3. diff > ctx.prec => Digits(n \div d) > ctx.prec
    <3>1. Digits(n) > Digits(d) => Digits(n \div d) >= Digits(n) - Digits(d)
      BY <1>1, DigitsDivide
    <3> QED
      BY <1>1, <1>3, <2>1, <2>2, <3>1
  <2> QED
    BY <1>2, <2>1, <2>2, <2>3
<1> QED
  BY <1>4, <1>5 DEF e, n, d

\* The same number in smaller units.
LEMMA PartsScale ==
  ASSUME NEW d \in Numbers, NEW f \in Int, f <= d.e, NEW e \in Int, e <= f
  PROVE  /\ f - e \in Nat /\ Pow10[f - e] \in Nat \ {0}
         /\ Part(d, e) = Pow10[f - e] * Part(d, f)
<1>1. d.c \in Nat /\ d.e - f \in Nat /\ f - e \in Nat /\ d.e - e = (d.e - f) + (f - e)
  BY NumberFields
<1> DEFINE u == Pow10[d.e - f]
           t == Pow10[f - e]
<1>2. Pow10[(d.e - f) + (f - e)] = u * t
  BY <1>1, PowersAdd
<1>3. u \in Nat \ {0} /\ t \in Nat \ {0}
  BY <1>1, PowersAre
<1> HIDE DEF u, t
<1>4. d.c * (u * t) = t * (d.c * u)
  BY <1>1, <1>3
<1> QED
  BY <1>1, <1>2, <1>3, <1>4 DEF Part, u, t

\* Numbers are compared by their parts.
LEMMA CmpAbsIs ==
  ASSUME NEW a \in Numbers, NEW b \in Numbers, NEW e \in Int, e <= a.e, e <= b.e
  PROVE  CmpAbs(a, b) = Sgn(Part(a, e) - Part(b, e))
<1> DEFINE n == Part(a, e)
           d == Part(b, e)
<1>1. /\ n \in Nat /\ (a.c # 0 => n > 0) /\ (a.c = 0 => n = 0)
      /\ d \in Nat /\ (b.c # 0 => d > 0) /\ (b.c = 0 => d = 0)
  BY SignedIs
<1>2. /\ a.c \in Nat /\ a.e \in Int /\ AdjExp(a) = a.e + Digits(a.c) - 1
      /\ b.c \in Nat /\ b.e \in Int /\ AdjExp(b) = b.e + Digits(b.c) - 1
      /\ Digits(a.c) \in Nat /\ Digits(b.c) \in Nat
      /\ ~IsInf(a) /\ ~IsInf(b)
  BY NumberFields
<1>3. CASE a.c = 0 \/ b.c = 0
  <2>1. CmpAbs(a, b) = Sgn(a.c) - Sgn(b.c)
    BY <1>2, <1>3 DEF CmpAbs
  <2> HIDE DEF n, d
  <2>2. Sgn(a.c) - Sgn(b.c) = Sgn(n - d)
    BY <1>1, <1>2, <1>3 DEF Sgn
  <2> QED
    BY <2>1, <2>2 DEF n, d
<1>4. CASE a.c # 0 /\ b.c # 0 /\ AdjExp(a) # AdjExp(b)
  <2>1. CmpAbs(a, b) = Sgn(AdjExp(a) - AdjExp(b))
    BY <1>2, <1>4 DEF CmpAbs
  <2>2. a.e - e \in Nat /\ b.e - e \in Nat
    BY <1>2
  <2>3. Digits(n) = Digits(a.c) + (a.e - e)
    BY <1>2, <1>4, <2>2, DigitsShiftLeft DEF Part
  <2>4. Digits(d) = Digits(b.c) + (b.e - e)
    BY <1>2, <1>4, <2>2, DigitsShiftLeft DEF Part
  <2> HIDE DEF n, d
  <2>5. n # 0 /\ d # 0
    BY <1>1, <1>4
  <2>6. /\ Digits(n) < Digits(d) => n < d
        /\ Digits(d) < Digits(n) => d < n
    BY <1>1, <2>5, DigitsDivide
  <2>7. AdjExp(a) - AdjExp(b) = Digits(n) - Digits(d)
    BY <1>2, <2>3, <2>4
  <2>8. Digits(n) \in Int /\ Digits(d) \in Int /\ AdjExp(a) \in Int /\ AdjExp(b) \in Int
    BY <1>1, DigitsAre, NumberFields
  <2>9. Sgn(AdjExp(a) - AdjExp(b)) = Sgn(n - d)
    <3>1. Digits(n) < Digits(d) \/ Digits(d) < Digits(n)
      <4> DEFINE x == AdjExp(a)
                 y == AdjExp(b)
                 u == Digits(n)
                 v == Digits(d)
      <4>1. x - y = u - v /\ x # y /\ x \in Int /\ y \in Int /\ u \in Int /\ v \in Int
        BY <1>4, <2>7, <2>8
      <4> HIDE DEF x, y, u, v
      <4>2. u < v \/ v < u
        BY <4>1
      <4> QED
        BY <4>2 DEF u, v
    <3>2. CASE Digits(n) < Digits(d)
      <4>1. AdjExp(a) - AdjExp(b) < 0 /\ n - d < 0
        BY <1>1, <2>6, <2>7, <2>8, <3>2
      <4> QED
        BY <4>1 DEF Sgn
    <3>3. CASE Digits(d) < Digits(n)
      <4>1. /\ AdjExp(a) - AdjExp(b) > 0 /\ ~(AdjExp(a) - AdjExp(b) < 0)
            /\ n - d > 0 /\ ~(n - d < 0)
        BY <1>1, <2>6, <2>7, <2>8, <3>3
      <4> QED
        BY <4>1 DEF Sgn
    <3> QED
      BY <3>1, <3>2, <3>3
  <2> QED
    BY <2>1, <2>9 DEF n, d
<1>5. CASE a.c # 0 /\ b.c # 0 /\ AdjExp(a) = AdjExp(b)
  <2>1. CmpAbs(a, b) = CmpSameAdjExp(a, b)
    BY <1>2, <1>5 DEF CmpAbs
  <2>2. ASSUME NEW x \in Nat, NEW y \in Nat, NEW t \in Nat \ {0}, n = t * x, d = t * y
        PROVE  Sgn(x - y) = Sgn(n - d)
    <3> HIDE DEF n, d
    <3>1. (n <= d <=> x <= y) /\ (n = d <=> x = y)
      BY <2>2, TimesCompare
    <3> QED
      BY <1>1, <2>2, <3>1 DEF Sgn
  <2>3. Pow10[0] = 1
    BY PowersAre
  <2>4. CASE a.e - b.e > 0
    <3>1. CmpAbs(a, b) = Sgn(Part(a, b.e) - Part(b, b.e))
      <4>1. b.e - b.e = 0 /\ b.c * 1 = b.c
        BY <1>2
      <4> QED
        BY <2>1, <2>3, <2>4, <4>1 DEF CmpSameAdjExp, Part
    <3>2. b.e <= a.e /\ b.e <= b.e
      BY <1>2, <2>4
    <3>3. /\ n = Pow10[b.e - e] * Part(a, b.e) /\ d = Pow10[b.e - e] * Part(b, b.e)
          /\ Pow10[b.e - e] \in Nat \ {0}
      BY <1>2, <3>2, PartsScale
    <3>4. Part(a, b.e) \in Nat /\ Part(b, b.e) \in Nat
      BY <1>2, <3>2, SignedIs
    <3> HIDE DEF n, d
    <3> QED
      BY <2>2, <3>1, <3>3, <3>4 DEF n, d
  <2>5. CASE ~(a.e - b.e > 0)
    <3>1. CmpAbs(a, b) = Sgn(Part(a, a.e) - Part(b, a.e))
      <4>1. a.e - a.e = 0 /\ a.c * 1 = a.c /\ -(a.e - b.e) = b.e - a.e
        BY <1>2
      <4> QED
        BY <2>1, <2>3, <2>5, <4>1 DEF CmpSameAdjExp, Part
    <3>2. a.e <= b.e /\ a.e <= a.e
      BY <1>2, <2>5
    <3>3. /\ n = Pow10[a.e - e] * Part(a, a.e) /\ d = Pow10[a.e - e] * Part(b, a.e)
          /\ Pow10[a.e - e] \in Nat \ {0}
      BY <1>2, <3>2, PartsScale
    <3>4. Part(a, a.e) \in Nat /\ Part(b, a.e) \in Nat
      BY <1>2, <3>2, SignedIs
    <3> HIDE DEF n, d
    <3> QED
      BY <2>2, <3>1, <3>3, <3>4 DEF n, d
  <2> QED
    BY <2>4, <2>5
<1> QED
  BY <1>3, <1>4, <1>5

\* A result that lost nothing is the number that was finalized.
LEMMA KeptIs ==
  ASSUME NEW ctx, ContextOK(ctx), ctx.round \in Roundings, NEW d \in Numbers,
         "Inexact" \notin Finalize(d, ctx).st, "Overflow" \notin Finalize(d, ctx).st
  PROVE  LET r == Finalize(d, ctx).d
         IN /\ r \in Numbers /\ r.s = d.s
            /\ \A e \in Int : e <= d.e /\ e <= r.e => Part(r, e) = Part(d, e)
<1> DEFINE f == Finalize(d, ctx)
           r == f.d
           Goal == /\ r \in Numbers /\ r.s = d.s
                   /\ \A e \in Int : e <= d.e /\ e <= r.e => Part(r, e) = Part(d, e)
<1> SUFFICES Goal
  OBVIOUS
<1>1. "Inexact" \notin f.st /\ "Overflow" \notin f.st
  OBVIOUS
<1>2. r \in Decimals /\ (r.k = "fin" => r \in Numbers)
  <2>1. d \in Decimals
    BY DEF Decimals
  <2>2. r \in Decimals
    BY <2>1, FinalizeFits DEF Fitting
  <2> HIDE DEF r
  <2> QED
    BY <2>2, Kinds
<1>3. CASE d.c = 0
  <2>1. IsZero(r) /\ r.s = d.s
    BY <1>3, ZerosStay
  <2> HIDE DEF r
  <2>2. r \in Numbers /\ r.c = 0
    BY <1>2, <2>1 DEF IsZero
  <2>3. ASSUME NEW e \in Int, e <= d.e, e <= r.e
        PROVE  Part(r, e) = Part(d, e)
    BY <1>3, <2>2, <2>3, SignedIs
  <2> QED
    BY <2>1, <2>2, <2>3
<1>4. CASE d.c # 0
  <2> DEFINE x == Itself(d)
             q == LastPlace(x, ctx)
             at == RoundAt(x, q, ctx.round)
  <2>1. x \in Exacts /\ x.n > 0 /\ x.s = d.s /\ q \in Int
    BY <1>4, ItselfEnds
  <2>2. IsRounded(f, x, ctx)
    BY FinalizeRounds
  <2>3. SameNumber(r, at.n, q) /\ r.s = x.s /\ at.exact
    <3> HIDE DEF f, x
    <3> QED
      BY <1>1, <2>1, <2>2 DEF IsRounded
  <2>4. r \in Numbers /\ r.c \in Nat /\ r.e \in Int
    <3>1. r.k = "fin"
      BY <2>3 DEF SameNumber
    <3> HIDE DEF r
    <3> QED
      BY <1>2, <3>1, NumberFields
  <2>5. /\ at.n \in Nat
        /\ q <= d.e => at.n = Part(d, q)
        /\ d.e <= q => d.c = at.n * Pow10[q - d.e]
    <3>1. CASE q <= d.e
      <4>1. at.n = d.c * Pow10[d.e - q] /\ d.c * Pow10[d.e - q] \in Nat
        BY <1>4, <2>1, <3>1, AtExact
      <4>2. d.c \in Nat /\ d.e \in Int
        BY NumberFields
      <4> HIDE DEF at, q
      <4>3. d.e <= q => d.e = q /\ Pow10[d.e - q] = 1 /\ Pow10[q - d.e] = 1
        <5>1. d.e <= q => d.e = q /\ d.e - q = 0 /\ q - d.e = 0
          BY <2>1, <3>1, <4>2
        <5> QED
          BY <5>1, PowersAre
      <4>4. d.e <= q => d.c = at.n * Pow10[q - d.e]
        BY <4>1, <4>2, <4>3
      <4> QED
        BY <3>1, <4>1, <4>4 DEF Part
    <3>2. CASE q > d.e
      <4> DEFINE w == Pow10[q - d.e]
                 low == d.c \div w
      <4>1. /\ q >= d.e /\ ~(q <= d.e) /\ d.c \in Nat /\ q - d.e \in Nat
        BY <2>1, <3>2, NumberFields
      <4>2. Num(x, q) = d.c /\ Den(x, q) = w
        BY <2>1, <4>1, ItselfIs
      <4>3. w \in Nat \ {0}
        BY <4>1, PowersAre
      <4>4. at.exact <=> d.c % w = 0
        BY <4>2 DEF RoundAt
      <4>5. at.n = low
        <5>1. d.c % w = 0
          BY <2>3, <4>4
        <5>2. ~AwayFromZero(ctx.round, x.s, low, d.c % w, w)
          BY <5>1 DEF AwayFromZero
        <5> QED
          BY <4>2, <5>2 DEF RoundAt
      <4>6. low \in Nat /\ d.c = w * low + (d.c % w)
        BY <4>1, <4>3, QuotientsBound
      <4>7. d.c % w = 0
        BY <2>3, <4>4
      <4> HIDE DEF at, w, low
      <4>8. d.c = low * w
        BY <4>1, <4>3, <4>6, <4>7
      <4> QED
        BY <4>1, <4>5, <4>6, <4>8 DEF w
    <3> QED
      BY <2>1, <3>1, <3>2, NumberFields
  <2> HIDE DEF x, at, r, f, q
  <2> DEFINE n == at.n
  <2>6. ASSUME NEW e \in Int, e <= d.e, e <= r.e
        PROVE  Part(r, e) = Part(d, e)
    <3> DEFINE u == IF e <= q THEN e ELSE q
    <3>1. u \in Int /\ u <= e /\ u <= d.e /\ u <= r.e /\ u <= q
      BY <2>1, <2>4, <2>6, NumberFields
    <3> HIDE DEF u
    <3> DEFINE m == Fin(0, n, q)
    <3>2. m \in Numbers /\ m.c = n /\ m.e = q /\ m.s = 0
      BY <2>1, <2>5, FinFields
    <3> HIDE DEF m
    <3>3. Part(m, u) = Part(d, u)
      <4>1. CASE q <= d.e
        <5>1. Part(m, q) = n
          <6>1. q - q = 0
            BY <2>1
          <6> QED
            BY <2>5, <3>2, <6>1, PowersAre DEF Part
        <5>2. Part(m, u) = Pow10[q - u] * Part(m, q)
          <6>1. q <= m.e
            BY <2>1, <3>2
          <6> QED
            BY <2>1, <3>1, <3>2, <6>1, PartsScale
        <5>3. Part(d, u) = Pow10[q - u] * Part(d, q)
          BY <2>1, <3>1, <4>1, PartsScale
        <5> QED
          BY <2>5, <4>1, <5>1, <5>2, <5>3
      <4>2. CASE d.e <= q
        <5> DEFINE v == d.e
        <5>1. v \in Int
          BY NumberFields
        <5>2. Part(d, v) = d.c
          <6>1. v - v = 0 /\ d.c \in Nat
            BY <5>1, NumberFields
          <6> QED
            BY <6>1, PowersAre DEF Part
        <5>3. Part(m, v) = d.c
          BY <2>5, <3>2, <4>2 DEF Part
        <5>4. Part(m, u) = Pow10[v - u] * Part(m, v)
          BY <3>1, <3>2, <4>2, <5>1, PartsScale
        <5>5. Part(d, u) = Pow10[v - u] * Part(d, v)
          BY <3>1, <5>1, PartsScale
        <5> QED
          BY <5>2, <5>3, <5>4, <5>5
      <4> QED
        BY <2>1, <4>1, <4>2, NumberFields
    <3>4. Part(r, u) = Part(m, u)
      <4>1. /\ r.e >= q => r.c * Pow10[r.e - q] = n * Pow10[0]
            /\ r.e <= q => r.c * Pow10[0] = n * Pow10[q - r.e]
        <5>1. r.c * Pow10[Max({r.e - q, 0})] = n * Pow10[Max({q - r.e, 0})]
          BY <2>3 DEF SameNumber
        <5>2. /\ r.e - q \in Int /\ q - r.e \in Int
              /\ r.e >= q => r.e - q >= 0 /\ (q - r.e >= 0 => q - r.e = 0)
              /\ r.e <= q => q - r.e >= 0 /\ (r.e - q >= 0 => r.e - q = 0)
          BY <2>1, <2>4
        <5>3. /\ Max({r.e - q, 0}) = IF r.e - q >= 0 THEN r.e - q ELSE 0
              /\ Max({q - r.e, 0}) = IF q - r.e >= 0 THEN q - r.e ELSE 0
          BY <5>2, MaxOfTwo
        <5>4. CASE r.e >= q
          <6>1. Max({r.e - q, 0}) = r.e - q /\ Max({q - r.e, 0}) = 0
            BY <5>2, <5>3, <5>4
          <6>2. r.e <= q => r.e - q = 0 /\ q - r.e = 0
            BY <2>1, <2>4, <5>4
          <6> QED
            BY <5>1, <6>1, <6>2
        <5>5. CASE r.e <= q
          <6>1. Max({r.e - q, 0}) = 0 /\ Max({q - r.e, 0}) = q - r.e
            BY <5>2, <5>3, <5>5
          <6>2. r.e >= q => r.e - q = 0 /\ q - r.e = 0
            BY <2>1, <2>4, <5>5
          <6> QED
            BY <5>1, <6>1, <6>2
        <5> QED
          BY <2>1, <2>4, <5>4, <5>5
      <4>2. CASE q <= r.e
        <5>1. Part(m, q) = n * Pow10[0]
          <6>1. q - q = 0
            BY <2>1
          <6> QED
            BY <3>2, <6>1 DEF Part
        <5>2. Part(r, q) = n * Pow10[0]
          BY <2>1, <2>4, <4>1, <4>2 DEF Part
        <5>3. Part(m, u) = Pow10[q - u] * Part(m, q)
          <6>1. q <= m.e
            BY <2>1, <3>2
          <6> QED
            BY <2>1, <3>1, <3>2, <6>1, PartsScale
        <5>4. Part(r, u) = Pow10[q - u] * Part(r, q)
          BY <2>1, <2>4, <3>1, <4>2, PartsScale
        <5> QED
          BY <5>1, <5>2, <5>3, <5>4
      <4>3. CASE r.e <= q
        <5> DEFINE v == r.e
        <5>1. Part(r, v) = r.c * Pow10[0]
          <6>1. v - v = 0
            BY <2>4
          <6> QED
            BY <6>1 DEF Part
        <5>2. Part(m, v) = r.c * Pow10[0]
          BY <3>2, <4>1, <4>3 DEF Part
        <5>3. Part(m, u) = Pow10[v - u] * Part(m, v)
          BY <2>4, <3>1, <3>2, <4>3, PartsScale
        <5>4. Part(r, u) = Pow10[v - u] * Part(r, v)
          <6>1. v \in Int /\ v <= r.e
            BY <2>4
          <6> QED
            BY <2>4, <3>1, <6>1, PartsScale
        <5> QED
          BY <5>1, <5>2, <5>3, <5>4
      <4> QED
        BY <2>1, <2>4, <4>2, <4>3
    <3> DEFINE w == Pow10[e - u]
    <3>5. w \in Nat \ {0} /\ Part(r, u) = w * Part(r, e) /\ Part(d, u) = w * Part(d, e)
      BY <2>4, <2>6, <3>1, PartsScale
    <3>6. Part(r, e) \in Nat /\ Part(d, e) \in Nat
      BY <2>4, <2>6, SignedIs
    <3> HIDE DEF w
    <3> DEFINE y == Part(r, e)
               z == Part(d, e)
    <3>7. w * y = w * z /\ y \in Int /\ z \in Int
      <4>1. w * y = w * z
        BY <3>3, <3>4, <3>5
      <4>2. y \in Int /\ z \in Int
        BY <3>6
      <4> QED
        BY <4>1, <4>2
    <3> HIDE DEF y, z
    <3>8. y = z
      BY <3>5, <3>7, TimesCompare
    <3> QED
      BY <3>8 DEF y, z
  <2> QED
    BY <2>1, <2>3, <2>4, <2>6 DEF r, f
<1> QED
  BY <1>3, <1>4, NumberFields

\* A product divided by one of its factors.
LEMMA Multiples ==
  ASSUME NEW d \in Nat \ {0}, NEW k \in Nat
  PROVE  (d * k) \div d = k /\ (d * k) % d = 0
<1> DEFINE x == d * k
<1>1. x \in Nat /\ x = d * k + 0 /\ 0 \in 0..(d - 1)
  OBVIOUS
<1> HIDE DEF x
<1>2. x \div d = k
  BY <1>1, QuotientIs
<1>3. x = d * (x \div d) + (x % d) /\ x % d \in 0..(d - 1)
  BY <1>1, QuotientsBound
<1> DEFINE y == x % d
           p == d * k
<1>4. x = p + 0 /\ x = p + y /\ y \in Nat /\ p \in Nat
  BY <1>1, <1>2, <1>3
<1> HIDE DEF y, p
<1>5. y = 0
  BY <1>4
<1> QED
  BY <1>2, <1>5 DEF y, x

\* How many times the divisor lies between a number and what is left of it.
LEMMA RemainderIs ==
  ASSUME NEW a \in Numbers, NEW b \in Numbers, b.c # 0, NEW r \in Numbers, NEW k \in Nat,
         NEW e, e = Min({Unit(a, b), r.e}),
         \/ r.s = a.s /\ Part(a, e) = Part(b, e) * k + Part(r, e)
         \/ r.s # a.s /\ Part(a, e) + Part(r, e) = Part(b, e) * k
  PROVE  WholeTimes(a, b, r) /\ Whole(a, b, r) = k
<1>1. e \in Int /\ e <= a.e /\ e <= b.e /\ e <= r.e
  <2> DEFINE u == Unit(a, b)
  <2>1. a.e \in Int /\ b.e \in Int /\ r.e \in Int
    BY NumberFields
  <2>2. u = IF a.e <= b.e THEN a.e ELSE b.e
    BY <2>1, MinOfTwo DEF Unit
  <2> HIDE DEF u
  <2>3. u \in Int /\ u <= a.e /\ u <= b.e
    BY <2>1, <2>2
  <2>4. e = IF u <= r.e THEN u ELSE r.e
    BY <2>1, <2>3, MinOfTwo DEF u
  <2>5. CASE u <= r.e
    <3>1. e = u
      BY <2>4, <2>5
    <3> QED
      BY <2>3, <2>5, <3>1
  <2>6. CASE ~(u <= r.e)
    <3>1. e = r.e
      BY <2>4, <2>6
    <3>2. r.e <= a.e /\ r.e <= b.e /\ r.e <= r.e
      BY <2>1, <2>3, <2>6
    <3> QED
      BY <2>1, <3>1, <3>2
  <2> QED
    BY <2>5, <2>6
<1> DEFINE n == Part(a, e)
           d == Part(b, e)
           p == Part(r, e)
<1>2. /\ n \in Nat /\ d \in Nat /\ d > 0 /\ p \in Nat
      /\ Signed(a, e) = IF a.s = 1 THEN -n ELSE n
      /\ Signed(b, e) = IF b.s = 1 THEN -d ELSE d
      /\ Signed(r, e) = IF r.s = 1 THEN -p ELSE p
      /\ a.s \in {0, 1} /\ r.s \in {0, 1}
  BY <1>1, SignedIs, NumberFields
<1>3. \/ r.s = a.s /\ n = d * k + p
      \/ r.s # a.s /\ n + p = d * k
  OBVIOUS
<1>4. d * k \in Nat
  BY <1>2
<1> DEFINE m == d * k
           sa == Signed(a, e)
           sr == Signed(r, e)
           sb == Signed(b, e)
<1>5. Magnitude(sb) = d
  <2> HIDE DEF d, sb
  <2>1. sb = d \/ sb = -d
    BY <1>2 DEF sb
  <2> QED
    BY <1>2, <2>1 DEF Magnitude
<1>6. Magnitude(sa - sr) = m
  <2>1. /\ n \in Nat /\ p \in Nat /\ m \in Nat
        /\ sa = (IF a.s = 1 THEN -n ELSE n) /\ sr = (IF r.s = 1 THEN -p ELSE p)
        /\ a.s \in {0, 1} /\ r.s \in {0, 1}
    BY <1>2, <1>4
  <2>2. (r.s = a.s /\ n = m + p) \/ (r.s # a.s /\ n + p = m)
    BY <1>3
  <2> HIDE DEF m, sa, sr, n, d, p
  <2>3. sa - sr = m \/ sa - sr = -m
    BY <2>1, <2>2
  <2> QED
    BY <2>1, <2>3 DEF Magnitude
<1>7. m \div d = k /\ m % d = 0
  BY <1>2, Multiples
<1> HIDE DEF m, d, sa, sr, sb
<1>8. WholeTimes(a, b, r) <=> Magnitude(sa - sr) % Magnitude(sb) = 0
  BY DEF WholeTimes, sa, sr, sb
<1>9. Whole(a, b, r) = Magnitude(sa - sr) \div Magnitude(sb)
  BY DEF Whole, sa, sr, sb
<1> QED
  BY <1>5, <1>6, <1>7, <1>8, <1>9

\* What is left of a number after taking the divisor off k times.
Leaves(a, b, k, y) ==
  LET n == Part(a, Unit(a, b))
      d == Part(b, Unit(a, b))
  IN /\ y \in Numbers /\ y.e = Unit(a, b)
     /\ \/ y.s = a.s /\ n = d * k + y.c
        \/ y.s # a.s /\ n + y.c = d * k

\* It is that also as the context has it, unless something was lost.
LEMMA LeftOver ==
  ASSUME NEW ctx, ContextOK(ctx), ctx.round \in Roundings,
         NEW a \in Numbers, NEW b \in Numbers, b.c # 0, NEW k \in Nat, NEW y,
         Leaves(a, b, k, y),
         "Inexact" \notin Finalize(y, ctx).st, "Overflow" \notin Finalize(y, ctx).st
  PROVE  LET r == Finalize(y, ctx).d
             d == Part(b, Unit(a, b))
         IN /\ r \in Numbers /\ r.s = y.s
            /\ WholeTimes(a, b, r) /\ Whole(a, b, r) = k
            /\ CmpAbs(r, b) = Sgn(y.c - d)
            /\ CmpAbs(Doubled(r), b) = Sgn(2 * y.c - d)
<1> DEFINE r == Finalize(y, ctx).d
           u == Unit(a, b)
           n == Part(a, u)
           d == Part(b, u)
           Goal == /\ r \in Numbers /\ r.s = y.s
                   /\ WholeTimes(a, b, r) /\ Whole(a, b, r) = k
                   /\ CmpAbs(r, b) = Sgn(y.c - d)
                   /\ CmpAbs(Doubled(r), b) = Sgn(2 * y.c - d)
<1> SUFFICES Goal
  OBVIOUS
<1>1. /\ y \in Numbers /\ y.e = u /\ y.c \in Nat
      /\ \/ y.s = a.s /\ n = d * k + y.c
         \/ y.s # a.s /\ n + y.c = d * k
  BY NumberFields DEF Leaves
<1>2. /\ r \in Numbers /\ r.s = y.s /\ r.e \in Int /\ r.c \in Nat
      /\ \A e \in Int : e <= y.e /\ e <= r.e => Part(r, e) = Part(y, e)
  <2>1. /\ r \in Numbers /\ r.s = y.s
        /\ \A e \in Int : e <= y.e /\ e <= r.e => Part(r, e) = Part(y, e)
    BY <1>1, KeptIs
  <2> HIDE DEF r
  <2> QED
    BY <2>1, NumberFields
<1>3. u \in Int /\ u <= a.e /\ u <= b.e /\ n \in Nat /\ d \in Nat \ {0}
  BY Units DEF Unit
<1> DEFINE e == Min({Unit(a, b), r.e})
<1>4. e \in Int /\ e <= u /\ e <= r.e
  <2> HIDE DEF r, u
  <2>1. Min({u, r.e}) = IF u <= r.e THEN u ELSE r.e
    BY <1>2, <1>3, MinOfTwo
  <2> QED
    BY <1>2, <1>3, <2>1 DEF u
<1> HIDE DEF r, u, e, n, d
<1> DEFINE t == Pow10[u - e]
<1>5. t \in Nat \ {0} /\ Part(a, e) = t * n /\ Part(b, e) = t * d
  BY <1>3, <1>4, PartsScale DEF n, d
<1>6. Part(r, e) = t * y.c
  <2>1. Part(r, e) = Part(y, e)
    BY <1>1, <1>2, <1>4
  <2>2. Part(y, e) = t * Part(y, u)
    <3>1. u <= y.e
      BY <1>1, <1>3
    <3> QED
      BY <1>1, <1>3, <1>4, <3>1, PartsScale
  <2>3. Part(y, u) = y.c
    <3>1. y.e - u = 0 /\ y.c * 1 = y.c
      BY <1>1, <1>3
    <3> QED
      BY <3>1, PowersAre DEF Part
  <2> QED
    BY <2>1, <2>2, <2>3
<1> HIDE DEF t
<1>7. WholeTimes(a, b, r) /\ Whole(a, b, r) = k
  <2>1. CASE y.s = a.s /\ n = d * k + y.c
    <3>1. t * (d * k + y.c) = (t * d) * k + t * y.c
      BY <1>1, <1>3, <1>5
    <3>2. r.s = a.s /\ Part(a, e) = Part(b, e) * k + Part(r, e)
      BY <1>2, <1>5, <1>6, <2>1, <3>1
    <3> QED
      BY <1>2, <3>2, RemainderIs DEF e
  <2>2. CASE y.s # a.s /\ n + y.c = d * k
    <3> DEFINE c == y.c
    <3>0. c \in Nat /\ n + c = d * k
      BY <1>1, <2>2
    <3> HIDE DEF c
    <3>1. t * (n + c) = t * n + t * c /\ t * (d * k) = (t * d) * k
      BY <1>3, <1>5, <3>0
    <3>2. r.s # a.s /\ Part(a, e) + Part(r, e) = Part(b, e) * k
      BY <1>2, <1>5, <1>6, <2>2, <3>0, <3>1 DEF c
    <3> QED
      BY <1>2, <3>2, RemainderIs DEF e
  <2> QED
    BY <1>1, <2>1, <2>2
<1>8. ASSUME NEW x \in Numbers, x.e = r.e, NEW c \in Nat, Part(x, e) = t * c
      PROVE  CmpAbs(x, b) = Sgn(c - d)
  <2>1. e <= x.e /\ e <= b.e
    BY <1>3, <1>4, <1>8, NumberFields
  <2>2. CmpAbs(x, b) = Sgn(t * c - t * d)
    BY <1>4, <1>5, <1>8, <2>1, CmpAbsIs
  <2>3. /\ t * c \in Int /\ t * d \in Int /\ (t * c <= t * d <=> c <= d)
        /\ (t * c = t * d <=> c = d)
    BY <1>3, <1>5, <1>8, TimesCompare
  <2> DEFINE v == t * c
             w == t * d
  <2>4. v \in Int /\ w \in Int /\ (v <= w <=> c <= d) /\ (v = w <=> c = d)
    BY <2>3
  <2> HIDE DEF v, w
  <2>5. Sgn(v - w) = Sgn(c - d)
    BY <1>3, <1>8, <2>4 DEF Sgn
  <2> QED
    BY <2>2, <2>5 DEF v, w
<1>9. CmpAbs(r, b) = Sgn(y.c - d)
  BY <1>1, <1>2, <1>6, <1>8
<1>10. CmpAbs(Doubled(r), b) = Sgn(2 * y.c - d)
  <2>1. Doubled(r) = Fin(r.s, 2 * r.c, r.e)
    BY <1>2 DEF Doubled, Numbers, Fin
  <2>2. 2 * r.c \in Nat /\ r.s \in {0, 1} /\ r.e \in Int
    BY <1>2, NumberFields
  <2>3. Doubled(r) \in Numbers /\ Doubled(r).e = r.e /\ Doubled(r).c = 2 * r.c
    <3> DEFINE x == 2 * r.c
    <3>1. x \in Nat
      BY <2>2
    <3> HIDE DEF x
    <3>2. LET f == Fin(r.s, x, r.e) IN f \in Numbers /\ f.e = r.e /\ f.c = x
      BY <2>2, <3>1, FinFields
    <3> QED
      BY <2>1, <3>2 DEF x
  <2>4. Part(Doubled(r), e) = t * (2 * y.c)
    <3> DEFINE p == Pow10[r.e - e]
    <3>1. p \in Nat
      BY <1>2, <1>4, PowersAre
    <3>2. Part(Doubled(r), e) = (2 * r.c) * p /\ Part(r, e) = r.c * p
      BY <2>3 DEF Part
    <3> HIDE DEF p
    <3>3. (2 * r.c) * p = 2 * (r.c * p) /\ 2 * (t * y.c) = t * (2 * y.c)
      BY <1>1, <1>2, <1>5, <3>1
    <3> QED
      BY <1>6, <3>2, <3>3
  <2>5. 2 * y.c \in Nat
    BY <1>1
  <2> QED
    BY <1>8, <2>3, <2>4, <2>5
<1> QED
  BY <1>2, <1>7, <1>9, <1>10

\* The integral part of a quotient.
Integral(a, b) == Num(QuotientOf(a, b), 0) \div Den(QuotientOf(a, b), 0)

LEMMA DivModCases ==
  ASSUME NEW ctx, ContextOK(ctx), NEW a \in Numbers, NEW b \in Numbers, b.c # 0
  PROVE  LET i == Integral(a, b)
             m == DivMod(a, b, ctx)
         IN /\ i \in Nat
            /\ IF Digits(i) > ctx.prec THEN m = NaNPair({"Division_impossible"})
               ELSE /\ m.st = {} /\ m.q = Fin(Xor(a.s, b.s), i, 0)
                    /\ m.r \in Numbers /\ m.r.s = a.s
                    /\ Leaves(a, b, i, m.r)
                    /\ m.r.c < Part(b, Unit(a, b))
<1> DEFINE e == Min({a.e, b.e})
           n == Part(a, e)
           d == Part(b, e)
           i == Integral(a, b)
           m == DivMod(a, b, ctx)
           Goal == /\ i \in Nat
                   /\ IF Digits(i) > ctx.prec THEN m = NaNPair({"Division_impossible"})
                      ELSE /\ m.st = {} /\ m.q = Fin(Xor(a.s, b.s), i, 0)
                           /\ m.r \in Numbers /\ m.r.s = a.s
                           /\ Leaves(a, b, i, m.r)
                           /\ m.r.c < d
<1>1. Unit(a, b) = e
  BY DEF Unit
<1> SUFFICES Goal
  BY <1>1
<1>2. n \in Nat /\ d \in Nat \ {0} /\ i = n \div d /\ e \in Int /\ a.s \in {0, 1}
  BY Units, NumberFields DEF Integral
<1>3. m = IF Digits(n \div d) > ctx.prec THEN NaNPair({"Division_impossible"})
          ELSE Pair(Fin(Xor(a.s, b.s), n \div d, 0), Fin(a.s, n % d, e), {})
  BY DivModIs
<1> HIDE DEF e, n, d, i, m
<1>4. n \div d \in Nat /\ n % d \in 0..(d - 1) /\ n = d * (n \div d) + (n % d)
  BY <1>2, QuotientsBound
<1> DEFINE y == Fin(a.s, n % d, e)
<1>5. y \in Numbers /\ y.s = a.s /\ y.c = n % d /\ y.e = e
  <2>1. n % d \in Nat
    BY <1>2, <1>4
  <2> QED
    BY <1>2, <2>1, FinFields
<1> HIDE DEF y
<1>6. CASE Digits(i) > ctx.prec
  BY <1>2, <1>3, <1>4, <1>6
<1>7. CASE ~(Digits(i) > ctx.prec)
  <2>1. m = Pair(Fin(Xor(a.s, b.s), i, 0), y, {})
    BY <1>2, <1>3, <1>7 DEF y
  <2>2. m.st = {} /\ m.q = Fin(Xor(a.s, b.s), i, 0) /\ m.r = y
    BY <2>1 DEF Pair
  <2>3. Leaves(a, b, i, y)
    BY <1>1, <1>2, <1>4, <1>5 DEF Leaves, n, d
  <2>4. y.c < d
    BY <1>2, <1>4, <1>5
  <2> QED
    BY <1>2, <1>4, <1>5, <1>7, <2>2, <2>3, <2>4
<1> QED
  BY <1>6, <1>7

\* The remainder on the other side of a multiple of the divisor.
LEMMA OtherSide ==
  ASSUME NEW ctx, ContextOK(ctx), NEW a \in Numbers, NEW b \in Numbers, b.c # 0,
         NEW i \in Nat, NEW y, Leaves(a, b, i, y), y.s = a.s, y.c # 0,
         y.c < Part(b, Unit(a, b)), AdjExp(b) - AdjExp(y) \in -1..1
  PROVE  LET t == IF a.s = b.s THEN Negate(b) ELSE b
             o == AddSub(y, t, ctx)
             d == Part(b, Unit(a, b))
         IN /\ Leaves(a, b, i + 1, o) /\ o.c = d - y.c
            /\ CmpAbs(o, y) = Sgn((d - y.c) - y.c)
<1> DEFINE t == IF a.s = b.s THEN Negate(b) ELSE b
           o == AddSub(y, t, ctx)
           u == Unit(a, b)
           n == Part(a, u)
           d == Part(b, u)
<1>1. /\ y \in Numbers /\ y.e = u /\ y.c \in Nat /\ a.s \in {0, 1} /\ b.s \in {0, 1}
      /\ n = d * i + y.c /\ y.c < d
  BY NumberFields DEF Leaves
<1>2. /\ u \in Int /\ u <= b.e /\ n \in Nat /\ d \in Nat \ {0}
      /\ d = ShiftL(b.c, b.e - u)
  BY Units DEF Unit
<1>3. /\ t \in Numbers /\ t.s = 1 - a.s /\ t.c = b.c /\ t.e = b.e
      /\ AdjExp(t) = AdjExp(b)
  <2>1. CASE a.s = b.s
    <3>1. Negate(b) \in Numbers /\ Negate(b) = Fin(1 - b.s, b.c, b.e)
      BY NegateNumber
    <3>2. 1 - b.s \in {0, 1} /\ b.c \in Nat /\ b.e \in Int
      BY <1>1, NumberFields
    <3>3. LET f == Fin(1 - b.s, b.c, b.e)
          IN f.s = 1 - b.s /\ f.c = b.c /\ f.e = b.e /\ AdjExp(f) = b.e + Digits(b.c) - 1
      BY <3>2, FinFields
    <3> QED
      BY <2>1, <3>1, <3>3, NumberFields
  <2>2. CASE a.s # b.s
    BY <1>1, <2>2
  <2> QED
    BY <2>1, <2>2
<1> HIDE DEF t
<1>4. ctx.prec \in Nat \ {0}
  BY DEF ContextOK
<1>5. ASSUME NEW x \in Numbers, NEW z \in Numbers, z.c # 0, AdjExp(z) - AdjExp(x) <= 1
      PROVE  Tiny(x, z, ctx) = x
  <2> DEFINE h == z.e - 1 + IF Digits(z.c) > ctx.prec THEN 0
                            ELSE Digits(z.c) - ctx.prec - 1
  <2>1. /\ z.e \in Int /\ Digits(z.c) \in Nat \ {0} /\ AdjExp(x) \in Int
        /\ AdjExp(z) = z.e + Digits(z.c) - 1
    BY NumberFields
  <2>2. ~(AdjExp(x) < h)
    BY <1>4, <1>5, <2>1
  <2> QED
    BY <2>2 DEF Tiny
<1>6. AdjExp(b) - AdjExp(y) <= 1 /\ AdjExp(y) - AdjExp(b) <= 1
  <2>1. AdjExp(b) \in Int /\ AdjExp(y) \in Int
    BY <1>1, NumberFields
  <2> QED
    BY <2>1
<1>7. o = AddAligned(y, t, ctx)
  <2>1. Tiny(y, t, ctx) = y
    BY <1>1, <1>3, <1>5, <1>6
  <2>2. Tiny(t, y, ctx) = t
    BY <1>1, <1>3, <1>5, <1>6
  <2> QED
    BY <2>1, <2>2 DEF AddSub
<1>8. o = Fin(1 - a.s, d - y.c, u)
  <2>1. Min({y.e, t.e}) = u
    <3>1. y.e \in Int /\ t.e \in Int /\ y.e <= t.e
      BY <1>1, <1>2, <1>3, NumberFields
    <3> QED
      BY <1>1, <3>1, MinOfTwo
  <2>2. ShiftL(y.c, y.e - u) = y.c
    <3>1. y.e - u = 0 /\ y.c * 1 = y.c
      BY <1>1, <1>2
    <3> QED
      BY <3>1, PowersAre DEF ShiftL
  <2>3. o = SignedSum(a.s, y.c, 1 - a.s, d, u, ctx)
    BY <1>2, <1>3, <1>7, <2>1, <2>2 DEF AddAligned
  <2> HIDE DEF o, u, d
  <2>4. a.s # 1 - a.s /\ y.c # d /\ ~(y.c > d)
    BY <1>1, <1>2
  <2> QED
    BY <2>3, <2>4 DEF SignedSum
<1> HIDE DEF o, u, d, n
<1>9. o \in Numbers /\ o.s = 1 - a.s /\ o.c = d - y.c /\ o.e = u /\ o.c \in Nat
  <2> DEFINE c == d - y.c
             g == 1 - a.s
  <2>1. c \in Nat /\ g \in {0, 1}
    BY <1>1, <1>2
  <2> HIDE DEF c, g
  <2>2. o = Fin(g, c, u)
    BY <1>8 DEF c, g
  <2> QED
    BY <1>2, <2>1, <2>2, FinFields DEF c, g
<1>10. Leaves(a, b, i + 1, o)
  <2>1. n + o.c = d * (i + 1)
    BY <1>1, <1>2, <1>9
  <2>2. o.s # a.s
    BY <1>1, <1>9
  <2> QED
    BY <1>9, <2>1, <2>2 DEF Leaves, u, n, d
<1>11. CmpAbs(o, y) = Sgn(o.c - y.c)
  <2>1. u <= o.e /\ u <= y.e /\ y.e - u = 0 /\ o.e - u = 0
    BY <1>1, <1>2, <1>9
  <2>2. CmpAbs(o, y) = Sgn(Part(o, u) - Part(y, u))
    BY <1>1, <1>2, <1>9, <2>1, CmpAbsIs
  <2>3. Part(o, u) = o.c /\ Part(y, u) = y.c
    <3>1. o.c * 1 = o.c /\ y.c * 1 = y.c
      BY <1>1, <1>9
    <3> QED
      BY <2>1, <3>1, PowersAre DEF Part
  <2> QED
    BY <2>2, <2>3
<1> QED
  BY <1>9, <1>10, <1>11 DEF o, t, u, d

\* No other multiple of the divisor is nearer than the one below it.
LEMMA KeepsNearest ==
  ASSUME NEW y \in Numbers, NEW b \in Numbers, b.c # 0, NEW u \in Int, u = y.e, u <= b.e,
         y.c < Part(b, u), y.c = 0 \/ AdjExp(b) - AdjExp(y) \notin -1..1
  PROVE  2 * y.c < Part(b, u)
<1> DEFINE d == Part(b, u)
<1>1. /\ d \in Nat \ {0} /\ y.c \in Nat /\ y.e \in Int /\ b.e \in Int /\ b.c \in Nat
      /\ AdjExp(y) = y.e + Digits(y.c) - 1 /\ AdjExp(b) = b.e + Digits(b.c) - 1
      /\ Digits(y.c) \in Nat \ {0} /\ Digits(b.c) \in Nat \ {0}
      /\ b.e - u \in Nat
  BY SignedIs, NumberFields
<1>2. CASE y.c = 0
  BY <1>1, <1>2
<1>3. CASE y.c # 0
  <2>1. Digits(d) = Digits(b.c) + (b.e - u)
    <3>1. b.c \in Nat /\ b.c > 0 /\ b.e - u \in Nat
      BY <1>1
    <3> QED
      BY <3>1, DigitsShiftLeft DEF Part
  <2>a. d \in Nat \ {0} /\ y.c \in Nat /\ y.c > 0
    BY <1>1, <1>3
  <2> HIDE DEF d
  <2>2. Digits(d) - Digits(y.c) = AdjExp(b) - AdjExp(y)
    <3>1. u = y.e
      OBVIOUS
    <3> QED
      BY <1>1, <2>1, <3>1
  <2>3. ~(Digits(d) < Digits(y.c))
    <3>1. y.c < d
      BY DEF d
    <3>2. Digits(d) < Digits(y.c) => d < y.c
      BY <2>a, DigitsDivide
    <3> QED
      BY <2>a, <3>1, <3>2
  <2>4. Digits(d) \in Nat /\ AdjExp(b) - AdjExp(y) \notin -1..1
    BY <1>1, <1>3, DigitsAre
  <2>5. Digits(d) - Digits(y.c) > 1
    <3> DEFINE v == Digits(d)
               w == Digits(y.c)
    <3>1. v \in Nat /\ w \in Nat /\ ~(v < w) /\ v - w \notin -1..1
      BY <1>1, <2>2, <2>3, <2>4
    <3> HIDE DEF v, w
    <3>2. v - w > 1
      BY <3>1
    <3> QED
      BY <3>2 DEF v, w
  <2>6. Digits(y.c * Pow10[1]) = Digits(y.c) + 1 /\ y.c * Pow10[1] \in Nat
    BY <2>a, DigitsShiftLeft
  <2>7. Digits(y.c * Pow10[1]) < Digits(d)
    BY <1>1, <2>4, <2>5, <2>6
  <2>8. y.c * Pow10[1] < d
    BY <1>1, <2>6, <2>7, DigitsDivide
  <2>9. y.c * Pow10[1] = 10 * y.c
    BY <1>1, PowersAre
  <2> QED
    BY <1>1, <2>8, <2>9 DEF d
<1> QED
  BY <1>2, <1>3

\* A number is never finalized to a NaN.
LEMMA FinalizeNoNaN ==
  ASSUME NEW ctx, ContextOK(ctx), ctx.round \in Roundings, NEW d \in Numbers
  PROVE  ~IsNaN(Finalize(d, ctx).d)
<1> DEFINE f == Finalize(d, ctx)
<1>1. CASE d.c = 0
  <2>1. IsZero(f.d)
    BY <1>1, ZerosStay
  <2> HIDE DEF f
  <2>2. f.d.k = "fin"
    BY <2>1 DEF IsZero
  <2> QED
    BY <2>2 DEF IsNaN, f
<1>2. CASE d.c # 0
  <2> DEFINE x == Itself(d)
  <2>1. IsRounded(f, x, ctx) /\ x.n # 0 /\ x.s \in {0, 1}
    BY <1>2, FinalizeRounds, ItselfEnds, NumberFields
  <2> HIDE DEF f, x
  <2>2. \/ f.d = Fin(x.s, MaxCoeff(ctx), Etop(ctx))
        \/ f.d = Inf(x.s)
        \/ f.d.k = "fin"
    BY <2>1 DEF IsRounded, SameNumber
  <2>3. f.d.k \in {"fin", "inf"}
    BY <2>2 DEF Fin, Inf, Special
  <2> QED
    BY <2>3 DEF IsNaN, f
<1> QED
  BY <1>1, <1>2

Lost(st) == st \cap {"Inexact", "Overflow"} # {}

LEMMA QuotientIsIntegral ==
  ASSUME NEW ctx, ContextOK(ctx), ctx.round \in Roundings,
         NEW a \in Numbers, NEW b \in Numbers, b.c # 0,
         Digits(Integral(a, b)) <= ctx.prec
  PROVE  LET f == Finalize(DivMod(a, b, ctx).q, ctx)
         IN /\ ~IsNaN(f.d)
            /\ ~Lost(f.st) =>
                 SameNumber(f.d, Integral(a, b), 0) /\ f.d.s = Xor(a.s, b.s)
<1> DEFINE i == Integral(a, b)
           y == Fin(Xor(a.s, b.s), i, 0)
           f == Finalize(y, ctx)
           r == f.d
           Goal == /\ ~IsNaN(r)
                   /\ ~Lost(f.st) => SameNumber(r, i, 0) /\ r.s = Xor(a.s, b.s)
<1>1. i \in Nat /\ ~(Digits(i) > ctx.prec)
  <2>1. i \in Nat /\ Digits(i) <= ctx.prec
    BY DivModCases
  <2>2. Digits(i) \in Nat /\ ctx.prec \in Nat
    BY <2>1, DigitsAre DEF ContextOK
  <2> QED
    BY <2>1, <2>2
<1>2. DivMod(a, b, ctx).q = y
  BY <1>1, DivModCases
<1> HIDE DEF i
<1> SUFFICES Goal
  BY <1>2 DEF i
<1>3. y \in Numbers /\ y.s = Xor(a.s, b.s) /\ y.c = i /\ y.e = 0
  <2>1. Xor(a.s, b.s) \in {0, 1}
    BY XorType, NumberFields
  <2> QED
    BY <1>1, <2>1, FinFields
<1> HIDE DEF y
<1>4. ~IsNaN(r)
  BY <1>3, FinalizeNoNaN
<1>5. ASSUME ~Lost(f.st)
      PROVE  SameNumber(r, i, 0) /\ r.s = Xor(a.s, b.s)
  <2>1. /\ r \in Numbers /\ r.s = y.s
        /\ \A e \in Int : e <= y.e /\ e <= r.e => Part(r, e) = Part(y, e)
    BY <1>3, <1>5, KeptIs DEF Lost
  <2> HIDE DEF r
  <2>2. r.e \in Int /\ r.k = "fin" /\ r.c \in Nat
    BY <2>1, NumberFields
  <2>3. Max({r.e - 0, 0}) = (IF r.e >= 0 THEN r.e ELSE 0)
    BY <2>2, MaxOfTwo
  <2>4. Max({0 - r.e, 0}) = (IF r.e >= 0 THEN 0 ELSE -r.e)
    <3>1. 0 - r.e \in Int /\ (0 - r.e >= 0 <=> r.e <= 0) /\ 0 - r.e = -r.e
      BY <2>2
    <3>2. Max({0 - r.e, 0}) = IF 0 - r.e >= 0 THEN 0 - r.e ELSE 0
      BY <3>1, MaxOfTwo
    <3> QED
      BY <2>2, <3>1, <3>2
  <2>5. r.c * Pow10[Max({r.e - 0, 0})] = i * Pow10[Max({0 - r.e, 0})]
    <3>1. CASE r.e >= 0
      <4>1. Part(r, 0) = Part(y, 0)
        BY <1>3, <2>1, <2>2, <3>1
      <4>2. r.e - 0 = r.e /\ 0 - 0 = 0
        BY <2>2
      <4> QED
        BY <1>3, <2>3, <2>4, <3>1, <4>1, <4>2 DEF Part
    <3>2. CASE ~(r.e >= 0)
      <4>1. r.e <= 0 /\ r.e <= r.e /\ r.e - r.e = 0 /\ 0 - r.e = -r.e
        BY <2>2, <3>2
      <4>2. Part(r, r.e) = Part(y, r.e)
        BY <1>3, <2>1, <2>2, <4>1
      <4> QED
        BY <1>3, <2>3, <2>4, <3>2, <4>1, <4>2 DEF Part
    <3> QED
      BY <3>1, <3>2
  <2> QED
    BY <1>3, <2>1, <2>2, <2>5 DEF SameNumber
<1> QED
  BY <1>4, <1>5

LEMMA RemainderIsLeft ==
  ASSUME NEW ctx, ContextOK(ctx), ctx.round \in Roundings,
         NEW a \in Numbers, NEW b \in Numbers, b.c # 0,
         Digits(Integral(a, b)) <= ctx.prec
  PROVE  LET f == Finalize(DivMod(a, b, ctx).r, ctx)
         IN /\ ~IsNaN(f.d)
            /\ ~Lost(f.st) =>
                 /\ WholeTimes(a, b, f.d) /\ Whole(a, b, f.d) = Integral(a, b)
                 /\ CmpAbs(f.d, b) < 0 /\ f.d.s = a.s
<1> DEFINE i == Integral(a, b)
           y == DivMod(a, b, ctx).r
           d == Part(b, Unit(a, b))
<1>1. i \in Nat /\ ~(Digits(i) > ctx.prec)
  <2>1. i \in Nat /\ Digits(i) <= ctx.prec
    BY DivModCases
  <2>2. Digits(i) \in Nat /\ ctx.prec \in Nat
    BY <2>1, DigitsAre DEF ContextOK
  <2> QED
    BY <2>1, <2>2
<1>2. y \in Numbers /\ y.s = a.s /\ Leaves(a, b, i, y) /\ y.c < d
  BY <1>1, DivModCases
<1>3. y.c \in Nat /\ d \in Nat
  <2>1. y.c \in Nat
    BY <1>2, NumberFields
  <2>2. d \in Nat
    BY Units DEF Unit
  <2> QED
    BY <2>1, <2>2
<1> HIDE DEF i, y, d
<1>4. ~IsNaN(Finalize(y, ctx).d)
  BY <1>2, FinalizeNoNaN
<1>5. ASSUME ~Lost(Finalize(y, ctx).st)
      PROVE  LET r == Finalize(y, ctx).d
             IN WholeTimes(a, b, r) /\ Whole(a, b, r) = i /\ CmpAbs(r, b) < 0 /\ r.s = a.s
  <2> DEFINE r == Finalize(y, ctx).d
  <2>1. /\ r.s = y.s /\ WholeTimes(a, b, r) /\ Whole(a, b, r) = i
        /\ CmpAbs(r, b) = Sgn(y.c - d)
    BY <1>1, <1>2, <1>5, LeftOver DEF Lost, d
  <2> HIDE DEF r
  <2>2. Sgn(y.c - d) < 0
    BY <1>2, <1>3 DEF Sgn
  <2> QED
    BY <1>2, <2>1, <2>2 DEF r
<1> QED
  BY <1>4, <1>5 DEF i, y

\* mpd_qrem_near takes the nearer remainder, and the one of the even
\* quotient of two that are as near.
LEMMA NearestIs ==
  ASSUME NEW ctx, ContextOK(ctx), ctx.round \in Roundings,
         NEW a \in Numbers, NEW b \in Numbers, b.c # 0
  PROVE  LET i == Integral(a, b)
             n == QRemNear(a, b, ctx)
         IN IF IsNaN(n.d)
            THEN /\ "Division_impossible" \in n.st
                 /\ Digits(i) > ctx.prec \/ i = MaxCoeff(ctx)
            ELSE ~Lost(n.st) =>
                   /\ WholeTimes(a, b, n.d)
                   /\ \/ CmpAbs(Doubled(n.d), b) < 0
                      \/ CmpAbs(Doubled(n.d), b) = 0 /\ Whole(a, b, n.d) % 2 = 0
<1> DEFINE i == Integral(a, b)
           n == QRemNear(a, b, ctx)
           m == DivMod(a, b, ctx)
           t == IF a.s = b.s THEN Negate(b) ELSE b
           o == AddSub(m.r, t, MaxCtx)
           d == Part(b, Unit(a, b))
           Goal == IF IsNaN(n.d)
                   THEN /\ "Division_impossible" \in n.st
                        /\ Digits(i) > ctx.prec \/ i = MaxCoeff(ctx)
                   ELSE ~Lost(n.st) =>
                     /\ WholeTimes(a, b, n.d)
                     /\ \/ CmpAbs(Doubled(n.d), b) < 0
                        \/ CmpAbs(Doubled(n.d), b) = 0 /\ Whole(a, b, n.d) % 2 = 0
<1> SUFFICES Goal
  OBVIOUS
<1>1. n = Nearer(b, m, o, ctx)
  <2>1. ~IsSpecial(a) /\ ~IsSpecial(b)
    BY NumberFields
  <2> QED
    BY <2>1 DEF QRemNear, NeedsRemSpecial, NearerSide
<1> DEFINE diff == AdjExp(b) - AdjExp(m.r)
           over == OtherIsNearer(CmpAbs(o, m.r), m.q)
           stays == IsNaN(m.r) \/ m.r.c = 0 \/ diff \notin -1..1 \/ ~over
           nines == CoeffIsAllNine(m.q.c) /\ Digits(m.q.c) = ctx.prec
<1>2. n = IF stays THEN FinalizedPart(m, m.r, ctx)
          ELSE IF nines THEN SetError("Division_impossible")
          ELSE FinalizedPart(m, o, ctx)
  BY <1>1 DEF Nearer
<1>3. /\ i \in Nat
      /\ IF Digits(i) > ctx.prec THEN m = NaNPair({"Division_impossible"})
         ELSE /\ m.st = {} /\ m.q = Fin(Xor(a.s, b.s), i, 0)
              /\ m.r \in Numbers /\ m.r.s = a.s
              /\ Leaves(a, b, i, m.r)
              /\ m.r.c < d
  BY DivModCases
<1>4. d \in Nat \ {0} /\ Unit(a, b) \in Int /\ Unit(a, b) <= b.e
  BY Units DEF Unit
<1>5. ContextOK(MaxCtx)
  BY LimitsAssumption DEF ContextOK, MaxCtx
<1> HIDE DEF i, n, m, t, o
<1>6. CASE Digits(i) > ctx.prec
  <2>1. m = NaNPair({"Division_impossible"})
    BY <1>3, <1>6
  <2>2. m.r = QNaN /\ m.st = {"Division_impossible"}
    BY <2>1 DEF NaNPair, Pair
  <2>3. n.st = Finalize(m.r, ctx).st \cup m.st /\ n.d = Finalize(m.r, ctx).d
    BY <1>2, <2>2 DEF FinalizedPart, Also, Result, IsNaN, QNaN, Special
  <2>4. IsNaN(n.d)
    BY <2>2, <2>3 DEF Finalize, FixNaN, Result, IsNaN, QNaN, Special
  <2> QED
    BY <1>6, <2>2, <2>3, <2>4
<1>7. CASE ~(Digits(i) > ctx.prec)
  <2> DEFINE y == m.r
  <2>1. /\ m.st = {} /\ m.q = Fin(Xor(a.s, b.s), i, 0)
        /\ y \in Numbers /\ y.s = a.s /\ Leaves(a, b, i, y) /\ y.c < d
    BY <1>3, <1>7
  <2>2. y.c \in Nat /\ ~IsNaN(y) /\ y.e = Unit(a, b)
    BY <2>1, NumberFields DEF Leaves
  <2>3. m.q.c = i /\ m.q.e = 0 /\ (IsOdd(m.q) <=> i % 2 = 1)
    <3>1. m.q.c = i /\ m.q.e = 0
      BY <2>1 DEF Fin
    <3>2. IsOdd(m.q) <=> (i # 0 /\ i % 2 = 1)
      BY <3>1 DEF IsOdd
    <3>3. i = 0 => i % 2 # 1
      BY <1>3
    <3> QED
      BY <3>1, <3>2, <3>3
  <2>4. ASSUME NEW z, NEW k \in Nat, Leaves(a, b, k, z), z \in Numbers,
               n = FinalizedPart(m, z, ctx),
               2 * z.c < d \/ (2 * z.c = d /\ k % 2 = 0)
        PROVE  Goal
    <3> DEFINE f == Finalize(z, ctx)
    <3>1. n.st = f.st \cup {} /\ n.d = f.d
      BY <2>1, <2>4 DEF FinalizedPart, Also, Result
    <3>2. ~IsNaN(f.d)
      BY <2>4, FinalizeNoNaN
    <3>3. ASSUME ~Lost(f.st)
          PROVE  /\ WholeTimes(a, b, f.d) /\ Whole(a, b, f.d) = k
                 /\ CmpAbs(Doubled(f.d), b) = Sgn(2 * z.c - d)
      BY <2>4, <3>3, LeftOver DEF Lost
    <3> HIDE DEF f
    <3>4. /\ 2 * z.c < d => Sgn(2 * z.c - d) < 0
          /\ 2 * z.c = d => Sgn(2 * z.c - d) = 0
      <4>1. z.c \in Nat
        BY <2>4, NumberFields
      <4> QED
        BY <1>4, <4>1 DEF Sgn
    <3>5. Lost(n.st) <=> Lost(f.st)
      BY <3>1
    <3>6. ASSUME ~Lost(f.st)
          PROVE  /\ WholeTimes(a, b, f.d)
                 /\ \/ CmpAbs(Doubled(f.d), b) < 0
                    \/ CmpAbs(Doubled(f.d), b) = 0 /\ Whole(a, b, f.d) % 2 = 0
      BY <2>4, <3>3, <3>4, <3>6
    <3> QED
      BY <3>1, <3>2, <3>5, <3>6
  <2>5. ASSUME y.c # 0, diff \in -1..1
        PROVE  /\ Leaves(a, b, i + 1, o) /\ o.c = d - y.c
               /\ CmpAbs(o, y) = Sgn((d - y.c) - y.c)
    BY <1>3, <1>5, <2>1, <2>5, OtherSide DEF o, t
  <2> HIDE DEF d
  <2>6. CASE stays
    <3>1. 2 * y.c < d \/ (2 * y.c = d /\ i % 2 = 0)
      <4>1. CASE y.c = 0 \/ diff \notin -1..1
        <5>1. y.c < Part(b, Unit(a, b))
          BY <2>1 DEF d
        <5>2. 2 * y.c < Part(b, Unit(a, b))
          BY <1>4, <2>1, <2>2, <4>1, <5>1, KeepsNearest
        <5> QED
          BY <5>2 DEF d
      <4>2. CASE y.c # 0 /\ diff \in -1..1
        <5>1. ~over
          BY <2>2, <2>6, <4>2
        <5>2. CmpAbs(o, y) = Sgn((d - y.c) - y.c)
          BY <2>5, <4>2
        <5>3. ~(CmpAbs(o, y) < 0) /\ (CmpAbs(o, y) = 0 => i % 2 # 1)
          BY <2>3, <5>1 DEF OtherIsNearer
        <5>4. d >= 2 * y.c /\ (d = 2 * y.c => i % 2 # 1)
          BY <1>4, <2>2, <5>2, <5>3 DEF Sgn
        <5>5. i % 2 # 1 => i % 2 = 0
          BY <1>3
        <5> QED
          BY <1>4, <2>2, <5>4, <5>5
      <4> QED
        BY <4>1, <4>2
    <3> QED
      BY <1>2, <1>3, <2>1, <2>4, <2>6, <3>1
  <2>7. CASE ~stays /\ nines
    <3>1. i = Pow10[Digits(i)] - 1 /\ Digits(i) = ctx.prec
      BY <2>3, <2>7 DEF CoeffIsAllNine
    <3>2. i = MaxCoeff(ctx)
      BY <3>1 DEF MaxCoeff
    <3>3. n = SetError("Division_impossible")
      BY <1>2, <2>7
    <3>4. IsNaN(n.d) /\ "Division_impossible" \in n.st
      BY <3>3 DEF SetError, Result, QNaN, Special, IsNaN
    <3> QED
      BY <3>2, <3>4
  <2>8. CASE ~stays /\ ~nines
    <3>1. y.c # 0 /\ diff \in -1..1 /\ over
      BY <2>8
    <3>2. /\ Leaves(a, b, i + 1, o) /\ o.c = d - y.c
          /\ CmpAbs(o, y) = Sgn((d - y.c) - y.c)
      BY <2>5, <3>1
    <3>3. CmpAbs(o, y) < 0 \/ (CmpAbs(o, y) = 0 /\ i % 2 = 1)
      BY <2>3, <3>1 DEF OtherIsNearer
    <3>4. d < 2 * y.c \/ (d = 2 * y.c /\ i % 2 = 1)
      BY <1>4, <2>2, <3>2, <3>3 DEF Sgn
    <3>5. 2 * o.c < d \/ (2 * o.c = d /\ (i + 1) % 2 = 0)
      BY <1>3, <1>4, <2>2, <3>2, <3>4
    <3>6. n = FinalizedPart(m, o, ctx)
      BY <1>2, <2>8
    <3>7. o \in Numbers /\ i + 1 \in Nat
      BY <1>3, <3>2 DEF Leaves
    <3> QED
      BY <2>4, <3>2, <3>5, <3>6, <3>7
  <2> QED
    BY <2>6, <2>7, <2>8
<1> QED
  BY <1>6, <1>7

------------------------------------------------------------------------------
(* Order.                                                                   *)

\* A number's value in units of 10^e.
Valued(a, e) == IF a.s = 1 THEN -Part(a, e) ELSE Part(a, e)

\* mpd_qcmp compares values.
LEMMA CmpIs ==
  ASSUME NEW a \in Numbers, NEW b \in Numbers, NEW e \in Int, e <= a.e, e <= b.e
  PROVE  Cmp(a, b) = Sgn(Valued(a, e) - Valued(b, e))
<1> DEFINE n == Part(a, e)
           d == Part(b, e)
<1>1. /\ n \in Nat /\ (a.c # 0 => n > 0) /\ (a.c = 0 => n = 0)
      /\ d \in Nat /\ (b.c # 0 => d > 0) /\ (b.c = 0 => d = 0)
  BY SignedIs
<1>2. CmpAbs(a, b) = Sgn(n - d)
  BY CmpAbsIs
<1>3. a.s \in {0, 1} /\ b.s \in {0, 1} /\ ~IsInf(a) /\ ~IsInf(b)
  BY NumberFields
<1> HIDE DEF n, d
<1>4. Cmp(a, b) =
        IF a.c = 0 THEN (IF b.c = 0 THEN 0 ELSE -ArithSign(b))
        ELSE IF b.c = 0 THEN ArithSign(a)
        ELSE IF a.s # b.s THEN b.s - a.s
        ELSE Sgn(n - d) * ArithSign(a)
  BY <1>2, <1>3 DEF Cmp
<1> DEFINE v == IF a.s = 1 THEN -n ELSE n
           w == IF b.s = 1 THEN -d ELSE d
<1>5. Cmp(a, b) = Sgn(v - w)
  BY <1>1, <1>3, <1>4 DEF ArithSign, Sgn
<1> QED
  BY <1>5 DEF Valued, n, d

\* A unit for three numbers.
Below(a, b, c) ==
  LET m == IF a.e <= b.e THEN a.e ELSE b.e
  IN IF m <= c.e THEN m ELSE c.e

LEMMA BelowIs ==
  ASSUME NEW a \in Decimals, NEW b \in Decimals, NEW c \in Decimals
  PROVE  /\ Below(a, b, c) \in Int
         /\ Below(a, b, c) <= a.e /\ Below(a, b, c) <= b.e /\ Below(a, b, c) <= c.e
<1>1. a.e \in Int /\ b.e \in Int /\ c.e \in Int
  BY Kinds
<1> QED
  BY <1>1 DEF Below

\* What mpd_cmp_total compares when the signs are equal: the kinds, then the
\* values or the payloads, then the exponents.
Rank(a) == IF a.k = "fin" THEN 0 ELSE IF a.k = "inf" THEN 1
           ELSE IF a.k = "snan" THEN 2 ELSE 3
Size(a, e) == IF a.k = "fin" THEN Part(a, e) ELSE a.c
Precedes(a, b, e) ==
  \/ Rank(a) < Rank(b)
  \/ Rank(a) = Rank(b) /\ Size(a, e) < Size(b, e)
  \/ Rank(a) = Rank(b) /\ Size(a, e) = Size(b, e) /\ a.e < b.e

LEMMA RanksAre ==
  ASSUME NEW a \in Decimals, NEW e \in Int, e <= a.e
  PROVE  /\ Rank(a) \in 0..3 /\ Size(a, e) \in Nat /\ a.e \in Int
         /\ a.k \in {"fin", "inf", "qnan", "snan"}
         /\ a.k # "fin" => a.e = 0
         /\ a.k = "inf" => a.c = 0
<1>1. a.k \in {"fin", "inf", "qnan", "snan"} /\ a.c \in Nat /\ a.e \in Int
  BY DEF Decimals, Numbers, Infinities, NotNumbers
<1>2. (a.k # "fin" => a.e = 0) /\ (a.k = "inf" => a.c = 0)
  BY DEF Decimals, Numbers, Infinities, NotNumbers
<1>3. a.k = "fin" => Part(a, e) \in Nat
  BY Kinds, SignedIs
<1> QED
  BY <1>1, <1>2, <1>3 DEF Rank, Size

LEMMA MagnitudesAre ==
  ASSUME NEW a \in Decimals, NEW b \in Decimals, NEW e \in Int, e <= a.e, e <= b.e
  PROVE  CmpMagnitudes(a, b) =
           IF Precedes(a, b, e) THEN -1 ELSE IF Precedes(b, a, e) THEN 1 ELSE 0
<1>1. /\ a.k \in {"fin", "inf", "qnan", "snan"} /\ a.e \in Int /\ Size(a, e) \in Nat
      /\ b.k \in {"fin", "inf", "qnan", "snan"} /\ b.e \in Int /\ Size(b, e) \in Nat
      /\ (a.k # "fin" => a.e = 0) /\ (a.k = "inf" => a.c = 0)
      /\ (b.k # "fin" => b.e = 0) /\ (b.k = "inf" => b.c = 0)
  BY RanksAre
<1>2. CASE a.k = "fin" /\ b.k = "fin"
  <2>1. CmpAbs(a, b) = Sgn(Part(a, e) - Part(b, e))
    BY <1>2, Kinds, CmpAbsIs
  <2>2. Size(a, e) = Part(a, e) /\ Size(b, e) = Part(b, e)
    BY <1>2 DEF Size
  <2>3. ~IsNaN(a) /\ ~IsNaN(b) /\ Rank(a) = 0 /\ Rank(b) = 0
    BY <1>2 DEF IsNaN, Rank
  <2> QED
    BY <1>1, <2>1, <2>2, <2>3 DEF CmpMagnitudes, Precedes, Sgn
<1>3. CASE a.k \in {"qnan", "snan"} /\ b.k \in {"qnan", "snan"}
  <2>1. Size(a, e) = a.c /\ Size(b, e) = b.c
    BY <1>3 DEF Size
  <2>2. CmpMagnitudes(a, b) = CmpNaNs(a, b)
    BY <1>3 DEF CmpMagnitudes, IsNaN
  <2>3. a.k = b.k => CmpNaNs(a, b) = Sgn(a.c - b.c)
    BY <1>1, <2>1 DEF CmpNaNs, Sgn
  <2>4. a.k # b.k => CmpNaNs(a, b) = IF a.k = "qnan" THEN 1 ELSE -1
    BY DEF CmpNaNs
  <2> QED
    BY <1>1, <1>3, <2>1, <2>2, <2>3, <2>4 DEF Precedes, Rank, Sgn
<1>4. CASE ~(a.k = "fin" /\ b.k = "fin")
           /\ ~(a.k \in {"qnan", "snan"} /\ b.k \in {"qnan", "snan"})
  <2>1. CASE a.k \in {"qnan", "snan"} \/ b.k \in {"qnan", "snan"}
    BY <1>1, <1>4, <2>1 DEF CmpMagnitudes, IsNaN, Precedes, Rank
  <2>2. CASE ~(a.k \in {"qnan", "snan"} \/ b.k \in {"qnan", "snan"})
    <3>1. ~IsNaN(a) /\ ~IsNaN(b) /\ (IsInf(a) \/ IsInf(b))
      BY <1>1, <1>4, <2>2 DEF IsNaN, IsInf
    <3>2. CmpAbs(a, b) = IF IsInf(a) THEN (IF IsInf(b) THEN 0 ELSE 1) ELSE -1
      BY <3>1 DEF CmpAbs
    <3>3. CASE IsInf(a) /\ IsInf(b)
      <4>1. a.k = "inf" /\ b.k = "inf" /\ a.c = 0 /\ b.c = 0 /\ a.e = 0 /\ b.e = 0
        BY <1>1, <3>3 DEF IsInf
      <4> QED
        BY <3>1, <3>2, <3>3, <4>1 DEF CmpMagnitudes, Precedes, Rank, Size, Sgn
    <3>4. CASE ~(IsInf(a) /\ IsInf(b))
      BY <1>1, <2>2, <3>1, <3>2, <3>4 DEF CmpMagnitudes, Precedes, Rank, IsInf
    <3> QED
      BY <3>3, <3>4
  <2> QED
    BY <2>1, <2>2
<1> QED
  BY <1>1, <1>2, <1>3, <1>4

LEMMA SameMagnitude ==
  ASSUME NEW a \in Decimals, NEW b \in Decimals
  PROVE  a = b <=> a.s = b.s /\ CmpMagnitudes(a, b) = 0
<1> DEFINE e == Below(a, b, a)
<1>1. e \in Int /\ e <= a.e /\ e <= b.e
  BY BelowIs
<1>2. CmpMagnitudes(a, b) =
        IF Precedes(a, b, e) THEN -1 ELSE IF Precedes(b, a, e) THEN 1 ELSE 0
  BY <1>1, MagnitudesAre
<1>3. /\ Rank(a) \in 0..3 /\ Size(a, e) \in Nat /\ a.e \in Int
      /\ Rank(b) \in 0..3 /\ Size(b, e) \in Nat /\ b.e \in Int
      /\ a.k \in {"fin", "inf", "qnan", "snan"} /\ b.k \in {"fin", "inf", "qnan", "snan"}
  BY <1>1, RanksAre
<1> HIDE DEF e
<1>4. a = b => CmpMagnitudes(a, b) = 0
  BY <1>2, <1>3 DEF Precedes
<1>5. ASSUME CmpMagnitudes(a, b) = 0, a.s = b.s
      PROVE  a = b
  <2>1. Rank(a) = Rank(b) /\ Size(a, e) = Size(b, e) /\ a.e = b.e
    BY <1>2, <1>3, <1>5 DEF Precedes
  <2>2. a.k = b.k
    BY <1>3, <2>1 DEF Rank
  <2>3. a.c = b.c
    <3>1. CASE a.k = "fin"
      <4>1. Part(a, e) = Part(b, e)
        BY <2>1, <2>2, <3>1 DEF Size
      <4> DEFINE p == Pow10[a.e - e]
      <4>2. p \in Nat \ {0} /\ a.c \in Nat /\ b.c \in Nat
        <5>1. a.e - e \in Nat
          BY <1>1, <1>3
        <5> QED
          BY <5>1, PowersAre, Kinds
      <4>3. a.c * p = b.c * p
        BY <2>1, <4>1 DEF Part
      <4> HIDE DEF p
      <4>4. p * a.c = p * b.c
        BY <4>2, <4>3
      <4> QED
        BY <4>2, <4>4, TimesCompare
    <3>2. CASE a.k # "fin"
      BY <2>1, <2>2, <3>2 DEF Size
    <3> QED
      BY <3>1, <3>2
  <2>4. /\ a = [k |-> a.k, s |-> a.s, c |-> a.c, e |-> a.e]
        /\ b = [k |-> b.k, s |-> b.s, c |-> b.c, e |-> b.e]
    BY DEF Decimals, Numbers, Infinities, NotNumbers
  <2> QED
    BY <1>5, <2>1, <2>2, <2>3, <2>4
<1> QED
  BY <1>4, <1>5

\* mpd_cmp_total is a total order of all decimals.
LEMMA TotalIsOrder ==
  ASSUME NEW a \in Decimals, NEW b \in Decimals, NEW c \in Decimals
  PROVE  /\ CmpTotal(a, b) \in {-1, 0, 1}
         /\ CmpTotal(a, b) = -CmpTotal(b, a)
         /\ CmpTotal(a, b) = 0 <=> a = b
         /\ CmpTotal(a, b) <= 0 /\ CmpTotal(b, c) <= 0 => CmpTotal(a, c) <= 0
<1> DEFINE e == Below(a, b, c)
           M(x, y) == IF Precedes(x, y, e) THEN -1
                      ELSE IF Precedes(y, x, e) THEN 1 ELSE 0
<1>1. e \in Int /\ e <= a.e /\ e <= b.e /\ e <= c.e
  BY BelowIs
<1>2. /\ CmpMagnitudes(a, b) = M(a, b) /\ CmpMagnitudes(b, a) = M(b, a)
      /\ CmpMagnitudes(b, c) = M(b, c) /\ CmpMagnitudes(a, c) = M(a, c)
      /\ CmpMagnitudes(c, b) = M(c, b) /\ CmpMagnitudes(c, a) = M(c, a)
  BY <1>1, MagnitudesAre
<1>3. /\ Rank(a) \in 0..3 /\ Size(a, e) \in Nat /\ a.e \in Int
      /\ Rank(b) \in 0..3 /\ Size(b, e) \in Nat /\ b.e \in Int
      /\ Rank(c) \in 0..3 /\ Size(c, e) \in Nat /\ c.e \in Int
  BY <1>1, RanksAre
<1> HIDE DEF e
<1>4. /\ M(b, a) = -M(a, b)
      /\ M(a, b) <= 0 /\ M(b, c) <= 0 => M(a, c) <= 0
      /\ M(a, b) >= 0 /\ M(b, c) >= 0 => M(a, c) >= 0
      /\ M(a, b) \in {-1, 0, 1} /\ M(b, c) \in {-1, 0, 1} /\ M(a, c) \in {-1, 0, 1}
  BY <1>3, SMTT(60) DEF Precedes
<1> HIDE DEF M
<1>5. a.s \in {0, 1} /\ b.s \in {0, 1} /\ c.s \in {0, 1}
  BY Kinds
<1>6. a = b <=> a.s = b.s /\ M(a, b) = 0
  BY <1>2, SameMagnitude
<1> QED
  BY <1>2, <1>4, <1>5, <1>6, SMTT(60) DEF CmpTotal, ArithSign

\* Where values differ it is their order.
LEMMA TotalAgrees ==
  ASSUME NEW a \in Decimals, NEW b \in Decimals, ~IsNaN(a), ~IsNaN(b)
  PROVE  /\ Cmp(a, b) \in {-1, 0, 1}
         /\ Cmp(a, b) # 0 => CmpTotal(a, b) = Cmp(a, b)
<1>1. a.s \in {0, 1} /\ b.s \in {0, 1}
  BY Kinds
<1>2. CASE IsInf(a) \/ IsInf(b)
  <2>1. CmpAbs(a, b) = IF IsInf(a) THEN (IF IsInf(b) THEN 0 ELSE 1) ELSE -1
    BY <1>2 DEF CmpAbs
  <2>2. Cmp(a, b) = IF IsInf(a) THEN IF IsInf(b) THEN b.s - a.s ELSE ArithSign(a)
                    ELSE -ArithSign(b)
    BY <1>2 DEF Cmp
  <2>3. CASE a.s # b.s
    <3>1. CmpTotal(a, b) = b.s - a.s
      BY <2>3 DEF CmpTotal
    <3>2. (a.s = 0 /\ b.s = 1) \/ (a.s = 1 /\ b.s = 0)
      BY <1>1, <2>3
    <3>3. Cmp(a, b) = b.s - a.s
      <4>1. ArithSign(a) = b.s - a.s /\ -ArithSign(b) = b.s - a.s
        BY <3>2 DEF ArithSign
      <4> QED
        BY <1>2, <2>2, <4>1
    <3> QED
      BY <3>1, <3>2, <3>3
  <2>4. CASE a.s = b.s
    <3>1. CASE IsInf(a) /\ IsInf(b)
      BY <1>1, <2>2, <2>4, <3>1
    <3>2. CASE ~(IsInf(a) /\ IsInf(b))
      <4>1. CmpMagnitudes(a, b) = CmpAbs(a, b)
        <5>1. CmpAbs(a, b) # 0
          BY <1>2, <2>1, <3>2
        <5> QED
          BY <5>1 DEF CmpMagnitudes
      <4> QED
        <5>1. CmpTotal(a, b) = CmpAbs(a, b) * ArithSign(a)
          BY <2>4, <4>1 DEF CmpTotal
        <5>2. ArithSign(a) = ArithSign(b) /\ ArithSign(a) \in {-1, 1}
          BY <2>4 DEF ArithSign
        <5> QED
          BY <1>2, <2>1, <2>2, <3>2, <5>1, <5>2
    <3> QED
      BY <3>1, <3>2
  <2> QED
    BY <2>3, <2>4
<1>3. CASE ~(IsInf(a) \/ IsInf(b))
  <2>1. a \in Numbers /\ b \in Numbers
    BY <1>3, Kinds
  <2> DEFINE e == Below(a, b, a)
             n == Part(a, e)
             d == Part(b, e)
  <2>2. e \in Int /\ e <= a.e /\ e <= b.e
    BY BelowIs
  <2>3. Cmp(a, b) = Sgn(Valued(a, e) - Valued(b, e)) /\ CmpAbs(a, b) = Sgn(n - d)
    BY <2>1, <2>2, CmpIs, CmpAbsIs
  <2>4. n \in Nat /\ d \in Nat
    BY <2>1, <2>2, SignedIs
  <2> HIDE DEF e
  <2>5. CmpAbs(a, b) # 0 => CmpMagnitudes(a, b) = CmpAbs(a, b)
    BY DEF CmpMagnitudes
  <2>6. Valued(a, e) = (IF a.s = 1 THEN -n ELSE n) /\ Valued(b, e) = (IF b.s = 1 THEN -d ELSE d)
    BY DEF Valued
  <2> HIDE DEF n, d
  <2> QED
    BY <1>1, <2>3, <2>4, <2>5, <2>6 DEF CmpTotal, ArithSign, Sgn
<1> QED
  BY <1>2, <1>3

\* The larger and the smaller of two numbers are both of them.
LEMMA ExtremesAreBoth ==
  ASSUME NEW ctx, NEW a \in Numbers, NEW b \in Numbers
  PROVE  /\ {QMax(a, b, ctx).d, QMin(b, a, ctx).d} =
              {Finalize(a, ctx).d, Finalize(b, ctx).d}
         /\ {QMin(a, b, ctx).d, QMax(b, a, ctx).d} =
              {Finalize(a, ctx).d, Finalize(b, ctx).d}
<1> DEFINE o == Ordered(a, b, Cmp(a, b))
           p == Ordered(b, a, Cmp(b, a))
           e == Below(a, b, a)
           F(x) == Finalize(x, ctx)
<1>1. /\ a.s \in {0, 1} /\ b.s \in {0, 1} /\ a.e \in Int /\ b.e \in Int
      /\ a.k = "fin" /\ b.k = "fin" /\ a \in Decimals /\ b \in Decimals
  BY NumberFields DEF Decimals
<1>2. e \in Int /\ e <= a.e /\ e <= b.e
  BY <1>1, BelowIs
<1>3. /\ Valued(a, e) \in Int /\ Valued(b, e) \in Int
      /\ Cmp(a, b) = Sgn(Valued(a, e) - Valued(b, e))
      /\ Cmp(b, a) = Sgn(Valued(b, e) - Valued(a, e))
  BY <1>2, CmpIs, SignedIs DEF Valued
<1>4. a = b \/ (o < 0 /\ p > 0) \/ (o > 0 /\ p < 0)
  <2>1. CASE Cmp(a, b) # 0
    <3> HIDE DEF e
    <3> QED
      BY <1>3, <2>1 DEF Ordered, Sgn
  <2>2. CASE Cmp(a, b) = 0
    <3>1. Cmp(b, a) = 0 /\ Valued(a, e) = Valued(b, e)
      <4> HIDE DEF e
      <4> QED
        BY <1>3, <2>2 DEF Sgn
    <3>2. o = CmpNumEqual(a, b) /\ p = CmpNumEqual(b, a)
      BY <2>2, <3>1 DEF Ordered
    <3>3. CASE a.s # b.s
      BY <1>1, <3>2, <3>3 DEF CmpNumEqual
    <3>4. CASE a.s = b.s /\ a.e # b.e
      BY <1>1, <3>2, <3>4 DEF CmpNumEqual, ArithSign
    <3>5. CASE a.s = b.s /\ a.e = b.e
      <4>1. CmpAbs(a, b) = 0
        <5>1. CmpAbs(a, b) = Sgn(Part(a, e) - Part(b, e))
          BY <1>2, CmpAbsIs
        <5>2. Part(a, e) \in Nat /\ Part(b, e) \in Nat
          BY <1>2, SignedIs
        <5> HIDE DEF e
        <5> QED
          BY <3>1, <3>5, <5>1, <5>2 DEF Valued, Sgn
      <4>2. ~IsNaN(a) /\ ~IsNaN(b)
        BY NumberFields
      <4>3. CmpMagnitudes(a, b) = 0
        BY <1>1, <3>5, <4>1, <4>2 DEF CmpMagnitudes, Sgn
      <4> QED
        BY <1>1, <3>5, <4>3, SameMagnitude
    <3> QED
      BY <3>3, <3>4, <3>5
  <2> QED
    BY <2>1, <2>2
<1>5. ASSUME NEW x \in {a, b}, NEW y \in {a, b}, NEW z \in Int
      PROVE  Extreme(x, y, z, ctx) = IF z < 0 THEN F(y) ELSE F(x)
  BY <1>1 DEF Extreme, Chosen, IsNaN
<1>6. o \in Int /\ p \in Int
  <2> HIDE DEF e
  <2> QED
    BY <1>1, <1>3 DEF Ordered, CmpNumEqual, ArithSign, Sgn
<1> HIDE DEF o, p, F, e
<1>7. /\ QMax(a, b, ctx) = IF o < 0 THEN F(b) ELSE F(a)
      /\ QMax(b, a, ctx) = IF p < 0 THEN F(a) ELSE F(b)
  BY <1>5, <1>6 DEF QMax, o, p
<1>8. /\ QMin(a, b, ctx) = IF o < 0 THEN F(a) ELSE F(b)
      /\ QMin(b, a, ctx) = IF p < 0 THEN F(b) ELSE F(a)
  <2>1. SmallerFirst(o) = (IF o < 0 THEN 1 ELSE -1) /\ SmallerFirst(p) = (IF p < 0 THEN 1 ELSE -1)
    BY DEF SmallerFirst
  <2> QED
    BY <1>5, <1>6, <2>1 DEF QMin, o, p
<1>9. {QMax(a, b, ctx).d, QMin(b, a, ctx).d} = {F(a).d, F(b).d}
  BY <1>4, <1>6, <1>7, <1>8
<1>10. {QMin(a, b, ctx).d, QMax(b, a, ctx).d} = {F(a).d, F(b).d}
  BY <1>4, <1>6, <1>7, <1>8
<1> QED
  BY <1>9, <1>10 DEF F

------------------------------------------------------------------------------
(* Neighbours.                                                              *)

\* The same number in common units.
LEMMA InUnits ==
  ASSUME NEW d \in Numbers, NEW n \in Nat, NEW q \in Int, SameNumber(d, n, q),
         NEW u \in Int, u <= d.e, u <= q
  PROVE  Part(d, u) = n * Pow10[q - u]
<1>1. d.c \in Nat /\ d.e \in Int /\ d.e - u \in Nat /\ q - u \in Nat
  BY NumberFields
<1>2. /\ Max({d.e - q, 0}) = (IF d.e - q >= 0 THEN d.e - q ELSE 0)
      /\ Max({q - d.e, 0}) = (IF q - d.e >= 0 THEN q - d.e ELSE 0)
  BY <1>1, MaxOfTwo
<1>3. CASE d.e >= q
  <2>1. d.e - q \in Nat /\ (d.e - q) + (q - u) = d.e - u
    BY <1>1, <1>3
  <2>2. Max({d.e - q, 0}) = d.e - q /\ Max({q - d.e, 0}) = 0
    BY <1>1, <1>2, <1>3
  <2>3. d.c * Pow10[d.e - q] = n * 1
    BY <2>2, PowersAre DEF SameNumber
  <2>4. Pow10[d.e - u] = Pow10[d.e - q] * Pow10[q - u]
    BY <1>1, <2>1, PowersAdd
  <2> DEFINE x == Pow10[d.e - q]
             y == Pow10[q - u]
  <2>5. x \in Nat /\ y \in Nat
    BY <1>1, <2>1, PowersAre
  <2> HIDE DEF x, y
  <2>6. d.c * (x * y) = (d.c * x) * y
    BY <1>1, <2>5
  <2> QED
    BY <2>3, <2>4, <2>6 DEF Part, x, y
<1>4. CASE d.e < q
  <2>1. q - d.e \in Nat /\ (q - d.e) + (d.e - u) = q - u
    BY <1>1, <1>4
  <2>2. Max({d.e - q, 0}) = 0 /\ Max({q - d.e, 0}) = q - d.e
    BY <1>1, <1>2, <1>4
  <2>3. d.c = n * Pow10[q - d.e]
    <3>1. d.c * 1 = n * Pow10[q - d.e]
      BY <2>2, PowersAre DEF SameNumber
    <3> QED
      BY <1>1, <3>1
  <2>4. Pow10[q - u] = Pow10[q - d.e] * Pow10[d.e - u]
    BY <1>1, <2>1, PowersAdd
  <2> DEFINE x == Pow10[q - d.e]
             y == Pow10[d.e - u]
  <2>5. x \in Nat /\ y \in Nat
    BY <1>1, <2>1, PowersAre
  <2> HIDE DEF x, y
  <2>6. n * (x * y) = (n * x) * y
    BY <2>5
  <2> QED
    BY <2>3, <2>4, <2>6 DEF Part, x, y
<1> QED
  BY <1>1, <1>3, <1>4

\* A number in its own units.
LEMMA PartIsSame ==
  ASSUME NEW d \in Numbers, NEW q \in Int, q <= d.e
  PROVE  Part(d, q) \in Nat /\ SameNumber(d, Part(d, q), q)
<1>1. d.c \in Nat /\ d.e \in Int /\ d.k = "fin" /\ d.e - q \in Nat
  BY NumberFields
<1>2. Part(d, q) \in Nat
  BY SignedIs
<1>3. Max({d.e - q, 0}) = d.e - q /\ Max({q - d.e, 0}) = 0
  <2>1. /\ Max({d.e - q, 0}) = (IF d.e - q >= 0 THEN d.e - q ELSE 0)
        /\ Max({q - d.e, 0}) = (IF q - d.e >= 0 THEN q - d.e ELSE 0)
    BY <1>1, MaxOfTwo
  <2> QED
    BY <1>1, <2>1
<1>4. Part(d, q) * Pow10[0] = Part(d, q)
  BY <1>2, PowersAre
<1> QED
  BY <1>1, <1>2, <1>3, <1>4 DEF SameNumber, Part

\* Its digits, counted or cut off.
LEMMA NumberAt ==
  ASSUME NEW d \in Numbers, NEW n \in Nat, NEW q \in Int, SameNumber(d, n, q)
  PROVE  /\ n = 0 <=> d.c = 0
         /\ n # 0 => AdjExp(d) = Digits(n) + q - 1
         /\ (IF d.e >= q THEN d.c * Pow10[d.e - q] ELSE d.c \div Pow10[q - d.e]) = n
<1>1. d.c \in Nat /\ d.e \in Int /\ AdjExp(d) = d.e + Digits(d.c) - 1
  BY NumberFields
<1>2. /\ Max({d.e - q, 0}) = (IF d.e - q >= 0 THEN d.e - q ELSE 0)
      /\ Max({q - d.e, 0}) = (IF q - d.e >= 0 THEN q - d.e ELSE 0)
  BY <1>1, MaxOfTwo
<1>3. CASE d.e >= q
  <2>1. d.e - q \in Nat
    BY <1>1, <1>3
  <2> DEFINE x == Pow10[d.e - q]
  <2>2. x \in Nat \ {0}
    BY <2>1, PowersAre
  <2>3. d.c * x = n
    <3>1. Max({d.e - q, 0}) = d.e - q /\ Max({q - d.e, 0}) = 0
      BY <1>1, <1>2, <1>3
    <3>2. d.c * x = n * Pow10[0]
      BY <3>1 DEF SameNumber
    <3> QED
      BY <3>2, PowersAre
  <2>4. d.c # 0 => n # 0 /\ Digits(n) = Digits(d.c) + (d.e - q)
    BY <1>1, <2>1, <2>3, DigitsShiftLeft
  <2>5. d.c = 0 => n = 0
    <3> HIDE DEF x
    <3> QED
      BY <2>2, <2>3
  <2>6. Digits(d.c) \in Int
    BY <1>1, DigitsAre
  <2> QED
    BY <1>1, <1>3, <2>3, <2>4, <2>5, <2>6
<1>4. CASE d.e < q
  <2>1. q - d.e \in Nat /\ ~(d.e >= q)
    BY <1>1, <1>4
  <2> DEFINE x == Pow10[q - d.e]
  <2>2. x \in Nat \ {0}
    BY <2>1, PowersAre
  <2>3. d.c = n * x
    <3>1. Max({d.e - q, 0}) = 0 /\ Max({q - d.e, 0}) = q - d.e
      BY <1>1, <1>2, <1>4
    <3>2. d.c * Pow10[0] = n * x
      BY <3>1 DEF SameNumber
    <3> QED
      BY <1>1, <3>2, PowersAre
  <2>4. n # 0 => d.c # 0 /\ Digits(d.c) = Digits(n) + (q - d.e)
    BY <2>1, <2>3, DigitsShiftLeft
  <2>5. d.c \div x = n
    <3> HIDE DEF x
    <3>1. d.c = x * n + 0 /\ 0 \in 0..(x - 1)
      BY <1>1, <2>2, <2>3
    <3> QED
      BY <1>1, <2>2, <3>1, QuotientIs
  <2>6. n = 0 => d.c = 0
    <3> HIDE DEF x
    <3> QED
      BY <2>2, <2>3
  <2>7. Digits(n) \in Int
    BY DigitsAre
  <2> QED
    BY <1>1, <2>1, <2>4, <2>5, <2>6, <2>7
<1> QED
  BY <1>1, <1>3, <1>4

\* 10^q is the last place that the context has for n units of it.
InPlace(n, q, ctx) ==
  LET l == Digits(n) + q - ctx.prec
  IN q = IF n # 0 /\ l >= Etiny(ctx) THEN l ELSE Etiny(ctx)

\* The largest number is the one whose successor has a digit too many.
LEMMA LargestIs ==
  ASSUME NEW ctx, ContextOK(ctx), NEW d \in Numbers, NEW n \in Nat, NEW q \in Int,
         SameNumber(d, n, q), InPlace(n, q, ctx), n # 0 => Digits(n) + q - 1 <= ctx.emax
  PROVE  CmpAbs(d, Fin(0, MaxCoeff(ctx), Etop(ctx))) = 0
           <=> Digits(n + 1) + q - 1 > ctx.emax
<1> DEFINE m == MaxCoeff(ctx)
           t == Etop(ctx)
           f == Fin(0, m, t)
           p == Pow10[ctx.prec]
<1>1. /\ ctx.prec \in Nat \ {0} /\ ctx.emax \in Nat /\ Etiny(ctx) \in Int /\ t \in Int
      /\ t = ctx.emax - ctx.prec + 1 /\ Etiny(ctx) <= t /\ Etiny(ctx) <= ctx.emin
      /\ ctx.emin <= 0 /\ ctx.emin \in Int
  BY Limits DEF ContextOK
<1>2. m \in Nat /\ Digits(m) = ctx.prec /\ m = p - 1 /\ p \in Nat
  BY <1>1, MaxCoeffIs, PowersAre DEF MaxCoeff
<1>3. m # 0
  <2>1. p > 1
    <3>1. Pow10[0] < Pow10[ctx.prec]
      BY <1>1, PowersGrow
    <3> QED
      BY <1>1, <3>1, PowersAre
  <2> QED
    BY <1>2, <2>1
<1>4. /\ f \in Numbers /\ f.c = m /\ f.e = t /\ AdjExp(f) = ctx.emax /\ ~IsInf(f)
      /\ ~IsInf(d) /\ d.c \in Nat /\ d.e \in Int /\ AdjExp(d) \in Int
  <2>1. /\ f \in Numbers /\ f.c = m /\ f.e = t /\ ~IsInf(f)
        /\ AdjExp(f) = t + Digits(m) - 1
    <3>1. m \in Nat /\ t \in Int
      BY <1>1, <1>2
    <3> HIDE DEF m, t
    <3> QED
      BY <3>1, FinFields
  <2>2. t + Digits(m) - 1 = ctx.emax
    BY <1>1, <1>2
  <2>3. ~IsInf(d) /\ d.c \in Nat /\ d.e \in Int /\ AdjExp(d) \in Int
    BY NumberFields
  <2> HIDE DEF f
  <2> QED
    BY <2>1, <2>2, <2>3
<1>5. /\ n = 0 <=> d.c = 0
      /\ n # 0 => AdjExp(d) = Digits(n) + q - 1
  BY NumberAt
<1>6. Digits(n) \in Nat \ {0} /\ Digits(n + 1) \in Nat \ {0}
  BY DigitsAre
<1>7. Digits(p) = ctx.prec + 1
  <2>1. p < Pow10[ctx.prec + 1]
    BY <1>1, PowersGrow
  <2> QED
    BY <1>1, <1>2, <2>1, DigitsBound
<1>8. SameNumber(f, m, t)
  <2>1. Part(f, t) = m
    <3>1. t - t = 0
      BY <1>1
    <3> QED
      BY <1>2, <1>4, <3>1, PowersAre DEF Part
  <2> QED
    BY <1>1, <1>4, <2>1, PartIsSame
<1> HIDE DEF f, m, p, t
<1>9. ASSUME CmpAbs(d, f) = 0
      PROVE  Digits(n + 1) + q - 1 > ctx.emax
  <2>1. n # 0 /\ AdjExp(d) = ctx.emax
    <3>1. /\ f.c \in Nat /\ f.c # 0 /\ d.c \in Nat /\ AdjExp(d) \in Int
          /\ AdjExp(f) = ctx.emax /\ ctx.emax \in Nat /\ ~IsInf(f) /\ ~IsInf(d)
      BY <1>1, <1>2, <1>3, <1>4
    <3>2. CmpAbs(d, f) = IF d.c = 0 THEN Sgn(0) - Sgn(f.c)
                         ELSE IF AdjExp(d) # ctx.emax THEN Sgn(AdjExp(d) - ctx.emax)
                         ELSE CmpSameAdjExp(d, f)
      BY <3>1 DEF CmpAbs
    <3>3. d.c # 0 /\ AdjExp(d) = ctx.emax
      BY <1>9, <3>1, <3>2 DEF Sgn
    <3> QED
      BY <1>5, <3>3
  <2>2. q = t
    BY <1>1, <1>5, <1>6, <2>1 DEF InPlace
  <2>3. n = m
    <3> DEFINE u == IF d.e <= q THEN d.e ELSE q
    <3>1. u \in Int /\ u <= d.e /\ u <= q /\ q - u \in Nat
      BY <1>4
    <3> HIDE DEF u
    <3>2. Part(d, u) = n * Pow10[q - u] /\ Part(f, u) = m * Pow10[q - u]
      BY <1>1, <1>2, <1>4, <1>8, <2>2, <3>1, InUnits
    <3>3. CmpAbs(d, f) = Sgn(Part(d, u) - Part(f, u))
      BY <1>4, <2>2, <3>1, CmpAbsIs
    <3> DEFINE w == Pow10[q - u]
    <3>4. w \in Nat \ {0}
      BY <3>1, PowersAre
    <3> HIDE DEF w
    <3>5. n * w = w * n /\ m * w = w * m /\ w * n \in Nat /\ w * m \in Nat
      BY <1>2, <3>4
    <3>6. Part(d, u) = w * n /\ Part(f, u) = w * m
      BY <3>2, <3>5 DEF w
    <3>7. w * n = w * m
      BY <1>9, <3>3, <3>5, <3>6 DEF Sgn
    <3> QED
      BY <1>2, <3>4, <3>7, TimesCompare
  <2>4. n + 1 = p
    BY <1>2, <2>3
  <2> QED
    BY <1>1, <1>7, <2>2, <2>4
<1>10. ASSUME Digits(n + 1) + q - 1 > ctx.emax
       PROVE  CmpAbs(d, f) = 0
  <2>1. n # 0
    <3>1. n = 0 => Digits(n + 1) = 1
      BY PowersAre, DigitsBound
    <3> QED
      BY <1>1, <1>10, <3>1 DEF InPlace
  <2>2. Digits(n + 1) > Digits(n)
    BY <1>1, <1>6, <1>10, <2>1
  <2>3. Pow10[Digits(n)] <= n + 1 /\ n < Pow10[Digits(n)]
    <3>1. ~(n + 1 < Pow10[Digits(n)])
      BY <1>6, <2>2, DigitsBound
    <3>2. Pow10[Digits(n)] \in Nat
      BY <1>6, PowersAre
    <3> QED
      BY <3>1, <3>2, DigitsAre
  <2>4. n + 1 = Pow10[Digits(n)]
    <3>1. Pow10[Digits(n)] \in Nat
      BY <1>6, PowersAre
    <3> QED
      BY <2>3, <3>1
  <2>5. Digits(n + 1) = Digits(n) + 1
    <3>1. n + 1 < Pow10[Digits(n) + 1]
      BY <1>6, <2>4, PowersGrow
    <3> QED
      BY <1>6, <2>2, <3>1, DigitsBound
  <2>6. Digits(n) + q - 1 = ctx.emax
    BY <1>1, <1>6, <1>10, <2>1, <2>5
  <2>7. q = t /\ Digits(n) = ctx.prec
    BY <1>1, <1>6, <2>1, <2>6 DEF InPlace
  <2>8. n = m
    BY <1>2, <2>4, <2>7 DEF p
  <2> DEFINE u == IF d.e <= q THEN d.e ELSE q
  <2>9. u \in Int /\ u <= d.e /\ u <= q /\ u <= f.e
    BY <1>4, <2>7
  <2> HIDE DEF u
  <2>10. Part(d, u) = Part(f, u)
    BY <1>1, <1>2, <1>4, <1>8, <2>7, <2>8, <2>9, InUnits
  <2>11. CmpAbs(d, f) = Sgn(Part(d, u) - Part(f, u)) /\ Part(f, u) \in Nat
    BY <1>4, <2>9, CmpAbsIs, SignedIs
  <2> QED
    BY <2>10, <2>11 DEF Sgn
<1> QED
  BY <1>9, <1>10 DEF f, m, t

\* The number that follows n units of the last place.
LEMMA OutwardIs ==
  ASSUME NEW ctx, ContextOK(ctx), NEW d \in Numbers, NEW n \in Nat, NEW q \in Int,
         SameNumber(d, n, q), InPlace(n, q, ctx), n # 0 => Digits(n) + q - 1 <= ctx.emax,
         NEW s \in {0, 1}
  PROVE  Outward(d, s, ctx) =
           IF Digits(n + 1) + q - 1 > ctx.emax THEN Inf(s) ELSE Fin(s, n + 1, q)
<1>1. CmpAbs(d, Fin(0, MaxCoeff(ctx), Etop(ctx))) = 0 <=> Digits(n + 1) + q - 1 > ctx.emax
  BY LargestIs
<1>2. /\ n = 0 <=> d.c = 0
      /\ n # 0 => AdjExp(d) = Digits(n) + q - 1
      /\ (IF d.e >= q THEN d.c * Pow10[d.e - q] ELSE d.c \div Pow10[q - d.e]) = n
  BY NumberAt
<1>3. ctx.prec \in Nat /\ Etiny(ctx) \in Int /\ Digits(n) \in Nat /\ AdjExp(d) \in Int
  BY Limits, DigitsAre, NumberFields DEF ContextOK
<1>4. (IF d.c = 0 THEN Etiny(ctx) ELSE Ulp(d, ctx)) = q
  <2>1. Ulp(d, ctx) = IF AdjExp(d) - ctx.prec + 1 >= Etiny(ctx)
                      THEN AdjExp(d) - ctx.prec + 1 ELSE Etiny(ctx)
    BY <1>3, MaxOfTwo DEF Ulp
  <2> QED
    BY <1>2, <1>3, <2>1 DEF InPlace
<1> QED
  BY <1>1, <1>2, <1>4 DEF Outward

\* A step less than any, added to a number.
LEMMA StepIs ==
  ASSUME NEW ctx, ContextOK(ctx), NEW a \in Numbers, Etiny(ctx) <= a.e,
         NEW sub \in {0, 1}
  PROVE  LET z == Etiny(ctx) - 1
             n == Part(a, z)
         IN /\ TinyStep(sub, ctx) \in Numbers /\ z \in Int /\ z < a.e
            /\ n \in Nat /\ (a.c = 0 => n = 0) /\ (a.c # 0 => n >= 10)
            /\ n = 10 * Part(a, z + 1) /\ Part(a, z + 1) \in Nat
            /\ SumOf(a, TinyStep(sub, ctx)) =
                 IF a.c = 0 \/ a.s = sub THEN Itself(Fin(sub, n + 1, z))
                 ELSE Itself(Fin(a.s, n - 1, z))
<1> DEFINE z == Etiny(ctx) - 1
           n == Part(a, z)
           t == Fin(sub, 1, z)
           e == Min({a.e, t.e})
<1>1. z \in Int /\ z < a.e /\ a.e \in Int /\ a.s \in {0, 1} /\ z + 1 <= a.e
  BY Limits, NumberFields
<1>2. t \in Numbers /\ t.s = sub /\ t.e = z /\ t.c = 1 /\ TinyStep(sub, ctx) = t
  <2>1. TinyStep(sub, ctx) = t
    BY DEF TinyStep
  <2> HIDE DEF z
  <2> QED
    BY <1>1, <2>1, FinFields
<1>3. n \in Nat /\ (a.c = 0 => n = 0) /\ (a.c # 0 => n > 0)
  BY <1>1, SignedIs
<1>4. n = 10 * Part(a, z + 1) /\ Part(a, z + 1) \in Nat
  <2>1. Part(a, z) = Pow10[(z + 1) - z] * Part(a, z + 1)
    BY <1>1, PartsScale
  <2>2. (z + 1) - z = 1
    BY <1>1
  <2>3. Part(a, z + 1) \in Nat
    BY <1>1, SignedIs
  <2> QED
    BY <2>1, <2>2, <2>3, PowersAre
<1>5. a.c # 0 => n >= 10
  <2> HIDE DEF n
  <2> QED
    BY <1>3, <1>4
<1>6. /\ e \in Int /\ e <= a.e /\ e <= z /\ e \in {a.e, z}
      /\ SumOf(a, t) = SumAt(a.s, Part(a, e), t.s, Part(t, e), e)
  BY <1>2, SumIs
<1>7. e = z
  <2> HIDE DEF z, e
  <2> QED
    BY <1>1, <1>6
<1>8. Part(t, z) = 1
  <2>1. z - z = 0
    BY <1>1
  <2> QED
    BY <1>2, <2>1, PowersAre DEF Part
<1>9. SumOf(a, t) = SumAt(a.s, n, sub, 1, z)
  BY <1>2, <1>6, <1>7, <1>8
<1>10. /\ Itself(Fin(sub, n + 1, z)) = Exactly(sub, n + 1, 1, z)
       /\ Itself(Fin(a.s, n - 1, z)) = Exactly(a.s, n - 1, 1, z)
  BY DEF Itself, Fin
<1> HIDE DEF n, t, e, z
<1>11. SumOf(a, t) = IF a.c = 0 \/ a.s = sub THEN Exactly(sub, n + 1, 1, z)
                     ELSE Exactly(a.s, n - 1, 1, z)
  <2>1. CASE a.c = 0
    <3>1. SumAt(a.s, n, sub, 1, z) = Exactly(sub, n + 1, 1, z)
      BY <1>1, <1>3, <2>1 DEF SumAt, Magnitude
    <3> QED
      BY <1>9, <2>1, <3>1
  <2>2. CASE a.c # 0 /\ a.s = sub
    <3>1. SumAt(a.s, n, sub, 1, z) = Exactly(sub, n + 1, 1, z)
      BY <1>1, <1>3, <2>2 DEF SumAt, Magnitude
    <3> QED
      BY <1>9, <2>2, <3>1
  <2>3. CASE a.c # 0 /\ a.s # sub
    <3>1. SumAt(a.s, n, sub, 1, z) = Exactly(a.s, n - 1, 1, z)
      BY <1>1, <1>3, <1>5, <2>3 DEF SumAt, Magnitude
    <3> QED
      BY <1>9, <2>3, <3>1
  <2> QED
    BY <2>1, <2>2, <2>3
<1>12. SumOf(a, t) = IF a.c = 0 \/ a.s = sub THEN Itself(Fin(sub, n + 1, z))
                     ELSE Itself(Fin(a.s, n - 1, z))
  BY <1>10, <1>11
<1> QED
  BY <1>1, <1>2, <1>3, <1>4, <1>5, <1>12 DEF n, z

\* The digits of a number in the context, cut at a place it has.
LEMMA PlaceIs ==
  ASSUME NEW ctx, ContextOK(ctx), NEW a \in Numbers, Fits(a, ctx), NEW q \in Int,
         Etiny(ctx) <= q, q <= a.e
  PROVE  LET z == Etiny(ctx) - 1
             k == Part(a, q)
             p == Pow10[q - z]
         IN /\ k \in Nat /\ p \in Nat /\ p >= 10 /\ q - z \in Nat \ {0}
            /\ Part(a, z) = p * k /\ Part(a, z) \in Nat
            /\ SameNumber(a, k, q)
            /\ k = 0 <=> a.c = 0
            /\ k # 0 => Digits(k) + q - 1 = AdjExp(a) /\ AdjExp(a) <= ctx.emax
<1> DEFINE z == Etiny(ctx) - 1
           k == Part(a, q)
           p == Pow10[q - z]
<1>1. z \in Int /\ q - z \in Nat \ {0} /\ z <= q /\ z <= a.e /\ a.k = "fin"
  BY Limits, NumberFields
<1>2. p \in Nat /\ p >= 10
  <2>1. Pow10[1] <= Pow10[q - z]
    BY <1>1, PowersGrow
  <2> QED
    BY <1>1, <2>1, PowersAre
<1>3. Part(a, z) = p * k /\ Part(a, z) \in Nat
  BY <1>1, PartsScale, SignedIs
<1>4. k \in Nat /\ SameNumber(a, k, q)
  BY PartIsSame
<1>5. (k = 0 <=> a.c = 0) /\ (k # 0 => AdjExp(a) = Digits(k) + q - 1)
  BY <1>4, NumberAt
<1>6. AdjExp(a) <= ctx.emax
  BY <1>1 DEF Fits
<1> QED
  BY <1>1, <1>2, <1>3, <1>4, <1>5, <1>6

\* Away from zero the step is rounded to the next number.
LEMMA OutwardStep ==
  ASSUME NEW ctx, ContextOK(ctx), NEW a \in Numbers, Fits(a, ctx), NEW s \in {0, 1},
         NEW mode, mode = IF s = 1 THEN "ROUND_FLOOR" ELSE "ROUND_CEILING"
  PROVE  LET x == Itself(Fin(s, Part(a, Etiny(ctx) - 1) + 1, Etiny(ctx) - 1))
             q == LastPlace(x, ctx)
             k == Part(a, q)
         IN /\ x.n # 0 /\ x.s = s
            /\ q \in Int /\ q <= a.e /\ Etiny(ctx) <= q
            /\ InPlace(k, q, ctx)
            /\ RoundAt(x, q, mode).n = k + 1
<1> DEFINE z == Etiny(ctx) - 1
           n == Part(a, z)
           b == Part(a, z + 1)
           y == Fin(s, n + 1, z)
           x == Itself(y)
           q == LastPlace(x, ctx)
           k == Part(a, q)
           p == Pow10[q - z]
<1>1. /\ z \in Int /\ z < a.e /\ a.e \in Int /\ ctx.prec \in Nat \ {0} /\ ctx.emax \in Nat
      /\ Etiny(ctx) \in Int /\ Etiny(ctx) = z + 1 /\ Etiny(ctx) <= a.e
      /\ Digits(a.c) \in Nat /\ Digits(a.c) <= ctx.prec
      /\ AdjExp(a) = a.e + Digits(a.c) - 1
  BY Limits, NumberFields DEF ContextOK, Fits
<1>2. /\ n \in Nat /\ (a.c = 0 => n = 0) /\ (a.c # 0 => n >= 10) /\ n = 10 * b /\ b \in Nat
  BY <1>1, StepIs
<1>3. /\ y \in Numbers /\ y.c = n + 1 /\ y.c # 0 /\ y.e = z /\ y.s = s
      /\ AdjExp(y) = z + Digits(n + 1) - 1
  <2> HIDE DEF n, z
  <2>1. n + 1 \in Nat /\ n + 1 # 0
    BY <1>2
  <2> QED
    BY <1>1, <2>1, FinFields
<1> HIDE DEF y
<1>4. x \in Exacts /\ x.n = n + 1 /\ x.n > 0 /\ x.s = s /\ Leading(x) = AdjExp(y)
  <2>1. x \in Exacts /\ x.n = y.c /\ x.s = y.s
    BY <1>1, <1>3, ItselfIs
  <2>2. Leading(x) = AdjExp(y)
    BY <1>3, ItselfLeads
  <2> HIDE DEF x, n
  <2> QED
    BY <1>2, <1>3, <2>1, <2>2
<1> HIDE DEF x
<1>5. LET l == AdjExp(y) - ctx.prec + 1
      IN q \in Int /\ q = IF l >= Etiny(ctx) THEN l ELSE Etiny(ctx)
  BY <1>4, LastPlaceIs
<1>6. a.c # 0 => AdjExp(y) = AdjExp(a)
  <2> SUFFICES ASSUME a.c # 0 PROVE AdjExp(y) = AdjExp(a)
    OBVIOUS
  <2>1. SameNumber(a, n, z) /\ n # 0
    BY <1>1, <1>2, PartIsSame
  <2>2. AdjExp(a) = Digits(n) + z - 1
    BY <1>1, <1>2, <2>1, NumberAt
  <2>3. Digits(n + 1) = Digits(n)
    <3> HIDE DEF n, b
    <3> DEFINE j == Digits(n)
    <3>1. j \in Nat \ {0} /\ n < Pow10[j] /\ Pow10[j - 1] <= n
      BY <1>2, <2>1, DigitsAre
    <3>2. j - 1 \in Nat /\ Pow10[j] = 10 * Pow10[j - 1] /\ Pow10[j - 1] \in Nat
          /\ Pow10[j] \in Nat
      <4>1. j - 1 \in Nat /\ (j - 1) + 1 = j
        BY <3>1
      <4> QED
        BY <3>1, <4>1, Powers, PowersAre
    <3> HIDE DEF j
    <3>3. n + 1 < Pow10[j] /\ Pow10[j - 1] <= n + 1
      BY <1>2, <3>1, <3>2
    <3>4. Digits(n + 1) = j
      BY <1>2, <3>1, <3>3, DigitsBound
    <3> QED
      BY <3>4 DEF j
  <2>4. Digits(n) \in Nat
    BY <1>2, DigitsAre
  <2> HIDE DEF n, z
  <2> QED
    BY <1>1, <1>3, <2>2, <2>3, <2>4
<1>7. a.c = 0 => AdjExp(y) = z
  <2> SUFFICES ASSUME a.c = 0 PROVE AdjExp(y) = z
    OBVIOUS
  <2>1. n + 1 = 1
    BY <1>2
  <2>2. Digits(1) = 1
    BY PowersAre, DigitsBound
  <2> HIDE DEF n, z
  <2> QED
    BY <1>1, <1>3, <2>1, <2>2
<1> HIDE DEF q, z
<1>8. q \in Int /\ q <= a.e /\ Etiny(ctx) <= q
  BY <1>1, <1>5, <1>6, <1>7
<1>9. /\ k \in Nat /\ p \in Nat /\ p >= 10 /\ q - z \in Nat \ {0}
      /\ n = p * k
      /\ k = 0 <=> a.c = 0
      /\ k # 0 => Digits(k) + q - 1 = AdjExp(a)
  BY <1>8, PlaceIs DEF z
<1>10. InPlace(k, q, ctx)
  <2> HIDE DEF k
  <2>1. CASE a.c = 0
    BY <1>1, <1>5, <1>7, <1>9, <2>1 DEF InPlace
  <2>2. CASE a.c # 0
    <3>1. Digits(k) \in Nat
      BY <1>9, DigitsAre
    <3> QED
      BY <1>1, <1>5, <1>6, <1>9, <2>2, <3>1 DEF InPlace
  <2> QED
    BY <2>1, <2>2
<1>11. Num(x, q) = n + 1 /\ Den(x, q) = p
  <2>1. q >= z
    BY <1>1, <1>8
  <2> QED
    BY <1>3, <1>8, <2>1, ItselfIs DEF x
<1> HIDE DEF n, k, p
<1>12. (n + 1) \div p = k /\ (n + 1) % p = 1
  <2>1. n + 1 = p * k + 1 /\ 1 \in 0..(p - 1) /\ p \in Nat \ {0} /\ n + 1 \in Nat
    BY <1>2, <1>9
  <2> QED
    BY <1>9, <2>1, QuotientIs
<1>13. AwayFromZero(mode, x.s, k, 1, p)
  BY <1>4 DEF AwayFromZero
<1>14. RoundAt(x, q, mode).n = k + 1
  BY <1>11, <1>12, <1>13 DEF RoundAt
<1> DEFINE Goal == /\ x.n # 0 /\ x.s = s
                   /\ q \in Int /\ q <= a.e /\ Etiny(ctx) <= q
                   /\ InPlace(k, q, ctx)
                   /\ RoundAt(x, q, mode).n = k + 1
<1>15. Goal
  BY <1>2, <1>4, <1>8, <1>10, <1>14
<1> QED
  BY <1>15 DEF x, y, z, n, q, k

\* Towards zero it is rounded to the number before.
LEMMA InwardStep ==
  ASSUME NEW ctx, ContextOK(ctx), NEW a \in Numbers, Fits(a, ctx), a.c # 0,
         NEW mode, mode = IF a.s = 1 THEN "ROUND_CEILING" ELSE "ROUND_FLOOR"
  PROVE  LET x == Itself(Fin(a.s, Part(a, Etiny(ctx) - 1) - 1, Etiny(ctx) - 1))
             q == LastPlace(x, ctx)
             k == Part(a, q)
         IN /\ x.n # 0 /\ x.s = a.s
            /\ q \in Int /\ q <= a.e /\ Etiny(ctx) <= q
            /\ k > 0 /\ InPlace(k - 1, q, ctx)
            /\ RoundAt(x, q, mode).n = k - 1
<1> DEFINE z == Etiny(ctx) - 1
           n == Part(a, z)
           y == Fin(a.s, n - 1, z)
           x == Itself(y)
           q == LastPlace(x, ctx)
           k == Part(a, q)
           p == Pow10[q - z]
<1>1. /\ z \in Int /\ z < a.e /\ a.e \in Int /\ ctx.prec \in Nat \ {0} /\ ctx.emax \in Nat
      /\ Etiny(ctx) \in Int /\ Etiny(ctx) = z + 1 /\ Etiny(ctx) <= a.e
      /\ Digits(a.c) \in Nat /\ Digits(a.c) <= ctx.prec
      /\ AdjExp(a) = a.e + Digits(a.c) - 1 /\ a.s \in {0, 1}
  BY Limits, NumberFields DEF ContextOK, Fits
<1>2. n \in Nat /\ n >= 10
  BY <1>1, StepIs
<1>3. /\ y \in Numbers /\ y.c = n - 1 /\ y.c # 0 /\ y.e = z /\ y.s = a.s
      /\ AdjExp(y) = z + Digits(n - 1) - 1 /\ n - 1 \in Nat
  <2> DEFINE m == n - 1
  <2> HIDE DEF n, z
  <2>1. m \in Nat /\ m # 0
    BY <1>2
  <2>2. y = Fin(a.s, m, z)
    OBVIOUS
  <2> HIDE DEF m, y
  <2>3. y \in Numbers /\ y.c = m /\ y.e = z /\ y.s = a.s /\ AdjExp(y) = z + Digits(m) - 1
    BY <1>1, <2>1, <2>2, FinFields
  <2> QED
    BY <2>1, <2>3 DEF m
<1> HIDE DEF y
<1>4. x \in Exacts /\ x.n = n - 1 /\ x.n > 0 /\ x.s = a.s /\ Leading(x) = AdjExp(y)
  <2>1. x \in Exacts /\ x.n = y.c /\ x.s = y.s
    BY <1>1, <1>3, ItselfIs
  <2>2. Leading(x) = AdjExp(y)
    BY <1>3, ItselfLeads
  <2> HIDE DEF x, n
  <2> QED
    BY <1>2, <1>3, <2>1, <2>2
<1> HIDE DEF x
<1>5. LET l == AdjExp(y) - ctx.prec + 1
      IN q \in Int /\ q = IF l >= Etiny(ctx) THEN l ELSE Etiny(ctx)
  BY <1>4, LastPlaceIs
<1>6. AdjExp(y) <= AdjExp(a)
  <2>1. SameNumber(a, n, z) /\ n # 0
    BY <1>1, <1>2, PartIsSame
  <2>2. AdjExp(a) = Digits(n) + z - 1
    BY <1>1, <1>2, <2>1, NumberAt
  <2> HIDE DEF n, z
  <2>3. Digits(n - 1) <= Digits(n) /\ Digits(n) \in Nat /\ Digits(n - 1) \in Nat
    <3>1. Digits(n) \in Nat \ {0} /\ n < Pow10[Digits(n)] /\ Digits(n - 1) \in Nat
      BY <1>2, <1>3, DigitsAre
    <3>2. Pow10[Digits(n)] \in Nat
      BY <3>1, PowersAre
    <3>3. n - 1 < Pow10[Digits(n)] /\ Digits(n) >= 1
      BY <1>2, <3>1, <3>2
    <3> QED
      BY <1>3, <3>1, <3>3, DigitsBound
  <2> QED
    BY <1>1, <1>3, <2>2, <2>3
<1> HIDE DEF q, z
<1>7. q \in Int /\ q <= a.e /\ Etiny(ctx) <= q
  <2>1. AdjExp(y) \in Int
    BY <1>3, NumberFields
  <2> QED
    BY <1>1, <1>5, <1>6, <2>1
<1>8. /\ k \in Nat /\ p \in Nat /\ p >= 10 /\ q - z \in Nat \ {0}
      /\ n = p * k
      /\ k # 0
  BY <1>7, PlaceIs DEF z
<1>9. Num(x, q) = n - 1 /\ Den(x, q) = p
  <2>1. q >= z
    BY <1>1, <1>7
  <2> QED
    BY <1>3, <1>7, <2>1, ItselfIs DEF x
<1>10. n - 1 = p * (k - 1) + (p - 1) /\ k - 1 \in Nat /\ p - 1 \in 0..(p - 1)
       /\ p \in Nat \ {0}
  <2> HIDE DEF n, k, p
  <2>1. p * (k - 1) = p * k - p
    BY <1>8
  <2> QED
    BY <1>8, <2>1
<1>11. (n - 1) \div p = k - 1 /\ (n - 1) % p = p - 1
  <2> DEFINE m == n - 1
             i == k - 1
             j == p - 1
  <2>1. m \in Nat /\ i \in Nat /\ j \in 0..(p - 1) /\ m = p * i + j /\ p \in Nat \ {0}
    BY <1>3, <1>10
  <2> HIDE DEF n, k, p, m, i, j
  <2>2. m \div p = i
    BY <2>1, QuotientIs
  <2>3. m = p * (m \div p) + (m % p)
    BY <2>1
  <2>4. p * i \in Nat /\ (m % p) \in Nat
    BY <2>1
  <2>5. m % p = j
    BY <2>1, <2>2, <2>3, <2>4
  <2> QED
    BY <2>2, <2>5 DEF m, i, j
<1>12. InPlace(k - 1, q, ctx)
  <2>1. CASE k - 1 = 0
    <3>1. n - 1 < p
      <4> HIDE DEF n, k, p
      <4> QED
        BY <1>8, <2>1
    <3>2. Digits(n - 1) <= q - z /\ Digits(n - 1) \in Nat
      <4> HIDE DEF n, k
      <4>1. q - z \in Nat /\ q - z >= 1
        BY <1>8
      <4> QED
        BY <1>3, <3>1, <4>1, DigitsBound, DigitsAre DEF p
    <3> HIDE DEF n, k, p
    <3>3. q = Etiny(ctx)
      BY <1>1, <1>3, <1>5, <1>7, <3>2
    <3> QED
      BY <2>1, <3>3 DEF InPlace
  <2>2. CASE k - 1 # 0
    <3>1. (n - 1) \div Pow10[q - z] = k - 1 /\ n - 1 > 0
      BY <1>2, <1>11
    <3> HIDE DEF n, k, p
    <3>2. ~(q - z >= Digits(n - 1))
      BY <1>3, <1>8, <2>2, <3>1, DigitsShiftRight
    <3>3. Digits(n - 1) \in Nat
      BY <1>3, DigitsAre
    <3>4. Digits(k - 1) = Digits(n - 1) - (q - z)
      BY <1>3, <1>8, <3>1, <3>2, <3>3, DigitsShiftRight
    <3> QED
      BY <1>1, <1>3, <1>5, <1>7, <2>2, <3>3, <3>4 DEF InPlace
  <2> QED
    BY <2>1, <2>2
<1> HIDE DEF n, k, p
<1>13. ~AwayFromZero(mode, x.s, k - 1, p - 1, p)
  BY <1>1, <1>4 DEF AwayFromZero
<1>14. RoundAt(x, q, mode).n = k - 1
  BY <1>9, <1>11, <1>13 DEF RoundAt
<1> DEFINE Goal == /\ x.n # 0 /\ x.s = a.s
                   /\ q \in Int /\ q <= a.e /\ Etiny(ctx) <= q
                   /\ k > 0 /\ InPlace(k - 1, q, ctx)
                   /\ RoundAt(x, q, mode).n = k - 1
<1>15. Goal
  BY <1>3, <1>4, <1>7, <1>8, <1>12, <1>14
<1> QED
  BY <1>15 DEF x, y, z, n, q, k

\* A number, and the next one of the context away from zero.
LEMMA OutwardNeighbour ==
  ASSUME NEW ctx, ContextOK(ctx), NEW a \in Numbers, NEW k \in Nat, NEW q \in Int,
         SameNumber(a, k, q), InPlace(k, q, ctx),
         k # 0 => Digits(k) + q - 1 <= ctx.emax,
         NEW s \in {0, 1}, a.c = 0 \/ a.s = s, NEW d,
         IF Digits(k + 1) + q - 1 > ctx.emax THEN d = Inf(s)
         ELSE d \in Numbers /\ d.s = s /\ SameNumber(d, k + 1, q)
  PROVE  Neighbours(a, d, ctx) /\ Cmp(a, d) = (IF s = 0 THEN -1 ELSE 1)
<1>1. Outward(a, s, ctx) =
        IF Digits(k + 1) + q - 1 > ctx.emax THEN Inf(s) ELSE Fin(s, k + 1, q)
  BY OutwardIs
<1>2. a.s \in {0, 1} /\ a.e \in Int /\ ~IsInf(a) /\ a.k = "fin"
  BY NumberFields
<1>3. CASE Digits(k + 1) + q - 1 > ctx.emax
  <2>1. d = Inf(s) /\ Outward(a, s, ctx) = Inf(s)
    BY <1>1, <1>3
  <2>2. IsInf(Inf(s)) /\ Inf(s).s = s
    BY InfFits
  <2>3. /\ CmpAbs(a, d) < 0 /\ Cmp(a, d) = -ArithSign(d)
        /\ Cmp(Inf(s), Inf(s)) = 0
    BY <1>2, <2>1, <2>2 DEF CmpAbs, Cmp
  <2>4. -ArithSign(d) = (IF s = 0 THEN -1 ELSE 1)
    BY <2>1, <2>2 DEF ArithSign
  <2> QED
    BY <2>1, <2>2, <2>3, <2>4 DEF Neighbours
<1>4. CASE ~(Digits(k + 1) + q - 1 > ctx.emax)
  <2> DEFINE f == Fin(s, k + 1, q)
             u == Below(a, d, f)
             w == Pow10[q - u]
  <2>1. d \in Numbers /\ d.s = s /\ SameNumber(d, k + 1, q) /\ Outward(a, s, ctx) = f
    BY <1>1, <1>4
  <2>2. f \in Numbers /\ f.s = s /\ f.c = k + 1 /\ f.e = q /\ SameNumber(f, k + 1, q)
    <3>1. k + 1 \in Nat
      OBVIOUS
    <3>2. (k + 1) * Pow10[q - q] = k + 1
      <4>1. q - q = 0
        OBVIOUS
      <4> QED
        BY <3>1, <4>1, PowersAre
    <3> QED
      BY <3>1, <3>2, FinFields, SameHere
  <2> HIDE DEF f
  <2>3. u \in Int /\ u <= a.e /\ u <= d.e /\ u <= q
    <3>1. a \in Decimals /\ d \in Decimals /\ f \in Decimals
      BY <2>1, <2>2 DEF Decimals
    <3> QED
      BY <2>2, <3>1, BelowIs
  <2> HIDE DEF u
  <2>4. w \in Nat \ {0}
    <3>1. q - u \in Nat
      BY <2>3
    <3> QED
      BY <3>1, PowersAre
  <2>5. Part(a, u) = k * w /\ Part(d, u) = (k + 1) * w /\ Part(f, u) = (k + 1) * w
    BY <2>1, <2>2, <2>3, InUnits
  <2>6. /\ CmpAbs(a, d) = Sgn(Part(a, u) - Part(d, u))
        /\ Cmp(a, d) = Sgn(Valued(a, u) - Valued(d, u))
        /\ Cmp(f, d) = Sgn(Valued(f, u) - Valued(d, u))
    BY <2>1, <2>2, <2>3, CmpIs, CmpAbsIs
  <2> HIDE DEF w
  <2>7. k * w \in Nat /\ (k + 1) * w = k * w + w
    BY <2>4
  <2> DEFINE i == Part(a, u)
             j == Part(d, u)
  <2>8. i \in Nat /\ j \in Nat /\ i < j /\ Part(f, u) = j
    BY <2>4, <2>5, <2>7
  <2>9. a.c = 0 => i = 0
    BY <2>3, SignedIs
  <2>10. /\ Valued(a, u) = (IF a.s = 1 THEN -i ELSE i)
         /\ Valued(d, u) = (IF s = 1 THEN -j ELSE j) /\ Valued(f, u) = Valued(d, u)
    BY <2>1, <2>2, <2>8 DEF Valued
  <2> HIDE DEF i, j
  <2>11. Cmp(f, d) = 0
    BY <2>6, <2>8, <2>10 DEF Sgn
  <2>12. CmpAbs(a, d) < 0
    BY <2>6, <2>8 DEF Sgn, i, j
  <2>13. Cmp(a, d) = (IF s = 0 THEN -1 ELSE 1)
    BY <1>2, <2>6, <2>8, <2>9, <2>10 DEF Sgn
  <2> QED
    BY <2>1, <2>11, <2>12, <2>13 DEF Neighbours
<1> QED
  BY <1>3, <1>4

\* A number, and the one before it.
LEMMA InwardNeighbour ==
  ASSUME NEW ctx, ContextOK(ctx), NEW a \in Numbers, NEW k \in Nat, k > 0, NEW q \in Int,
         SameNumber(a, k, q), Digits(k) + q - 1 <= ctx.emax, InPlace(k - 1, q, ctx),
         NEW d \in Numbers, d.s = a.s, SameNumber(d, k - 1, q)
  PROVE  Neighbours(a, d, ctx) /\ Cmp(a, d) = (IF a.s = 1 THEN -1 ELSE 1)
<1>1. k - 1 \in Nat /\ (k - 1) + 1 = k
  OBVIOUS
<1>2. k - 1 # 0 => Digits(k - 1) + q - 1 <= ctx.emax
  <2>1. Digits(k) \in Nat \ {0} /\ k < Pow10[Digits(k)] /\ Digits(k - 1) \in Nat
    BY <1>1, DigitsAre
  <2>2. Pow10[Digits(k)] \in Nat
    BY <2>1, PowersAre
  <2>3. k - 1 < Pow10[Digits(k)] /\ Digits(k) >= 1
    BY <2>1, <2>2
  <2>4. Digits(k - 1) <= Digits(k)
    BY <1>1, <2>1, <2>3, DigitsBound
  <2>5. ctx.emax \in Nat
    BY DEF ContextOK
  <2> QED
    BY <2>1, <2>4, <2>5
<1>3. a.s \in {0, 1} /\ a.e \in Int /\ a.k = "fin"
  BY NumberFields
<1> DEFINE f == Fin(a.s, k, q)
           u == Below(a, d, f)
           w == Pow10[q - u]
<1>4. Outward(d, a.s, ctx) = f
  <2>1. Outward(d, a.s, ctx) =
          IF Digits((k - 1) + 1) + q - 1 > ctx.emax THEN Inf(a.s)
          ELSE Fin(a.s, (k - 1) + 1, q)
    BY <1>1, <1>2, <1>3, OutwardIs
  <2>2. Digits(k) \in Nat /\ ctx.emax \in Nat
    BY DigitsAre DEF ContextOK
  <2>3. ~(Digits(k) + q - 1 > ctx.emax)
    BY <2>2
  <2> QED
    BY <1>1, <2>1, <2>3
<1>5. f \in Numbers /\ f.s = a.s /\ f.c = k /\ f.e = q /\ SameNumber(f, k, q)
  <2>1. k * Pow10[q - q] = k
    <3>1. q - q = 0
      OBVIOUS
    <3> QED
      BY <3>1, PowersAre
  <2> QED
    BY <1>3, <2>1, FinFields, SameHere
<1> HIDE DEF f
<1>6. u \in Int /\ u <= a.e /\ u <= d.e /\ u <= q
  <2>1. a \in Decimals /\ d \in Decimals /\ f \in Decimals
    BY <1>5 DEF Decimals
  <2> QED
    BY <1>5, <2>1, BelowIs
<1> HIDE DEF u
<1>7. w \in Nat \ {0}
  <2>1. q - u \in Nat
    BY <1>6
  <2> QED
    BY <2>1, PowersAre
<1>8. Part(a, u) = k * w /\ Part(d, u) = (k - 1) * w /\ Part(f, u) = k * w
  BY <1>1, <1>5, <1>6, InUnits
<1>9. /\ CmpAbs(a, d) = Sgn(Part(a, u) - Part(d, u))
      /\ Cmp(a, d) = Sgn(Valued(a, u) - Valued(d, u))
      /\ Cmp(f, a) = Sgn(Valued(f, u) - Valued(a, u))
  BY <1>5, <1>6, CmpIs, CmpAbsIs
<1> HIDE DEF w
<1>10. k * w \in Nat /\ (k - 1) * w = k * w - w /\ (k - 1) * w \in Nat
  BY <1>1, <1>7
<1> DEFINE i == Part(a, u)
           j == Part(d, u)
<1>11. i \in Nat /\ j \in Nat /\ j < i /\ Part(f, u) = i
  BY <1>7, <1>8, <1>10
<1>12. /\ Valued(a, u) = (IF a.s = 1 THEN -i ELSE i) /\ Valued(f, u) = Valued(a, u)
       /\ Valued(d, u) = (IF a.s = 1 THEN -j ELSE j)
  BY <1>5, <1>11 DEF Valued
<1> HIDE DEF i, j
<1>13. Cmp(f, a) = 0
  BY <1>9, <1>11, <1>12 DEF Sgn
<1>14. ~(CmpAbs(a, d) < 0)
  BY <1>9, <1>11 DEF Sgn, i, j
<1>15. Cmp(a, d) = (IF a.s = 1 THEN -1 ELSE 1)
  BY <1>3, <1>9, <1>11, <1>12 DEF Sgn
<1> QED
  BY <1>4, <1>13, <1>14, <1>15 DEF Neighbours

\* The limits of two contexts.
SameRange(c, d) ==
  /\ c.prec = d.prec /\ c.emax = d.emax /\ c.emin = d.emin /\ c.clamp = d.clamp

LEMMA RangeKeeps ==
  ASSUME NEW c, NEW d, SameRange(c, d)
  PROVE  /\ Etiny(c) = Etiny(d) /\ Etop(c) = Etop(d) /\ MaxCoeff(c) = MaxCoeff(d)
         /\ \A x : LastPlace(x, c) = LastPlace(x, d)
         /\ \A a : Fits(a, c) <=> Fits(a, d)
         /\ \A a, s : Outward(a, s, c) = Outward(a, s, d)
         /\ \A a, r : Neighbours(a, r, c) <=> Neighbours(a, r, d)
<1>1. /\ Etiny(c) = Etiny(d) /\ Etop(c) = Etop(d) /\ MaxCoeff(c) = MaxCoeff(d)
      /\ c.prec = d.prec /\ c.emax = d.emax /\ c.clamp = d.clamp
  BY DEF SameRange, Etiny, Etop, MaxCoeff
<1>2. \A x : LastPlace(x, c) = LastPlace(x, d)
  BY <1>1 DEF LastPlace
<1>3. \A a : Fits(a, c) <=> Fits(a, d)
  BY <1>1 DEF Fits
<1>4. \A a, s : Outward(a, s, c) = Outward(a, s, d)
  BY <1>1 DEF Outward, Ulp
<1>5. \A a, r : Neighbours(a, r, c) <=> Neighbours(a, r, d)
  BY <1>4 DEF Neighbours
<1> QED
  BY <1>1, <1>2, <1>3, <1>4, <1>5

\* And their rounding mode, which is all that a number is finalized by.
LEMMA FinalizeKeepsTo ==
  ASSUME NEW c, NEW d, SameRange(c, d), c.round = d.round
  PROVE  \A a \in Numbers : Finalize(a, c) = Finalize(a, d)
<1>1. /\ Etiny(c) = Etiny(d) /\ Etop(c) = Etop(d) /\ MaxCoeff(c) = MaxCoeff(d)
      /\ c.prec = d.prec /\ c.emax = d.emax /\ c.clamp = d.clamp /\ c.emin = d.emin
  BY RangeKeeps DEF SameRange
<1>2. \A s : OverflowTo(s, c) = OverflowTo(s, d)
  BY <1>1 DEF OverflowTo
<1>3. \A a, rnd : RndIncr(a, rnd, c) = RndIncr(a, rnd, d)
  BY DEF RndIncr
<1>4. \A a, rnd : ApplyRoundExcess(a, rnd, c) = ApplyRoundExcess(a, rnd, d)
  BY <1>3 DEF ApplyRoundExcess
<1>5. \A a : RoundSubnormal(a, c) = RoundSubnormal(a, d)
  BY <1>1, <1>4 DEF RoundSubnormal, CutToEtiny
<1>6. \A a : CheckExp(a, c) = CheckExp(a, d)
  BY <1>1, <1>2, <1>5 DEF CheckExp
<1>7. \A a, rnd : ApplyRound(a, rnd, c) = ApplyRound(a, rnd, d)
  BY <1>1, <1>3, <1>6 DEF ApplyRound
<1>8. \A a : CheckRound(a, c) = CheckRound(a, d)
  BY <1>1, <1>7 DEF CheckRound, CutToPrec
<1> SUFFICES ASSUME NEW a \in Numbers PROVE Finalize(a, c) = Finalize(a, d)
  OBVIOUS
<1>9. ~IsNaN(a) /\ ~IsInf(a)
  BY NumberFields
<1> QED
  BY <1>6, <1>8, <1>9 DEF Finalize, RoundAfter

\* mpd_qnext_plus and mpd_qnext_minus find the nearest number of the context
\* on their side: the step that is less than any is rounded to it.
LEMMA NextIsNeighbour ==
  ASSUME NEW ctx, ContextOK(ctx), NEW work, ContextOK(work), SameRange(work, ctx),
         NEW sub \in {0, 1},
         work.round = (IF sub = 1 THEN "ROUND_FLOOR" ELSE "ROUND_CEILING"),
         NEW a \in Numbers, Fits(a, ctx)
  PROVE  LET d == FittedOr(Finalize(a, work), QAdd(a, TinyStep(sub, ctx), work)).d
         IN Neighbours(a, d, ctx) /\ Cmp(a, d) = (IF sub = 0 THEN -1 ELSE 1)
<1> DEFINE t == TinyStep(sub, ctx)
           r == QAdd(a, t, work)
           x == SumOf(a, t)
           z == Etiny(ctx) - 1
           n == Part(a, z)
           q == LastPlace(x, ctx)
           k == Part(a, q)
<1>1. /\ Etiny(work) = Etiny(ctx) /\ LastPlace(x, work) = q /\ Fits(a, work)
      /\ work.emax = ctx.emax /\ ctx.emax \in Nat
  BY RangeKeeps DEF SameRange, ContextOK
<1>2. /\ a \in Decimals /\ a.k = "fin" /\ ~IsNaN(a) /\ a.s \in {0, 1} /\ a.e \in Int
      /\ Etiny(ctx) \in Int /\ Etiny(ctx) <= a.e
  BY NumberFields, Limits DEF Decimals, Fits
<1>3. /\ t \in Numbers /\ z \in Int /\ z < a.e /\ n \in Nat
      /\ x = IF a.c = 0 \/ a.s = sub THEN Itself(Fin(sub, n + 1, z))
             ELSE Itself(Fin(a.s, n - 1, z))
  BY <1>2, StepIs
<1>4. FittedOr(Finalize(a, work), r).d = r.d
  <2>1. a \in Fitting(work)
    BY <1>1, <1>2, Limits DEF Fitting, FitsIn, Fits
  <2>2. Finalize(a, work) =
          Result(a, IF a.c # 0 /\ AdjExp(a) < work.emin THEN {"Subnormal"} ELSE {})
    BY <1>2, <2>1, FinalizeKeeps
  <2>3. Finalize(a, work).st \in {{"Subnormal"}, {}}
    BY <2>2 DEF Result
  <2>4. Finalize(a, work).st \cap ({"Inexact"} \cup Errors) = {}
    BY <2>3 DEF Errors
  <2> HIDE DEF r
  <2> QED
    BY <2>4 DEF FittedOr, OnlyErrors, Result
<1>5. IsRounded(r, x, work) /\ r.d \in Decimals
  <2>1. work.round \in Roundings
    BY DEF Roundings
  <2>2. t \in Decimals
    BY <1>3 DEF Decimals
  <2> HIDE DEF t
  <2>3. IsRounded(r, x, work)
    BY <1>3, <2>1, SumsAreRounded
  <2>4. r.d \in Fitting(work)
    BY <1>2, <2>2, QAddFits
  <2> QED
    BY <2>3, <2>4 DEF Fitting
<1> DEFINE at == RoundAt(x, q, work.round)
<1>6. /\ x.n # 0 /\ Digits(at.n) + q - 1 > ctx.emax =>
           r.d = IF EndsAtLargest(x.s, work) THEN Fin(x.s, MaxCoeff(work), Etop(work))
                 ELSE Inf(x.s)
      /\ x.n # 0 /\ ~(Digits(at.n) + q - 1 > ctx.emax) =>
           SameNumber(r.d, at.n, q) /\ r.d.s = x.s /\ r.d.k = "fin"
  <2> HIDE DEF r, x, q
  <2> QED
    BY <1>1, <1>5 DEF IsRounded, SameNumber
<1>7. r.d.k = "fin" => r.d \in Numbers
  <2> HIDE DEF r
  <2> QED
    BY <1>5, Kinds
<1> DEFINE Goal == Neighbours(a, r.d, ctx) /\ Cmp(a, r.d) = (IF sub = 0 THEN -1 ELSE 1)
<1>8. ASSUME a.c = 0 \/ a.s = sub PROVE Goal
  <2>1. x = Itself(Fin(sub, n + 1, z))
    BY <1>3, <1>8
  <2>2. /\ x.n # 0 /\ x.s = sub
        /\ q \in Int /\ q <= a.e /\ Etiny(ctx) <= q
        /\ InPlace(k, q, ctx) /\ at.n = k + 1
    BY <2>1, OutwardStep
  <2>3. /\ k \in Nat /\ SameNumber(a, k, q)
        /\ k # 0 => Digits(k) + q - 1 = AdjExp(a) /\ AdjExp(a) <= ctx.emax
    BY <2>2, PlaceIs
  <2>4. k # 0 => Digits(k) + q - 1 <= ctx.emax
    BY <2>3
  <2>5. ~EndsAtLargest(x.s, work)
    <3> HIDE DEF x
    <3> QED
      BY <2>2 DEF EndsAtLargest
  <2> HIDE DEF x, q, k, r, at
  <2>6. IF Digits(k + 1) + q - 1 > ctx.emax THEN r.d = Inf(sub)
        ELSE r.d \in Numbers /\ r.d.s = sub /\ SameNumber(r.d, k + 1, q)
    BY <1>6, <1>7, <2>2, <2>5
  <2>7. Goal
    BY <1>8, <2>2, <2>3, <2>4, <2>6, OutwardNeighbour
  <2> QED
    BY <2>7
<1>9. ASSUME ~(a.c = 0 \/ a.s = sub) PROVE Goal
  <2>1. x = Itself(Fin(a.s, n - 1, z))
    BY <1>3, <1>9
  <2>2. work.round = IF a.s = 1 THEN "ROUND_CEILING" ELSE "ROUND_FLOOR"
    BY <1>2, <1>9
  <2>3. /\ x.n # 0 /\ x.s = a.s
        /\ q \in Int /\ q <= a.e /\ Etiny(ctx) <= q
        /\ k > 0 /\ InPlace(k - 1, q, ctx) /\ at.n = k - 1
    BY <1>9, <2>1, <2>2, InwardStep
  <2>4. /\ k \in Nat /\ SameNumber(a, k, q)
        /\ k # 0 => Digits(k) + q - 1 = AdjExp(a) /\ AdjExp(a) <= ctx.emax
    BY <2>3, PlaceIs
  <2> HIDE DEF x, q, k, r, at
  <2>5. Digits(k) + q - 1 <= ctx.emax
    BY <2>3, <2>4
  <2>6. ~(Digits(k - 1) + q - 1 > ctx.emax)
    <3>1. Digits(k) \in Nat \ {0} /\ k < Pow10[Digits(k)] /\ k - 1 \in Nat
      BY <2>3, <2>4, DigitsAre
    <3>2. Pow10[Digits(k)] \in Nat
      BY <3>1, PowersAre
    <3>3. k - 1 < Pow10[Digits(k)] /\ Digits(k) >= 1
      BY <2>4, <3>1, <3>2
    <3>4. Digits(k - 1) <= Digits(k) /\ Digits(k - 1) \in Nat
      BY <3>1, <3>3, DigitsBound, DigitsAre
    <3> QED
      BY <1>1, <2>3, <2>5, <3>1, <3>4
  <2>7. r.d \in Numbers /\ r.d.s = a.s /\ SameNumber(r.d, k - 1, q)
    BY <1>6, <1>7, <2>3, <2>6
  <2>8. Neighbours(a, r.d, ctx) /\ Cmp(a, r.d) = (IF a.s = 1 THEN -1 ELSE 1)
    BY <2>3, <2>4, <2>5, <2>7, InwardNeighbour
  <2> QED
    BY <1>2, <1>9, <2>8
<1> HIDE DEF r
<1>10. Goal
  BY <1>8, <1>9
<1> QED
  BY <1>4, <1>10 DEF r
==============================================================================
