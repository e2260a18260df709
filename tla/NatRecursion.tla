----------------------------- MODULE NatRecursion -----------------------------
(***************************************************************************)
(* Induction over the natural numbers and functions defined by recursion   *)
(* on them, stated about sets and functions, not about operators: to prove *)
(* P(n) for every n, show that {n \in Nat : P(n)} is closed.  And what the *)
(* provers do not know of quotients by a number that is not given.         *)
(***************************************************************************)
EXTENDS Integers, TLAPS, WellFoundedInduction

\* The order of numbers, as a relation.
LessThan == {p \in Nat \X Nat : p[1] < p[2]}

\* The library's well-foundedness of <, for the relation above.
LEMMA LessThanWellFounded == IsWellFoundedOn(LessThan, Nat)
  BY NatLessThanWellFounded DEF OpToRel, LessThan

\* Every set of numbers that is not empty has a smallest member.
LEMMA HasSmallest ==
  ASSUME NEW T \in SUBSET Nat, T # {}
  PROVE  \E n \in T : \A i \in T : n <= i
<1>1. PICK n \in T : \A i \in T : <<i, n>> \notin LessThan
  BY LessThanWellFounded, WFMin
<1>2. \A i \in T : ~(i < n)
  BY <1>1 DEF LessThan
<1> QED
  BY <1>2

\* A set with 0 and the successor of each of its members has every number.
THEOREM NatIsInductive ==
  ASSUME NEW S, 0 \in S, \A n \in Nat : n \in S => n + 1 \in S
  PROVE  \A n \in Nat : n \in S
<1> SUFFICES ASSUME NEW k \in Nat, k \notin S
             PROVE  FALSE
  OBVIOUS
<1>1. PICK n \in {i \in Nat : i \notin S} :
           \A i \in {j \in Nat : j \notin S} : n <= i
  <2> DEFINE T == {i \in Nat : i \notin S}
  <2>1. T \in SUBSET Nat /\ T # {}
    OBVIOUS
  <2> HIDE DEF T
  <2>2. \E n \in T : \A i \in T : n <= i
    BY <2>1, HasSmallest
  <2> QED
    BY <2>2 DEF T
<1>2. n # 0 /\ n - 1 \in Nat /\ ~(n <= n - 1)
  OBVIOUS
<1>3. n - 1 \in S
  BY <1>1, <1>2
<1> QED
  BY <1>2, <1>3

------------------------------------------------------------------------------
(* Recursion.  step says what follows a value at a number.                  *)

\* The functions that obey the recursion up to n.
Approximations(S, base, step, n) ==
  {f \in [Nat -> S] :
     /\ f[0] = base
     /\ \A i \in Nat : i < n => f[i + 1] = step[i + 1][f[i]]}

\* A recursion can be followed to any number.
LEMMA ApproximationsExist ==
  ASSUME NEW S, NEW base \in S, NEW step \in [Nat -> [S -> S]]
  PROVE  \A n \in Nat : Approximations(S, base, step, n) # {}
<1> DEFINE Good == {n \in Nat : Approximations(S, base, step, n) # {}}
<1>1. 0 \in Good
  <2>1. [n \in Nat |-> base] \in Approximations(S, base, step, 0)
    BY DEF Approximations
  <2> QED
    BY <2>1
<1>2. ASSUME NEW n \in Nat, n \in Good
      PROVE  n + 1 \in Good
  <2>1. PICK f \in Approximations(S, base, step, n) : TRUE
    BY <1>2
  <2> DEFINE g == [f EXCEPT ![n + 1] = step[n + 1][f[n]]]
  <2>2. f \in [Nat -> S]
    BY <2>1 DEF Approximations
  <2>3. step[n + 1][f[n]] \in S
    BY <2>2
  <2>4. g \in [Nat -> S] /\ g[0] = base
    BY <2>1, <2>2, <2>3 DEF Approximations
  <2>5. ASSUME NEW i \in Nat, i < n + 1
        PROVE  g[i + 1] = step[i + 1][g[i]]
    <3>1. CASE i = n
      BY <2>2, <3>1
    <3>2. CASE i # n
      BY <2>1, <2>2, <2>5, <3>2 DEF Approximations
    <3> QED
      BY <3>1, <3>2
  <2>6. g \in Approximations(S, base, step, n + 1)
    BY <2>4, <2>5 DEF Approximations
  <2> QED
    BY <2>6
<1> HIDE DEF Good
<1>3. \A n \in Nat : n \in Good
  BY <1>1, <1>2, NatIsInductive
<1> QED
  BY <1>3 DEF Good

\* Whatever the number it is followed to, it gives the same.
LEMMA ApproximationsAgree ==
  ASSUME NEW S, NEW base \in S, NEW step \in [Nat -> [S -> S]],
         NEW m \in Nat, NEW n \in Nat, m <= n,
         NEW f \in Approximations(S, base, step, m),
         NEW g \in Approximations(S, base, step, n)
  PROVE  f[m] = g[m]
<1> DEFINE Same == {i \in Nat : i <= m => f[i] = g[i]}
<1>1. 0 \in Same
  BY DEF Approximations
<1>2. ASSUME NEW i \in Nat, i \in Same
      PROVE  i + 1 \in Same
  BY <1>2 DEF Approximations
<1> HIDE DEF Same
<1>3. \A i \in Nat : i \in Same
  BY <1>1, <1>2, NatIsInductive
<1> QED
  BY <1>3 DEF Same

\* f obeys the recursion everywhere.
Obeys(f, base, step) ==
  /\ f[0] = base
  /\ \A n \in Nat : f[n + 1] = step[n + 1][f[n]]

\* Some function does.
THEOREM RecursionExists ==
  ASSUME NEW S, NEW base \in S, NEW step \in [Nat -> [S -> S]]
  PROVE  \E f \in [Nat -> S] : Obeys(f, base, step)
<1> DEFINE A(n) == Approximations(S, base, step, n)
           pick(n) == CHOOSE f \in A(n) : TRUE
           f == [n \in Nat |-> pick(n)[n]]
<1>1. \A n \in Nat : pick(n) \in A(n)
  BY ApproximationsExist
<1>2. \A n \in Nat : pick(n) \in [Nat -> S] /\ pick(n)[0] = base
  BY <1>1 DEF Approximations
<1>3. f \in [Nat -> S] /\ f[0] = base
  BY <1>2
<1>4. ASSUME NEW n \in Nat
      PROVE  f[n + 1] = step[n + 1][f[n]]
  <2>1. pick(n) \in A(n) /\ pick(n + 1) \in A(n + 1)
    BY <1>1
  <2> HIDE DEF pick
  <2>2. pick(n)[n] = pick(n + 1)[n]
    BY <2>1, ApproximationsAgree
  <2>3. pick(n + 1)[n + 1] = step[n + 1][pick(n + 1)[n]]
    BY <2>1 DEF Approximations
  <2> QED
    BY <2>2, <2>3
<1> QED
  BY <1>3, <1>4 DEF Obeys

\* The same for numbers, as the equation f[n \in Nat] == ... stands for.
THEOREM IntRecursionExists ==
  ASSUME NEW base \in Int, NEW step \in [Nat -> [Int -> Int]]
  PROVE  \E f \in [Nat -> Int] :
           f = [n \in Nat |-> IF n = 0 THEN base ELSE step[n][f[n - 1]]]
<1>1. PICK f \in [Nat -> Int] : Obeys(f, base, step)
  BY RecursionExists
<1>2. ASSUME NEW n \in Nat
      PROVE  f[n] = IF n = 0 THEN base ELSE step[n][f[n - 1]]
  <2>1. CASE n = 0
    BY <1>1, <2>1 DEF Obeys
  <2>2. CASE n # 0
    <3>1. n - 1 \in Nat /\ n = (n - 1) + 1
      BY <2>2
    <3> QED
      BY <1>1, <2>2, <3>1 DEF Obeys
  <2> QED
    BY <2>1, <2>2
<1> QED
  BY <1>2

\* The same up to a bound.
THEOREM IntRecursionUpToExists ==
  ASSUME NEW m \in Nat, NEW base \in Int, NEW step \in [1..m -> [Int -> Int]]
  PROVE  \E f \in [0..m -> Int] :
           f = [n \in 0..m |-> IF n = 0 THEN base ELSE step[n][f[n - 1]]]
<1> DEFINE more == [n \in Nat |-> IF n \in 1..m THEN step[n] ELSE [a \in Int |-> a]]
<1>1. more \in [Nat -> [Int -> Int]]
  OBVIOUS
<1>2. \A n \in 1..m : more[n] = step[n]
  OBVIOUS
<1> HIDE DEF more
<1>3. PICK f \in [Nat -> Int] :
           f = [n \in Nat |-> IF n = 0 THEN base ELSE more[n][f[n - 1]]]
  BY <1>1, IntRecursionExists
<1> DEFINE g == [n \in 0..m |-> f[n]]
<1>4. g \in [0..m -> Int]
  OBVIOUS
<1>5. ASSUME NEW n \in 0..m
      PROVE  g[n] = IF n = 0 THEN base ELSE step[n][g[n - 1]]
  <2>1. CASE n = 0
    BY <1>3, <2>1
  <2>2. CASE n # 0
    <3>1. n \in 1..m /\ n - 1 \in 0..m /\ n \in Nat
      BY <2>2
    <3>2. f[n] = more[n][f[n - 1]]
      BY <1>3, <2>2, <3>1
    <3> QED
      BY <1>2, <2>2, <3>1, <3>2
  <2> QED
    BY <2>1, <2>2
<1> QED
  BY <1>4, <1>5
------------------------------------------------------------------------------
(* Recursion along numbers that grow: a walk up to a number top.            *)

\* f has the values that walks have from p on.
Follows(f, p, base, stop, next, step) ==
  f[p] = IF p \in stop THEN base ELSE step[p][f[next[p]]]

\* A function that is defined by a walk, of which every step goes up and none
\* goes beyond top, exists.
THEOREM WalkExists ==
  ASSUME NEW S, NEW base \in S, NEW top \in Nat, NEW next \in [Nat -> Nat],
         NEW stop, \A p \in Nat : p \notin stop => p < top /\ p < next[p],
         NEW step \in [Nat -> [S -> S]]
  PROVE  \E f \in [Nat -> S] : \A p \in Nat : Follows(f, p, base, stop, next, step)
<1> DEFINE Upto(f, m) ==
             \A p \in Nat : top <= p + m => Follows(f, p, base, stop, next, step)
           Good == {m \in Nat : \E f \in [Nat -> S] : Upto(f, m)}
<1>1. 0 \in Good
  <2> DEFINE f == [p \in Nat |-> base]
  <2>1. f \in [Nat -> S] /\ Upto(f, 0)
    BY DEF Follows
  <2> QED
    BY <2>1
<1>2. ASSUME NEW m \in Nat, m \in Good
      PROVE  m + 1 \in Good
  <2>1. PICK f \in [Nat -> S] : Upto(f, m)
    BY <1>2
  <2>2. CASE m + 1 > top
    <3>1. Upto(f, m + 1)
      BY <2>1, <2>2
    <3> QED
      BY <3>1
  <2>3. CASE ~(m + 1 > top)
    <3> DEFINE q == top - (m + 1)
               value == IF q \in stop THEN base ELSE step[q][f[next[q]]]
               g == [f EXCEPT ![q] = value]
    <3>1. q \in Nat
      BY <2>3
    <3>2. value \in S
      BY <3>1
    <3>3. g \in [Nat -> S]
      BY <3>1, <3>2
    <3>4. \A p \in Nat : p > q => g[p] = f[p]
      BY <3>1
    <3>5. g[q] = value
      BY <3>1
    <3>6. \A p \in Nat : top <= p + (m + 1) => p = q \/ (p > q /\ top <= p + m)
      BY <2>3
    <3> HIDE DEF g
    <3>7. ASSUME NEW p \in Nat, top <= p + (m + 1)
          PROVE  Follows(g, p, base, stop, next, step)
      <4>1. CASE p = q
        <5>1. q \notin stop => next[q] \in Nat /\ next[q] > q
          BY <3>1
        <5>2. q \notin stop => g[next[q]] = f[next[q]]
          BY <3>4, <5>1
        <5> QED
          BY <3>5, <4>1, <5>2 DEF Follows
      <4>2. CASE p > q /\ top <= p + m
        <5> HIDE DEF q
        <5>1. Follows(f, p, base, stop, next, step)
          BY <2>1, <4>2
        <5>2. p \notin stop => next[p] \in Nat /\ next[p] > q
          BY <3>1, <4>2
        <5>3. p \notin stop => g[next[p]] = f[next[p]]
          BY <3>4, <5>2
        <5>4. g[p] = f[p]
          BY <3>4, <4>2
        <5> QED
          BY <5>1, <5>3, <5>4 DEF Follows
      <4> QED
        BY <3>6, <3>7, <4>1, <4>2
    <3>8. Upto(g, m + 1)
      BY <3>7
    <3> QED
      BY <3>3, <3>8
  <2> QED
    BY <2>2, <2>3
<1> HIDE DEF Good
<1>3. top \in Good
  BY <1>1, <1>2, NatIsInductive
<1>4. PICK f \in [Nat -> S] : Upto(f, top)
  BY <1>3 DEF Good
<1>5. \A p \in Nat : top <= p + top
  OBVIOUS
<1> QED
  BY <1>4, <1>5

------------------------------------------------------------------------------
(* Recursion along numbers that shrink, not only by one.                    *)

\* A function that is defined by a walk, of which every step goes down, exists.
THEOREM DescentExists ==
  ASSUME NEW S, NEW base \in S, NEW next \in [Nat -> Nat],
         NEW stop, \A p \in Nat : p \notin stop => next[p] < p,
         NEW step \in [Nat -> [S -> S]]
  PROVE  \E f \in [Nat -> S] : \A p \in Nat : Follows(f, p, base, stop, next, step)
<1> DEFINE value(f, p) == IF p \in stop THEN base ELSE step[p][f[next[p]]]
           first == [p \in Nat |-> base]
           more == [p \in Nat |-> [f \in [Nat -> S] |->
                      [f EXCEPT ![p] = value(f, p)]]]
<1>1. first \in [Nat -> S]
  OBVIOUS
<1>2. \A f \in [Nat -> S], p \in Nat : value(f, p) \in S
  OBVIOUS
<1> HIDE DEF value
<1>3. more \in [Nat -> [[Nat -> S] -> [Nat -> S]]]
  BY <1>2
<1> HIDE DEF first, more
<1>4. PICK F \in [Nat -> [Nat -> S]] : Obeys(F, first, more)
  BY <1>1, <1>3, RecursionExists
<1>5. ASSUME NEW n \in Nat
      PROVE  F[n + 1] = [F[n] EXCEPT ![n + 1] = value(F[n], n + 1)]
  <2>1. n + 1 \in Nat /\ F[n] \in [Nat -> S]
    OBVIOUS
  <2>2. F[n + 1] = more[n + 1][F[n]]
    BY <1>4 DEF Obeys
  <2>3. more[n + 1] = [h \in [Nat -> S] |-> [h EXCEPT ![n + 1] = value(h, n + 1)]]
    BY <2>1, Zenon DEF more
  <2> QED
    BY <2>1, <2>2, <2>3, Zenon
<1> DEFINE f == [p \in Nat |-> F[p][p]]
<1>6. f \in [Nat -> S]
  OBVIOUS
<1>7. ASSUME NEW p \in Nat
      PROVE  \A m \in Nat : p <= m => F[m][p] = F[p][p]
  <2> DEFINE Kept == {m \in Nat : p <= m => F[m][p] = F[p][p]}
  <2>1. 0 \in Kept
    OBVIOUS
  <2>2. ASSUME NEW m \in Nat, m \in Kept
        PROVE  m + 1 \in Kept
    <3>1. CASE p = m + 1
      BY <3>1
    <3>2. CASE p # m + 1
      <4>1. F[m] \in [Nat -> S]
        OBVIOUS
      <4>2. F[m + 1][p] = F[m][p]
        BY <1>5, <3>2, <4>1
      <4> QED
        BY <2>2, <3>2, <4>2
    <3> QED
      BY <3>1, <3>2
  <2> HIDE DEF Kept
  <2>3. \A m \in Nat : m \in Kept
    BY <2>1, <2>2, NatIsInductive
  <2> QED
    BY <2>3 DEF Kept
<1>8. ASSUME NEW p \in Nat
      PROVE  Follows(f, p, base, stop, next, step)
  <2>1. CASE p = 0
    <3>1. p \in stop
      BY <2>1
    <3>2. F[0][0] = base
      BY <1>4 DEF Obeys, first
    <3> QED
      BY <2>1, <3>1, <3>2 DEF Follows
  <2>2. CASE p # 0
    <3>1. p - 1 \in Nat /\ p = (p - 1) + 1 /\ F[p - 1] \in [Nat -> S]
      BY <2>2
    <3>2. F[p][p] = value(F[p - 1], p)
      <4> DEFINE q == p - 1
      <4>1. F[q + 1] = [F[q] EXCEPT ![q + 1] = value(F[q], q + 1)] /\ F[q] \in [Nat -> S]
        BY <1>5, <3>1
      <4> HIDE DEF q
      <4>2. q + 1 \in Nat /\ p = q + 1
        BY <3>1 DEF q
      <4>3. F[q + 1][q + 1] = value(F[q], q + 1)
        BY <4>1, <4>2
      <4> QED
        BY <4>2, <4>3, Zenon DEF q
    <3>3. p \notin stop => F[p - 1][next[p]] = F[next[p]][next[p]]
      BY <1>7, <3>1
    <3> QED
      BY <3>2, <3>3 DEF Follows, value
  <2> QED
    BY <2>1, <2>2
<1> QED
  BY <1>6, <1>8

------------------------------------------------------------------------------
(* Quotients.                                                               *)

\* A quotient lies below c exactly when the number lies below c times the
\* divisor.
LEMMA QuotientsBound ==
  ASSUME NEW x \in Nat, NEW m \in Nat \ {0}, NEW c \in Nat
  PROVE  /\ x \div m \in Nat /\ x % m \in 0..(m - 1)
         /\ x = m * (x \div m) + (x % m)
         /\ x < c * m => x \div m < c
         /\ x >= c * m => x \div m >= c
<1>1. x \div m \in Nat /\ x % m \in 0..(m - 1)
  OBVIOUS
<1>4. x = m * (x \div m) + (x % m)
  OBVIOUS
<1>2. \A q, r \in Nat : r < m /\ x = m * q + r /\ x < c * m => q < c
  <2> SUFFICES ASSUME NEW q \in Nat, NEW r \in Nat, x = m * q + r, q >= c
               PROVE  x >= c * m
    OBVIOUS
  <2>1. PICK e \in Nat : q = c + e
    BY q - c \in Nat, q = c + (q - c)
  <2>2. m * (c + e) = c * m + m * e /\ m * e \in Nat /\ c * m \in Nat
    OBVIOUS
  <2> QED
    BY <2>1, <2>2
<1>3. \A q, r \in Nat : r < m /\ x = m * q + r /\ x >= c * m => q >= c
  <2> SUFFICES ASSUME NEW q \in Nat, NEW r \in Nat, r < m, x = m * q + r, q < c
               PROVE  x < c * m
    OBVIOUS
  <2>1. PICK e \in Nat : c = q + 1 + e
    BY c - q - 1 \in Nat, c = q + 1 + (c - q - 1)
  <2>2. (q + 1 + e) * m = m * q + m + m * e /\ m * e \in Nat /\ m * q \in Nat
    OBVIOUS
  <2> QED
    BY <2>1, <2>2
<1> QED
  BY <1>1, <1>2, <1>3, <1>4

\* A quotient is what division leaves.
LEMMA QuotientIs ==
  ASSUME NEW x \in Nat, NEW m \in Nat \ {0}, NEW q \in Nat, NEW r \in 0..(m - 1),
         x = m * q + r
  PROVE  x \div m = q
<1> DEFINE a == m * q
           b == q * m
           e == (q + 1) * m
<1>1. a \in Nat /\ b = a /\ e = a + m /\ x = a + r
  OBVIOUS
<1> HIDE DEF a, b, e
<1>2. x >= b /\ x < e
  BY <1>1
<1>3. q \in Nat /\ q + 1 \in Nat /\ x >= q * m /\ x < (q + 1) * m
  BY <1>2 DEF b, e
<1>4. x \div m >= q
  BY <1>3, QuotientsBound
<1>5. x \div m < q + 1 /\ x \div m \in Nat
  BY <1>3, QuotientsBound
<1> QED
  BY <1>4, <1>5

\* Of two numbers the larger has no smaller quotient.
LEMMA QuotientsIncrease ==
  ASSUME NEW x \in Nat, NEW y \in Nat, NEW m \in Nat \ {0}, x <= y
  PROVE  x \div m \in Nat /\ y \div m \in Nat /\ x \div m <= y \div m
<1> DEFINE q == x \div m
<1>1. q \in Nat /\ x = m * q + (x % m) /\ x % m \in 0..(m - 1) /\ y \div m \in Nat
  BY QuotientsBound
<1> HIDE DEF q
<1>2. x >= q * m
  BY <1>1
<1>3. y >= q * m
  BY <1>1, <1>2
<1>4. y \div m >= q
  BY <1>1, <1>3, QuotientsBound
<1> QED
  BY <1>1, <1>4 DEF q
==============================================================================
