--------------------------- MODULE Values_proofs ---------------------------
(***************************************************************************)
(* Proofs about the pure parts of the client (Numbers, Wire, Trading,      *)
(* Queries, Setup and the properties of Values), for every scale, int64    *)
(* range, table of assets, set of requests, asks and configurations that   *)
(* the assumptions of those modules admit.                                 *)
(*                                                                         *)
(* The recursive functions of Numbers are opened by Induction and          *)
(* Recursion below, which speak of sets and functions and follow from the  *)
(* smallest member of a set of numbers.                                    *)
(***************************************************************************)
EXTENDS Values, SequenceTheorems, FiniteSetTheorems, WellFoundedInduction, TLAPS

(***************************************************************************)
(* Induction and recursion over the numbers, for sets and functions.       *)
(***************************************************************************)

\* A set of numbers that is not empty has a smallest member.
LEMMA SmallestOf ==
  ASSUME NEW S, S \subseteq Nat, S # {}
  PROVE  \E n \in S : \A m \in S : n =< m
<1> DEFINE R == {ss \in Nat \X Nat : ss[1] < ss[2]}
<1>1. IsWellFoundedOn(R, Nat)
  BY NatLessThanWellFounded DEF OpToRel
<1>2. PICK n \in S : \A m \in S : ~ (<<m, n>> \in R)
  <2> HIDE DEF R
  <2> QED
    BY <1>1, WFMin
<1>3. \A m \in S : ~ (m < n)
  BY <1>2
<1> QED
  BY <1>3

\* A set that has 0 and, with a number, the next one has every number. (The
\* induction theorems of the library take an operator; a set needs none.)
LEMMA Induction ==
  ASSUME NEW S, \A n \in Nat : (\A m \in 0 .. n - 1 : m \in S) => n \in S
  PROVE  Nat \subseteq S
<1> DEFINE T == Nat \ S
<1>1. CASE T = {}
  BY <1>1
<1>2. CASE T # {}
  <2>1. PICK n \in T : \A m \in T : n =< m
    BY <1>2, SmallestOf
  <2>2. \A m \in 0 .. n - 1 : m \in S
    BY <2>1
  <2> QED
    BY <2>1, <2>2
<1> QED
  BY <1>1, <1>2

\* A step of a recursion over S gives the value at a number by the values before.
StepOver(S, F) ==
  /\ F \in [Nat \X [Nat -> S] -> S]
  /\ \A n \in Nat : \A g, h \in [Nat -> S] :
       (\A i \in 0 .. n - 1 : g[i] = h[i]) => F[<<n, g>>] = F[<<n, h>>]

HasSolution(S, F) == \E f \in [Nat -> S] : \A n \in Nat : f[n] = F[<<n, f>>]

\* Definition by recursion: from a first value and a step, as a function of the
\* place and the value before, there is one function on the numbers.
LEMMA Recursion ==
  ASSUME NEW S, NEW s, s \in S, NEW F, StepOver(S, F)
  PROVE  HasSolution(S, F)
<1> SUFFICES \E f \in [Nat -> S] : \A n \in Nat : f[n] = F[<<n, f>>]
  BY DEF HasSolution
<1>0. /\ F \in [Nat \X [Nat -> S] -> S] /\ s \in S
      /\ \A n \in Nat : \A g, h \in [Nat -> S] :
           (\A i \in 0 .. n - 1 : g[i] = h[i]) => F[<<n, g>>] = F[<<n, h>>]
  BY DEF StepOver
<1> USE <1>0
<1> DEFINE Solves(g, n) == \A i \in 0 .. n : g[i] = F[<<i, g>>]
           Solved == {n \in Nat : \E g \in [Nat -> S] : Solves(g, n)}
<1>1. ASSUME NEW n \in Nat, \A m \in 0 .. n - 1 : m \in Solved
      PROVE  n \in Solved
  <2>1. PICK g \in [Nat -> S] : \A i \in 0 .. n - 1 : g[i] = F[<<i, g>>]
    <3>1. CASE n = 0
      <4>1. [i \in Nat |-> s] \in [Nat -> S] /\ 0 .. n - 1 = {}
        BY <3>1
      <4> QED
        BY <4>1, Zenon
    <3>2. CASE n # 0
      <4>1. n - 1 \in 0 .. n - 1
        BY <3>2
      <4>2. n - 1 \in Solved
        BY <1>1, <4>1
      <4>3. \E g \in [Nat -> S] : Solves(g, n - 1)
        BY <4>2
      <4> QED
        BY <4>3, Zenon
    <3> QED
      BY <3>1, <3>2
  <2> DEFINE h == [g EXCEPT ![n] = F[<<n, g>>]]
  <2>2. h \in [Nat -> S] /\ \A i \in 0 .. n - 1 : h[i] = g[i]
    OBVIOUS
  <2>3. h[n] = F[<<n, g>>]
    OBVIOUS
  <2> HIDE DEF h
  <2>4. \A i \in 0 .. n : F[<<i, h>>] = F[<<i, g>>]
    <3> TAKE i \in 0 .. n
    <3>1. i \in Nat /\ \A j \in 0 .. i - 1 : h[j] = g[j]
      BY <2>2
    <3> QED
      BY <2>2, <3>1
  <2>5. \A i \in 0 .. n : h[i] = F[<<i, h>>]
    <3> TAKE i \in 0 .. n
    <3>1. CASE i = n
      BY <2>3, <2>4, <3>1
    <3>2. CASE i # n
      <4>1. i \in 0 .. n - 1
        BY <3>2
      <4> QED
        BY <2>1, <2>2, <2>4, <4>1
    <3> QED
      BY <3>1, <3>2
  <2> QED
    BY <2>2, <2>5
<1>2. Nat \subseteq Solved
  <2> HIDE DEF Solved
  <2> QED
    BY <1>1, Induction
<1>3. ASSUME NEW g \in [Nat -> S], NEW h \in [Nat -> S], NEW m \in Nat, NEW n \in Nat,
             Solves(g, m), Solves(h, n)
      PROVE  \A i \in Nat : i =< m /\ i =< n => g[i] = h[i]
  <2> DEFINE E == {i \in Nat : i =< m /\ i =< n => g[i] = h[i]}
  <2>1. ASSUME NEW i \in Nat, \A j \in 0 .. i - 1 : j \in E
        PROVE  i \in E
    <3> SUFFICES ASSUME i =< m, i =< n PROVE g[i] = h[i]
      OBVIOUS
    <3>1. \A j \in 0 .. i - 1 : g[j] = h[j]
      BY <2>1
    <3>2. F[<<i, g>>] = F[<<i, h>>]
      BY <3>1
    <3>3. i \in 0 .. m /\ i \in 0 .. n
      OBVIOUS
    <3> QED
      BY <1>3, <3>2, <3>3
  <2>2. Nat \subseteq E
    <3> HIDE DEF E
    <3> QED
      BY <2>1, Induction
  <2> QED
    BY <2>2
<1> DEFINE G(n) == CHOOSE g \in [Nat -> S] : Solves(g, n)
           f == [n \in Nat |-> G(n)[n]]
<1>4. \A n \in Nat : G(n) \in [Nat -> S] /\ Solves(G(n), n)
  BY <1>2
<1> HIDE DEF G, Solved, Solves
<1>5. f \in [Nat -> S]
  BY <1>4
<1>6. ASSUME NEW n \in Nat
      PROVE  f[n] = F[<<n, f>>]
  <2>1. \A i \in 0 .. n - 1 : f[i] = G(n)[i]
    <3> TAKE i \in 0 .. n - 1
    <3>1. i \in Nat /\ i =< i /\ i =< n
      OBVIOUS
    <3>2. G(i)[i] = G(n)[i]
      BY <1>3, <1>4, <3>1, SMTT(30)
    <3> QED
      BY <3>1, <3>2
  <2>2. F[<<n, f>>] = F[<<n, G(n)>>]
    <3> HIDE DEF f
    <3> QED
      BY <1>4, <1>5, <2>1
  <2>3. G(n)[n] = F[<<n, G(n)>>]
    <3>1. Solves(G(n), n) /\ n \in 0 .. n
      BY <1>4
    <3> QED
      BY <3>1, Zenon DEF Solves
  <2>4. f[n] = G(n)[n]
    OBVIOUS
  <2> QED
    BY <2>2, <2>3, <2>4, Zenon
<1> HIDE DEF f
<1> QED
  BY <1>5, <1>6, Zenon

\* pow10 of precision.go is the powers of ten.
LEMMA PowerDef ==
  /\ pow10 \in [Nat -> Nat]
  /\ \A n \in Nat : pow10[n] = IF n = 0 THEN 1 ELSE 10 * pow10[n - 1]
<1> DEFINE F == [x \in Nat \X [Nat -> Nat] |->
                   IF x[1] = 0 THEN 1 ELSE 10 * x[2][x[1] - 1]]
<1>1. F \in [Nat \X [Nat -> Nat] -> Nat]
  OBVIOUS
<1>2. \A n \in Nat : \A g \in [Nat -> Nat] :
        F[<<n, g>>] = IF n = 0 THEN 1 ELSE 10 * g[n - 1]
  OBVIOUS
<1> HIDE DEF F
<1>3. \A n \in Nat : \A g, h \in [Nat -> Nat] :
        (\A i \in 0 .. n - 1 : g[i] = h[i]) => F[<<n, g>>] = F[<<n, h>>]
  BY <1>2
<1>4. PICK f \in [Nat -> Nat] : \A n \in Nat : f[n] = F[<<n, f>>]
  <2>1. 0 \in Nat
    OBVIOUS
  <2>2. StepOver(Nat, F)
    BY <1>1, <1>3 DEF StepOver
  <2>3. HasSolution(Nat, F)
    BY <2>1, <2>2, Recursion, Zenon
  <2> QED
    BY <2>3 DEF HasSolution
<1>5. f = [n \in Nat |-> IF n = 0 THEN 1 ELSE 10 * f[n - 1]]
  BY <1>2, <1>4
<1>6. pow10 = [n \in Nat |-> IF n = 0 THEN 1 ELSE 10 * pow10[n - 1]]
  BY <1>5 DEF pow10
<1>7. pow10 \in [Nat -> Nat]
  <2> DEFINE E == {n \in Nat : pow10[n] \in Nat}
  <2>1. ASSUME NEW n \in Nat, \A m \in 0 .. n - 1 : m \in E
        PROVE  n \in E
    <3>1. pow10[n] = IF n = 0 THEN 1 ELSE 10 * pow10[n - 1]
      BY <1>6
    <3>2. n # 0 => pow10[n - 1] \in Nat
      BY <2>1
    <3> QED
      BY <3>1, <3>2
  <2>2. Nat \subseteq E
    <3> HIDE DEF E
    <3> QED
      BY <2>1, Induction
  <2> QED
    BY <1>6, <2>2
<1> QED
  BY <1>6, <1>7

(***************************************************************************)
(* Division, powers of ten and decimal digits.                             *)
(***************************************************************************)

\* A number by its quotient and remainder.
LEMMA DivMod ==
  ASSUME NEW a \in Nat, NEW b \in Nat \ {0}
  PROVE  /\ a \div b \in Nat /\ a % b \in 0 .. b - 1
         /\ a = b * (a \div b) + (a % b)
OBVIOUS

\* The next multiple of b is above a.
LEMMA NextMultiple ==
  ASSUME NEW b \in Nat, NEW p \in Nat, NEW q \in Nat, p < q
  PROVE  b * q >= b * p + b
<1>1. q = p + 1 + (q - p - 1) /\ q - p - 1 \in Nat
  OBVIOUS
<1>2. b * q = b * p + b + b * (q - p - 1)
  BY <1>1
<1>3. b * (q - p - 1) \in Nat
  BY <1>1
<1> QED
  BY <1>2, <1>3

\* The quotient and the remainder are the only ones.
LEMMA DivUnique ==
  ASSUME NEW a \in Nat, NEW b \in Nat \ {0}, NEW q \in Nat, NEW r \in 0 .. b - 1,
         a = b * q + r
  PROVE  a \div b = q /\ a % b = r
<1> DEFINE p == a \div b
<1>1. p \in Nat /\ a % b \in 0 .. b - 1 /\ a = b * p + (a % b)
  BY DivMod
<1> HIDE DEF p
<1>2. ~ (p < q)
  <2> SUFFICES ASSUME p < q PROVE FALSE
    OBVIOUS
  <2>1. b * q >= b * p + b
    BY <1>1, NextMultiple
  <2> QED
    BY <1>1, <2>1
<1>3. ~ (q < p)
  <2> SUFFICES ASSUME q < p PROVE FALSE
    OBVIOUS
  <2>1. b * p >= b * q + b
    BY <1>1, NextMultiple
  <2> QED
    BY <1>1, <2>1
<1>4. p = q
  BY <1>1, <1>2, <1>3
<1> QED
  BY <1>1, <1>4 DEF p

\* Products of integers, for leaves the solver finds too hard.
LEMMA Assoc ==
  ASSUME NEW a \in Int, NEW b \in Int, NEW c \in Int
  PROVE  (a * b) * c = a * (b * c) /\ a * b = b * a /\ a * (b + c) = a * b + a * c
         /\ a * b \in Int
OBVIOUS

\* The product of two numbers that are not negative.
LEMMA NonNeg ==
  ASSUME NEW a \in Nat, NEW b \in Nat
  PROVE  a * b \in Nat /\ (a # 0 /\ b # 0 => a * b # 0 /\ a * b >= a)
OBVIOUS

\* Dividing twice is dividing by the product.
LEMMA DivDiv ==
  ASSUME NEW a \in Nat, NEW b \in Nat \ {0}, NEW c \in Nat \ {0}
  PROVE  b * c \in Nat \ {0} /\ (a \div b) \div c = a \div (b * c)
<1> DEFINE q == a \div b
           r == a % b
           s == q \div c
           t == q % c
<1>1. q \in Nat /\ r \in 0 .. b - 1 /\ a = b * q + r
  BY DivMod
<1>2. s \in Nat /\ t \in 0 .. c - 1 /\ q = c * s + t
  BY <1>1, DivMod
<1> HIDE DEF q, r, s, t
<1>3. b * c \in Nat \ {0}
  BY NonNeg
<1>4. a = (b * c) * s + (b * t + r)
  <2>1. b * q = b * (c * s) + b * t
    BY <1>1, <1>2
  <2>2. b * (c * s) = (b * c) * s
    BY <1>2
  <2>3. b * q \in Int /\ (b * c) * s \in Int /\ b * t \in Int
    BY <1>1, <1>2, <1>3
  <2> HIDE <1>3
  <2> QED
    BY <1>1, <2>1, <2>2, <2>3
<1>5. b * t + r \in 0 .. (b * c) - 1
  <2>1. b * c >= b * t + b
    BY <1>2, NextMultiple
  <2>2. b * t \in Nat
    BY <1>2, NonNeg
  <2> QED
    BY <1>1, <1>3, <2>1, <2>2
<1>6. a \div (b * c) = s
  <2> DEFINE d == b * c
             e == b * t + r
  <2> HIDE DEF d, e
  <2>1. d \in Nat \ {0} /\ e \in 0 .. d - 1 /\ a = d * s + e
    BY <1>3, <1>4, <1>5 DEF d, e
  <2>2. a \div d = s
    BY <1>2, <2>1, DivUnique
  <2> QED
    BY <2>2 DEF d
<1> QED
  BY <1>3, <1>6 DEF q, s

\* The powers of ten are positive, and each is ten times the one before.
LEMMA Powers ==
  /\ pow10[0] = 1
  /\ \A n \in Nat : pow10[n] \in Nat \ {0} /\ pow10[n + 1] = 10 * pow10[n]
<1>1. \A n \in Nat : pow10[n] \in Nat /\ pow10[n + 1] = 10 * pow10[n]
  <2> TAKE n \in Nat
  <2>1. n + 1 \in Nat /\ n + 1 # 0 /\ n + 1 - 1 = n
    OBVIOUS
  <2> QED
    BY <2>1, PowerDef
<1>2. pow10[0] = 1
  BY PowerDef
<1>3. \A n \in Nat : pow10[n] # 0
  <2> DEFINE E == {n \in Nat : pow10[n] # 0}
  <2>1. ASSUME NEW n \in Nat, \A m \in 0 .. n - 1 : m \in E
        PROVE  n \in E
    <3>1. CASE n = 0
      BY <1>2, <3>1
    <3>2. CASE n # 0
      <4>1. n - 1 \in Nat /\ n - 1 \in E /\ n = (n - 1) + 1
        BY <2>1, <3>2
      <4>2. pow10[n] = 10 * pow10[n - 1] /\ pow10[n - 1] \in Nat
        BY <1>1, <4>1
      <4> QED
        BY <4>1, <4>2
    <3> QED
      BY <3>1, <3>2
  <2>2. Nat \subseteq E
    <3> HIDE DEF E
    <3> QED
      BY <2>1, Induction
  <2> QED
    BY <2>2
<1> QED
  BY <1>1, <1>2, <1>3

\* The power of a sum of exponents is a product.
LEMMA PowerSum ==
  ASSUME NEW m \in Nat, NEW n \in Nat
  PROVE  pow10[m + n] = pow10[m] * pow10[n]
<1> DEFINE E == {k \in Nat : pow10[m + k] = pow10[m] * pow10[k]}
<1>1. ASSUME NEW k \in Nat, \A j \in 0 .. k - 1 : j \in E
      PROVE  k \in E
  <2>1. CASE k = 0
    <3>1. pow10[m] * 1 = pow10[m] /\ m + 0 = m
      BY Powers
    <3> QED
      BY <2>1, <3>1, Powers
  <2>2. CASE k # 0
    <3> DEFINE j == k - 1
    <3>1. j \in Nat /\ k = j + 1 /\ m + k = (m + j) + 1 /\ m + j \in Nat
      BY <2>2
    <3>2. pow10[m + j] = pow10[m] * pow10[j]
      BY <1>1, <2>2
    <3>3. pow10[k] = 10 * pow10[j] /\ pow10[m + k] = 10 * pow10[m + j]
      BY <3>1, Powers
    <3>4. pow10[m] \in Nat /\ pow10[j] \in Nat
      BY <3>1, Powers
    <3> HIDE DEF j
    <3>5. \A x, y \in Nat : 10 * (x * y) = x * (10 * y)
      OBVIOUS
    <3> QED
      BY <3>2, <3>3, <3>4, <3>5
  <2> QED
    BY <2>1, <2>2
<1>2. Nat \subseteq E
  <2> HIDE DEF E
  <2> QED
    BY <1>1, Induction
<1> QED
  BY <1>2

\* The powers of ten are ordered as their exponents.
LEMMA PowerOrder ==
  ASSUME NEW m \in Nat, NEW n \in Nat, m =< n
  PROVE  /\ pow10[n] = pow10[m] * pow10[n - m]
         /\ pow10[m] =< pow10[n]
<1>1. n - m \in Nat /\ n = m + (n - m)
  OBVIOUS
<1>2. pow10[n] = pow10[m] * pow10[n - m]
  BY <1>1, PowerSum
<1>3. pow10[m] \in Nat \ {0} /\ pow10[n - m] \in Nat \ {0}
  BY <1>1, Powers
<1> QED
  BY <1>2, <1>3, NonNeg

\* The digit of v at the place of 10^k.
Digit(v, k) == (v \div pow10[k]) % 10

\* A digit is a digit, and the last one is the remainder by ten.
LEMMA DigitType ==
  ASSUME NEW v \in Nat, NEW k \in Nat
  PROVE  Digit(v, k) \in 0 .. 9 /\ v \div pow10[k] \in Nat /\ v % pow10[k] \in Nat
<1>1. pow10[k] \in Nat \ {0}
  BY Powers
<1>2. v \div pow10[k] \in Nat /\ v % pow10[k] \in Nat
  BY <1>1, DivMod, SMTT(30)
<1> QED
  BY <1>2 DEF Digit

\* One digit more.
LEMMA DigitStep ==
  ASSUME NEW v \in Nat, NEW k \in Nat
  PROVE  /\ v \div pow10[k] = 10 * (v \div pow10[k + 1]) + Digit(v, k)
         /\ v % pow10[k + 1] = Digit(v, k) * pow10[k] + (v % pow10[k])
<1> DEFINE P == pow10[k]
           q == v \div P
           r == v % P
           s == q \div 10
           d == q % 10
<1>1. P \in Nat \ {0} /\ pow10[k + 1] = 10 * P /\ 10 * P \in Nat \ {0} /\ 10 * P = P * 10
  BY Powers
<1>2. q \in Nat /\ r \in 0 .. P - 1 /\ v = P * q + r
  BY <1>1, DivMod
<1>3. s \in Nat /\ d \in 0 .. 9 /\ q = 10 * s + d
  BY <1>2
<1> HIDE DEF P, q, r, s, d
<1>4. v = (10 * P) * s + (P * d + r)
  <2>1. P * q = P * (10 * s) + P * d
    BY <1>1, <1>2, <1>3
  <2>2. P * (10 * s) = (10 * P) * s
    BY <1>1, <1>3
  <2>3. P * q \in Int /\ (10 * P) * s \in Int /\ P * d \in Int
    BY <1>1, <1>2, <1>3
  <2> QED
    BY <1>2, <2>1, <2>2, <2>3
<1>5. P * d + r \in 0 .. 10 * P - 1
  <2>1. P * 10 >= P * d + P /\ P * d \in Nat
    BY <1>1, <1>3, NextMultiple, NonNeg
  <2> QED
    BY <1>1, <1>2, <2>1
<1>6. v \div (10 * P) = s /\ v % (10 * P) = P * d + r
  BY <1>1, <1>3, <1>4, <1>5, DivUnique
<1>7. P * d = d * P
  BY <1>1, <1>3
<1> QED
  BY <1>1, <1>3, <1>6, <1>7 DEF P, q, r, s, d, Digit

\* A number below b has the quotient 0.
LEMMA SmallDiv ==
  ASSUME NEW v \in Nat, NEW b \in Nat \ {0}
  PROVE  (v \div b = 0) <=> v < b
<1>1. v \div b \in Nat /\ v % b \in 0 .. b - 1 /\ v = b * (v \div b) + (v % b)
  BY DivMod
<1>2. CASE v \div b = 0
  BY <1>1, <1>2
<1>3. CASE v \div b # 0
  <2>1. b * (v \div b) >= b
    BY <1>1, <1>3, NonNeg
  <2> QED
    BY <1>1, <1>3, <2>1
<1> QED
  BY <1>2, <1>3

\* Trailing zeros say by which power of ten a number can be divided.
LEMMA TrailingZeros ==
  ASSUME NEW v \in Nat, NEW n \in Nat
  PROVE  (v % pow10[n] = 0) <=> \A k \in 0 .. n - 1 : Digit(v, k) = 0
<1> DEFINE E == {m \in Nat : (v % pow10[m] = 0) <=> \A k \in 0 .. m - 1 : Digit(v, k) = 0}
<1>1. ASSUME NEW m \in Nat, \A j \in 0 .. m - 1 : j \in E
      PROVE  m \in E
  <2>1. CASE m = 0
    <3>1. v % 1 = 0
      OBVIOUS
    <3> QED
      BY <2>1, <3>1, Powers
  <2>2. CASE m # 0
    <3> DEFINE j == m - 1
    <3>1. j \in Nat /\ m = j + 1 /\ j \in E /\ 0 .. m - 1 = (0 .. j - 1) \cup {j}
      BY <1>1, <2>2
    <3> HIDE DEF j
    <3>2. v % pow10[m] = Digit(v, j) * pow10[j] + (v % pow10[j])
      BY <3>1, DigitStep
    <3>3. Digit(v, j) \in Nat /\ v % pow10[j] \in Nat /\ pow10[j] \in Nat \ {0}
      <4>1. Digit(v, j) \in 0 .. 9 /\ v % pow10[j] \in Nat
        BY <3>1, DigitType
      <4> QED
        BY <3>1, <4>1, Powers
    <3>4. \A d, r \in Nat, p \in Nat \ {0} : (d * p + r = 0) <=> d = 0 /\ r = 0
      <4> TAKE d \in Nat, r \in Nat, p \in Nat \ {0}
      <4>1. d * p \in Nat /\ (d # 0 => d * p >= d) /\ (d = 0 => d * p = 0)
        BY NonNeg
      <4> QED
        BY <4>1
    <3>5. (v % pow10[m] = 0) <=> Digit(v, j) = 0 /\ v % pow10[j] = 0
      BY <3>2, <3>3, <3>4
    <3> QED
      BY <3>1, <3>5
  <2> QED
    BY <2>1, <2>2
<1>2. Nat \subseteq E
  <2> HIDE DEF E
  <2> QED
    BY <1>1, Induction
<1> QED
  BY <1>2

\* Leading zeros say below which power of ten a number is.
LEMMA LeadingDigits ==
  ASSUME NEW v \in Nat, NEW n \in Nat, NEW m \in Nat, v < pow10[n + m]
  PROVE  (v < pow10[n]) <=> \A k \in n .. n + m - 1 : Digit(v, k) = 0
<1> DEFINE E == {j \in Nat : v < pow10[n + j] =>
                   ((v < pow10[n]) <=> \A k \in n .. n + j - 1 : Digit(v, k) = 0)}
<1>1. ASSUME NEW j \in Nat, \A i \in 0 .. j - 1 : i \in E
      PROVE  j \in E
  <2>1. CASE j = 0
    <3>1. n .. n + j - 1 = {} /\ n + j = n
      BY <2>1
    <3> QED
      BY <3>1
  <2>2. CASE j # 0
    <3> DEFINE h == j - 1
               p == n + h
    <3>1. /\ h \in Nat /\ h \in E /\ p \in Nat /\ n + j = p + 1
          /\ n .. n + j - 1 = (n .. p - 1) \cup {p}
      <4>1. h \in 0 .. j - 1 /\ p \in Nat /\ n + j = p + 1
        BY <2>2
      <4>2. h \in E
        BY <1>1, <4>1
      <4>3. n .. n + j - 1 = (n .. p - 1) \cup {p}
        BY <4>1
      <4> QED
        BY <4>1, <4>2, <4>3
    <3> HIDE DEF h
    <3>2. SUFFICES ASSUME v < pow10[p + 1]
                   PROVE  (v < pow10[n]) <=> \A k \in n .. n + j - 1 : Digit(v, k) = 0
      BY <3>1
    <3> DEFINE q == v \div pow10[p]
    <3>3. pow10[p] \in Nat \ {0} /\ pow10[p + 1] \in Nat \ {0} /\ pow10[n] \in Nat
      BY <3>1, Powers
    <3>4. v \div pow10[p + 1] = 0
      BY <3>2, <3>3, SmallDiv
    <3>5. q = Digit(v, p)
      <4>1. q = 10 * (v \div pow10[p + 1]) + Digit(v, p)
        BY <3>1, DigitStep
      <4>2. Digit(v, p) \in 0 .. 9
        BY <3>1, DigitType
      <4> QED
        BY <3>4, <4>1, <4>2
    <3>6. (Digit(v, p) = 0) <=> v < pow10[p]
      BY <3>3, <3>5, SmallDiv
    <3>7. pow10[n] =< pow10[p]
      <4>1. n =< p
        BY <3>1
      <4> QED
        BY <3>1, <4>1, PowerOrder
    <3>8. v < pow10[n] => v < pow10[p]
      BY <3>3, <3>7
    <3>9. v < pow10[p] => ((v < pow10[n]) <=> \A k \in n .. p - 1 : Digit(v, k) = 0)
      BY <3>1
    <3> HIDE DEF q, p
    <3> QED
      BY <3>1, <3>6, <3>8, <3>9
  <2> QED
    BY <2>1, <2>2
<1>2. Nat \subseteq E
  <2> HIDE DEF E
  <2> QED
    BY <1>1, Induction
<1> QED
  BY <1>2

(***************************************************************************)
(* The recursions of Numbers.                                              *)
(***************************************************************************)

\* countDigits computes, on the numbers, what its recursion says.
LEMMA CountDef ==
  /\ countDigits \in [Nat -> Nat]
  /\ \A v \in Nat : countDigits[v] = IF v = 0 THEN 0 ELSE 1 + countDigits[v \div 10]
<1> DEFINE F == [x \in Nat \X [Nat -> Nat] |->
                   IF x[1] = 0 THEN 0 ELSE 1 + x[2][x[1] \div 10]]
<1>1. F \in [Nat \X [Nat -> Nat] -> Nat]
  OBVIOUS
<1>2. \A n \in Nat : \A g \in [Nat -> Nat] :
        F[<<n, g>>] = IF n = 0 THEN 0 ELSE 1 + g[n \div 10]
  OBVIOUS
<1> HIDE DEF F
<1>3. \A n \in Nat : n # 0 => n \div 10 \in 0 .. n - 1
  OBVIOUS
<1>4. \A n \in Nat : \A g, h \in [Nat -> Nat] :
        (\A i \in 0 .. n - 1 : g[i] = h[i]) => F[<<n, g>>] = F[<<n, h>>]
  BY <1>2, <1>3
<1>5. PICK f \in [Nat -> Nat] : \A n \in Nat : f[n] = F[<<n, f>>]
  <2>1. 0 \in Nat
    OBVIOUS
  <2>2. StepOver(Nat, F)
    BY <1>1, <1>4 DEF StepOver
  <2>3. HasSolution(Nat, F)
    BY <2>1, <2>2, Recursion, Zenon
  <2> QED
    BY <2>3 DEF HasSolution
<1>6. f = [n \in Nat |-> IF n = 0 THEN 0 ELSE 1 + f[n \div 10]]
  BY <1>2, <1>5
<1>7. countDigits = [n \in Nat |-> IF n = 0 THEN 0 ELSE 1 + countDigits[n \div 10]]
  BY <1>6 DEF countDigits
<1>8. countDigits \in [Nat -> Nat]
  <2> DEFINE E == {n \in Nat : countDigits[n] \in Nat}
  <2>1. ASSUME NEW n \in Nat, \A m \in 0 .. n - 1 : m \in E
        PROVE  n \in E
    <3>1. countDigits[n] = IF n = 0 THEN 0 ELSE 1 + countDigits[n \div 10]
      BY <1>7
    <3>2. n # 0 => countDigits[n \div 10] \in Nat
      BY <1>3, <2>1
    <3> QED
      BY <3>1, <3>2
  <2>2. Nat \subseteq E
    <3> HIDE DEF E
    <3> QED
      BY <2>1, Induction
  <2> QED
    BY <1>7, <2>2
<1> QED
  BY <1>7, <1>8

\* A number has at most n digits when it is below 10^n.
LEMMA CountBelow ==
  ASSUME NEW v \in Nat
  PROVE  \A n \in Nat : (countDigits[v] =< n) <=> v < pow10[n]
<1> DEFINE E == {u \in Nat : \A n \in Nat : (countDigits[u] =< n) <=> u < pow10[n]}
<1>1. ASSUME NEW u \in Nat, \A w \in 0 .. u - 1 : w \in E
      PROVE  u \in E
  <2>1. CASE u = 0
    BY <2>1, CountDef, Powers
  <2>2. CASE u # 0
    <3> DEFINE w == u \div 10
    <3>1. w \in 0 .. u - 1 /\ w \in Nat /\ w \in E
      BY <1>1, <2>2
    <3>2. countDigits[u] = 1 + countDigits[w] /\ countDigits[w] \in Nat
      BY <2>2, <3>1, CountDef
    <3>3. ASSUME NEW n \in Nat
          PROVE  (countDigits[u] =< n) <=> u < pow10[n]
      <4>1. CASE n = 0
        BY <2>2, <3>2, <4>1, Powers
      <4>2. CASE n # 0
        <5>1. n - 1 \in Nat /\ n = (n - 1) + 1
          BY <4>2
        <5>2. pow10[n] = 10 * pow10[n - 1] /\ pow10[n - 1] \in Nat
          BY <5>1, Powers
        <5>3. (countDigits[w] =< n - 1) <=> w < pow10[n - 1]
          BY <3>1, <5>1
        <5>4. \A p \in Nat : w < p <=> u < 10 * p
          OBVIOUS
        <5> QED
          BY <3>2, <5>2, <5>3, <5>4
      <4> QED
        BY <4>1, <4>2
    <3> QED
      BY <3>3
  <2> QED
    BY <2>1, <2>2
<1>2. Nat \subseteq E
  <2> HIDE DEF E
  <2> QED
    BY <1>1, Induction
<1> QED
  BY <1>2

\* So does the recursion that writes the digits of an integer.
LEMMA DigitsDef ==
  /\ digitsOf \in [Nat -> Seq(Nat)]
  /\ \A n \in Nat : digitsOf[n] = IF n < 10 THEN <<n>>
                                  ELSE Append(digitsOf[n \div 10], n % 10)
<1> DEFINE F == [x \in Nat \X [Nat -> Seq(Nat)] |->
                   IF x[1] < 10 THEN <<x[1]>> ELSE Append(x[2][x[1] \div 10], x[1] % 10)]
<1>1. \A n \in Nat : n \div 10 \in Nat /\ n % 10 \in Nat
  OBVIOUS
<1>2. F \in [Nat \X [Nat -> Seq(Nat)] -> Seq(Nat)]
  <2> SUFFICES ASSUME NEW n \in Nat, NEW g \in [Nat -> Seq(Nat)]
               PROVE  (IF n < 10 THEN <<n>> ELSE Append(g[n \div 10], n % 10)) \in Seq(Nat)
    OBVIOUS
  <2>1. g[n \div 10] \in Seq(Nat) /\ n % 10 \in Nat
    BY <1>1
  <2> QED
    BY <2>1
<1>3. \A n \in Nat : \A g \in [Nat -> Seq(Nat)] :
        F[<<n, g>>] = IF n < 10 THEN <<n>> ELSE Append(g[n \div 10], n % 10)
  OBVIOUS
<1> HIDE DEF F
<1>4. \A n \in Nat : ~ (n < 10) => n \div 10 \in 0 .. n - 1
  OBVIOUS
<1>5. \A n \in Nat : \A g, h \in [Nat -> Seq(Nat)] :
        (\A i \in 0 .. n - 1 : g[i] = h[i]) => F[<<n, g>>] = F[<<n, h>>]
  BY <1>3, <1>4, ZenonT(40)
<1>6. PICK f \in [Nat -> Seq(Nat)] : \A n \in Nat : f[n] = F[<<n, f>>]
  <2>1. <<>> \in Seq(Nat)
    OBVIOUS
  <2>2. StepOver(Seq(Nat), F)
    BY <1>2, <1>5 DEF StepOver
  <2>3. HasSolution(Seq(Nat), F)
    BY <2>1, <2>2, Recursion, Zenon
  <2> QED
    BY <2>3 DEF HasSolution
<1>7. f = [n \in Nat |-> IF n < 10 THEN <<n>> ELSE Append(f[n \div 10], n % 10)]
  BY <1>3, <1>6
<1>8. digitsOf = [n \in Nat |-> IF n < 10 THEN <<n>>
                                ELSE Append(digitsOf[n \div 10], n % 10)]
  BY <1>7 DEF digitsOf
<1>9. digitsOf \in [Nat -> Seq(Nat)]
  <2> DEFINE E == {n \in Nat : digitsOf[n] \in Seq(Nat)}
  <2>1. ASSUME NEW n \in Nat, \A m \in 0 .. n - 1 : m \in E
        PROVE  n \in E
    <3>1. digitsOf[n] = IF n < 10 THEN <<n>> ELSE Append(digitsOf[n \div 10], n % 10)
      BY <1>8
    <3>2. ~ (n < 10) => digitsOf[n \div 10] \in Seq(Nat)
      BY <1>4, <2>1
    <3>3. digitsOf[n] \in Seq(Nat)
      <4>1. CASE n < 10
        <5>1. digitsOf[n] = <<n>>
          BY <3>1, <4>1
        <5> QED
          BY <5>1
      <4>2. CASE ~ (n < 10)
        <5> DEFINE s == digitsOf[n \div 10]
        <5>1. digitsOf[n] = Append(s, n % 10) /\ s \in Seq(Nat) /\ n % 10 \in Nat
          BY <1>1, <3>1, <3>2, <4>2
        <5> HIDE DEF s
        <5> QED
          BY <5>1
      <4> QED
        BY <4>1, <4>2
    <3> QED
      BY <3>3
  <2>2. Nat \subseteq E
    <3> HIDE DEF E
    <3> QED
      BY <2>1, Induction
  <2> QED
    BY <1>8, <2>2
<1> QED
  BY <1>8, <1>9

\* How many digits the text of n has.
Places(n) == IF n = 0 THEN 1 ELSE countDigits[n]

\* A number has as many digits as its text, at least one.
LEMMA PlacesType ==
  ASSUME NEW n \in Nat
  PROVE  Places(n) \in Nat \ {0} /\ n < pow10[Places(n)]
<1>1. countDigits[n] \in Nat
  BY CountDef
<1>2. CASE n = 0
  <2>1. pow10[1] \in Nat \ {0}
    BY Powers
  <2> QED
    BY <1>2, <2>1 DEF Places
<1>3. CASE n # 0
  <2>1. n < pow10[countDigits[n]]
    BY <1>1, CountBelow
  <2>2. countDigits[n] # 0
    BY <1>1, <1>3, <2>1, Powers
  <2> QED
    BY <1>1, <1>3, <2>1, <2>2 DEF Places
<1> QED
  BY <1>2, <1>3

\* The text of n: one digit for every place, the highest first.
LEMMA DigitsOf ==
  ASSUME NEW n \in Nat
  PROVE  digitsOf[n] = [i \in 1 .. Places(n) |-> Digit(n, Places(n) - i)]
<1> DEFINE E == {m \in Nat : digitsOf[m] = [i \in 1 .. Places(m) |-> Digit(m, Places(m) - i)]}
<1>1. ASSUME NEW m \in Nat, \A j \in 0 .. m - 1 : j \in E
      PROVE  m \in E
  <2>1. CASE m < 10
    <3>1. digitsOf[m] = <<m>>
      BY <2>1, DigitsDef
    <3>2. Places(m) = 1
      <4>1. m \div 10 = 0 /\ countDigits[0] = 0
        BY <2>1, CountDef
      <4>2. m # 0 => countDigits[m] = 1
        BY <4>1, CountDef
      <4> QED
        BY <4>2 DEF Places
    <3>3. Digit(m, 0) = m
      <4>1. m \div 1 = m /\ m % 10 = m
        BY <2>1
      <4> QED
        BY <4>1, Powers DEF Digit
    <3>4. [i \in 1 .. Places(m) |-> Digit(m, Places(m) - i)] = <<m>>
      BY <3>2, <3>3
    <3> QED
      BY <3>1, <3>4
  <2>2. CASE ~ (m < 10)
    <3> DEFINE h == m \div 10
               L == Places(h)
    <3>1. h \in 0 .. m - 1 /\ h \in Nat /\ h # 0 /\ m # 0
      BY <2>2
    <3>2. digitsOf[h] = [i \in 1 .. L |-> Digit(h, L - i)]
      BY <1>1, <3>1
    <3>3. digitsOf[m] = Append(digitsOf[h], m % 10)
      BY <2>2, DigitsDef
    <3>4. L \in Nat \ {0} /\ Places(m) = L + 1
      BY <3>1, PlacesType, CountDef DEF Places
    <3>5. Digit(m, 0) = m % 10
      <4>1. m \div 1 = m
        OBVIOUS
      <4> QED
        BY <4>1, Powers DEF Digit
    <3>6. \A k \in Nat : Digit(m, k + 1) = Digit(h, k)
      <4> TAKE k \in Nat
      <4>1. pow10[k] \in Nat \ {0} /\ pow10[k + 1] = 10 * pow10[k]
        BY Powers
      <4>2. h \div pow10[k] = m \div (10 * pow10[k])
        BY <4>1, DivDiv
      <4> QED
        BY <4>1, <4>2 DEF Digit
    <3> DEFINE s == [i \in 1 .. L |-> Digit(h, L - i)]
               t == [i \in 1 .. L + 1 |-> Digit(m, L + 1 - i)]
    <3>7. s \in Seq(Nat) /\ Len(s) = L
      <4>1. \A i \in 1 .. L : Digit(h, L - i) \in Nat
        <5> TAKE i \in 1 .. L
        <5>1. L - i \in Nat
          BY <3>4
        <5>2. Digit(h, L - i) \in 0 .. 9
          <6> HIDE DEF h
          <6> QED
            BY <3>1, <5>1, DigitType
        <5> QED
          BY <5>2
      <4> QED
        BY <3>4, <4>1
    <3>8. Append(s, m % 10) = t
      <4>1. \A i \in 1 .. L : s[i] = t[i]
        <5> TAKE i \in 1 .. L
        <5>1. L - i \in Nat /\ L + 1 - i = (L - i) + 1 /\ i \in 1 .. L + 1
          BY <3>4
        <5>2. s[i] = Digit(h, L - i) /\ t[i] = Digit(m, L + 1 - i)
          BY <5>1
        <5>3. Digit(m, (L - i) + 1) = Digit(h, L - i)
          BY <3>6, <5>1
        <5> HIDE DEF s, t
        <5> QED
          BY <5>1, <5>2, <5>3, Zenon
      <4>2. t[L + 1] = m % 10
        <5>1. L + 1 \in 1 .. L + 1 /\ L + 1 - (L + 1) = 0
          BY <3>4
        <5> QED
          BY <3>5, <5>1
      <4>3. DOMAIN Append(s, m % 10) = 1 .. L + 1 /\ Append(s, m % 10)[L + 1] = m % 10
            /\ \A i \in 1 .. L : Append(s, m % 10)[i] = s[i]
        <5>1. m % 10 \in Nat
          OBVIOUS
        <5> DEFINE d == m % 10
        <5> HIDE DEF s, d
        <5>2. Append(s, d) \in Seq(Nat) /\ Len(Append(s, d)) = L + 1
          BY <3>7, <5>1 DEF d
        <5>3. DOMAIN Append(s, d) = 1 .. L + 1
          BY <5>2
        <5>4. Append(s, d)[L + 1] = d /\ \A i \in 1 .. L : Append(s, d)[i] = s[i]
          BY <3>4, <3>7, <5>1 DEF d
        <5> QED
          BY <5>3, <5>4 DEF d
      <4>4. Append(s, m % 10) = [i \in 1 .. L + 1 |-> Append(s, m % 10)[i]]
        <5> HIDE DEF s
        <5> QED
          BY <3>4, <3>7
      <4>5. \A i \in 1 .. L + 1 : Append(s, m % 10)[i] = t[i]
        <5> HIDE DEF s, t
        <5> QED
          BY <3>4, <4>1, <4>2, <4>3
      <4> HIDE DEF s
      <4> QED
        BY <4>4, <4>5
    <3> HIDE DEF h, L, s, t
    <3>9. digitsOf[m] = t
      BY <3>2, <3>3, <3>8 DEF s
    <3> QED
      BY <3>4, <3>9 DEF t
  <2> QED
    BY <2>1, <2>2
<1>2. Nat \subseteq E
  <2> HIDE DEF E
  <2> QED
    BY <1>1, Induction
<1> QED
  BY <1>2

\* Scale is the power of ten of FixedDecimals and below the largest int64.
LEMMA Constants ==
  /\ FixedDecimals \in Nat \ {0} /\ Scale = pow10[FixedDecimals] /\ Scale \in Nat \ {0}
  /\ MaxInt \in Nat /\ Scale < MaxInt
<1>1. FixedDecimals \in Nat \ {0} /\ Scale = pow10[FixedDecimals]
  BY NumbersAssumption DEF Scale
<1>2. Scale \in Nat \ {0}
  BY <1>1, Powers
<1> QED
  BY <1>1, <1>2, NumbersAssumption

\* A multiple of a higher power of ten leaves a digit as it is.
LEMMA DigitPlus ==
  ASSUME NEW v \in Nat, NEW m \in Nat, NEW n \in Nat, NEW k \in 0 .. n - 1
  PROVE  Digit(v + m * pow10[n], k) = Digit(v, k)
<1> DEFINE P == pow10[k]
           R == pow10[n - k - 1]
           q == v \div P
           r == v % P
<1>1. k \in Nat /\ n - k - 1 \in Nat /\ n - k \in Nat /\ k =< n /\ n - k = (n - k - 1) + 1
  OBVIOUS
<1>2. P \in Nat \ {0} /\ R \in Nat /\ pow10[n] = P * (10 * R)
  <2>1. P \in Nat \ {0} /\ R \in Nat /\ pow10[n - k] = 10 * R
    BY <1>1, Powers
  <2>2. pow10[n] = P * pow10[n - k]
    BY <1>1, PowerOrder
  <2> QED
    BY <2>1, <2>2
<1>3. q \in Nat /\ r \in 0 .. P - 1 /\ v = P * q + r
  BY <1>2, DivMod
<1> HIDE DEF P, R, q, r
<1>4. m * R \in Nat
  BY <1>2, NonNeg
<1>5. v + m * pow10[n] = P * (q + 10 * (m * R)) + r
  <2>1. m * (P * (10 * R)) = P * (10 * (m * R))
    BY <1>2
  <2>2. P * (q + 10 * (m * R)) = P * q + P * (10 * (m * R))
    BY <1>2, <1>3, <1>4
  <2>3. P * q \in Int /\ P * (10 * (m * R)) \in Int
    BY <1>2, <1>3, <1>4
  <2> QED
    BY <1>2, <1>3, <2>1, <2>2, <2>3
<1>6. v + m * pow10[n] \in Nat
  BY <1>2, NonNeg
<1>7. (v + m * pow10[n]) \div P = q + 10 * (m * R)
  <2> DEFINE a == v + m * pow10[n]
             b == q + 10 * (m * R)
  <2>1. a \in Nat /\ b \in Nat /\ a = P * b + r
    BY <1>3, <1>4, <1>5, <1>6
  <2> HIDE DEF a, b
  <2>2. a \div P = b
    BY <1>2, <1>3, <2>1, DivUnique
  <2> QED
    BY <2>2 DEF a, b
<1>8. (q + 10 * (m * R)) % 10 = q % 10
  <2> DEFINE x == m * R
  <2>1. x \in Nat
    BY <1>4
  <2> HIDE DEF x
  <2>2. (q + 10 * x) % 10 = q % 10
    BY <1>3, <2>1
  <2> QED
    BY <2>2 DEF x
<1> QED
  BY <1>7, <1>8 DEF Digit, P, q

\* The digits in front of the point.
LEMMA IntDigits ==
  ASSUME NEW v \in Nat, NEW k \in Nat
  PROVE  Digit(v \div Scale, k) = Digit(v, FixedDecimals + k)
<1>1. pow10[k] \in Nat \ {0} /\ Scale \in Nat \ {0} /\ pow10[FixedDecimals + k] = Scale * pow10[k]
  BY Constants, Powers, PowerSum
<1>2. (v \div Scale) \div pow10[k] = v \div (Scale * pow10[k])
  BY <1>1, DivDiv
<1> QED
  BY <1>1, <1>2 DEF Digit

\* The digits behind it.
LEMMA FracDigits ==
  ASSUME NEW v \in Nat
  PROVE  Tail(digitsOf[Scale + (v % Scale)]) =
           [i \in 1 .. FixedDecimals |-> Digit(v, FixedDecimals - i)]
<1> DEFINE FD == FixedDecimals
           f == v % Scale
           w == Scale + f
<1>1. f \in 0 .. Scale - 1 /\ w \in Nat /\ w # 0 /\ v \div Scale \in Nat
      /\ v = f + (v \div Scale) * Scale
  <2>1. v \div Scale \in Nat /\ f \in 0 .. Scale - 1 /\ v = Scale * (v \div Scale) + f
    BY Constants, DivMod
  <2> DEFINE q == v \div Scale
  <2>2. q \in Nat /\ f \in 0 .. Scale - 1 /\ v = Scale * q + f
    BY <2>1
  <2> HIDE DEF q, f
  <2>3. Scale * q = q * Scale /\ q * Scale \in Int
    BY <2>2, Constants
  <2>4. v = f + q * Scale
    BY <2>2, <2>3, Constants
  <2>5. w \in Nat /\ w # 0
    BY <2>2, Constants
  <2> QED
    BY <2>2, <2>4, <2>5 DEF q
<1>2. Places(w) = FD + 1
  <2>1. FD + 1 \in Nat /\ pow10[FD + 1] = 10 * Scale
    BY Constants, Powers
  <2> HIDE DEF f
  <2>2. w < pow10[FD + 1] /\ ~ (w < pow10[FD])
    BY <1>1, <2>1, Constants
  <2> HIDE DEF w
  <2>3. countDigits[w] \in Nat
    BY <1>1, CountDef
  <2>4. FD \in Nat /\ FD + 1 \in Nat
    BY Constants
  <2>5. countDigits[w] =< FD + 1
    BY <1>1, <2>2, <2>4, CountBelow
  <2>6. ~ (countDigits[w] =< FD)
    BY <1>1, <2>2, <2>4, CountBelow
  <2>7. countDigits[w] = FD + 1
    BY <2>3, <2>4, <2>5, <2>6
  <2> QED
    BY <1>1, <2>7 DEF Places
<1>3. digitsOf[w] = [i \in 1 .. FD + 1 |-> Digit(w, (FD + 1) - i)]
  <2> HIDE DEF w
  <2> DEFINE n == Places(w)
  <2>1. digitsOf[w] = [i \in 1 .. n |-> Digit(w, n - i)]
    BY <1>1, DigitsOf
  <2> DEFINE m == FD + 1
  <2>2. n = m
    BY <1>2
  <2>3. \A i \in 1 .. m : digitsOf[w][i] = Digit(w, m - i)
    <3> HIDE DEF n, m
    <3> QED
      BY <2>1, <2>2
  <2>4. digitsOf[w] = [i \in 1 .. m |-> digitsOf[w][i]]
    <3> HIDE DEF n, m
    <3> QED
      BY <2>1, <2>2
  <2> HIDE DEF n, m
  <2>5. digitsOf[w] = [i \in 1 .. m |-> Digit(w, m - i)]
    BY <2>3, <2>4
  <2> QED
    BY <2>5 DEF m
<1>4. \A k \in 0 .. FD - 1 : Digit(w, k) = Digit(v, k)
  <2> TAKE k \in 0 .. FD - 1
  <2>1. Digit(f + 1 * Scale, k) = Digit(f, k)
    BY <1>1, Constants, DigitPlus, SMTT(30)
  <2>2. Digit(f + (v \div Scale) * Scale, k) = Digit(f, k)
    <3> HIDE DEF f
    <3> QED
      BY <1>1, Constants, DigitPlus
  <2>3. f + 1 * Scale = w
    BY <1>1, Constants
  <2> QED
    BY <1>1, <2>1, <2>2, <2>3
<1> DEFINE s == [i \in 1 .. FD + 1 |-> Digit(w, (FD + 1) - i)]
<1>5. s \in Seq(Nat) /\ Len(s) = FD + 1
  <2>1. \A i \in 1 .. FD + 1 : Digit(w, (FD + 1) - i) \in Nat
    <3> TAKE i \in 1 .. FD + 1
    <3>1. (FD + 1) - i \in Nat
      BY Constants
    <3> HIDE DEF w
    <3>2. Digit(w, (FD + 1) - i) \in 0 .. 9
      BY <1>1, <3>1, DigitType
    <3> QED
      BY <3>2
  <2> QED
    BY <2>1, Constants
<1>6. Tail(s) = [i \in 1 .. FD |-> s[i + 1]]
  <2> HIDE DEF s
  <2>1. FD \in Nat \ {0} /\ s # <<>>
    BY <1>5, Constants
  <2>2. Tail(s) \in Seq(Nat) /\ Len(Tail(s)) = FD /\ \A i \in 1 .. FD : Tail(s)[i] = s[i + 1]
    BY <1>5, <2>1, HeadTailProperties
  <2>3. Tail(s) = [i \in 1 .. FD |-> Tail(s)[i]]
    <3>1. Tail(s) \in [1 .. FD -> Nat]
      BY <2>2, LenProperties
    <3> QED
      BY <3>1
  <2> QED
    BY <2>2, <2>3
<1>7. \A i \in 1 .. FD : s[i + 1] = Digit(v, FD - i)
  <2> TAKE i \in 1 .. FD
  <2>1. i + 1 \in 1 .. FD + 1 /\ (FD + 1) - (i + 1) = FD - i /\ FD - i \in 0 .. FD - 1
    BY Constants
  <2>2. s[i + 1] = Digit(w, FD - i)
    BY <2>1
  <2> HIDE DEF w, s
  <2> QED
    BY <1>4, <2>1, <2>2
<1> HIDE DEF s, w
<1>8. digitsOf[w] = s
  BY <1>3 DEF s
<1> QED
  BY <1>6, <1>7, <1>8 DEF w

\* The sign in front of a text.
SignOf(f) == IF f < 0 THEN "-" ELSE ""

\* The text of a number: all the digits in front of the point, and those behind
\* it up to the last that is not zero.
LEMMA WireText ==
  ASSUME NEW f \in Int
  PROVE  LET v == AbsOf(f)
             text == AppendWire(f)
             L == Places(v \div Scale)
             U == Len(text.frac)
         IN /\ v \in Nat /\ L \in Nat \ {0} /\ v < pow10[FixedDecimals + L]
            /\ text.sign = SignOf(f)
            /\ text.dot = (v % Scale # 0)
            /\ text.int = [i \in 1 .. L |-> Digit(v, FixedDecimals + (L - i))]
            /\ U \in 0 .. FixedDecimals
            /\ text.frac = [i \in 1 .. U |-> Digit(v, FixedDecimals - i)]
            /\ (U = 0) <=> (v % Scale = 0)
            /\ U # 0 => Digit(v, FixedDecimals - U) # 0
            /\ \A k \in 0 .. FixedDecimals - U - 1 : Digit(v, k) = 0
<1> DEFINE FD == FixedDecimals
           v == AbsOf(f)
           frac == v % Scale
           L == Places(v \div Scale)
           places == Tail(digitsOf[Scale + frac])
           LastUsed(n) == /\ places[n] # 0
                      /\ \A m \in n + 1 .. FD : places[m] = 0
           used == CHOOSE n \in 1 .. FD : LastUsed(n)
           text == AppendWire(f)
<1>1. v \in Nat /\ v \div Scale \in Nat /\ frac \in Nat
  <2>1. v \in Nat
    BY DEF AbsOf
  <2> HIDE DEF v
  <2>2. v \div Scale \in Nat /\ frac \in 0 .. Scale - 1
    BY <2>1, Constants, DivMod
  <2> QED
    BY <2>1, <2>2, Constants
<1>2. /\ text.sign = SignOf(f)
      /\ text.int = digitsOf[v \div Scale]
      /\ text.dot = (frac # 0)
      /\ text.frac = IF frac = 0 THEN <<>> ELSE SubSeq(places, 1, used)
  BY Zenon DEF AppendWire, SignOf
<1>3. places = [i \in 1 .. FD |-> Digit(v, FD - i)]
  <2> HIDE DEF v
  <2> QED
    BY <1>1, FracDigits
<1> HIDE DEF v, text
<1>4. L \in Nat \ {0} /\ v \div Scale < pow10[L]
  BY <1>1, PlacesType
<1>5. v < pow10[FD + L]
  <2>1. pow10[FD + L] = Scale * pow10[L] /\ pow10[L] \in Nat
    BY <1>4, Constants, PowerSum, Powers
  <2> DEFINE q == v \div Scale
  <2>2. q \in Nat /\ frac \in 0 .. Scale - 1 /\ v = Scale * q + frac
    BY <1>1, Constants, DivMod
  <2>3. Scale * pow10[L] >= Scale * q + Scale
    <3> HIDE DEF q
    <3> QED
      BY <1>4, <2>1, <2>2, Constants, NextMultiple DEF q
  <2>4. Scale * pow10[L] \in Nat /\ Scale * q \in Nat
    <3> HIDE DEF q
    <3> QED
      BY <2>1, <2>2, Constants, NonNeg
  <2> HIDE DEF q
  <2> QED
    BY <2>1, <2>2, <2>3, <2>4, Constants
<1>6. digitsOf[v \div Scale] = [i \in 1 .. L |-> Digit(v, FD + (L - i))]
  <2>1. digitsOf[v \div Scale] = [i \in 1 .. L |-> Digit(v \div Scale, L - i)]
    BY <1>1, DigitsOf
  <2>2. \A i \in 1 .. L : Digit(v \div Scale, L - i) = Digit(v, FD + (L - i))
    <3> TAKE i \in 1 .. L
    <3>1. L - i \in Nat
      BY <1>4
    <3> QED
      BY <1>1, <3>1, IntDigits
  <2>3. [i \in 1 .. L |-> Digit(v \div Scale, L - i)] = [i \in 1 .. L |-> Digit(v, FD + (L - i))]
    <3> HIDE DEF L, FD
    <3> QED
      BY <2>2
  <2> QED
    BY <2>1, <2>3, Zenon
<1>7. CASE frac = 0
  <2>1. text.frac = <<>> /\ Len(text.frac) = 0
    BY <1>2, <1>7
  <2>2. \A k \in 0 .. FD - 1 : Digit(v, k) = 0
    BY <1>1, <1>7, Constants, TrailingZeros
  <2>3. [i \in 1 .. 0 |-> Digit(v, FD - i)] = <<>>
    OBVIOUS
  <2>4. FD - 0 - 1 = FD - 1 /\ 0 \in 0 .. FD
    BY Constants
  <2> QED
    <3> DEFINE U == Len(text.frac)
    <3>1. /\ U \in 0 .. FD /\ text.frac = [i \in 1 .. U |-> Digit(v, FD - i)]
          /\ U = 0 /\ \A k \in 0 .. FD - U - 1 : Digit(v, k) = 0
      BY <2>1, <2>2, <2>3, <2>4
    <3> HIDE DEF U, L
    <3> QED
      BY <1>1, <1>2, <1>4, <1>5, <1>6, <1>7, <3>1 DEF v, text, U, L
<1>8. CASE frac # 0
  <2>1. PICK k \in 0 .. FD - 1 : Digit(v, k) # 0 /\ \A j \in 0 .. k - 1 : Digit(v, j) = 0
    <3> DEFINE S == {k \in 0 .. FD - 1 : Digit(v, k) # 0}
    <3>1. \E k \in 0 .. FD - 1 : Digit(v, k) # 0
      <4>1. FD \in Nat /\ ~ (v % pow10[FD] = 0)
        BY <1>8, Constants
      <4> QED
        BY <1>1, <4>1, TrailingZeros
    <3> HIDE DEF FD
    <3>2. S # {} /\ S \subseteq Nat
      BY <3>1
    <3>3. PICK k \in S : \A j \in S : k =< j
      BY <3>2, SmallestOf
    <3>4. \A j \in 0 .. k - 1 : j \in 0 .. FD - 1 /\ ~ (k =< j)
      BY <3>3, Constants DEF FD
    <3> QED
      BY <3>3, <3>4
  <2>2. FD - k \in 1 .. FD /\ LastUsed(FD - k)
    <3>1. FD - k \in 1 .. FD /\ FD - (FD - k) = k
      BY Constants
    <3>2. places[FD - k] # 0
      BY <1>3, <2>1, <3>1
    <3>3. \A m \in (FD - k) + 1 .. FD : m \in 1 .. FD /\ FD - m \in 0 .. k - 1
      BY Constants
    <3>4. \A m \in (FD - k) + 1 .. FD : places[m] = 0
      BY <1>3, <2>1, <3>3
    <3> QED
      BY <3>1, <3>2, <3>4
  <2>3. used \in 1 .. FD /\ LastUsed(used)
    <3> HIDE DEF LastUsed
    <3> QED
      BY <2>2
  <2> HIDE DEF used
  <2>4. Digit(v, FD - used) # 0
    BY <1>3, <2>3
  <2>5. \A j \in 0 .. FD - used - 1 : Digit(v, j) = 0
    <3> TAKE j \in 0 .. FD - used - 1
    <3>1. FD - j \in used + 1 .. FD /\ FD - j \in 1 .. FD /\ FD - (FD - j) = j
      BY <2>3, Constants
    <3> QED
      BY <1>3, <2>3, <3>1
  <2>6. /\ Len(text.frac) = used
        /\ text.frac = [i \in 1 .. used |-> Digit(v, FD - i)]
    <3>1. text.frac = SubSeq(places, 1, used)
      BY <1>2, <1>8
    <3>2. places \in Seq(Nat) /\ Len(places) = FD
      <4>1. \A i \in 1 .. FD : Digit(v, FD - i) \in Nat
        <5> TAKE i \in 1 .. FD
        <5>1. FD - i \in Nat
          BY Constants
        <5>2. Digit(v, FD - i) \in 0 .. 9
          BY <1>1, <5>1, DigitType
        <5> QED
          BY <5>2
      <4> HIDE DEF places
      <4> QED
        BY <1>3, <4>1, Constants
    <3> HIDE DEF places
    <3>3. SubSeq(places, 1, used) = [i \in 1 .. used |-> places[i]]
      BY <2>3, <3>2, Constants
    <3>4. \A i \in 1 .. used : places[i] = Digit(v, FD - i)
      BY <1>3, <2>3, Constants
    <3>5. [i \in 1 .. used |-> places[i]] = [i \in 1 .. used |-> Digit(v, FD - i)]
      BY <3>4
    <3>6. Len([i \in 1 .. used |-> Digit(v, FD - i)]) = used
      BY <2>3, Constants
    <3> QED
      BY <3>1, <3>3, <3>5, <3>6
  <2> DEFINE U == Len(text.frac)
  <2>7. U = used
    BY <2>6
  <2> HIDE DEF places, LastUsed, U, L
  <2>8. /\ U \in 0 .. FD /\ text.frac = [i \in 1 .. U |-> Digit(v, FD - i)]
        /\ U # 0 /\ Digit(v, FD - U) # 0 /\ \A j \in 0 .. FD - U - 1 : Digit(v, j) = 0
    BY <2>3, <2>4, <2>5, <2>6, <2>7, Constants
  <2> QED
    BY <1>1, <1>2, <1>4, <1>5, <1>6, <1>8, <2>8 DEF v, text, U, L
<1> QED
  BY <1>7, <1>8

(***************************************************************************)
(* A number's text and the grids.                                          *)
(***************************************************************************)

\* How many digits the text of v has behind the point.
Decimals(v) == Len(AppendWire(v).frac)

\* A positive number's text has its own digits, without a sign.
LEMMA PositiveText ==
  ASSUME NEW v \in Nat
  PROVE  /\ v < pow10[FixedDecimals + Places(v \div Scale)]
         /\ Places(v \div Scale) \in Nat \ {0}
         /\ AppendWire(v).int = [i \in 1 .. Places(v \div Scale) |->
                                   Digit(v, FixedDecimals + (Places(v \div Scale) - i))]
         /\ Decimals(v) \in 0 .. FixedDecimals
         /\ AppendWire(v).frac = [i \in 1 .. Decimals(v) |-> Digit(v, FixedDecimals - i)]
         /\ (Decimals(v) = 0) <=> (v % Scale = 0)
         /\ Decimals(v) # 0 => Digit(v, FixedDecimals - Decimals(v)) # 0
         /\ \A k \in 0 .. (FixedDecimals - Decimals(v)) - 1 : Digit(v, k) = 0
<1>1. AbsOf(v) = v /\ v \in Int
  BY DEF AbsOf
<1> QED
  BY <1>1, WireText, Zenon DEF Decimals

\* The text ends where the number stops being a multiple of the next place.
LEMMA DecimalsOf ==
  ASSUME NEW v \in Nat, NEW d \in 0 .. FixedDecimals
  PROVE  (Decimals(v) =< d) <=> (v % pow10[FixedDecimals - d] = 0)
<1> DEFINE FD == FixedDecimals
           U == Decimals(v)
<1>1. FD \in Nat /\ U \in 0 .. FD /\ d \in Nat /\ FD - d \in Nat
  <2>1. U \in 0 .. FD
    BY PositiveText, Zenon
  <2>2. FD \in Nat
    BY Constants
  <2> HIDE DEF U
  <2> QED
    BY <2>1, <2>2
<1>2. /\ U # 0 => Digit(v, FD - U) # 0
      /\ \A k \in 0 .. (FD - U) - 1 : Digit(v, k) = 0
  BY PositiveText
<1>3. (v % pow10[FD - d] = 0) <=> \A k \in 0 .. (FD - d) - 1 : Digit(v, k) = 0
  BY <1>1, TrailingZeros
<1> HIDE DEF FD, U
<1>4. CASE U =< d
  <2>1. \A k \in 0 .. (FD - d) - 1 : k \in 0 .. (FD - U) - 1
    BY <1>1, <1>4
  <2> QED
    BY <1>2, <1>3, <1>4, <2>1 DEF FD, U
<1>5. CASE ~ (U =< d)
  <2>1. FD - U \in 0 .. (FD - d) - 1 /\ U # 0
    BY <1>1, <1>5
  <2> QED
    BY <1>2, <1>3, <1>5, <2>1 DEF FD, U
<1> QED
  BY <1>4, <1>5

\* The number of decimals, once limited to those of a wire number.
LEMMA ClampType ==
  ASSUME NEW d \in Int
  PROVE  /\ clampDecimals(d) \in 0 .. FixedDecimals
         /\ \A u \in 0 .. FixedDecimals : (u =< clampDecimals(d)) <=> u = 0 \/ u =< d
BY Constants DEF clampDecimals

\* ValidateSize is the exchange's rule for the text of a size.
LEMMA SizeRule ==
  ASSUME NEW p, p.sz \in Nat, NEW v \in Int
  PROVE  ValidateSize(p, v) = SizeTaken(p, v)
<1>1. CASE v > 0
  <2>1. v \in Nat
    BY <1>1
  <2>2. Decimals(v) \in 0 .. FixedDecimals
    BY <2>1, PositiveText
  <2>3. clampDecimals(p.sz) \in 0 .. FixedDecimals
        /\ ((Decimals(v) =< clampDecimals(p.sz)) <=> Decimals(v) =< p.sz)
    BY <2>2, ClampType
  <2>4. (Decimals(v) =< clampDecimals(p.sz)) <=> (v % LotSize(p) = 0)
    BY <2>1, <2>3, DecimalsOf DEF LotSize
  <2> QED
    BY <2>3, <2>4 DEF ValidateSize, SizeTaken, Decimals
<1>2. CASE ~ (v > 0)
  BY <1>2 DEF ValidateSize, SizeTaken
<1> QED
  BY <1>1, <1>2

\* The zeros in front are those above the highest digit that is not zero.
LEMMA LeadingZerosOf ==
  ASSUME NEW v \in Nat \ {0}, Decimals(v) # 0
  PROVE  LET digits == AppendWire(v).int \o AppendWire(v).frac
         IN Len(digits) - LeadingZeros(digits)
              = (Decimals(v) + countDigits[v]) - FixedDecimals
<1> DEFINE FD == FixedDecimals
           U == Decimals(v)
           L == Places(v \div Scale)
           c == countDigits[v]
           int == AppendWire(v).int
           frac == AppendWire(v).frac
           digits == int \o frac
           z == (FD + L) - c
<1>1. FD \in Nat /\ U \in 1 .. FD /\ L \in Nat \ {0} /\ v \in Nat
  <2>1. v \in Nat
    OBVIOUS
  <2>2. U \in 0 .. FD /\ L \in Nat \ {0}
    BY <2>1, PositiveText, Zenon
  <2>3. FD \in Nat /\ U # 0
    BY Constants
  <2> HIDE DEF U, L
  <2> QED
    BY <2>1, <2>2, <2>3
<1>2. /\ v < pow10[FD + L]
      /\ int = [i \in 1 .. L |-> Digit(v, FD + (L - i))]
      /\ frac = [i \in 1 .. U |-> Digit(v, FD - i)]
      /\ Digit(v, FD - U) # 0
  BY <1>1, PositiveText
<1>3. c \in Nat /\ \A n \in Nat : (c =< n) <=> v < pow10[n]
  BY <1>1, CountDef, CountBelow
<1>4. c =< FD + L
  BY <1>1, <1>2, <1>3
<1>5. ~ (c =< FD - U)
  <2>1. FD - U \in Nat
    BY <1>1
  <2>2. ~ (v < pow10[FD - U])
    <3>1. v < pow10[FD - U] => v \div pow10[FD - U] = 0
      <4>1. pow10[FD - U] \in Nat \ {0}
        BY <2>1, Powers
      <4> QED
        BY <1>1, <4>1, SmallDiv
    <3> QED
      BY <1>2, <3>1 DEF Digit
  <2> QED
    BY <1>3, <2>1, <2>2
<1> HIDE DEF FD, U, L, c, int, frac
<1>6. int \in Seq(Nat) /\ Len(int) = L /\ frac \in Seq(Nat) /\ Len(frac) = U
  <2>1. \A k \in Nat : Digit(v, k) \in Nat
    <3> TAKE k \in Nat
    <3>1. Digit(v, k) \in 0 .. 9
      BY <1>1, DigitType
    <3> QED
      BY <3>1
  <2>2. \A i \in 1 .. L : FD + (L - i) \in Nat
    BY <1>1
  <2>3. \A i \in 1 .. U : FD - i \in Nat
    BY <1>1
  <2>4. int \in [1 .. L -> Nat] /\ frac \in [1 .. U -> Nat]
    BY <1>2, <2>1, <2>2, <2>3
  <2>5. L \in Nat /\ U \in Nat
    BY <1>1
  <2> QED
    BY <2>4, <2>5
<1>7. digits \in Seq(Nat) /\ Len(digits) = L + U /\ DOMAIN digits = 1 .. L + U
  <2>1. digits \in Seq(Nat) /\ Len(digits) = L + U
    BY <1>6, ConcatProperties
  <2> HIDE DEF digits
  <2> QED
    BY <2>1, LenProperties
<1>8. \A i \in 1 .. L + U : (FD + L) - i \in Nat /\ digits[i] = Digit(v, (FD + L) - i)
  <2> TAKE i \in 1 .. L + U
  <2>1. digits[i] = IF i =< L THEN int[i] ELSE frac[i - L]
    BY <1>1, <1>6, ConcatProperties
  <2>2. CASE i =< L
    <3>1. i \in 1 .. L /\ FD + (L - i) = (FD + L) - i /\ (FD + L) - i \in Nat
      BY <1>1, <2>2
    <3>2. int[i] = Digit(v, FD + (L - i))
      BY <1>2, <3>1
    <3> QED
      BY <2>1, <2>2, <3>1, <3>2
  <2>3. CASE ~ (i =< L)
    <3>1. i - L \in 1 .. U /\ FD - (i - L) = (FD + L) - i /\ (FD + L) - i \in Nat
      BY <1>1, <2>3
    <3>2. frac[i - L] = Digit(v, FD - (i - L))
      BY <1>2, <3>1
    <3> QED
      BY <2>1, <2>3, <3>1, <3>2
  <2> QED
    BY <2>2, <2>3
<1> HIDE DEF digits
<1>9. ASSUME NEW n \in 1 .. L + U
      PROVE  (ToSet(SubSeq(digits, 1, n)) = {0}) <=> n =< z
  <2>1. n \in Nat /\ (FD + L) - n \in Nat /\ n \in 1 .. Len(digits)
    BY <1>1, <1>7
  <2>2. /\ SubSeq(digits, 1, n) \in Seq(Nat) /\ Len(SubSeq(digits, 1, n)) = n
        /\ \A i \in 1 .. n : SubSeq(digits, 1, n)[i] = digits[i]
    <3>1. \A i \in 1 .. n : digits[i] \in Nat
      BY <1>7, <2>1
    <3>2. SubSeq(digits, 1, n) \in Seq(Nat)
      BY <2>1, <3>1, SubSeqProperties
    <3>3. Len(SubSeq(digits, 1, n)) = n
      BY <2>1, <3>1, SubSeqProperties
    <3>4. \A i \in 1 .. (n - 1) + 1 : SubSeq(digits, 1, n)[i] = digits[(1 + i) - 1]
      BY <2>1, <3>1, SubSeqProperties
    <3> QED
      BY <2>1, <3>2, <3>3, <3>4
  <2>3. (ToSet(SubSeq(digits, 1, n)) = {0}) <=> \A i \in 1 .. n : digits[i] = 0
    <3> DEFINE s == SubSeq(digits, 1, n)
    <3>1. DOMAIN s = 1 .. n /\ 1 \in 1 .. n
      BY <2>1, <2>2
    <3> HIDE DEF s
    <3>2. ToSet(s) = {s[i] : i \in 1 .. n}
      BY <3>1 DEF ToSet
    <3>3. (ToSet(s) = {0}) <=> \A i \in 1 .. n : s[i] = 0
      BY <3>1, <3>2
    <3> QED
      BY <2>2, <3>3 DEF s
  <2>4. (\A i \in 1 .. n : digits[i] = 0)
          <=> \A k \in (FD + L) - n .. ((FD + L) - n) + n - 1 : Digit(v, k) = 0
    <3>1. \A i \in 1 .. n : i \in 1 .. L + U
      BY <1>1, <2>1
    <3>2. \A i \in 1 .. n : (FD + L) - i \in (FD + L) - n .. ((FD + L) - n) + n - 1
      BY <1>1, <2>1
    <3>3. \A k \in (FD + L) - n .. ((FD + L) - n) + n - 1 :
            (FD + L) - k \in 1 .. n /\ (FD + L) - ((FD + L) - k) = k
      BY <1>1, <2>1
    <3>4. ASSUME \A i \in 1 .. n : digits[i] = 0,
                 NEW k \in (FD + L) - n .. ((FD + L) - n) + n - 1
          PROVE  Digit(v, k) = 0
      <4>1. (FD + L) - k \in 1 .. n /\ (FD + L) - ((FD + L) - k) = k
        BY <3>3
      <4> QED
        BY <1>8, <3>1, <3>4, <4>1
    <3>5. ASSUME \A k \in (FD + L) - n .. ((FD + L) - n) + n - 1 : Digit(v, k) = 0,
                 NEW i \in 1 .. n
          PROVE  digits[i] = 0
      BY <1>8, <3>1, <3>2, <3>5
    <3> QED
      BY <3>4, <3>5
  <2>5. (v < pow10[(FD + L) - n])
          <=> \A k \in (FD + L) - n .. ((FD + L) - n) + n - 1 : Digit(v, k) = 0
    <3> DEFINE m == (FD + L) - n
    <3>1. m \in Nat /\ m + n = FD + L
      BY <1>1, <2>1
    <3> HIDE DEF m
    <3>2. v < pow10[m + n]
      BY <1>2, <3>1
    <3>3. (v < pow10[m]) <=> \A k \in m .. m + n - 1 : Digit(v, k) = 0
      BY <1>1, <2>1, <3>1, <3>2, LeadingDigits
    <3> QED
      BY <3>3 DEF m
  <2>6. (c =< (FD + L) - n) <=> v < pow10[(FD + L) - n]
    BY <1>3, <2>1
  <2>7. (c =< (FD + L) - n) <=> n =< z
    BY <1>1, <1>3, <2>1
  <2> QED
    BY <2>3, <2>4, <2>5, <2>6, <2>7
<1>10. z \in 0 .. L + U
  BY <1>1, <1>3, <1>4, <1>5
<1> HIDE DEF z
<1>11. {n \in DOMAIN digits : ToSet(SubSeq(digits, 1, n)) = {0}} = 1 .. z
  <2>1. \A n : n \in 1 .. z <=> n \in 1 .. L + U /\ n =< z
    BY <1>1, <1>10
  <2> QED
    BY <1>7, <1>9, <2>1
<1>12. Cardinality(1 .. z) = z
  BY <1>1, <1>10, FS_Interval
<1>13. LeadingZeros(digits) = z
  BY <1>11, <1>12 DEF LeadingZeros
<1>14. Len(digits) - LeadingZeros(digits) = (U + c) - FD
  BY <1>1, <1>3, <1>7, <1>13 DEF z
<1> QED
  BY <1>14 DEF digits, int, frac, U, c, FD

\* ValidatePrice is the exchange's rule for the text of a price.
LEMMA PriceRule ==
  ASSUME NEW p, p.sz \in Int, p.max \in Int, NEW v \in Int
  PROVE  ValidatePrice(p, v) = PriceTaken(p, v)
<1>1. CASE v > 0
  <2> DEFINE FD == FixedDecimals
             U == Decimals(v)
             c == countDigits[v]
             S == MaxSignificantFigures
             byDecimals == p.max - p.sz
             bySignificant == (S + FD) - c
             d == IF byDecimals < bySignificant THEN byDecimals ELSE bySignificant
             digits == AppendWire(v).int \o AppendWire(v).frac
  <2>1. v \in Nat \ {0} /\ v \in Nat /\ AbsOf(v) = v /\ v # 0
    BY <1>1 DEF AbsOf
  <2>2. U \in 0 .. FD /\ ((U = 0) <=> (AppendWire(v).frac = <<>>))
    <3>1. U \in 0 .. FD /\ AppendWire(v).frac = [i \in 1 .. U |-> Digit(v, FixedDecimals - i)]
      BY <2>1, PositiveText
    <3>2. U = 0 => AppendWire(v).frac = <<>>
      BY <3>1
    <3>3. AppendWire(v).frac = <<>> => U = 0
      BY DEF Decimals
    <3> QED
      BY <3>1, <3>2, <3>3
  <2>3. c \in Nat /\ S \in Nat /\ FD \in Nat /\ byDecimals \in Int /\ bySignificant \in Int
    BY <2>1, CountDef, Constants, NumbersAssumption
  <2>4. PriceDecimals(p, v) = clampDecimals(d)
    <3>1. AbsOf(v) = v /\ v # 0
      BY <2>1
    <3>2. (S + FD) - c = S + FD - c
      BY <2>3
    <3> QED
      BY <3>1, <3>2 DEF PriceDecimals
  <2>5. U # 0 => Len(digits) - LeadingZeros(digits) = (U + c) - FD
    BY <2>1, LeadingZerosOf
  <2>6. PriceTaken(p, v) <=> U = 0 \/ (U =< byDecimals
                                       /\ Len(digits) - LeadingZeros(digits) =< S)
    BY <1>1, <2>2 DEF PriceTaken, Decimals
  <2> HIDE DEF U, c, FD, S, byDecimals, digits
  <2>7. PriceTaken(p, v) <=> U = 0 \/ (U =< byDecimals /\ U =< bySignificant)
    <3>1. U # 0 => ((Len(digits) - LeadingZeros(digits) =< S) <=> (U + c) - FD =< S)
      BY <2>5
    <3>2. ((U + c) - FD =< S) <=> U =< bySignificant
      BY <2>2, <2>3
    <3> QED
      BY <2>6, <3>1, <3>2
  <2>8. d \in Int /\ ((U =< byDecimals /\ U =< bySignificant) <=> U =< d)
    BY <2>2, <2>3
  <2> HIDE DEF d, bySignificant
  <2>9. clampDecimals(d) \in 0 .. FixedDecimals /\ ((U =< clampDecimals(d)) <=> U = 0 \/ U =< d)
    BY <2>2, <2>8, ClampType DEF FD
  <2>10. (U =< clampDecimals(d)) <=> v % TickSize(p, v) = 0
    BY <2>1, <2>4, <2>9, DecimalsOf DEF TickSize, U
  <2>11. ValidatePrice(p, v) <=> v % TickSize(p, v) = 0
    BY <1>1 DEF ValidatePrice
  <2>12. ValidatePrice(p, v) \in BOOLEAN /\ PriceTaken(p, v) \in BOOLEAN
    BY DEF ValidatePrice, PriceTaken
  <2> QED
    BY <2>7, <2>8, <2>9, <2>10, <2>11, <2>12
<1>2. CASE ~ (v > 0)
  BY <1>2 DEF ValidatePrice, PriceTaken
<1> QED
  BY <1>1, <1>2

(***************************************************************************)
(* Rounding to a grid that gets coarser with the number's digits.          *)
(***************************************************************************)

\* Two multiples of a step are at least the step apart.
LEMMA Multiples ==
  ASSUME NEW step \in Nat \ {0}, NEW a \in Nat, NEW b \in Nat,
         a % step = 0, b % step = 0, a < b
  PROVE  a + step =< b
<1> DEFINE p == a \div step
           q == b \div step
<1>1. p \in Nat /\ q \in Nat /\ a = step * p + 0 /\ b = step * q + 0
  <2>1. p \in Nat /\ a = step * p + (a % step)
    BY DivMod
  <2>2. q \in Nat /\ b = step * q + (b % step)
    BY DivMod
  <2> QED
    BY <2>1, <2>2
<1> HIDE DEF p, q
<1>2. step * p \in Nat /\ step * q \in Nat
  BY <1>1, NonNeg
<1>3. p < q
  <2> SUFFICES ASSUME ~ (p < q) PROVE FALSE
    OBVIOUS
  <2>1. p - q \in Nat /\ step * p = step * q + step * (p - q)
    BY <1>1
  <2>2. step * (p - q) \in Nat
    BY <2>1, NonNeg
  <2> QED
    BY <1>1, <1>2, <2>1, <2>2
<1>4. step * q >= step * p + step
  BY <1>1, <1>3, NextMultiple
<1> QED
  BY <1>1, <1>2, <1>4

\* The largest multiple of a step below a number.
LEMMA StepBelow ==
  ASSUME NEW step \in Nat \ {0}, NEW v \in Nat
  PROVE  LET d == v - (v % step)
         IN /\ d \in Nat /\ d =< v /\ v < d + step
            /\ d % step = 0 /\ (d + step) % step = 0
<1> DEFINE q == v \div step
           r == v % step
<1>1. q \in Nat /\ r \in 0 .. step - 1 /\ v = step * q + r
  BY DivMod
<1> HIDE DEF q, r
<1>2. step * q \in Nat /\ step * (q + 1) = step * q + step
  BY <1>1, NonNeg
<1>3. v - r = step * q /\ v - r \in Nat /\ v - r =< v /\ v < (v - r) + step
  BY <1>1, <1>2
<1>4. (v - r) % step = 0
  <2>1. v - r = step * q + 0 /\ 0 \in 0 .. step - 1
    BY <1>2, <1>3
  <2> QED
    BY <1>1, <1>3, <2>1, DivUnique
<1>5. ((v - r) + step) % step = 0
  <2>1. (v - r) + step = step * (q + 1) + 0 /\ 0 \in 0 .. step - 1 /\ q + 1 \in Nat
    BY <1>1, <1>2, <1>3
  <2>2. (v - r) + step \in Nat
    BY <1>3
  <2> QED
    BY <2>1, <2>2, DivUnique
<1> QED
  BY <1>3, <1>4, <1>5 DEF r

\* A multiple of a power of ten is one of every lower power.
LEMMA Finer ==
  ASSUME NEW m \in Nat, NEW e \in Nat, NEW f \in 0 .. e, m % pow10[e] = 0
  PROVE  m % pow10[f] = 0
<1>1. \A k \in 0 .. e - 1 : Digit(m, k) = 0
  BY TrailingZeros
<1>2. f \in Nat /\ \A k \in 0 .. f - 1 : k \in 0 .. e - 1
  OBVIOUS
<1> QED
  BY <1>1, <1>2, TrailingZeros

\* The higher powers of ten are multiples of the lower.
LEMMA PowerMultiple ==
  ASSUME NEW n \in Nat, NEW f \in 0 .. n
  PROVE  pow10[n] % pow10[f] = 0
<1>1. f \in Nat /\ n - f \in Nat
  OBVIOUS
<1>2. pow10[n] = pow10[f] * pow10[n - f]
  BY <1>1, PowerOrder
<1>3. pow10[f] \in Nat \ {0} /\ pow10[n - f] \in Nat /\ pow10[n] \in Nat
  BY <1>1, Powers
<1>4. pow10[n] = pow10[f] * pow10[n - f] + 0 /\ 0 \in 0 .. pow10[f] - 1
  BY <1>2, <1>3
<1> QED
  BY <1>3, <1>4, DivUnique

\* The n-th power of ten has n + 1 digits.
LEMMA PowerDigits ==
  ASSUME NEW n \in Nat
  PROVE  countDigits[pow10[n]] = n + 1
<1>1. pow10[n] \in Nat \ {0} /\ pow10[n + 1] = 10 * pow10[n] /\ n + 1 \in Nat
  BY Powers
<1>2. countDigits[pow10[n]] \in Nat
  BY <1>1, CountDef
<1>3. countDigits[pow10[n]] =< n + 1
  BY <1>1, CountBelow
<1>4. ~ (countDigits[pow10[n]] =< n)
  BY <1>1, CountBelow, SMTT(30)
<1> QED
  BY <1>2, <1>3, <1>4

\* The grid around v: both neighbours of v are on it and nothing between them,
\* the next power of ten, where the grid changes, included.
LEMMA Neighbours ==
  ASSUME NEW E \in [Nat -> Nat], NEW F \in Nat,
         \A c \in Nat : F =< E[c] /\ (E[c] = F \/ E[c] =< c - 1),
         \A b, c \in Nat : b =< c => E[b] =< E[c],
         NEW v \in Nat \ {0}
  PROVE  LET On(m) == m % pow10[E[countDigits[m]]] = 0
             step == pow10[E[countDigits[v]]]
             d == v - (v % step)
         IN /\ step \in Nat \ {0}
            /\ d # 0 => On(d)
            /\ On(d + step)
            /\ \A m \in Nat : d < m /\ m < d + step => ~ On(m)
<1> DEFINE On(m) == m % pow10[E[countDigits[m]]] = 0
           c == countDigits[v]
           e == E[c]
           step == pow10[e]
           d == v - (v % step)
           u == d + step
<1>1. v \in Nat /\ c \in Nat /\ e \in Nat /\ step \in Nat \ {0}
  <2>1. v \in Nat /\ c \in Nat
    BY CountDef
  <2> HIDE DEF c
  <2>2. e \in Nat
    BY <2>1
  <2> HIDE DEF e
  <2> QED
    BY <2>1, <2>2, Powers
<1>2. /\ d \in Nat /\ d =< v /\ v < u /\ u \in Nat
      /\ d % step = 0 /\ u % step = 0
  <2> HIDE DEF step
  <2>1. d \in Nat /\ d =< v /\ v < u /\ d % step = 0 /\ u % step = 0
    BY <1>1, StepBelow
  <2> HIDE DEF d
  <2> QED
    BY <1>1, <2>1
<1>3. \A m \in Nat : \A n \in Nat : countDigits[m] \in Nat
                                    /\ ((countDigits[m] =< n) <=> m < pow10[n])
  BY CountDef, CountBelow
<1>4. v < pow10[c]
  BY <1>1, <1>3
<1>5. \A n \in Nat : pow10[n] \in Nat \ {0}
  BY Powers
<1> HIDE DEF c, d, step, e
<1>6. \A m \in Nat : m % step = 0 /\ m < pow10[c] => On(m)
  <2> TAKE m \in Nat
  <2> HAVE m % step = 0 /\ m < pow10[c]
  <2> DEFINE b == countDigits[m]
  <2>1. b \in Nat /\ b =< c
    BY <1>1, <1>3
  <2> HIDE DEF b
  <2>2. E[b] \in 0 .. e
    BY <1>1, <2>1 DEF e
  <2>3. m % pow10[E[b]] = 0
    BY <1>1, <2>2, Finer DEF step
  <2> QED
    BY <2>3 DEF b
<1>7. d # 0 => On(d)
  <2>1. d < pow10[c]
    BY <1>1, <1>2, <1>4, <1>5
  <2> HIDE DEF On
  <2> QED
    BY <1>2, <1>6, <2>1
<1>8. On(u)
  <2>1. CASE u < pow10[c]
    <3> HIDE DEF On, u
    <3> QED
      BY <1>2, <1>6, <2>1
  <2>2. CASE ~ (u < pow10[c])
    <3> DEFINE n == IF c >= e THEN c ELSE e
    <3>1. n \in Nat /\ c =< n /\ e \in 0 .. n /\ (n = c \/ n = e)
      BY <1>1
    <3> HIDE DEF n
    <3>2. pow10[n] \in Nat \ {0} /\ pow10[c] =< pow10[n] /\ pow10[n] % step = 0
      <4>1. pow10[n] % step = 0
        BY <3>1, PowerMultiple DEF step
      <4>2. pow10[c] =< pow10[n]
        BY <1>1, <3>1, PowerOrder
      <4> QED
        BY <1>5, <3>1, <4>1, <4>2
    <3>3. u =< pow10[n]
      <4>1. d < pow10[n]
        BY <1>1, <1>2, <1>4, <1>5, <3>2
      <4> QED
        BY <1>1, <1>2, <3>2, <4>1, Multiples
    <3>4. u >= pow10[n]
      <4>1. CASE n = c
        BY <1>1, <1>2, <1>5, <2>2, <4>1
      <4>2. CASE n = e
        BY <1>1, <1>2, <4>2 DEF step
      <4> QED
        BY <3>1, <4>1, <4>2
    <3>5. u = pow10[n]
      BY <1>2, <3>2, <3>3, <3>4, SMTT(30)
    <3>6. countDigits[u] = n + 1
      BY <3>1, <3>5, PowerDigits
    <3>7. n + 1 \in Nat /\ E[n + 1] \in Nat /\ (E[n + 1] = F \/ E[n + 1] =< (n + 1) - 1)
      BY <3>1
    <3>8. F =< e
      BY <1>1 DEF e
    <3>9. E[n + 1] \in 0 .. n
      BY <1>1, <3>1, <3>7, <3>8
    <3>10. pow10[n] % pow10[E[n + 1]] = 0
      BY <3>1, <3>9, PowerMultiple
    <3> QED
      BY <3>5, <3>6, <3>10, Zenon
  <2> QED
    BY <2>1, <2>2
<1>9. ASSUME NEW m \in Nat, d < m, m < u, On(m)
      PROVE  FALSE
  <2> DEFINE b == countDigits[m]
  <2>1. b \in Nat /\ E[b] \in Nat /\ F =< E[b] /\ m % pow10[E[b]] = 0
    BY <1>3, <1>9
  <2>2. \A n \in Nat : (b =< n) <=> m < pow10[n]
    BY <1>3
  <2> HIDE DEF b
  <2>3. CASE m % step = 0
    <3>1. d + step =< m
      <4> HIDE DEF On
      <4> QED
        BY <1>1, <1>2, <1>9, <2>3, Multiples
    <3> QED
      BY <1>1, <1>2, <1>9, <3>1
  <2>4. CASE e =< E[b]
    <3>1. e \in 0 .. E[b]
      BY <1>1, <2>1, <2>4
    <3>2. m % step = 0
      BY <2>1, <3>1, Finer DEF step
    <3> QED
      BY <2>3, <3>2
  <2>5. CASE ~ (e =< E[b])
    <3>1. ~ (c =< b)
      BY <1>1, <2>1, <2>5 DEF e
    <3>2. c - 1 \in Nat /\ b =< c - 1 /\ ~ (c =< c - 1)
      BY <1>1, <2>1, <3>1
    <3>3. m < pow10[c - 1] /\ ~ (v < pow10[c - 1])
      BY <1>1, <1>3, <2>2, <3>2 DEF c
    <3>4. e =< c - 1
      <4>1. e = F \/ e =< c - 1
        BY <1>1 DEF e
      <4> QED
        BY <1>1, <2>1, <2>5, <4>1
    <3>5. pow10[c - 1] % step = 0 /\ pow10[c - 1] \in Nat
      <4>1. e \in 0 .. c - 1
        BY <1>1, <3>4
      <4> QED
        BY <1>5, <3>2, <4>1, PowerMultiple DEF step
    <3>6. d < pow10[c - 1]
      BY <1>2, <1>9, <3>3, <3>5
    <3>7. u =< pow10[c - 1]
      BY <1>1, <1>2, <3>5, <3>6, Multiples
    <3> QED
      BY <1>1, <1>2, <3>3, <3>5, <3>7, SMTT(30)
  <2> QED
    BY <2>4, <2>5
<1> QED
  BY <1>1, <1>7, <1>8, <1>9, ZenonT(40) DEF step, d, e, c

\* A machine sum in the range is the sum.
LEMMA NoWrap ==
  ASSUME NEW n \in Int, n =< MaxInt
  PROVE  Wrap(n) = n
BY Constants DEF Wrap

\* roundToStep between two neighbours of the grid.
LEMMA Rounded ==
  ASSUME NEW step \in Nat \ {0}, NEW v \in Nat \ {0}, v + step =< MaxInt,
         NEW mode \in Modes
  PROVE  LET n == roundToStep(v, step, mode)
             d == v - (v % step)
         IN /\ n \in {d, d + step}
            /\ mode = "down" => n =< v
            /\ mode = "up" => n >= v
            /\ \A m \in Nat : (v < m /\ m < n) \/ (n < m /\ m < v) => d < m /\ m < d + step
            /\ \A m \in Nat : mode = "nearest" /\ AbsOf(m - v) < AbsOf(n - v) =>
                 d < m /\ m < d + step
<1> DEFINE rem == v % step
           d == v - rem
           u == d + step
           n == roundToStep(v, step, mode)
<1>1. v \in Nat /\ rem \in 0 .. step - 1 /\ MaxInt \in Nat
  <2>1. v \in Nat
    OBVIOUS
  <2> QED
    BY <2>1, DivMod, Constants
<1>2. Wrap(u) = u
  <2> HIDE DEF rem
  <2>1. u \in Int /\ u =< MaxInt
    BY <1>1
  <2> HIDE DEF u
  <2> QED
    BY <2>1, NoWrap
<1>3. n = IF rem = 0 \/ mode = "down" \/ (mode = "nearest" /\ rem * 2 < step) THEN d ELSE u
  BY <1>2, Zenon DEF roundToStep
<1>4. "down" # "up" /\ "down" # "nearest" /\ "up" # "nearest"
  OBVIOUS
<1>5. mode = "down" \/ mode = "up" \/ mode = "nearest"
  BY DEF Modes
<1> HIDE DEF n, rem
<1>6. n \in {d, u}
  BY <1>3
<1>7. d =< v /\ v < u /\ d \in Int /\ u \in Int /\ v \in Int
  BY <1>1
<1>8. (mode = "down" => n =< v) /\ (mode = "up" => n >= v)
  <2>1. CASE mode = "down"
    BY <1>3, <1>4, <1>7, <2>1
  <2>2. CASE mode # "down"
    <3>1. rem = 0 => n = v
      BY <1>1, <1>3
    <3>2. mode = "up" /\ rem # 0 => n = u
      BY <1>3, <1>4
    <3> QED
      BY <1>1, <1>7, <2>2, <3>1, <3>2
  <2> QED
    BY <2>1, <2>2
<1>9. \A m \in Nat : (v < m /\ m < n) \/ (n < m /\ m < v) => d < m /\ m < u
  <2> HIDE DEF d, u
  <2> QED
    BY <1>6, <1>7
<1>10. \A m \in Nat : mode = "nearest" /\ AbsOf(m - v) < AbsOf(n - v) => d < m /\ m < u
  <2> TAKE m \in Nat
  <2> HAVE mode = "nearest" /\ AbsOf(m - v) < AbsOf(n - v)
  <2>1. CASE rem = 0 \/ rem * 2 < step
    <3>1. n = d
      BY <1>3, <2>1
    <3>2. AbsOf(n - v) = rem
      BY <1>1, <3>1 DEF AbsOf
    <3>3. rem # 0 => rem * 2 < step
      BY <2>1
    <3> QED
      BY <1>1, <3>2, <3>3 DEF AbsOf
  <2>2. CASE ~ (rem = 0 \/ rem * 2 < step)
    <3>1. n = u
      BY <1>3, <1>4, <2>2
    <3>2. AbsOf(n - v) = step - rem
      BY <1>1, <3>1 DEF AbsOf
    <3> QED
      BY <1>1, <2>2, <3>2 DEF AbsOf
  <2> QED
    BY <2>1, <2>2
<1> QED
  BY <1>6, <1>8, <1>9, <1>10 DEF n, rem

\* The places of a price's grid by the number of its digits: as many as the
\* metadata allow or the significant figures leave.
LEMMA PriceGrid ==
  ASSUME NEW p, p.sz \in Int, p.max \in Int
  PROVE  \E E \in [Nat -> Nat], F \in Nat :
           /\ \A c \in Nat : F =< E[c] /\ (E[c] = F \/ E[c] =< c - 1)
           /\ \A b, c \in Nat : b =< c => E[b] =< E[c]
           /\ \A v \in Nat \ {0} : TickSize(p, v) = pow10[E[countDigits[v]]]
<1> DEFINE FD == FixedDecimals
           S == MaxSignificantFigures
           bd == p.max - p.sz
           Least(c) == IF bd < (S + FD) - c THEN bd ELSE (S + FD) - c
           E == [c \in Nat |-> FD - clampDecimals(Least(c))]
           F == FD - clampDecimals(bd)
<1>1. FD \in Nat \ {0} /\ S \in Nat \ {0} /\ bd \in Int
  BY NumbersAssumption
<1>2. ASSUME NEW v \in Nat \ {0}
      PROVE  TickSize(p, v) = pow10[E[countDigits[v]]]
  <2>1. AbsOf(v) = v /\ v # 0 /\ countDigits[v] \in Nat
    BY CountDef DEF AbsOf
  <2>2. (S + FD) - countDigits[v] = S + FD - countDigits[v]
    BY <1>1, <2>1
  <2>3. PriceDecimals(p, v) = clampDecimals(Least(countDigits[v]))
    <3> HIDE DEF FD, S
    <3> QED
      BY <2>1, <2>2 DEF PriceDecimals, FD, S
  <2>4. E[countDigits[v]] = FD - clampDecimals(Least(countDigits[v]))
    BY <2>1
  <2> QED
    BY <2>3, <2>4, Zenon DEF TickSize
<1> HIDE DEF FD, S, bd
<1>3. \A d \in Int : clampDecimals(d) = IF d < 0 THEN 0 ELSE IF d > FD THEN FD ELSE d
  BY DEF clampDecimals, FD
<1>4. \A c \in Nat : Least(c) \in Int
  BY <1>1
<1>5. \A c \in Nat : E[c] = FD - clampDecimals(Least(c))
  OBVIOUS
<1> HIDE DEF E
<1>6. F \in Nat
  BY <1>1, <1>3
<1>7. ASSUME NEW c \in Nat
      PROVE  E[c] \in Nat /\ F =< E[c] /\ (E[c] = F \/ E[c] =< c - 1)
  <2>1. CASE bd < (S + FD) - c
    <3>1. Least(c) = bd
      BY <2>1
    <3> QED
      BY <1>5, <1>6, <3>1
  <2>2. CASE ~ (bd < (S + FD) - c)
    <3> DEFINE x == (S + FD) - c
    <3>1. Least(c) = x /\ x \in Int /\ x =< bd /\ c = (S + FD) - x
      BY <1>1, <2>2
    <3> HIDE DEF x, Least
    <3>2. E[c] = FD - clampDecimals(x)
      BY <1>5, <3>1
    <3>3. clampDecimals(x) = IF x < 0 THEN 0 ELSE IF x > FD THEN FD ELSE x
      BY <1>3, <3>1
    <3>4. clampDecimals(bd) = IF bd < 0 THEN 0 ELSE IF bd > FD THEN FD ELSE bd
      BY <1>1, <1>3
    <3> QED
      BY <1>1, <3>1, <3>2, <3>3, <3>4
  <2> QED
    BY <2>1, <2>2
<1>8. ASSUME NEW b \in Nat, NEW c \in Nat, b =< c
      PROVE  E[b] =< E[c]
  <2> DEFINE x == Least(b)
             y == Least(c)
  <2>1. x \in Int /\ y \in Int /\ y =< x
    BY <1>1, <1>8
  <2>2. E[b] = FD - clampDecimals(x) /\ E[c] = FD - clampDecimals(y)
    BY <1>5
  <2> HIDE DEF x, y
  <2>3. clampDecimals(x) = IF x < 0 THEN 0 ELSE IF x > FD THEN FD ELSE x
    BY <1>3, <2>1
  <2>4. clampDecimals(y) = IF y < 0 THEN 0 ELSE IF y > FD THEN FD ELSE y
    BY <1>3, <2>1
  <2> QED
    BY <1>1, <2>1, <2>2, <2>3, <2>4
<1>9. E \in [Nat -> Nat]
  BY <1>7 DEF E
<1> HIDE DEF F
<1> QED
  BY <1>2, <1>6, <1>7, <1>8, <1>9

\* A price is rounded to the next one the exchange takes.
LEMMA PriceRounded ==
  ASSUME NEW p, p.sz \in Int, p.max \in Int, NEW v \in Nat \ {0}, NEW mode \in Modes,
         v + TickSize(p, v) =< MaxInt
  PROVE  LET n == NormalizePrice(p, v, mode)
         IN /\ n \in Nat
            /\ n = 0 \/ PriceTaken(p, n)
            /\ mode = "down" => n =< v
            /\ mode = "up" => n >= v
            /\ \A m \in Nat : (v < m /\ m < n) \/ (n < m /\ m < v) => ~ PriceTaken(p, m)
            /\ \A m \in Nat : mode = "nearest" /\ AbsOf(m - v) < AbsOf(n - v) =>
                 ~ PriceTaken(p, m)
<1> DEFINE step == TickSize(p, v)
           d == v - (v % step)
           n == NormalizePrice(p, v, mode)
<1>1. \A m \in Nat : PriceTaken(p, m) <=> m > 0 /\ m % TickSize(p, m) = 0
  <2> TAKE m \in Nat
  <2>1. ValidatePrice(p, m) = PriceTaken(p, m)
    BY PriceRule
  <2>2. ValidatePrice(p, m) <=> m > 0 /\ m % TickSize(p, m) = 0
    BY DEF ValidatePrice
  <2> QED
    BY <2>1, <2>2, Zenon
<1>2. /\ step \in Nat \ {0}
      /\ d # 0 => d % TickSize(p, d) = 0
      /\ (d + step) % TickSize(p, d + step) = 0
      /\ \A m \in Nat : d < m /\ m < d + step => ~ (m % TickSize(p, m) = 0)
  <2>1. PICK E \in [Nat -> Nat], F \in Nat :
           /\ \A c \in Nat : F =< E[c] /\ (E[c] = F \/ E[c] =< c - 1)
           /\ \A b, c \in Nat : b =< c => E[b] =< E[c]
           /\ \A m \in Nat \ {0} : TickSize(p, m) = pow10[E[countDigits[m]]]
    BY PriceGrid, SMTT(30)
  <2> DEFINE t == pow10[E[countDigits[v]]]
             g == v - (v % t)
             On(m) == m % pow10[E[countDigits[m]]] = 0
  <2>2. /\ t \in Nat \ {0}
        /\ g # 0 => On(g)
        /\ On(g + t)
        /\ \A m \in Nat : g < m /\ m < g + t => ~ On(m)
    BY <2>1, Neighbours, ZenonT(40)
  <2>3. t = step
    BY <2>1
  <2>4. \A m \in Nat \ {0} : On(m) <=> m % TickSize(p, m) = 0
    BY <2>1
  <2> HIDE DEF t, On, step
  <2>5. g = d
    BY <2>3
  <2>6. g \in Nat /\ g + t \in Nat \ {0}
    <3>1. v \in Nat
      OBVIOUS
    <3>2. g \in Nat
      BY <2>2, <3>1, StepBelow
    <3> HIDE DEF g
    <3> QED
      BY <2>2, <3>2
  <2> HIDE DEF g, d
  <2> QED
    BY <2>2, <2>3, <2>4, <2>5, <2>6
<1>3. n = roundToStep(v, step, mode)
  BY DEF NormalizePrice
<1>4. d \in Nat /\ d + step \in Nat \ {0}
  <2>1. v \in Nat
    OBVIOUS
  <2> HIDE DEF step
  <2>2. d \in Nat
    BY <1>2, <2>1, StepBelow
  <2> HIDE DEF d
  <2> QED
    BY <1>2, <2>2
<1> HIDE DEF step, n
<1>5. /\ n \in {d, d + step}
      /\ mode = "down" => n =< v
      /\ mode = "up" => n >= v
      /\ \A m \in Nat : (v < m /\ m < n) \/ (n < m /\ m < v) => d < m /\ m < d + step
      /\ \A m \in Nat : mode = "nearest" /\ AbsOf(m - v) < AbsOf(n - v) =>
           d < m /\ m < d + step
  <2>1. v + step =< MaxInt
    BY DEF step
  <2> QED
    BY <1>2, <1>3, <2>1, Rounded
<1> HIDE DEF d
<1>6. n \in Nat /\ (n = 0 \/ PriceTaken(p, n))
  BY <1>1, <1>2, <1>4, <1>5
<1> QED
  BY <1>1, <1>2, <1>5, <1>6 DEF n

\* A size is rounded to the next one the exchange takes.
LEMMA SizeRounded ==
  ASSUME NEW p, p.sz \in Nat, NEW v \in Nat \ {0}, NEW mode \in Modes,
         v + LotSize(p) =< MaxInt
  PROVE  LET n == NormalizeSize(p, v, mode)
         IN /\ n \in Nat
            /\ n = 0 \/ SizeTaken(p, n)
            /\ mode = "down" => n =< v
            /\ mode = "up" => n >= v
            /\ \A m \in Nat : (v < m /\ m < n) \/ (n < m /\ m < v) => ~ SizeTaken(p, m)
            /\ \A m \in Nat : mode = "nearest" /\ AbsOf(m - v) < AbsOf(n - v) =>
                 ~ SizeTaken(p, m)
<1> DEFINE step == LotSize(p)
           d == v - (v % step)
           n == NormalizeSize(p, v, mode)
<1>1. \A m \in Nat : SizeTaken(p, m) <=> m > 0 /\ m % step = 0
  <2> TAKE m \in Nat
  <2>1. ValidateSize(p, m) = SizeTaken(p, m)
    BY SizeRule
  <2>2. ValidateSize(p, m) <=> m > 0 /\ m % step = 0
    BY DEF ValidateSize
  <2> QED
    BY <2>1, <2>2, Zenon
<1>2. step \in Nat \ {0}
  <2>1. p.sz \in Int /\ FixedDecimals \in Nat
    BY Constants
  <2>2. clampDecimals(p.sz) \in 0 .. FixedDecimals
    BY <2>1, ClampType
  <2>3. FixedDecimals - clampDecimals(p.sz) \in Nat
    BY <2>1, <2>2
  <2> QED
    BY <2>3, Powers DEF LotSize
<1>3. n = roundToStep(v, step, mode)
  BY DEF NormalizeSize
<1> HIDE DEF step, n
<1>4. /\ d \in Nat /\ d + step \in Nat \ {0}
      /\ d % step = 0 /\ (d + step) % step = 0
  <2>1. v \in Nat
    OBVIOUS
  <2>2. d \in Nat /\ d % step = 0 /\ (d + step) % step = 0
    BY <1>2, <2>1, StepBelow
  <2> HIDE DEF d
  <2> QED
    BY <1>2, <2>2
<1>5. /\ n \in {d, d + step}
      /\ mode = "down" => n =< v
      /\ mode = "up" => n >= v
      /\ \A m \in Nat : (v < m /\ m < n) \/ (n < m /\ m < v) => d < m /\ m < d + step
      /\ \A m \in Nat : mode = "nearest" /\ AbsOf(m - v) < AbsOf(n - v) =>
           d < m /\ m < d + step
  <2>1. v + step =< MaxInt
    BY DEF step
  <2> QED
    BY <1>2, <1>3, <2>1, Rounded
<1> HIDE DEF d
<1>6. ASSUME NEW m \in Nat, d < m, m < d + step
      PROVE  ~ SizeTaken(p, m)
  <2>1. m % step = 0 => d + step =< m
    BY <1>2, <1>4, <1>6, Multiples
  <2>2. d + step =< m => FALSE
    BY <1>2, <1>4, <1>6
  <2> QED
    BY <1>1, <2>1, <2>2
<1>7. n \in Nat /\ (n = 0 \/ SizeTaken(p, n))
  BY <1>1, <1>4, <1>5
<1> QED
  BY <1>5, <1>6, <1>7 DEF n

(***************************************************************************)
(* The inputs the specification reaches.                                   *)
(***************************************************************************)

\* The inputs, one definition a kind.
IsFixed == \E v \in -MaxInt .. MaxInt : input = [kind |-> "fixed", value |-> v]
IsText ==
  \E sign \in {"", "-", "+"}, int \in Upto(2), dot \in BOOLEAN, frac \in Upto(3) :
    input = [kind |-> "text", text |-> Text(sign, int, dot, frac)]
IsInteger ==
  \E f \in Fillers, n \in 0 .. 7, low \in [1 .. 3 -> Bytes] :
    input = [kind  |-> "integer",
             value |-> [i \in 1 .. 8 |-> IF i =< n THEN f
                                         ELSE IF i > 5 THEN low[i - 5] ELSE 0]]
IsLength == \E n \in Lengths : input = [kind |-> "length", value |-> n]
IsId ==
  \E c \in Cloids, uuid \in BOOLEAN, ch \in Chars, prefix \in {"0x", ""} :
    LET text == IF uuid THEN UUID(c) ELSE AppendHex(c)
    IN \E at \in DOMAIN text.chars :
         input = [kind |-> "id", digits |-> c,
                  text |-> [prefix |-> prefix,
                            chars  |-> [text.chars EXCEPT ![at] = ch]]]
IsPlace ==
  \E o \in OrderOptions :
    \/ \E r \in Requests :
         input = [kind |-> "place", requests |-> <<GoodRequest, r>>, options |-> o]
    \/ input = [kind |-> "place", requests |-> <<>>, options |-> o]
IsModify ==
  \E r \in Requests, id \in Ids, always \in BOOLEAN :
    input = [kind |-> "modify", alwaysPlace |-> always,
             requests |-> << [oid |-> id.oid, refCloid |-> id.cloid, order |-> r] >>]
IsCancel ==
  \E kind \in {"cancel", "cancelByCloid"}, ids \in [1 .. 2 -> Ids],
     coin \in {r.coin : r \in Requests}, fast \in BOOLEAN :
    input = [kind |-> kind, fast |-> fast,
             requests |-> [i \in 1 .. 2 |-> [coin |-> coin, oid |-> ids[i].oid,
                                             cloid |-> ids[i].cloid]]]
IsOther ==
  \E coin \in {r.coin : r \in Requests}, n \in -1 .. 4, b \in BOOLEAN :
    input = [kind |-> "other", coin |-> coin, n |-> n, flag |-> b]
IsAsk == \E q \in Asks : input = [kind |-> "ask", ask |-> q]
IsConfig == \E c \in Configs : input = [kind |-> "config", config |-> c]

\* What an input can be.
InputType ==
  \/ input = None \/ IsFixed \/ IsText \/ IsInteger \/ IsLength \/ IsId
  \/ IsPlace \/ IsModify \/ IsCancel \/ IsOther \/ IsAsk \/ IsConfig

\* Every input the specification reaches is one of the kinds above: what a
\* caller of the packages can pass.
LEMMA InputTyped == Spec => []InputType
<1>1. Init => InputType
  BY DEF Init, InputType
<1>2. ASSUME InputType, [Next]_vars
      PROVE  InputType'
  <2>1. CASE ChooseFixed
    BY <2>1, Zenon DEF ChooseFixed, IsFixed, InputType
  <2>2. CASE ChooseText
    BY <2>2, Zenon DEF ChooseText, IsText, InputType
  <2>3. CASE ChooseInteger
    BY <2>3, Zenon DEF ChooseInteger, IsInteger, InputType
  <2>4. CASE ChooseLength
    BY <2>4, Zenon DEF ChooseLength, IsLength, InputType
  <2>5. CASE ChooseId
    BY <2>5, Zenon DEF ChooseId, IsId, InputType
  <2>6. CASE ChoosePlace
    BY <2>6, Zenon DEF ChoosePlace, IsPlace, InputType
  <2>7. CASE ChooseModify
    BY <2>7, Zenon DEF ChooseModify, IsModify, InputType
  <2>8. CASE ChooseCancel
    BY <2>8, Zenon DEF ChooseCancel, IsCancel, InputType
  <2>9. CASE ChooseOther
    BY <2>9, Zenon DEF ChooseOther, IsOther, InputType
  <2>10. CASE ChooseAsk
    BY <2>10, Zenon DEF ChooseAsk, IsAsk, InputType
  <2>11. CASE ChooseConfig
    BY <2>11, Zenon DEF ChooseConfig, IsConfig, InputType
  <2>12. CASE Clear
    BY <2>12, Zenon DEF Clear, InputType
  <2>13. CASE UNCHANGED vars
    <3>1. input' = input
      BY <2>13 DEF vars
    <3>2. IsId => IsId'
      BY <3>1, ZenonT(40) DEF IsId
    <3>3. IsText \/ IsInteger => IsText' \/ IsInteger'
      BY <3>1, Zenon DEF IsText, IsInteger
    <3>4. IsPlace \/ IsModify \/ IsCancel => IsPlace' \/ IsModify' \/ IsCancel'
      BY <3>1, Zenon DEF IsPlace, IsModify, IsCancel
    <3>5. input = None \/ IsFixed \/ IsLength \/ IsOther \/ IsAsk \/ IsConfig => InputType'
      BY <3>1, Zenon DEF InputType, IsFixed, IsLength, IsOther, IsAsk, IsConfig
    <3> QED
      BY <1>2, <3>2, <3>3, <3>4, <3>5, Zenon DEF InputType
  <2> QED
    BY <1>2, <2>1, <2>2, <2>3, <2>4, <2>5, <2>6, <2>7, <2>8, <2>9, <2>10, <2>11, <2>12,
       <2>13, Zenon DEF Next
<1> QED
  BY <1>1, <1>2, PTL DEF Spec

\* The kind of an input says which of them it is.
LEMMA Kinds ==
  ASSUME InputType
  PROVE  /\ input.kind = "fixed" => IsFixed
         /\ input.kind = "text" => IsText
         /\ input.kind = "integer" => IsInteger
         /\ input.kind = "length" => IsLength
         /\ input.kind = "id" => IsId
         /\ input.kind = "place" => IsPlace
         /\ input.kind = "modify" => IsModify
         /\ input.kind \in {"cancel", "cancelByCloid"} => IsCancel
         /\ input.kind = "other" => IsOther
         /\ input.kind = "ask" => IsAsk
         /\ input.kind = "config" => IsConfig
<1>1. input = None => input.kind = "none"
  BY DEF None
<1>2. IsFixed => input.kind = "fixed"
  BY DEF IsFixed
<1>3. IsText => input.kind = "text"
  <2>1. IsText => \E t : input = [kind |-> "text", text |-> t]
    BY Zenon DEF IsText
  <2> QED
    BY <2>1
<1>4. IsInteger => input.kind = "integer"
  BY DEF IsInteger
<1>5. IsLength => input.kind = "length"
  BY DEF IsLength
<1>6. IsId => input.kind = "id"
  <2>1. IsId => \E c, t : input = [kind |-> "id", digits |-> c, text |-> t]
    BY Zenon DEF IsId
  <2> QED
    BY <2>1
<1>7. IsPlace => input.kind = "place"
  BY DEF IsPlace
<1>8. IsModify => input.kind = "modify"
  BY DEF IsModify
<1>9. IsCancel => input.kind \in {"cancel", "cancelByCloid"}
  BY DEF IsCancel
<1>10. IsOther => input.kind = "other"
  BY DEF IsOther
<1>11. IsAsk => input.kind = "ask"
  BY DEF IsAsk
<1>12. IsConfig => input.kind = "config"
  BY DEF IsConfig
<1> QED
  BY <1>1, <1>2, <1>3, <1>4, <1>5, <1>6, <1>7, <1>8, <1>9, <1>10, <1>11, <1>12 DEF InputType

(***************************************************************************)
(* The grids.                                                              *)
(***************************************************************************)

\* The local checks of a price and a size (ValidatePrice, ValidateSize) are the
\* exchange's rule for the texts, and normalising gives the nearest value of the
\* grid in the asked direction, for every precision and every int64.
THEOREM GridSoundAlways == Spec => []GridSound
<1>1. ASSUME InputType, input.kind = "fixed", NEW p \in Precisions
      PROVE  LET v == input.value
                 Price(n) == PriceTaken(p, n)
                 Size(n) == SizeTaken(p, n)
             IN /\ ValidatePrice(p, v) = PriceTaken(p, v)
                /\ ValidateSize(p, v) = SizeTaken(p, v)
                /\ \A mode \in Modes : v > 0 =>
                     /\ v + TickSize(p, v) =< MaxInt =>
                          RoundedTo(Price, v, NormalizePrice(p, v, mode), mode)
                     /\ v + LotSize(p) =< MaxInt =>
                          RoundedTo(Size, v, NormalizeSize(p, v, mode), mode)
  <2> DEFINE v == input.value
             Price(n) == PriceTaken(p, n)
             Size(n) == SizeTaken(p, n)
  <2>1. v \in Int
    <3>1. IsFixed
      BY <1>1, Kinds
    <3> QED
      BY <3>1, Constants DEF IsFixed
  <2> HIDE DEF v
  <2>2. p.sz \in Nat /\ p.sz \in Int /\ p.max \in Int
    BY <1>1, ValuesAssumption
  <2>3. ValidatePrice(p, v) = PriceTaken(p, v)
    BY <2>1, <2>2, PriceRule
  <2>4. ValidateSize(p, v) = SizeTaken(p, v)
    BY <2>1, <2>2, SizeRule
  <2>5. 1 .. MaxInt \subseteq Nat
    OBVIOUS
  <2>6. ASSUME NEW mode \in Modes, v > 0, v + TickSize(p, v) =< MaxInt
        PROVE  RoundedTo(Price, v, NormalizePrice(p, v, mode), mode)
    <3> DEFINE n == NormalizePrice(p, v, mode)
    <3>1. v \in Nat \ {0}
      BY <2>1, <2>6
    <3>2. /\ n = 0 \/ PriceTaken(p, n)
          /\ mode = "down" => n =< v
          /\ mode = "up" => n >= v
          /\ \A m \in Nat : (v < m /\ m < n) \/ (n < m /\ m < v) => ~ PriceTaken(p, m)
          /\ \A m \in Nat : mode = "nearest" /\ AbsOf(m - v) < AbsOf(n - v) =>
               ~ PriceTaken(p, m)
      BY <2>2, <2>6, <3>1, PriceRounded
    <3> HIDE DEF n
    <3>3. RoundedTo(Price, v, n, mode)
      BY <2>5, <3>2, Zenon DEF RoundedTo
    <3> QED
      BY <3>3 DEF n
  <2>7. ASSUME NEW mode \in Modes, v > 0, v + LotSize(p) =< MaxInt
        PROVE  RoundedTo(Size, v, NormalizeSize(p, v, mode), mode)
    <3> DEFINE n == NormalizeSize(p, v, mode)
    <3>1. v \in Nat \ {0}
      BY <2>1, <2>7
    <3>2. /\ n = 0 \/ SizeTaken(p, n)
          /\ mode = "down" => n =< v
          /\ mode = "up" => n >= v
          /\ \A m \in Nat : (v < m /\ m < n) \/ (n < m /\ m < v) => ~ SizeTaken(p, m)
          /\ \A m \in Nat : mode = "nearest" /\ AbsOf(m - v) < AbsOf(n - v) =>
               ~ SizeTaken(p, m)
      BY <2>2, <2>7, <3>1, SizeRounded
    <3> HIDE DEF n
    <3>3. RoundedTo(Size, v, n, mode)
      BY <2>5, <3>2, Zenon DEF RoundedTo
    <3> QED
      BY <3>3 DEF n
  <2> QED
    BY <2>3, <2>4, <2>6, <2>7, Zenon DEF v
<1>2. InputType => GridSound
  BY <1>1, Zenon DEF GridSound
<1> QED
  BY <1>2, InputTyped, PTL

(***************************************************************************)
(* Orders.                                                                 *)
(***************************************************************************)

\* orderWire keeps what the order asks for.
LEMMA WireOf ==
  ASSUME NEW r
  PROVE  LET wire == orderWire(r)
         IN /\ wire.asset = AssetOf[r.coin].id
            /\ wire.isBuy = r.isBuy /\ wire.reduceOnly = r.reduceOnly /\ wire.cloid = r.cloid
            /\ wire.px = r.price /\ wire.sz = r.size
            /\ wire.isTrigger = r.isTrigger
            /\ r.isTrigger => wire.triggerPx = r.triggerPrice /\ wire.tpsl = r.tpsl
            /\ r.isTrigger => (wire.isMarket <=> r.triggerIsMarket)
            /\ ~ r.isTrigger => wire.tif = r.tif
BY Zenon DEF orderWire

\* The local checks of an order are the exchange's.
LEMMA OrderFits ==
  ASSUME NEW r \in Requests, OrderValid(r)
  PROVE  OrderTaken(r, orderWire(r))
<1> DEFINE p == PrecisionOf(r.coin)
           wire == orderWire(r)
<1>1. /\ r.price \in Int /\ r.size \in Int /\ r.triggerPrice \in Int
      /\ p.sz \in Nat /\ p.max \in Int /\ p.sz \in Int
  BY ValuesAssumption, AssetAssumption DEF OrderValid, Resolves, PrecisionOf
<1> HIDE DEF p
<1>2. ValidateSize(p, r.size) /\ ValidatePrice(p, r.price)
      /\ ~ AssetOf[r.coin].delisted
      /\ (r.isTrigger => r.tpsl \in Tpsls /\ ValidatePrice(p, r.triggerPrice))
      /\ (~ r.isTrigger => r.tif \in Tifs)
  BY Zenon DEF OrderValid, p
<1>3. PriceTaken(p, r.price)
  <2>1. ValidatePrice(p, r.price) = PriceTaken(p, r.price)
    BY <1>1, PriceRule
  <2> QED
    BY <1>2, <2>1, Zenon
<1>4. SizeTaken(p, r.size)
  <2>1. ValidateSize(p, r.size) = SizeTaken(p, r.size)
    BY <1>1, SizeRule
  <2> QED
    BY <1>2, <2>1, Zenon
<1>5. r.isTrigger => PriceTaken(p, r.triggerPrice)
  <2>1. ValidatePrice(p, r.triggerPrice) = PriceTaken(p, r.triggerPrice)
    BY <1>1, PriceRule
  <2> QED
    BY <1>2, <2>1, Zenon
<1>6. /\ wire.asset = AssetOf[r.coin].id
      /\ wire.isBuy = r.isBuy /\ wire.reduceOnly = r.reduceOnly /\ wire.cloid = r.cloid
      /\ wire.px = r.price /\ wire.sz = r.size
      /\ wire.isTrigger = r.isTrigger
      /\ r.isTrigger => wire.triggerPx = r.triggerPrice /\ wire.tpsl = r.tpsl
      /\ r.isTrigger => (wire.isMarket <=> r.triggerIsMarket)
      /\ ~ r.isTrigger => wire.tif = r.tif
  BY WireOf, Zenon
<1> HIDE DEF wire
<1>7. OrderTaken(r, wire)
  BY <1>2, <1>3, <1>4, <1>5, <1>6, Zenon DEF OrderTaken, p
<1> QED
  BY <1>7 DEF wire

\* A function on 1 .. n into a set is a sequence of its members.
LEMMA FunctionSeq ==
  ASSUME NEW S, NEW n \in Nat, NEW f \in [1 .. n -> S]
  PROVE  f \in Seq(S)
BY SeqDef

IsList(items) == \E T : items \in Seq(T)

\* Every item of the requests becomes the item of its place.
LEMMA ItemOfEach ==
  ASSUME NEW S, NEW requests \in Seq(S), requests # <<>>, NEW items,
         DOMAIN items = DOMAIN requests, items = [i \in DOMAIN requests |-> items[i]]
  PROVE  Len(items) = Len(requests) /\ items # <<>> /\ IsList(items)
<1> DEFINE n == Len(requests)
           T == {items[i] : i \in 1 .. n}
<1>1. n \in Nat \ {0} /\ DOMAIN requests = 1 .. n
  BY EmptySeq, LenProperties
<1>2. items \in [1 .. n -> T]
  BY <1>1
<1> HIDE DEF T, n
<1>3. items \in Seq(T) /\ Len(items) = n
  <2>1. items \in Seq(T)
    BY <1>1, <1>2, SeqDef
  <2>2. Len(items) \in Nat /\ 1 .. Len(items) = 1 .. n
    BY <1>1, <1>2, <2>1, LenProperties
  <2> QED
    BY <1>1, <2>1, <2>2
<1>4. IsList(items)
  BY <1>3, Zenon DEF IsList
<1> QED
  BY <1>1, <1>3, <1>4 DEF n

\* What PlaceOrders makes of orders it accepts.
LEMMA OrdersCheckedPlace ==
  ASSUME IsPlace, NEW r \in Results, r.ok
  PROVE  /\ Len(r.action.items) = Len(input.requests) /\ r.action.items # <<>>
         /\ IsList(r.action.items) /\ r.action.type \in {"order"}
         /\ \A i \in DOMAIN input.requests :
              OrderTaken(input.requests[i], r.action.items[i])
<1> DEFINE requests == input.requests
           options == input.options
           items == r.action.items
<1>1. requests \in Seq(Requests) /\ input.kind = "place"
  <2>1. CASE \E q \in Requests, o \in OrderOptions :
               input = [kind |-> "place", requests |-> <<GoodRequest, q>>, options |-> o]
    BY <2>1, ValuesAssumption
  <2>2. CASE \E o \in OrderOptions :
               input = [kind |-> "place", requests |-> <<>>, options |-> o]
    BY <2>2
  <2> QED
    BY <2>1, <2>2 DEF IsPlace
<1>2. r = PlaceOrders(requests, options)
  BY <1>1 DEF Results
<1> HIDE DEF requests, options
<1>3. /\ requests # <<>> /\ \A q \in ToSet(requests) : OrderValid(q)
      /\ r.action.type = "order"
      /\ items = [i \in DOMAIN requests |-> orderWire(requests[i])]
  <2> DEFINE grouping == IF options.grouping = "" THEN "na" ELSE options.grouping
             ok == /\ requests # <<>>
                   /\ grouping \in Groupings
                   /\ \A q \in ToSet(requests) : OrderValid(q)
                   /\ options.builder.set => options.builder.valid
             wires == [i \in DOMAIN requests |-> orderWire(requests[i])]
  <2>1. r = IF ok THEN Built([type |-> "order", items |-> wires, grouping |-> grouping,
                              builder |-> options.builder])
            ELSE Rejected
    BY <1>2, Zenon DEF PlaceOrders, EachItem
  <2>2. ok => requests # <<>> /\ \A q \in ToSet(requests) : OrderValid(q)
    BY Zenon
  <2> HIDE DEF ok, grouping, wires
  <2>3. ok /\ items = wires /\ r.action.type = "order"
    BY <2>1 DEF Built, Rejected
  <2> QED
    BY <2>2, <2>3 DEF wires
<1> HIDE DEF items
<1>4. Len(items) = Len(requests) /\ items # <<>> /\ IsList(items)
  <2>1. DOMAIN items = DOMAIN requests /\ items = [i \in DOMAIN requests |-> items[i]]
    BY <1>3
  <2> QED
    BY <1>1, <1>3, <2>1, ItemOfEach
<1>5. ASSUME NEW i \in DOMAIN requests
      PROVE  OrderTaken(requests[i], items[i])
  <2>1. requests[i] \in Requests /\ requests[i] \in ToSet(requests)
    BY <1>1, ElementOfSeq, LenProperties DEF ToSet
  <2>2. items[i] = orderWire(requests[i])
    BY <1>3
  <2> QED
    BY <1>3, <2>1, <2>2, OrderFits
<1> QED
  BY <1>3, <1>4, <1>5 DEF requests, items

\* What the Modify functions make of modifies they accept.
LEMMA OrdersCheckedModify ==
  ASSUME IsModify, NEW r \in Results, r.ok
  PROVE  /\ Len(r.action.items) = Len(input.requests) /\ r.action.items # <<>>
         /\ IsList(r.action.items) /\ r.action.type \in {"modify", "batchModify"}
         /\ \A i \in DOMAIN input.requests :
              LET asked == input.requests[i]
                  item == r.action.items[i]
              IN /\ OrderTaken(asked.order, item.order)
                 /\ item.ref = [oid |-> asked.oid, cloid |-> asked.refCloid]
<1> DEFINE requests == input.requests
           always == input.alwaysPlace
           items == r.action.items
           built == ModifyOrders(requests, always)
<1>1. PICK q \in Requests, id \in Ids :
        requests = << [oid |-> id.oid, refCloid |-> id.cloid, order |-> q] >>
        /\ input.kind = "modify"
  BY DEF IsModify
<1> DEFINE m == [oid |-> id.oid, refCloid |-> id.cloid, order |-> q]
<1>2. requests \in Seq({m}) /\ requests = <<m>> /\ requests # <<>> /\ m.order = q
      /\ DOMAIN requests = {1} /\ requests[1] = m
  BY <1>1
<1>3. r \in {built} \cup (IF built.ok THEN {Built([built.action EXCEPT !.type = "modify"])} ELSE {})
  BY <1>1, Zenon DEF Results
<1> HIDE DEF requests, always, m
<1>4. built.ok
  <2> HIDE DEF built
  <2> QED
    BY <1>3
<1>5. /\ \A k \in ToSet(requests) : OrderValid(k.order)
      /\ items = [i \in DOMAIN requests |-> modifyWire(requests[i])]
      /\ r.action.type \in {"modify", "batchModify"}
  <2> DEFINE ok == /\ requests # <<>>
                   /\ \A k \in ToSet(requests) :
                        (k.oid # 0 \/ IsSet(k.refCloid)) /\ OrderValid(k.order)
             wires == [i \in DOMAIN requests |-> modifyWire(requests[i])]
             act == [type |-> "batchModify", items |-> wires, alwaysPlace |-> always]
  <2>1. built = IF ok THEN Built(act) ELSE Rejected
    BY Zenon DEF ModifyOrders, EachItem
  <2>2. ok => \A k \in ToSet(requests) : OrderValid(k.order)
    BY Zenon
  <2> HIDE DEF ok, wires, built
  <2>3. ok /\ built = Built(act)
    BY <1>4, <2>1 DEF Rejected
  <2>4. built.action = act
    <3> HIDE DEF act
    <3> QED
      BY <2>3 DEF Built
  <2>5. r = built \/ r = Built([act EXCEPT !.type = "modify"])
    BY <1>3, <2>4
  <2>6. items = wires /\ r.action.type \in {"modify", "batchModify"}
    <3>1. act.items = wires /\ [act EXCEPT !.type = "modify"].items = wires
          /\ act.type = "batchModify" /\ [act EXCEPT !.type = "modify"].type = "modify"
      OBVIOUS
    <3>2. \A a : Built(a).action = a
      BY DEF Built
    <3> HIDE DEF act
    <3> QED
      BY <2>3, <2>5, <3>1, <3>2
  <2> QED
    BY <2>2, <2>3, <2>6 DEF wires
<1> HIDE DEF items, built
<1>7. Len(items) = Len(requests) /\ items # <<>> /\ IsList(items)
  <2>1. DOMAIN items = DOMAIN requests /\ items = [i \in DOMAIN requests |-> items[i]]
    BY <1>5
  <2> QED
    BY <1>2, <2>1, ItemOfEach
<1>8. /\ OrderTaken(requests[1].order, items[1].order)
      /\ items[1].ref = [oid |-> requests[1].oid, cloid |-> requests[1].refCloid]
  <2>1. items[1] = modifyWire(m)
    BY <1>2, <1>5
  <2>2. modifyWire(m).order = orderWire(q)
        /\ modifyWire(m).ref = [oid |-> m.oid, cloid |-> m.refCloid]
    BY <1>2, Zenon DEF modifyWire
  <2>3. m \in ToSet(requests)
    BY <1>2 DEF ToSet
  <2>4. OrderValid(q)
    BY <1>2, <1>5, <2>3
  <2>5. OrderTaken(q, orderWire(q))
    BY <2>4, OrderFits
  <2> QED
    BY <1>2, <2>1, <2>2, <2>5
<1> QED
  BY <1>2, <1>5, <1>7, <1>8 DEF requests, items

\* What the Cancel functions make of cancels they accept.
LEMMA OrdersCheckedCancel ==
  ASSUME IsCancel, NEW r \in Results, r.ok
  PROVE  /\ Len(r.action.items) = Len(input.requests) /\ r.action.items # <<>>
         /\ IsList(r.action.items) /\ r.action.type \in {"cancel", "cancelByCloid"}
<1> DEFINE requests == input.requests
           items == r.action.items
<1>1. \E S : requests \in Seq(S)
  <2>1. PICK kind \in {"cancel", "cancelByCloid"}, ids \in [1 .. 2 -> Ids],
             coin \in {q.coin : q \in Requests}, fast \in BOOLEAN :
          input = [kind |-> kind, fast |-> fast,
                   requests |-> [i \in 1 .. 2 |-> [coin |-> coin, oid |-> ids[i].oid,
                                                   cloid |-> ids[i].cloid]]]
    BY DEF IsCancel
  <2> DEFINE n == 2
             S == {requests[i] : i \in 1 .. n}
  <2>2. n \in Nat /\ requests \in [1 .. n -> S]
    BY <2>1
  <2>3. requests \in Seq(S)
    <3> HIDE DEF requests, S, n
    <3> QED
      BY <2>2, FunctionSeq
  <2> QED
    BY <2>3
<1>2. \/ input.kind = "cancel" /\ r = CancelOrders(requests, input.fast)
      \/ input.kind = "cancelByCloid" /\ r = CancelOrdersByCloid(requests, input.fast)
  <2>1. input.kind \in {"cancel", "cancelByCloid"}
    BY DEF IsCancel
  <2>2. CASE input.kind = "cancel"
    BY <2>2 DEF Results
  <2>3. CASE input.kind = "cancelByCloid"
    BY <2>3 DEF Results
  <2> QED
    BY <2>1, <2>2, <2>3
<1> HIDE DEF requests
<1>3. requests # <<>> /\ DOMAIN items = DOMAIN requests
      /\ items = [i \in DOMAIN requests |-> items[i]]
      /\ r.action.type \in {"cancel", "cancelByCloid"}
  <2> DEFINE known == \A c \in ToSet(requests) : c.oid # 0 /\ Resolves(c.coin)
             knownByCloid == \A c \in ToSet(requests) : IsSet(c.cloid) /\ Resolves(c.coin)
             wires == [i \in DOMAIN requests |-> cancelWire(requests[i])]
             wiresByCloid == [i \in DOMAIN requests |-> cancelByCloidWire(requests[i])]
  <2>1. \/ r = IF requests # <<>> /\ known
               THEN Built([type |-> "cancel", items |-> wires, fast |-> input.fast])
               ELSE Rejected
        \/ r = IF requests # <<>> /\ knownByCloid
               THEN Built([type |-> "cancelByCloid", fast |-> input.fast,
                           items |-> wiresByCloid])
               ELSE Rejected
    BY <1>2, Zenon DEF CancelOrders, CancelOrdersByCloid, EachItem
  <2>2. DOMAIN wires = DOMAIN requests /\ DOMAIN wiresByCloid = DOMAIN requests
        /\ wires = [i \in DOMAIN requests |-> wires[i]]
        /\ wiresByCloid = [i \in DOMAIN requests |-> wiresByCloid[i]]
    OBVIOUS
  <2> HIDE DEF known, knownByCloid, wires, wiresByCloid
  <2>3. requests # <<>> /\ items \in {wires, wiresByCloid}
        /\ r.action.type \in {"cancel", "cancelByCloid"}
    BY <2>1 DEF Built, Rejected
  <2> HIDE DEF items
  <2> QED
    BY <2>2, <2>3
<1>4. Len(items) = Len(requests) /\ items # <<>> /\ IsList(items)
  <2> HIDE DEF items
  <2> QED
    BY <1>1, <1>3, ItemOfEach
<1> QED
  BY <1>3, <1>4 DEF requests

\* An action the trading functions accept has one item for every request, in order,
\* (an empty batch is none), and every order in it is the caller's, one the exchange
\* takes, of a listed coin, and a modify names the order the caller named, for any
\* registry and any requests (trading.go).
THEOREM OrdersCheckedAlways == Spec => []OrdersChecked
<1>1. InputType => OrdersChecked
  <2> SUFFICES ASSUME InputType, NEW r \in Results, r.ok
               PROVE  /\ input.kind \in {"place", "modify", "cancel", "cancelByCloid"} =>
                           Len(r.action.items) = Len(input.requests) /\ r.action.items # <<>>
                      /\ input.kind = "place" => \A i \in DOMAIN input.requests :
                           OrderTaken(input.requests[i], r.action.items[i])
                      /\ input.kind = "modify" => \A i \in DOMAIN input.requests :
                           LET asked == input.requests[i]
                               item == r.action.items[i]
                           IN /\ OrderTaken(asked.order, item.order)
                              /\ item.ref = [oid |-> asked.oid, cloid |-> asked.refCloid]
    BY Zenon DEF OrdersChecked
  <2>1. CASE input.kind = "place"
    BY <2>1, Kinds, OrdersCheckedPlace
  <2>2. CASE input.kind = "modify"
    BY <2>2, Kinds, OrdersCheckedModify
  <2>3. CASE input.kind \in {"cancel", "cancelByCloid"}
    BY <2>3, Kinds, OrdersCheckedCancel
  <2> QED
    BY <2>1, <2>2, <2>3
<1> QED
  BY <1>1, InputTyped, PTL

(***************************************************************************)
(* Configurations.                                                         *)
(***************************************************************************)
\* The two URLs, and the rest of a configuration, after the defaults.
LEMMA Defaults ==
  ASSUME NEW c \in Configs
  PROVE  LET d == withDefaults(c)
         IN /\ d.testnet = c.testnet /\ d.key = c.key
            /\ d.account = c.account /\ d.vault = c.vault
            /\ d.rest = UrlOf(c, c.rest, MainnetRestURL, TestnetRestURL)
            /\ d.ws = UrlOf(c, c.ws, MainnetWsURL, TestnetWsURL)
            /\ DOMAIN d = DOMAIN DefaultConfig
<1> DEFINE rest == UrlOf(c, c.rest, MainnetRestURL, TestnetRestURL)
           ws == UrlOf(c, c.ws, MainnetWsURL, TestnetWsURL)
           number == [s \in Settings |-> IF c.number[s] = 0 THEN DefaultOf[s] ELSE c.number[s]]
           d == withDefaults(c)
<1>1. DOMAIN c = {"testnet", "rest", "ws", "number", "key", "account", "vault"}
      /\ DOMAIN c = DOMAIN DefaultConfig
  BY ConfigAssumption DEF DefaultConfig
<1>2. d = [c EXCEPT !.rest = rest, !.ws = ws, !.number = number]
  BY Zenon DEF withDefaults
<1> HIDE DEF rest, ws, number, d
<1>3. /\ d.testnet = c.testnet /\ d.key = c.key
      /\ d.account = c.account /\ d.vault = c.vault
      /\ d.rest = rest /\ d.ws = ws /\ DOMAIN d = DOMAIN c
  BY <1>1, <1>2
<1> QED
  BY <1>1, <1>3, Zenon DEF rest, ws, d

\* What NewClient gives for a configuration it takes.
LEMMA Taken ==
  ASSUME NEW c \in Configs, NewClient(c).ok
  PROVE  LET r == NewClient(c)
             d == withDefaults(c)
         IN /\ validate(d)
            /\ d.key # NoText => IsKey(d.key)
            /\ r.isMainnet = ~ d.testnet /\ r.signs = (d.key # NoText) /\ r.vault = d.vault
            /\ r.cfg = [d EXCEPT !.key = NoText]
            /\ r.user = CASE d.vault # NoText -> d.vault.value
                           [] d.vault = NoText /\ d.account # NoText -> d.account.value
                           [] d.vault = NoText /\ d.account = NoText /\ d.key # NoText ->
                                AddressOfKey[d.key.value]
                           [] OTHER -> ""
<1> DEFINE d == withDefaults(c)
           r == NewClient(c)
           user == CASE d.vault # NoText -> d.vault.value
                     [] d.vault = NoText /\ d.account # NoText -> d.account.value
                     [] d.vault = NoText /\ d.account = NoText /\ d.key # NoText ->
                          AddressOfKey[d.key.value]
                     [] OTHER -> ""
           good == \A text \in {d.vault, d.account} \ {NoText} : IsAddress(text)
           cfg == [d EXCEPT !.key = NoText]
           full == [ok |-> TRUE, cfg |-> cfg, signs |-> d.key # NoText,
                    isMainnet |-> ~ d.testnet, vault |-> d.vault, user |-> user]
<1>1. r = IF ~ validate(d) THEN Refused("invalid_request")
          ELSE IF d.key # NoText /\ ~ IsKey(d.key) THEN Refused("auth")
          ELSE IF ~ good THEN Refused("invalid_request") ELSE full
  BY Zenon DEF NewClient
<1> HIDE DEF d, good, cfg, user, r
<1>2. ~ Refused("invalid_request").ok /\ ~ Refused("auth").ok
  BY DEF Refused
<1>3. r.ok
  BY DEF r
<1>4. validate(d) /\ (d.key # NoText => IsKey(d.key)) /\ r = full
  <2> HIDE DEF full
  <2> QED
    BY <1>1, <1>2, <1>3, Zenon
<1>5. /\ r.isMainnet = ~ d.testnet /\ r.signs = (d.key # NoText) /\ r.vault = d.vault
      /\ r.cfg = cfg /\ r.user = user
  BY <1>4
<1> QED
  BY <1>4, <1>5, Zenon DEF r, d, cfg, user

\* The account a client queries: the vault, else the account, else the signer's.
LEMMA UserOf ==
  ASSUME NEW c \in Configs, NEW d, d.vault = c.vault, d.account = c.account, d.key = c.key,
         d.key # NoText => IsKey(d.key)
  PROVE  LET user == CASE d.vault # NoText -> d.vault.value
                       [] d.vault = NoText /\ d.account # NoText -> d.account.value
                       [] d.vault = NoText /\ d.account = NoText /\ d.key # NoText ->
                            AddressOfKey[d.key.value]
                       [] OTHER -> ""
         IN /\ d.vault # NoText => user = d.vault.value
            /\ d.key # NoText => user # ""
<1> DEFINE user == CASE d.vault # NoText -> d.vault.value
                     [] d.vault = NoText /\ d.account # NoText -> d.account.value
                     [] d.vault = NoText /\ d.account = NoText /\ d.key # NoText ->
                          AddressOfKey[d.key.value]
                     [] OTHER -> ""
<1>1. /\ c.account # NoText => c.account.value # ""
      /\ c.vault # NoText => c.vault.value # ""
      /\ c.key # NoText /\ IsKey(c.key) => AddressOfKey[c.key.value] # ""
  BY ConfigAssumption, Zenon
<1>2. CASE d.vault # NoText
  <2>1. user = d.vault.value
    BY <1>2, Zenon
  <2> QED
    BY <1>1, <1>2, <2>1, Zenon
<1>3. CASE d.vault = NoText /\ d.account # NoText
  <2>1. user = d.account.value
    BY <1>3, Zenon
  <2> QED
    BY <1>1, <1>3, <2>1, Zenon
<1>4. CASE d.vault = NoText /\ d.account = NoText /\ d.key # NoText
  <2>1. user = AddressOfKey[d.key.value]
    BY <1>4, Zenon
  <2> QED
    BY <1>1, <1>4, <2>1, Zenon
<1> QED
  BY <1>2, <1>3, <1>4, Zenon

\* Whatever configuration NewClient accepts, a URL left at the default is the one of
\* the network the client signs for and any other URL is the caller's, the client
\* queries the account it trades for and reads with a longer time-out than it pings
\* (client.go, config.go).
THEOREM NetworkAgreesAlways == Spec => []NetworkAgrees
<1>1. ASSUME NEW c \in Configs, NewClient(c).ok
      PROVE  LET r == NewClient(c)
                 hosts == HostsOf(r.isMainnet)
             IN /\ r.isMainnet = ~ c.testnet
                /\ r.cfg.rest = IF c.rest \in {"", MainnetRestURL} THEN hosts.rest ELSE c.rest
                /\ r.cfg.ws = IF c.ws \in {"", MainnetWsURL} THEN hosts.ws ELSE c.ws
                /\ r.cfg.number["ReadTimeout"] > r.cfg.number["PingInterval"]
                /\ r.vault # NoText => r.user = r.vault.value
                /\ r.signs => r.user # ""
  <2> DEFINE d == withDefaults(c)
             r == NewClient(c)
             user == CASE d.vault # NoText -> d.vault.value
                       [] d.vault = NoText /\ d.account # NoText -> d.account.value
                       [] d.vault = NoText /\ d.account = NoText /\ d.key # NoText ->
                            AddressOfKey[d.key.value]
                       [] OTHER -> ""
  <2>1. /\ d.testnet = c.testnet /\ d.key = c.key
        /\ d.account = c.account /\ d.vault = c.vault
        /\ d.rest = UrlOf(c, c.rest, MainnetRestURL, TestnetRestURL)
        /\ d.ws = UrlOf(c, c.ws, MainnetWsURL, TestnetWsURL)
        /\ DOMAIN d = DOMAIN DefaultConfig
    BY Defaults, Zenon
  <2>2. /\ validate(d)
        /\ d.key # NoText => IsKey(d.key)
        /\ r.isMainnet = ~ d.testnet /\ r.signs = (d.key # NoText) /\ r.vault = d.vault
        /\ r.cfg = [d EXCEPT !.key = NoText] /\ r.user = user
    BY <1>1, Taken, Zenon
  <2>3. /\ d.vault # NoText => user = d.vault.value
        /\ d.key # NoText => user # ""
    BY <2>1, <2>2, UserOf, ZenonT(40)
  <2> HIDE DEF d, r, user
  <2>4. r.cfg.rest = d.rest /\ r.cfg.ws = d.ws /\ r.cfg.number = d.number
    BY <2>1, <2>2 DEF DefaultConfig
  <2>5. r.isMainnet = ~ c.testnet
    BY <2>1, <2>2, Zenon
  <2>6. r.cfg.number["ReadTimeout"] > r.cfg.number["PingInterval"]
    BY <2>2, <2>4, Zenon DEF validate
  <2>7. LET hosts == HostsOf(r.isMainnet)
        IN /\ c.testnet => hosts.rest = TestnetRestURL /\ hosts.ws = TestnetWsURL
           /\ ~ c.testnet => hosts.rest = MainnetRestURL /\ hosts.ws = MainnetWsURL
    BY <2>5, Zenon DEF HostsOf
  <2>8. LET hosts == HostsOf(r.isMainnet)
        IN /\ r.cfg.rest = IF c.rest \in {"", MainnetRestURL} THEN hosts.rest ELSE c.rest
           /\ r.cfg.ws = IF c.ws \in {"", MainnetWsURL} THEN hosts.ws ELSE c.ws
    <3> DEFINE rest == HostsOf(r.isMainnet).rest
               ws == HostsOf(r.isMainnet).ws
    <3>1. UrlOf(c, c.rest, MainnetRestURL, TestnetRestURL) =
            IF c.rest \in {"", MainnetRestURL} THEN rest ELSE c.rest
      <4>1. (c.testnet => rest = TestnetRestURL) /\ (~ c.testnet => rest = MainnetRestURL)
        BY <2>7, Zenon
      <4> HIDE DEF rest
      <4>2. CASE c.rest = "" \/ c.rest = MainnetRestURL
        <5>1. UrlOf(c, c.rest, MainnetRestURL, TestnetRestURL) = rest
          BY <4>1, <4>2, Zenon DEF UrlOf
        <5> QED
          BY <4>2, <5>1, Zenon
      <4>3. CASE c.rest # "" /\ c.rest # MainnetRestURL
        <5>1. UrlOf(c, c.rest, MainnetRestURL, TestnetRestURL) = c.rest
          BY <4>3, Zenon DEF UrlOf
        <5> QED
          BY <4>3, <5>1, Zenon
      <4> QED
        BY <4>2, <4>3, Zenon
    <3>2. UrlOf(c, c.ws, MainnetWsURL, TestnetWsURL) =
            IF c.ws \in {"", MainnetWsURL} THEN ws ELSE c.ws
      <4>1. (c.testnet => ws = TestnetWsURL) /\ (~ c.testnet => ws = MainnetWsURL)
        BY <2>7, Zenon
      <4> HIDE DEF ws
      <4>2. CASE c.ws = "" \/ c.ws = MainnetWsURL
        <5>1. UrlOf(c, c.ws, MainnetWsURL, TestnetWsURL) = ws
          BY <4>1, <4>2, Zenon DEF UrlOf
        <5> QED
          BY <4>2, <5>1, Zenon
      <4>3. CASE c.ws # "" /\ c.ws # MainnetWsURL
        <5>1. UrlOf(c, c.ws, MainnetWsURL, TestnetWsURL) = c.ws
          BY <4>3, Zenon DEF UrlOf
        <5> QED
          BY <4>3, <5>1, Zenon
      <4> QED
        BY <4>2, <4>3, Zenon
    <3> QED
      BY <2>1, <2>4, <3>1, <3>2, Zenon
  <2>9. /\ r.vault # NoText => r.user = r.vault.value
        /\ r.signs => r.user # ""
    BY <2>2, <2>3, Zenon
  <2> QED
    BY <2>5, <2>6, <2>8, <2>9, Zenon DEF r
<1>2. ASSUME InputType, input.kind = "config"
      PROVE  input.config \in Configs
  BY <1>2, Kinds DEF IsConfig
<1>3. InputType => NetworkAgrees
  BY <1>1, <1>2, Zenon DEF NetworkAgrees
<1> QED
  BY <1>3, InputTyped, PTL

(***************************************************************************)
(* Queries and subscriptions.                                              *)
(***************************************************************************)
\* Two asks of one function agree on what it does not take.
LEMMA Agree ==
  ASSUME NEW a \in Asks, NEW b \in Asks, a.op = b.op,
         NEW arg \in DOMAIN TakenBy, a.op \notin TakenBy[arg]
  PROVE  a[arg] = b[arg]
<1>1. a[arg] = ZeroAsk[arg] /\ b[arg] = ZeroAsk[arg]
  BY AsksAssumption, Zenon
<1> QED
  BY <1>1

\* Two asks that agree on every argument mean the same.
LEMMA SameMeaning ==
  ASSUME NEW a \in Asks, NEW b \in Asks, a.op = b.op, a.cloid = b.cloid,
         IsSet(a.cloid) \/ a.oid = b.oid,
         \A arg \in DOMAIN TakenBy \ {"oid"} : a[arg] = b[arg]
  PROVE  Meaning(b) = Meaning(a)
<1> DEFINE D == {"op"} \cup DOMAIN TakenBy
<1>1. DOMAIN a = D /\ DOMAIN b = D
  BY AsksAssumption
<1>2. \A x \in D : x # "oid" => a[x] = b[x]
  BY Zenon
<1> HIDE DEF D
<1>3. CASE IsSet(a.cloid)
  <2>1. [b EXCEPT !.oid = 0] = [a EXCEPT !.oid = 0]
    BY <1>1, <1>2
  <2>2. Meaning(a) = [a EXCEPT !.oid = 0] /\ Meaning(b) = [b EXCEPT !.oid = 0]
    BY <1>3, Zenon DEF Meaning
  <2> QED
    BY <2>1, <2>2
<1>4. CASE ~ IsSet(a.cloid)
  <2>1. [b EXCEPT !.oid = b.oid] = [a EXCEPT !.oid = a.oid]
    BY <1>1, <1>2, <1>4
  <2>2. Meaning(a) = [a EXCEPT !.oid = a.oid] /\ Meaning(b) = [b EXCEPT !.oid = b.oid]
    BY <1>4, Zenon DEF Meaning
  <2> QED
    BY <2>1, <2>2
<1> QED
  BY <1>3, <1>4

\* What a function makes of its ask.
LEMMA AskedOf ==
  ASSUME NEW q \in Asks, Asked(q).ok
  PROVE  LET r == Asked(q)
         IN /\ q.op = "getOrderBook" => r = L2Book(q)
            /\ q.op = "getMids" => r = AllMids(q)
            /\ q.op = "getCandles" => r = CandleSnapshot(q)
            /\ q.op = "getAssetContexts" => r = PerpMetaAndAssetCtxs(q)
            /\ q.op = "loadAssets" => r = PerpMetaOf(q)
            /\ q.op = "getOpenOrders" => r = OpenOrders(q)
            /\ q.op = "getOrderStatus" => r = OrderStatus(q)
            /\ q.op = "getAccountState" => r = ClearinghouseState(q)
            /\ q.op = "getUserFills" => r = UserFills(q)
            /\ q.op = "getUserFillsByTime" => r = UserFillsByTime(q)
            /\ q.op = "getUserRateLimit" => r = UserRateLimit(q)
            /\ q.op = "getUserRole" => r = UserRole(q)
            /\ q.op = "watchOrderbook" => r = WatchL2Book(q)
            /\ q.op = "watchBBO" => r = WatchBBO(q)
            /\ q.op = "watchTrades" => r = WatchTrades(q)
            /\ q.op = "watchCandles" => r = WatchCandles(q)
            /\ q.op = "watchAssetCtx" => r = WatchPerpAssetCtx(q)
            /\ q.op = "watchOrderUpdates" => r = WatchOrderUpdates(q)
            /\ q.op = "watchUserFills" => r = WatchUserFills(q)
            /\ q.op = "watchAccountState" => r = WatchClearinghouseState(q)
<1>1. Asked(q) # Rejected
  BY DEF Rejected
<1>2. Asked(q) = IF q.op \in Watches THEN Watched(q)
                 ELSE IF q.op \in MarketFetches THEN MarketFetched(q) ELSE AccountFetched(q)
  BY <1>1, Zenon DEF Asked
<1>3. q.op \in Watches => Asked(q) = Watched(q)
  BY <1>2, Zenon
<1>4. q.op \notin Watches /\ q.op \in MarketFetches => Asked(q) = MarketFetched(q)
  BY <1>2, Zenon
<1>5. q.op \notin Watches /\ q.op \notin MarketFetches => Asked(q) = AccountFetched(q)
  BY <1>2, Zenon
<1>6. /\ q.op = "getOrderBook" => Asked(q) = L2Book(q)
      /\ q.op = "getMids" => Asked(q) = AllMids(q)
      /\ q.op = "getCandles" => Asked(q) = CandleSnapshot(q)
      /\ q.op = "getAssetContexts" => Asked(q) = PerpMetaAndAssetCtxs(q)
      /\ q.op = "loadAssets" => Asked(q) = PerpMetaOf(q)
  BY <1>4 DEF Watches, MarketFetches, MarketFetched
<1>7. /\ q.op = "getOpenOrders" => Asked(q) = OpenOrders(q)
      /\ q.op = "getOrderStatus" => Asked(q) = OrderStatus(q)
      /\ q.op = "getAccountState" => Asked(q) = ClearinghouseState(q)
      /\ q.op = "getUserFills" => Asked(q) = UserFills(q)
      /\ q.op = "getUserFillsByTime" => Asked(q) = UserFillsByTime(q)
      /\ q.op = "getUserRateLimit" => Asked(q) = UserRateLimit(q)
      /\ q.op = "getUserRole" => Asked(q) = UserRole(q)
  BY <1>5 DEF Watches, MarketFetches, AccountFetched
<1>8. /\ q.op = "watchOrderbook" => Asked(q) = WatchL2Book(q)
      /\ q.op = "watchBBO" => Asked(q) = WatchBBO(q)
      /\ q.op = "watchTrades" => Asked(q) = WatchTrades(q)
      /\ q.op = "watchCandles" => Asked(q) = WatchCandles(q)
      /\ q.op = "watchAssetCtx" => Asked(q) = WatchPerpAssetCtx(q)
      /\ q.op = "watchOrderUpdates" => Asked(q) = WatchOrderUpdates(q)
      /\ q.op = "watchUserFills" => Asked(q) = WatchUserFills(q)
      /\ q.op = "watchAccountState" => Asked(q) = WatchClearinghouseState(q)
  BY <1>3, SMTT(30) DEF Watches, Watched
<1> QED
  BY <1>6, <1>7, <1>8, Zenon

\* The body of the request, and the route key of the subscription, of an
\* accepted ask; the arguments the proofs need were checked.
LEMMA SentOf ==
  ASSUME NEW q \in Asks, Asked(q).ok
  PROVE  LET r == Asked(q)
         IN
            /\ q.op = "getOrderBook" =>
                /\ requireText(q.coin) /\ validateL2BookOptions(q)
                /\ r.body = Typed("l2Book", At("coin", JStr(q.coin)) \o L2BookParams(q))
            /\ q.op = "getMids" =>
                /\ r.body = dexBody("allMids")
            /\ q.op = "getCandles" =>
                /\ r.body = Typed("candleSnapshot",
                          At("req", Obj(At("coin", JStr(q.coin)) \o At("interval", JStr(q.interval))
                                        \o At("startTime", JNum(q.start))
                                        \o At("endTime", JNum(q.end)))))
            /\ q.op = "getAssetContexts" =>
                /\ r.body = dexBody("metaAndAssetCtxs")
            /\ q.op = "loadAssets" =>
                /\ r.body = dexBody("meta")
            /\ q.op = "getOpenOrders" =>
                /\ r.body = userDexBody("frontendOpenOrders", q.user)
            /\ q.op = "getOrderStatus" =>
                /\ r.body = Typed("orderStatus", At("user", JStr(q.user))
                            \o At("oid", IF IsSet(q.cloid) THEN JStr(q.cloid) ELSE JNum(q.oid)))
            /\ q.op = "getAccountState" =>
                /\ r.body = userDexBody("clearinghouseState", q.user)
            /\ q.op = "getUserFills" =>
                /\ r.body = Typed("userFills", At("user", JStr(q.user)) \o Aggregated(q))
            /\ q.op = "getUserFillsByTime" =>
                /\ r.body = Typed("userFillsByTime",
                          At("user", JStr(q.user)) \o At("startTime", JNum(q.start))
                          \o If(q.end # 0, At("endTime", JNum(q.end))) \o Aggregated(q))
            /\ q.op = "getUserRateLimit" =>
                /\ r.body = userBody("userRateLimit", q.user)
            /\ q.op = "getUserRole" =>
                /\ r.body = userBody("userRole", q.user)
            /\ q.op = "watchOrderbook" =>
                /\ requireText(q.coin) /\ validateL2BookOptions(q)
                /\ r.key = RouteKey("l2Book", q.coin)
                /\ r.body = Typed("l2Book", At("coin", JStr(q.coin)) \o L2BookParams(q)
                                    \o If(q.flag, At("fast", JFlag(TRUE))))
            /\ q.op = "watchBBO" =>
                /\ requireText(q.coin)
                /\ r.key = RouteKey("bbo", q.coin)
                /\ r.body = coinPayload("bbo", q.coin)
            /\ q.op = "watchTrades" =>
                /\ requireText(q.coin)
                /\ r.key = RouteKey("trades", q.coin)
                /\ r.body = coinPayload("trades", q.coin)
            /\ q.op = "watchCandles" =>
                /\ requireText(q.coin)
                /\ r.key = CandleKey(q)
                /\ r.body = Typed("candle", At("coin", JStr(q.coin)) \o At("interval", JStr(q.interval)))
            /\ q.op = "watchAssetCtx" =>
                /\ requireText(q.coin)
                /\ r.key = RouteKey("activeAssetCtx", q.coin)
                /\ r.body = coinPayload("activeAssetCtx", q.coin)
            /\ q.op = "watchOrderUpdates" =>
                /\ r.key = RouteKey("orderUpdates", "")
                /\ r.body = userBody("orderUpdates", q.user)
            /\ q.op = "watchUserFills" =>
                /\ r.key = RouteKey("userFills", "")
                /\ r.body = Typed("userFills", At("user", JStr(q.user)) \o Aggregated(q))
            /\ q.op = "watchAccountState" =>
                /\ r.key = RouteKey("clearinghouseState", Dex)
                /\ r.body = userDexBody("clearinghouseState", q.user)
<1> DEFINE r == Asked(q)
<1>1. r # Rejected
  BY DEF Rejected
<1>2. CASE q.op = "getOrderBook"
  <2>1. r = L2Book(q)
    BY <1>2, AskedOf, Zenon
  <2>2. /\ requireText(q.coin) /\ validateL2BookOptions(q)
        /\ r.body = Typed("l2Book", At("coin", JStr(q.coin)) \o L2BookParams(q))
    BY <1>1, <2>1 DEF L2Book, Accept
  <2> QED
    BY <1>2, <2>2
<1>3. CASE q.op = "getMids"
  <2>1. r = AllMids(q)
    BY <1>3, AskedOf, Zenon
  <2>2. /\ r.body = dexBody("allMids")
    BY <1>1, <2>1 DEF AllMids, Accept
  <2> QED
    BY <1>3, <2>2
<1>4. CASE q.op = "getCandles"
  <2>1. r = CandleSnapshot(q)
    BY <1>4, AskedOf, Zenon
  <2>2. /\ r.body = Typed("candleSnapshot",
                          At("req", Obj(At("coin", JStr(q.coin)) \o At("interval", JStr(q.interval))
                                        \o At("startTime", JNum(q.start))
                                        \o At("endTime", JNum(q.end)))))
    BY <1>1, <2>1 DEF CandleSnapshot, Accept
  <2> QED
    BY <1>4, <2>2
<1>5. CASE q.op = "getAssetContexts"
  <2>1. r = PerpMetaAndAssetCtxs(q)
    BY <1>5, AskedOf, Zenon
  <2>2. /\ r.body = dexBody("metaAndAssetCtxs")
    BY <1>1, <2>1 DEF PerpMetaAndAssetCtxs, Accept
  <2> QED
    BY <1>5, <2>2
<1>6. CASE q.op = "loadAssets"
  <2>1. r = PerpMetaOf(q)
    BY <1>6, AskedOf, Zenon
  <2>2. /\ r.body = dexBody("meta")
    BY <1>1, <2>1 DEF PerpMetaOf, Accept
  <2> QED
    BY <1>6, <2>2
<1>7. CASE q.op = "getOpenOrders"
  <2>1. r = OpenOrders(q)
    BY <1>7, AskedOf, Zenon
  <2>2. /\ r.body = userDexBody("frontendOpenOrders", q.user)
    BY <1>1, <2>1 DEF OpenOrders, Accept
  <2> QED
    BY <1>7, <2>2
<1>8. CASE q.op = "getOrderStatus"
  <2>1. r = OrderStatus(q)
    BY <1>8, AskedOf, Zenon
  <2>2. /\ r.body = Typed("orderStatus", At("user", JStr(q.user))
                            \o At("oid", IF IsSet(q.cloid) THEN JStr(q.cloid) ELSE JNum(q.oid)))
    BY <1>1, <2>1 DEF OrderStatus, Accept
  <2> QED
    BY <1>8, <2>2
<1>9. CASE q.op = "getAccountState"
  <2>1. r = ClearinghouseState(q)
    BY <1>9, AskedOf, Zenon
  <2>2. /\ r.body = userDexBody("clearinghouseState", q.user)
    BY <1>1, <2>1 DEF ClearinghouseState, Accept
  <2> QED
    BY <1>9, <2>2
<1>10. CASE q.op = "getUserFills"
  <2>1. r = UserFills(q)
    BY <1>10, AskedOf, Zenon
  <2>2. /\ r.body = Typed("userFills", At("user", JStr(q.user)) \o Aggregated(q))
    BY <1>1, <2>1 DEF UserFills, Accept
  <2> QED
    BY <1>10, <2>2
<1>11. CASE q.op = "getUserFillsByTime"
  <2>1. r = UserFillsByTime(q)
    BY <1>11, AskedOf, Zenon
  <2>2. /\ r.body = Typed("userFillsByTime",
                          At("user", JStr(q.user)) \o At("startTime", JNum(q.start))
                          \o If(q.end # 0, At("endTime", JNum(q.end))) \o Aggregated(q))
    BY <1>1, <2>1 DEF UserFillsByTime, Accept
  <2> QED
    BY <1>11, <2>2
<1>12. CASE q.op = "getUserRateLimit"
  <2>1. r = UserRateLimit(q)
    BY <1>12, AskedOf, Zenon
  <2>2. /\ r.body = userBody("userRateLimit", q.user)
    BY <1>1, <2>1 DEF UserRateLimit, Accept
  <2> QED
    BY <1>12, <2>2
<1>13. CASE q.op = "getUserRole"
  <2>1. r = UserRole(q)
    BY <1>13, AskedOf, Zenon
  <2>2. /\ r.body = userBody("userRole", q.user)
    BY <1>1, <2>1 DEF UserRole, Accept
  <2> QED
    BY <1>13, <2>2
<1>14. CASE q.op = "watchOrderbook"
  <2> DEFINE body == Typed("l2Book", At("coin", JStr(q.coin)) \o L2BookParams(q)
                                     \o If(q.flag, At("fast", JFlag(TRUE))))
  <2>1. r = WatchL2Book(q)
    BY <1>14, AskedOf, Zenon
  <2>2. r = Watching(requireText(q.coin) /\ validateL2BookOptions(q),
                     RouteKey("l2Book", q.coin), body)
    BY <2>1, Zenon DEF WatchL2Book
  <2> HIDE DEF body
  <2>3. /\ requireText(q.coin) /\ validateL2BookOptions(q)
        /\ r.key = RouteKey("l2Book", q.coin) /\ r.body = body
    BY <1>1, <2>2 DEF Watching
  <2> QED
    BY <1>14, <2>3, Zenon DEF body
<1>15. CASE q.op = "watchBBO"
  <2>1. r = WatchBBO(q)
    BY <1>15, AskedOf, Zenon
  <2>2. /\ requireText(q.coin)
        /\ r.key = RouteKey("bbo", q.coin)
        /\ r.body = coinPayload("bbo", q.coin)
    BY <1>1, <2>1 DEF WatchBBO, WatchCoin, Watching
  <2> QED
    BY <1>15, <2>2
<1>16. CASE q.op = "watchTrades"
  <2>1. r = WatchTrades(q)
    BY <1>16, AskedOf, Zenon
  <2>2. /\ requireText(q.coin)
        /\ r.key = RouteKey("trades", q.coin)
        /\ r.body = coinPayload("trades", q.coin)
    BY <1>1, <2>1 DEF WatchTrades, WatchCoin, Watching
  <2> QED
    BY <1>16, <2>2
<1>17. CASE q.op = "watchCandles"
  <2>1. r = WatchCandles(q)
    BY <1>17, AskedOf, Zenon
  <2>2. /\ requireText(q.coin)
        /\ r.key = CandleKey(q)
        /\ r.body = Typed("candle", At("coin", JStr(q.coin)) \o At("interval", JStr(q.interval)))
    BY <1>1, <2>1 DEF WatchCandles, Watching
  <2> QED
    BY <1>17, <2>2
<1>18. CASE q.op = "watchAssetCtx"
  <2>1. r = WatchPerpAssetCtx(q)
    BY <1>18, AskedOf, Zenon
  <2>2. /\ requireText(q.coin)
        /\ r.key = RouteKey("activeAssetCtx", q.coin)
        /\ r.body = coinPayload("activeAssetCtx", q.coin)
    BY <1>1, <2>1 DEF WatchPerpAssetCtx, WatchCoin, Watching
  <2> QED
    BY <1>18, <2>2
<1>19. CASE q.op = "watchOrderUpdates"
  <2> DEFINE key == RouteKey("orderUpdates", "")
             body == userBody("orderUpdates", q.user)
  <2>1. r = WatchOrderUpdates(q)
    BY <1>19, AskedOf, Zenon
  <2>2. r = Watching(requireText(q.user), key, body)
    BY <2>1, Zenon DEF WatchOrderUpdates
  <2> HIDE DEF key, body
  <2>3. r.key = key /\ r.body = body
    BY <1>1, <2>2 DEF Watching
  <2> QED
    BY <1>19, <2>3, Zenon DEF key, body
<1>20. CASE q.op = "watchUserFills"
  <2> DEFINE key == RouteKey("userFills", "")
             body == Typed("userFills", At("user", JStr(q.user)) \o Aggregated(q))
  <2>1. r = WatchUserFills(q)
    BY <1>20, AskedOf, Zenon
  <2>2. r = Watching(requireText(q.user), key, body)
    BY <2>1, Zenon DEF WatchUserFills
  <2> HIDE DEF key, body
  <2>3. r.key = key /\ r.body = body
    BY <1>1, <2>2 DEF Watching
  <2> QED
    BY <1>20, <2>3, Zenon DEF key, body
<1>21. CASE q.op = "watchAccountState"
  <2>1. r = WatchClearinghouseState(q)
    BY <1>21, AskedOf, Zenon
  <2>2. /\ r.key = RouteKey("clearinghouseState", Dex)
        /\ r.body = userDexBody("clearinghouseState", q.user)
    BY <1>1, <2>1 DEF WatchClearinghouseState, Watching
  <2> QED
    BY <1>21, <2>2
<1> QED
  BY <1>2, <1>3, <1>4, <1>5, <1>6, <1>7, <1>8, <1>9, <1>10, <1>11, <1>12, <1>13, <1>14, <1>15, <1>16, <1>17, <1>18, <1>19, <1>20, <1>21, AsksAssumption, ZenonT(40) DEF Fetches, Watches, MarketFetches

\* The route key of a push, by its channel.
LEMMA RouteOf ==
  ASSUME NEW push
  PROVE  /\ push.channel \in {"l2Book", "bbo", "activeAssetCtx"} =>
              pushRouteKey(push) = <<push.channel, GetString(push.data, "coin")>>
         /\ push.channel = "activeSpotAssetCtx" =>
              pushRouteKey(push) = <<"activeAssetCtx", GetString(push.data, "coin")>>
         /\ push.channel = "trades" /\ push.items # <<>> =>
              pushRouteKey(push) = <<"trades", GetString(push.items[1], "coin")>>
         /\ push.channel = "candle" =>
              pushRouteKey(push) =
                <<"candle", GetString(push.data, "s"), GetString(push.data, "i")>>
         /\ push.channel = "clearinghouseState" =>
              pushRouteKey(push) = RouteKey(push.channel, GetString(push.data, "dex"))
         /\ push.channel \in {"orderUpdates", "userFills"} =>
              pushRouteKey(push) = <<push.channel>>
<1> DEFINE trade == IF push.items = <<>> THEN "" ELSE GetString(push.items[1], "coin")
<1>1. pushRouteKey(push) =
        CASE push.channel \in {"l2Book", "bbo", "activeAssetCtx", "activeAssetData"} ->
               <<push.channel, GetString(push.data, "coin")>>
          [] push.channel = "activeSpotAssetCtx" ->
               <<"activeAssetCtx", GetString(push.data, "coin")>>
          [] push.channel = "trades" -> <<"trades", trade>>
          [] push.channel = "candle" ->
               <<"candle", GetString(push.data, "s"), GetString(push.data, "i")>>
          [] push.channel = "user" -> <<"userEvents">>
          [] push.channel \in {"clearinghouseState", "openOrders"} ->
               RouteKey(push.channel, GetString(push.data, "dex"))
          [] push.channel \in {"orderUpdates", "userFills"} -> <<push.channel>>
  BY Zenon DEF pushRouteKey
<1>2. push.items # <<>> => trade = GetString(push.items[1], "coin")
  BY Zenon
<1> HIDE DEF trade
<1> QED
  BY <1>1, <1>2

\* GetString reads the field of a push's data it is asked for.
LEMMA Fields ==
  ASSUME NEW a, NEW b
  PROVE  /\ GetString([coin |-> a], "coin") = a
         /\ GetString([s |-> a, i |-> b], "s") = a /\ GetString([s |-> a, i |-> b], "i") = b
         /\ GetString([user |-> a, dex |-> b], "dex") = b
<1>1. /\ "coin" \in DOMAIN [coin |-> a] /\ [coin |-> a]["coin"] = a
      /\ "s" \in DOMAIN [s |-> a, i |-> b] /\ [s |-> a, i |-> b]["s"] = a
      /\ "i" \in DOMAIN [s |-> a, i |-> b] /\ [s |-> a, i |-> b]["i"] = b
      /\ "dex" \in DOMAIN [user |-> a, dex |-> b] /\ [user |-> a, dex |-> b]["dex"] = b
  OBVIOUS
<1> QED
  BY <1>1, Zenon DEF GetString

\* Joining a third part to a key of two.
LEMMA Joined ==
  ASSUME NEW a, NEW b, NEW c
  PROVE  <<a, b>> \o <<c>> = <<a, b, c>>
<1> DEFINE s == <<a, b>> \o <<c>>
           t == <<a, b, c>>
           S == {a, b, c}
<1>1. <<a, b>> \in Seq(S) /\ <<c>> \in Seq(S) /\ t \in Seq(S)
      /\ Len(t) = 3 /\ t[1] = a /\ t[2] = b /\ t[3] = c
  OBVIOUS
<1>2. s \in Seq(S) /\ Len(s) = 3 /\ s[1] = a /\ s[2] = b /\ s[3] = c
  BY <1>1, ConcatProperties
<1> HIDE DEF s, t, S
<1>3. \A i \in 1 .. Len(s) : s[i] = t[i]
  BY <1>1, <1>2
<1>4. s = t
  BY <1>1, <1>2, <1>3, SeqEqual
<1> QED
  BY <1>4 DEF s, t

\* The keys of the subscriptions, written out.
LEMMA KeyOf ==
  ASSUME NEW q \in Asks, Asked(q).ok
  PROVE  LET key == Asked(q).key
         IN /\ q.op = "watchOrderbook" => key = <<"l2Book", q.coin>>
            /\ q.op = "watchBBO" => key = <<"bbo", q.coin>>
            /\ q.op = "watchTrades" => key = <<"trades", q.coin>>
            /\ q.op = "watchCandles" => key = <<"candle", q.coin, q.interval>>
            /\ q.op = "watchAssetCtx" => key = <<"activeAssetCtx", q.coin>>
            /\ q.op = "watchOrderUpdates" => key = <<"orderUpdates">>
            /\ q.op = "watchUserFills" => key = <<"userFills">>
            /\ q.op = "watchAccountState" =>
                 key = RouteKey("clearinghouseState", Dex) /\ key[1] = "clearinghouseState"
<1>1. \A type, coin : requireText(coin) => RouteKey(type, coin) = <<type, coin>>
  BY Zenon DEF requireText, RouteKey
<1>2. RouteKey("orderUpdates", "") = <<"orderUpdates">>
      /\ RouteKey("userFills", "") = <<"userFills">>
  BY Zenon DEF RouteKey
<1>3. RouteKey("clearinghouseState", Dex)[1] = "clearinghouseState"
  <2>1. \/ RouteKey("clearinghouseState", Dex) = <<"clearinghouseState">>
        \/ RouteKey("clearinghouseState", Dex) = <<"clearinghouseState", Dex>>
    BY Zenon DEF RouteKey
  <2> QED
    BY <2>1
<1>4. /\ q.op = "watchOrderbook" => Asked(q).key = <<"l2Book", q.coin>>
      /\ q.op = "watchBBO" => Asked(q).key = <<"bbo", q.coin>>
      /\ q.op = "watchTrades" => Asked(q).key = <<"trades", q.coin>>
      /\ q.op = "watchAssetCtx" => Asked(q).key = <<"activeAssetCtx", q.coin>>
  BY <1>1, SentOf, ZenonT(40)
<1>5. q.op = "watchCandles" => Asked(q).key = <<"candle", q.coin, q.interval>>
  <2>1. SUFFICES ASSUME q.op = "watchCandles"
                 PROVE  Asked(q).key = <<"candle", q.coin, q.interval>>
    OBVIOUS
  <2>2. requireText(q.coin) /\ Asked(q).key = RouteKey("candle", q.coin) \o <<q.interval>>
    BY <2>1, SentOf, Zenon DEF CandleKey
  <2>3. Asked(q).key = <<"candle", q.coin>> \o <<q.interval>>
    BY <1>1, <2>2, Zenon
  <2> QED
    BY <2>3, Joined, Zenon
<1>6. /\ q.op = "watchOrderUpdates" => Asked(q).key = <<"orderUpdates">>
      /\ q.op = "watchUserFills" => Asked(q).key = <<"userFills">>
      /\ q.op = "watchAccountState" =>
                 Asked(q).key = RouteKey("clearinghouseState", Dex)
  BY <1>2, SentOf, Zenon
<1> QED
  BY <1>3, <1>4, <1>5, <1>6, Zenon

\* A push of a subscription finds its key.
LEMMA PushFound ==
  ASSUME NEW q \in Asks, q.op \in Watches, Asked(q).ok, NEW push \in PushesOf(q)
  PROVE  pushRouteKey(push) = Asked(q).key
<1> DEFINE key == Asked(q).key
<1>1. \A channel, data : LET p == Push(channel, data)
                         IN p.channel = channel /\ p.data = data
  BY DEF Push
<1>2. CASE q.op = "watchOrderbook"
  <2> DEFINE data == [coin |-> q.coin]
  <2>0. GetString(data, "coin") = q.coin
    BY Fields, Zenon
  <2> HIDE DEF data
  <2>1. push = Push("l2Book", data)
    BY <1>2 DEF PushesOf, data
  <2>2. pushRouteKey(push) = <<"l2Book", q.coin>>
    BY <1>1, <2>0, <2>1, RouteOf
  <2>3. Asked(q).key = <<"l2Book", q.coin>>
    BY <1>2, KeyOf, Zenon
  <2> QED
    BY <2>2, <2>3
<1>3. CASE q.op = "watchBBO"
  <2> DEFINE data == [coin |-> q.coin]
  <2>0. GetString(data, "coin") = q.coin
    BY Fields, Zenon
  <2> HIDE DEF data
  <2>1. push = Push("bbo", data)
    BY <1>3 DEF PushesOf, data
  <2>2. pushRouteKey(push) = <<"bbo", q.coin>>
    BY <1>1, <2>0, <2>1, RouteOf
  <2>3. Asked(q).key = <<"bbo", q.coin>>
    BY <1>3, KeyOf, Zenon
  <2> QED
    BY <2>2, <2>3
<1>4. CASE q.op = "watchTrades"
  <2> DEFINE data == [coin |-> q.coin]
  <2>0. GetString(data, "coin") = q.coin
    BY Fields, Zenon
  <2> HIDE DEF data
  <2>1. push = [Push("trades", NoText) EXCEPT !.items = <<data>>]
    BY <1>4 DEF PushesOf, data
  <2>2. push.channel = "trades" /\ push.items # <<>> /\ push.items[1] = data
    BY <2>1 DEF Push
  <2>3. pushRouteKey(push) = <<"trades", q.coin>>
    BY <2>0, <2>2, RouteOf
  <2>4. Asked(q).key = <<"trades", q.coin>>
    BY <1>4, KeyOf, Zenon
  <2> QED
    BY <2>3, <2>4
<1>5. CASE q.op = "watchCandles"
  <2> DEFINE data == [s |-> q.coin, i |-> q.interval]
  <2>0. GetString(data, "s") = q.coin /\ GetString(data, "i") = q.interval
    BY Fields, ZenonT(40)
  <2> HIDE DEF data
  <2>1. push = Push("candle", data)
    BY <1>5 DEF PushesOf, data
  <2>2. pushRouteKey(push) = <<"candle", q.coin, q.interval>>
    BY <1>1, <2>0, <2>1, RouteOf
  <2>3. Asked(q).key = <<"candle", q.coin, q.interval>>
    BY <1>5, KeyOf, Zenon
  <2> QED
    BY <2>2, <2>3
<1>6. CASE q.op = "watchAssetCtx"
  <2> DEFINE data == [coin |-> q.coin]
  <2>0. GetString(data, "coin") = q.coin
    BY Fields, Zenon
  <2> HIDE DEF data
  <2>1. PICK channel \in {"activeAssetCtx", "activeSpotAssetCtx"} :
          push = Push(channel, data)
    BY <1>6 DEF PushesOf, data
  <2>2. pushRouteKey(push) = <<"activeAssetCtx", q.coin>>
    BY <1>1, <2>0, <2>1, RouteOf
  <2>3. Asked(q).key = <<"activeAssetCtx", q.coin>>
    BY <1>6, KeyOf, Zenon
  <2> QED
    BY <2>2, <2>3
<1>7. CASE q.op = "watchOrderUpdates"
  <2>1. push = Push("orderUpdates", NoText)
    BY <1>7 DEF PushesOf
  <2>2. pushRouteKey(push) = <<"orderUpdates">>
    BY <1>1, <2>1, RouteOf
  <2>3. Asked(q).key = <<"orderUpdates">>
    BY <1>7, KeyOf, Zenon
  <2> QED
    BY <2>2, <2>3
<1>8. CASE q.op = "watchUserFills"
  <2>1. push = Push("userFills", [user |-> q.user])
    BY <1>8 DEF PushesOf
  <2>2. pushRouteKey(push) = <<"userFills">>
    BY <1>1, <2>1, RouteOf
  <2>3. Asked(q).key = <<"userFills">>
    BY <1>8, KeyOf, Zenon
  <2> QED
    BY <2>2, <2>3
<1>9. CASE q.op = "watchAccountState"
  <2> DEFINE data == [user |-> q.user, dex |-> Dex]
  <2>0. GetString(data, "dex") = Dex
    BY Fields, Zenon
  <2> HIDE DEF data
  <2>1. push = Push("clearinghouseState", data)
    BY <1>9 DEF PushesOf, data
  <2>2. pushRouteKey(push) = RouteKey("clearinghouseState", Dex)
    BY <1>1, <2>0, <2>1, RouteOf
  <2>3. Asked(q).key = RouteKey("clearinghouseState", Dex)
    BY <1>9, KeyOf, Zenon
  <2> QED
    BY <2>2, <2>3
<1> QED
  BY <1>2, <1>3, <1>4, <1>5, <1>6, <1>7, <1>8, <1>9 DEF Watches

(***************************************************************************)
(* What a body tells: the set of its fields.                               *)
(***************************************************************************)

\* A sequence, whatever its members.
IsSeq(s) == s \in Seq(ToSet(s))
Pair(k, v) == [key |-> k, value |-> v]

\* A sequence over any set is one over its own members.
LEMMA OwnSeq ==
  ASSUME NEW S, NEW s \in Seq(S)
  PROVE  IsSeq(s) /\ ToSet(s) \subseteq S /\ DOMAIN s = 1 .. Len(s) /\ Len(s) \in Nat
<1>1. Len(s) \in Nat /\ s \in [1 .. Len(s) -> S]
  BY LenProperties
<1>2. s \in [1 .. Len(s) -> ToSet(s)]
  BY <1>1 DEF ToSet
<1> DEFINE T == ToSet(s)
           n == Len(s)
<1>3. n \in Nat /\ s \in [1 .. n -> T]
  BY <1>1, <1>2
<1> HIDE DEF T, n
<1>4. s \in Seq(T)
  BY <1>3, FunctionSeq
<1> QED
  BY <1>1, <1>4 DEF IsSeq, ToSet, T

\* The fields of two bodies put together are those of both.
LEMMA FieldsJoined ==
  ASSUME NEW s, NEW t, IsSeq(s), IsSeq(t)
  PROVE  IsSeq(s \o t) /\ ToSet(s \o t) = ToSet(s) \cup ToSet(t)
<1> DEFINE S == ToSet(s) \cup ToSet(t)
           c == s \o t
<1>1. s \in Seq(S) /\ t \in Seq(S)
  BY SeqMonotonic DEF IsSeq
<1>2. /\ DOMAIN s = 1 .. Len(s) /\ Len(s) \in Nat /\ DOMAIN t = 1 .. Len(t) /\ Len(t) \in Nat
  BY <1>1, LenProperties
<1>3. /\ c \in Seq(S) /\ Len(c) = Len(s) + Len(t)
      /\ \A i \in 1 .. Len(s) + Len(t) : c[i] = IF i <= Len(s) THEN s[i] ELSE t[i - Len(s)]
  BY <1>1, ConcatProperties
<1> HIDE DEF c
<1>4. IsSeq(c) /\ ToSet(c) \subseteq S /\ DOMAIN c = 1 .. Len(c)
  BY <1>3, OwnSeq
<1>5. ASSUME NEW x \in ToSet(s)
      PROVE  x \in ToSet(c)
  <2>1. PICK i \in 1 .. Len(s) : x = s[i]
    BY <1>2 DEF ToSet
  <2>2. i \in 1 .. Len(c) /\ c[i] = x
    BY <1>2, <1>3, <2>1
  <2> QED
    BY <1>4, <2>2 DEF ToSet
<1>6. ASSUME NEW x \in ToSet(t)
      PROVE  x \in ToSet(c)
  <2>1. PICK i \in 1 .. Len(t) : x = t[i]
    BY <1>2 DEF ToSet
  <2>2. i + Len(s) \in 1 .. Len(c) /\ c[i + Len(s)] = x
    BY <1>2, <1>3, <2>1, SMTT(30)
  <2> QED
    BY <1>4, <2>2 DEF ToSet
<1> QED
  BY <1>4, <1>5, <1>6 DEF c, S

\* One field.
LEMMA FieldAt ==
  ASSUME NEW k, NEW v
  PROVE  IsSeq(At(k, v)) /\ ToSet(At(k, v)) = {Pair(k, v)}
<1>1. At(k, v) = <<Pair(k, v)>>
  BY DEF At, Pair
<1> DEFINE p == Pair(k, v)
<1> HIDE DEF p
<1>2. <<p>> \in Seq({p}) /\ ToSet(<<p>>) = {p}
  BY DEF ToSet
<1>3. IsSeq(<<p>>)
  BY <1>2, OwnSeq
<1> QED
  BY <1>1, <1>2, <1>3 DEF p

\* A field the code writes under a condition.
LEMMA FieldIf ==
  ASSUME NEW s, IsSeq(s), NEW c
  PROVE  /\ IsSeq(If(c, s))
         /\ c => ToSet(If(c, s)) = ToSet(s)
         /\ ~ c => ToSet(If(c, s)) = {}
<1>1. IsSeq(<<>>) /\ ToSet(<<>>) = {}
  BY DEF IsSeq, ToSet
<1>2. CASE c
  <2>1. If(c, s) = s
    BY <1>2, Zenon DEF If
  <2> QED
    BY <1>2, <2>1, Zenon
<1>3. CASE ~ c
  <2>1. If(c, s) = <<>>
    BY <1>3, Zenon DEF If
  <2> QED
    BY <1>1, <1>3, <2>1, Zenon
<1> QED
  BY <1>2, <1>3, Zenon

\* The fields of an object, and of one with a type.
LEMMA FieldsObj ==
  ASSUME NEW s
  PROVE  Obj(s)[2] = s /\ ToSet(Obj(s)[2]) = ToSet(s)
BY DEF Obj

\* The fields of a body with a type field.
LEMMA FieldsTyped ==
  ASSUME NEW type, NEW s, IsSeq(s)
  PROVE  ToSet(Typed(type, s)[2]) = {Pair("type", JStr(type))} \cup ToSet(s)
<1>1. IsSeq(At("type", JStr(type))) /\ ToSet(At("type", JStr(type))) = {Pair("type", JStr(type))}
  BY FieldAt, Zenon
<1> QED
  BY <1>1, FieldsJoined, FieldsObj, Zenon DEF Typed

\* Two equal fields have one key and one value.
LEMMA PairSame ==
  ASSUME NEW k, NEW v, NEW l, NEW w
  PROVE  Pair(k, v) = Pair(l, w) <=> k = l /\ v = w
BY DEF Pair

\* Two equal values hold the same.
LEMMA ScalarSame ==
  ASSUME NEW a, NEW b
  PROVE  /\ JStr(a) = JStr(b) <=> a = b
         /\ JNum(a) = JNum(b) <=> a = b
         /\ JStr(a) # JNum(b)
BY DEF JStr, JNum

\* The two options of an order book.
LEMMA BookFields ==
  ASSUME NEW q \in Asks
  PROVE  /\ IsSeq(L2BookParams(q))
         /\ q.nSigFigs = 0 => ToSet(L2BookParams(q)) = {}
         /\ q.nSigFigs # 0 /\ q.mantissa = 0 =>
              ToSet(L2BookParams(q)) = {Pair("nSigFigs", JNum(q.nSigFigs))}
         /\ q.nSigFigs # 0 /\ q.mantissa # 0 =>
              ToSet(L2BookParams(q)) = {Pair("nSigFigs", JNum(q.nSigFigs)),
                                        Pair("mantissa", JNum(q.mantissa))}
<1> DEFINE n == At("nSigFigs", JNum(q.nSigFigs))
           m == At("mantissa", JNum(q.mantissa))
           ifm == If(q.mantissa # 0, m)
<1>1. /\ IsSeq(n) /\ ToSet(n) = {Pair("nSigFigs", JNum(q.nSigFigs))}
      /\ IsSeq(m) /\ ToSet(m) = {Pair("mantissa", JNum(q.mantissa))}
  BY FieldAt, Zenon
<1>2. IsSeq(ifm) /\ (q.mantissa # 0 => ToSet(ifm) = ToSet(m))
      /\ (q.mantissa = 0 => ToSet(ifm) = {})
  BY <1>1, FieldIf, Zenon
<1>3. L2BookParams(q) = If(q.nSigFigs # 0, n \o ifm)
  BY Zenon DEF L2BookParams
<1> HIDE DEF n, m, ifm
<1>4. IsSeq(n \o ifm) /\ ToSet(n \o ifm) = ToSet(n) \cup ToSet(ifm)
  BY <1>1, <1>2, FieldsJoined
<1>5. /\ IsSeq(L2BookParams(q))
      /\ q.nSigFigs # 0 => ToSet(L2BookParams(q)) = ToSet(n \o ifm)
      /\ q.nSigFigs = 0 => ToSet(L2BookParams(q)) = {}
  BY <1>3, <1>4, FieldIf, Zenon
<1> QED
  BY <1>1, <1>2, <1>4, <1>5

\* The option of the user fills.
LEMMA AggregatedFields ==
  ASSUME NEW q
  PROVE  /\ IsSeq(Aggregated(q))
         /\ q.flag => ToSet(Aggregated(q)) = {Pair("aggregateByTime", JFlag(TRUE))}
         /\ ~ q.flag => ToSet(Aggregated(q)) = {}
<1>1. IsSeq(At("aggregateByTime", JFlag(TRUE)))
      /\ ToSet(At("aggregateByTime", JFlag(TRUE))) = {Pair("aggregateByTime", JFlag(TRUE))}
  BY FieldAt, Zenon
<1> QED
  BY <1>1, FieldIf, Zenon DEF Aggregated

\* The bodies with two and three fields.
LEMMA ShortBodies ==
  ASSUME NEW type, NEW user
  PROVE  /\ ToSet(dexBody(type)[2]) = {Pair("type", JStr(type)), Pair("dex", JStr(Dex))}
         /\ ToSet(userBody(type, user)[2]) =
              {Pair("type", JStr(type)), Pair("user", JStr(user))}
         /\ ToSet(coinPayload(type, user)[2]) =
              {Pair("type", JStr(type)), Pair("coin", JStr(user))}
         /\ ToSet(userDexBody(type, user)[2]) =
              {Pair("type", JStr(type)), Pair("user", JStr(user)), Pair("dex", JStr(Dex))}
<1> DEFINE dex == At("dex", JStr(Dex))
           usr == At("user", JStr(user))
           coin == At("coin", JStr(user))
<1>1. /\ IsSeq(dex) /\ ToSet(dex) = {Pair("dex", JStr(Dex))}
      /\ IsSeq(usr) /\ ToSet(usr) = {Pair("user", JStr(user))}
      /\ IsSeq(coin) /\ ToSet(coin) = {Pair("coin", JStr(user))}
  BY FieldAt, Zenon
<1>2. /\ dexBody(type) = Typed(type, dex) /\ userBody(type, user) = Typed(type, usr)
      /\ coinPayload(type, user) = Typed(type, coin)
      /\ userDexBody(type, user) = Typed(type, usr \o dex)
  BY Zenon DEF dexBody, userBody, coinPayload, userDexBody
<1> HIDE DEF dex, usr, coin
<1>3. IsSeq(usr \o dex) /\ ToSet(usr \o dex) = ToSet(usr) \cup ToSet(dex)
  BY <1>1, FieldsJoined
<1>4. /\ ToSet(dexBody(type)[2]) = {Pair("type", JStr(type))} \cup ToSet(dex)
      /\ ToSet(userBody(type, user)[2]) = {Pair("type", JStr(type))} \cup ToSet(usr)
      /\ ToSet(coinPayload(type, user)[2]) = {Pair("type", JStr(type))} \cup ToSet(coin)
      /\ ToSet(userDexBody(type, user)[2]) = {Pair("type", JStr(type))} \cup ToSet(usr \o dex)
  BY <1>1, <1>2, <1>3, FieldsTyped
<1> QED
  BY <1>1, <1>3, <1>4

\* The req object of candleSnapshot.
ReqOf(q) == At("coin", JStr(q.coin)) \o At("interval", JStr(q.interval))
            \o At("startTime", JNum(q.start)) \o At("endTime", JNum(q.end))

\* The fields of the req object are its four arguments.
LEMMA ReqFields ==
  ASSUME NEW q
  PROVE  ToSet(ReqOf(q)) = {Pair("coin", JStr(q.coin)), Pair("interval", JStr(q.interval)),
                            Pair("startTime", JNum(q.start)), Pair("endTime", JNum(q.end))}
<1> DEFINE c == At("coin", JStr(q.coin))
           i == At("interval", JStr(q.interval))
           s == At("startTime", JNum(q.start))
           e == At("endTime", JNum(q.end))
<1>1. /\ IsSeq(c) /\ ToSet(c) = {Pair("coin", JStr(q.coin))}
      /\ IsSeq(i) /\ ToSet(i) = {Pair("interval", JStr(q.interval))}
      /\ IsSeq(s) /\ ToSet(s) = {Pair("startTime", JNum(q.start))}
      /\ IsSeq(e) /\ ToSet(e) = {Pair("endTime", JNum(q.end))}
  BY FieldAt, Zenon
<1>2. ReqOf(q) = ((c \o i) \o s) \o e
  BY Zenon DEF ReqOf
<1> HIDE DEF c, i, s, e
<1>3. IsSeq(c \o i) /\ ToSet(c \o i) = ToSet(c) \cup ToSet(i)
  BY <1>1, FieldsJoined
<1>4. IsSeq((c \o i) \o s) /\ ToSet((c \o i) \o s) = ToSet(c \o i) \cup ToSet(s)
  BY <1>1, <1>3, FieldsJoined
<1>5. ToSet(((c \o i) \o s) \o e) = ToSet((c \o i) \o s) \cup ToSet(e)
  BY <1>1, <1>4, FieldsJoined
<1> QED
  BY <1>1, <1>2, <1>3, <1>4, <1>5

(***************************************************************************)
(* The fields of the body of an accepted ask.                              *)
(***************************************************************************)

\* The type field of the body of an ask, by its function.
TypeOf(op) ==
  CASE op \in {"getOrderBook", "watchOrderbook"} -> "l2Book"
    [] op = "getMids" -> "allMids"
    [] op = "getCandles" -> "candleSnapshot"
    [] op = "getAssetContexts" -> "metaAndAssetCtxs"
    [] op = "loadAssets" -> "meta"
    [] op = "getOpenOrders" -> "frontendOpenOrders"
    [] op = "getOrderStatus" -> "orderStatus"
    [] op \in {"getAccountState", "watchAccountState"} -> "clearinghouseState"
    [] op \in {"getUserFills", "watchUserFills"} -> "userFills"
    [] op = "getUserFillsByTime" -> "userFillsByTime"
    [] op = "getUserRateLimit" -> "userRateLimit"
    [] op = "getUserRole" -> "userRole"
    [] op = "watchBBO" -> "bbo"
    [] op = "watchTrades" -> "trades"
    [] op = "watchCandles" -> "candle"
    [] op = "watchAssetCtx" -> "activeAssetCtx"
    [] op = "watchOrderUpdates" -> "orderUpdates"

\* The functions with a dex, a coin and a user.
WithDex == {"getMids", "getAssetContexts", "loadAssets", "getOpenOrders", "getAccountState",
            "watchAccountState"}
WithCoin == {"getOrderBook", "watchOrderbook", "watchBBO", "watchTrades", "watchAssetCtx",
             "watchCandles"}
WithUser == {"getOpenOrders", "getOrderStatus", "getAccountState", "getUserFills",
             "getUserFillsByTime", "getUserRateLimit", "getUserRole",
             "watchOrderUpdates", "watchUserFills", "watchAccountState"}
Yes == JFlag(TRUE)

\* Whether the body of ask q has the field k with the value v.
Tells(q, k, v) ==
  \/ k = "type" /\ v = JStr(TypeOf(q.op))
  \/ k = "dex" /\ q.op \in WithDex /\ v = JStr(Dex)
  \/ k = "coin" /\ q.op \in WithCoin /\ v = JStr(q.coin)
  \/ k = "user" /\ q.op \in WithUser /\ v = JStr(q.user)
  \/ k = "interval" /\ q.op = "watchCandles" /\ v = JStr(q.interval)
  \/ k = "req" /\ q.op = "getCandles" /\ v = Obj(ReqOf(q))
  \/ /\ k = "nSigFigs" /\ q.op \in {"getOrderBook", "watchOrderbook"}
     /\ q.nSigFigs # 0 /\ v = JNum(q.nSigFigs)
  \/ /\ k = "mantissa" /\ q.op \in {"getOrderBook", "watchOrderbook"}
     /\ q.mantissa # 0 /\ v = JNum(q.mantissa)
  \/ k = "fast" /\ q.op = "watchOrderbook" /\ q.flag /\ v = Yes
  \/ /\ k = "aggregateByTime" /\ q.op \in {"getUserFills", "getUserFillsByTime", "watchUserFills"}
     /\ q.flag /\ v = Yes
  \/ k = "startTime" /\ q.op = "getUserFillsByTime" /\ v = JNum(q.start)
  \/ k = "endTime" /\ q.op = "getUserFillsByTime" /\ q.end # 0 /\ v = JNum(q.end)
  \/ k = "oid" /\ q.op = "getOrderStatus" /\ IsSet(q.cloid) /\ v = JStr(q.cloid)
  \/ k = "oid" /\ q.op = "getOrderStatus" /\ ~ IsSet(q.cloid) /\ v = JNum(q.oid)

\* The body of an accepted ask has the fields it tells, and no other.
LEMMA BodyTells ==
  ASSUME NEW q \in Asks, Asked(q).ok, NEW k, NEW v
  PROVE  Pair(k, v) \in ToSet(Asked(q).body[2]) <=> Tells(q, k, v)
<1> DEFINE F == ToSet(Asked(q).body[2])
           coin == At("coin", JStr(q.coin))
           user == At("user", JStr(q.user))
<1>1. /\ IsSeq(coin) /\ ToSet(coin) = {Pair("coin", JStr(q.coin))}
      /\ IsSeq(user) /\ ToSet(user) = {Pair("user", JStr(q.user))}
  BY FieldAt, Zenon
<1>2. CASE q.op = "getMids"
  <2>1. Asked(q).body = dexBody("allMids")
    BY <1>2, SentOf, Zenon
  <2>2. F = {Pair("type", JStr("allMids")), Pair("dex", JStr(Dex))}
    BY <2>1, ShortBodies
  <2> QED
    BY <1>2, <2>2, PairSame DEF Tells, TypeOf, WithDex, WithCoin, WithUser
<1>3. CASE q.op = "getAssetContexts"
  <2>1. Asked(q).body = dexBody("metaAndAssetCtxs")
    BY <1>3, SentOf, Zenon
  <2>2. F = {Pair("type", JStr("metaAndAssetCtxs")), Pair("dex", JStr(Dex))}
    BY <2>1, ShortBodies
  <2> QED
    BY <1>3, <2>2, PairSame DEF Tells, TypeOf, WithDex, WithCoin, WithUser
<1>4. CASE q.op = "loadAssets"
  <2>1. Asked(q).body = dexBody("meta")
    BY <1>4, SentOf, Zenon
  <2>2. F = {Pair("type", JStr("meta")), Pair("dex", JStr(Dex))}
    BY <2>1, ShortBodies
  <2> QED
    BY <1>4, <2>2, PairSame DEF Tells, TypeOf, WithDex, WithCoin, WithUser
<1>5. CASE q.op = "getOpenOrders"
  <2>1. Asked(q).body = userDexBody("frontendOpenOrders", q.user)
    BY <1>5, SentOf, Zenon
  <2>2. F = {Pair("type", JStr("frontendOpenOrders")), Pair("user", JStr(q.user)), Pair("dex", JStr(Dex))}
    BY <2>1, ShortBodies
  <2> QED
    BY <1>5, <2>2, PairSame DEF Tells, TypeOf, WithDex, WithCoin, WithUser
<1>6. CASE q.op = "getAccountState"
  <2>1. Asked(q).body = userDexBody("clearinghouseState", q.user)
    BY <1>6, SentOf, Zenon
  <2>2. F = {Pair("type", JStr("clearinghouseState")), Pair("user", JStr(q.user)), Pair("dex", JStr(Dex))}
    BY <2>1, ShortBodies
  <2> QED
    BY <1>6, <2>2, PairSame DEF Tells, TypeOf, WithDex, WithCoin, WithUser
<1>7. CASE q.op = "getUserRateLimit"
  <2>1. Asked(q).body = userBody("userRateLimit", q.user)
    BY <1>7, SentOf, Zenon
  <2>2. F = {Pair("type", JStr("userRateLimit")), Pair("user", JStr(q.user))}
    BY <2>1, ShortBodies
  <2> QED
    BY <1>7, <2>2, PairSame DEF Tells, TypeOf, WithDex, WithCoin, WithUser
<1>8. CASE q.op = "getUserRole"
  <2>1. Asked(q).body = userBody("userRole", q.user)
    BY <1>8, SentOf, Zenon
  <2>2. F = {Pair("type", JStr("userRole")), Pair("user", JStr(q.user))}
    BY <2>1, ShortBodies
  <2> QED
    BY <1>8, <2>2, PairSame DEF Tells, TypeOf, WithDex, WithCoin, WithUser
<1>9. CASE q.op = "watchBBO"
  <2>1. Asked(q).body = coinPayload("bbo", q.coin)
    BY <1>9, SentOf, Zenon
  <2>2. F = {Pair("type", JStr("bbo")), Pair("coin", JStr(q.coin))}
    BY <2>1, ShortBodies
  <2> QED
    BY <1>9, <2>2, PairSame DEF Tells, TypeOf, WithDex, WithCoin, WithUser
<1>10. CASE q.op = "watchTrades"
  <2>1. Asked(q).body = coinPayload("trades", q.coin)
    BY <1>10, SentOf, Zenon
  <2>2. F = {Pair("type", JStr("trades")), Pair("coin", JStr(q.coin))}
    BY <2>1, ShortBodies
  <2> QED
    BY <1>10, <2>2, PairSame DEF Tells, TypeOf, WithDex, WithCoin, WithUser
<1>11. CASE q.op = "watchAssetCtx"
  <2>1. Asked(q).body = coinPayload("activeAssetCtx", q.coin)
    BY <1>11, SentOf, Zenon
  <2>2. F = {Pair("type", JStr("activeAssetCtx")), Pair("coin", JStr(q.coin))}
    BY <2>1, ShortBodies
  <2> QED
    BY <1>11, <2>2, PairSame DEF Tells, TypeOf, WithDex, WithCoin, WithUser
<1>12. CASE q.op = "watchOrderUpdates"
  <2>1. Asked(q).body = userBody("orderUpdates", q.user)
    BY <1>12, SentOf, Zenon
  <2>2. F = {Pair("type", JStr("orderUpdates")), Pair("user", JStr(q.user))}
    BY <2>1, ShortBodies
  <2> QED
    BY <1>12, <2>2, PairSame DEF Tells, TypeOf, WithDex, WithCoin, WithUser
<1>13. CASE q.op = "watchAccountState"
  <2>1. Asked(q).body = userDexBody("clearinghouseState", q.user)
    BY <1>13, SentOf, Zenon
  <2>2. F = {Pair("type", JStr("clearinghouseState")), Pair("user", JStr(q.user)), Pair("dex", JStr(Dex))}
    BY <2>1, ShortBodies
  <2> QED
    BY <1>13, <2>2, PairSame DEF Tells, TypeOf, WithDex, WithCoin, WithUser
<1>14. CASE q.op = "getOrderBook"
  <2>1. Asked(q).body = Typed("l2Book", coin \o L2BookParams(q))
        /\ validateL2BookOptions(q)
    BY <1>14, SentOf, Zenon
  <2> HIDE DEF coin
  <2>2. /\ IsSeq(coin \o L2BookParams(q))
        /\ ToSet(coin \o L2BookParams(q)) = ToSet(coin) \cup ToSet(L2BookParams(q))
    BY <1>1, BookFields, FieldsJoined
  <2>3. F = {Pair("type", JStr("l2Book"))} \cup (ToSet(coin) \cup ToSet(L2BookParams(q)))
    BY <2>1, <2>2, FieldsTyped
  <2>4. q.mantissa # 0 => q.nSigFigs # 0
    BY <2>1 DEF validateL2BookOptions
  <2> QED
    BY <1>14, <1>1, <2>3, <2>4, BookFields, PairSame DEF Tells, TypeOf, WithDex, WithCoin, WithUser
<1>15. CASE q.op = "watchOrderbook"
  <2> DEFINE fast == At("fast", JFlag(TRUE))
             iff == If(q.flag, fast)
  <2>1. Asked(q).body = Typed("l2Book", (coin \o L2BookParams(q)) \o iff)
        /\ validateL2BookOptions(q)
    BY <1>15, SentOf, Zenon
  <2>2. IsSeq(fast) /\ ToSet(fast) = {Pair("fast", Yes)}
    BY FieldAt, Zenon DEF Yes
  <2>3. IsSeq(iff) /\ (q.flag => ToSet(iff) = ToSet(fast)) /\ (~ q.flag => ToSet(iff) = {})
    BY <2>2, FieldIf, Zenon
  <2> HIDE DEF coin, fast, iff
  <2>4. /\ IsSeq(coin \o L2BookParams(q))
        /\ ToSet(coin \o L2BookParams(q)) = ToSet(coin) \cup ToSet(L2BookParams(q))
    BY <1>1, BookFields, FieldsJoined
  <2>5. /\ IsSeq((coin \o L2BookParams(q)) \o iff)
        /\ ToSet((coin \o L2BookParams(q)) \o iff) =
             (ToSet(coin) \cup ToSet(L2BookParams(q))) \cup ToSet(iff)
    BY <2>3, <2>4, FieldsJoined
  <2>6. F = {Pair("type", JStr("l2Book"))}
            \cup ((ToSet(coin) \cup ToSet(L2BookParams(q))) \cup ToSet(iff))
    BY <2>1, <2>5, FieldsTyped
  <2>7. q.mantissa # 0 => q.nSigFigs # 0
    BY <2>1 DEF validateL2BookOptions
  <2> QED
    BY <1>15, <1>1, <2>2, <2>3, <2>6, <2>7, BookFields, PairSame DEF Tells, TypeOf, WithDex, WithCoin, WithUser
<1>16. CASE q.op = "getCandles"
  <2> DEFINE req == At("req", Obj(ReqOf(q)))
  <2>1. Asked(q).body = Typed("candleSnapshot", req)
    BY <1>16, SentOf, Zenon DEF ReqOf
  <2>2. IsSeq(req) /\ ToSet(req) = {Pair("req", Obj(ReqOf(q)))}
    BY FieldAt, Zenon
  <2> HIDE DEF req
  <2>3. F = {Pair("type", JStr("candleSnapshot"))} \cup ToSet(req)
    BY <2>1, <2>2, FieldsTyped
  <2> QED
    BY <1>16, <2>2, <2>3, PairSame DEF Tells, TypeOf, WithDex, WithCoin, WithUser
<1>17. CASE q.op = "watchCandles"
  <2> DEFINE interval == At("interval", JStr(q.interval))
  <2>1. Asked(q).body = Typed("candle", coin \o interval)
    BY <1>17, SentOf, Zenon
  <2>2. IsSeq(interval) /\ ToSet(interval) = {Pair("interval", JStr(q.interval))}
    BY FieldAt, Zenon
  <2> HIDE DEF coin, interval
  <2>3. IsSeq(coin \o interval) /\ ToSet(coin \o interval) = ToSet(coin) \cup ToSet(interval)
    BY <1>1, <2>2, FieldsJoined
  <2>4. F = {Pair("type", JStr("candle"))} \cup (ToSet(coin) \cup ToSet(interval))
    BY <2>1, <2>3, FieldsTyped
  <2> QED
    BY <1>17, <1>1, <2>2, <2>4, PairSame DEF Tells, TypeOf, WithDex, WithCoin, WithUser
<1>18. CASE q.op = "getOrderStatus"
  <2> DEFINE ref == IF IsSet(q.cloid) THEN JStr(q.cloid) ELSE JNum(q.oid)
             oid == At("oid", ref)
  <2>1. Asked(q).body = Typed("orderStatus", user \o oid)
    BY <1>18, SentOf, Zenon
  <2>2. IsSeq(oid) /\ ToSet(oid) = {Pair("oid", ref)}
    BY FieldAt, Zenon
  <2>3. (IsSet(q.cloid) => ref = JStr(q.cloid)) /\ (~ IsSet(q.cloid) => ref = JNum(q.oid))
    BY Zenon
  <2> HIDE DEF user, ref, oid
  <2>4. IsSeq(user \o oid) /\ ToSet(user \o oid) = ToSet(user) \cup ToSet(oid)
    BY <1>1, <2>2, FieldsJoined
  <2>5. F = {Pair("type", JStr("orderStatus"))} \cup (ToSet(user) \cup ToSet(oid))
    BY <2>1, <2>4, FieldsTyped
  <2> QED
    BY <1>18, <1>1, <2>2, <2>3, <2>5, PairSame DEF Tells, TypeOf, WithDex, WithCoin, WithUser
<1>19. CASE q.op = "getUserFills"
  <2>1. Asked(q).body = Typed("userFills", user \o Aggregated(q))
    BY <1>19, SentOf, Zenon
  <2>2. /\ IsSeq(Aggregated(q)) /\ (~ q.flag => ToSet(Aggregated(q)) = {})
        /\ (q.flag => ToSet(Aggregated(q)) = {Pair("aggregateByTime", Yes)})
    BY AggregatedFields, Zenon DEF Yes
  <2> HIDE DEF user
  <2>3. /\ IsSeq(user \o Aggregated(q))
        /\ ToSet(user \o Aggregated(q)) = ToSet(user) \cup ToSet(Aggregated(q))
    BY <1>1, <2>2, FieldsJoined
  <2>4. F = {Pair("type", JStr("userFills"))} \cup (ToSet(user) \cup ToSet(Aggregated(q)))
    BY <2>1, <2>3, FieldsTyped
  <2> QED
    BY <1>19, <1>1, <2>2, <2>4, PairSame DEF Tells, TypeOf, WithDex, WithCoin, WithUser
<1>20. CASE q.op = "watchUserFills"
  <2>1. Asked(q).body = Typed("userFills", user \o Aggregated(q))
    BY <1>20, SentOf, Zenon
  <2>2. /\ IsSeq(Aggregated(q)) /\ (~ q.flag => ToSet(Aggregated(q)) = {})
        /\ (q.flag => ToSet(Aggregated(q)) = {Pair("aggregateByTime", Yes)})
    BY AggregatedFields, Zenon DEF Yes
  <2> HIDE DEF user
  <2>3. /\ IsSeq(user \o Aggregated(q))
        /\ ToSet(user \o Aggregated(q)) = ToSet(user) \cup ToSet(Aggregated(q))
    BY <1>1, <2>2, FieldsJoined
  <2>4. F = {Pair("type", JStr("userFills"))} \cup (ToSet(user) \cup ToSet(Aggregated(q)))
    BY <2>1, <2>3, FieldsTyped
  <2> QED
    BY <1>20, <1>1, <2>2, <2>4, PairSame DEF Tells, TypeOf, WithDex, WithCoin, WithUser
<1>21. CASE q.op = "getUserFillsByTime"
  <2> DEFINE start == At("startTime", JNum(q.start))
             end == At("endTime", JNum(q.end))
             ifend == If(q.end # 0, end)
  <2>1. Asked(q).body = Typed("userFillsByTime", ((user \o start) \o ifend) \o Aggregated(q))
    BY <1>21, SentOf, Zenon
  <2>2. /\ IsSeq(start) /\ ToSet(start) = {Pair("startTime", JNum(q.start))}
        /\ IsSeq(end) /\ ToSet(end) = {Pair("endTime", JNum(q.end))}
    BY FieldAt, Zenon
  <2>3. IsSeq(ifend) /\ (q.end # 0 => ToSet(ifend) = ToSet(end)) /\ (q.end = 0 => ToSet(ifend) = {})
    BY <2>2, FieldIf, Zenon
  <2>4. /\ IsSeq(Aggregated(q)) /\ (~ q.flag => ToSet(Aggregated(q)) = {})
        /\ (q.flag => ToSet(Aggregated(q)) = {Pair("aggregateByTime", Yes)})
    BY AggregatedFields, Zenon DEF Yes
  <2> HIDE DEF user, start, end, ifend
  <2>5. IsSeq(user \o start) /\ ToSet(user \o start) = ToSet(user) \cup ToSet(start)
    BY <1>1, <2>2, FieldsJoined
  <2>6. /\ IsSeq((user \o start) \o ifend)
        /\ ToSet((user \o start) \o ifend) = (ToSet(user) \cup ToSet(start)) \cup ToSet(ifend)
    BY <2>3, <2>5, FieldsJoined
  <2>7. /\ IsSeq(((user \o start) \o ifend) \o Aggregated(q))
        /\ ToSet(((user \o start) \o ifend) \o Aggregated(q)) =
             ((ToSet(user) \cup ToSet(start)) \cup ToSet(ifend)) \cup ToSet(Aggregated(q))
    BY <2>4, <2>6, FieldsJoined
  <2>8. F = {Pair("type", JStr("userFillsByTime"))}
            \cup (((ToSet(user) \cup ToSet(start)) \cup ToSet(ifend)) \cup ToSet(Aggregated(q)))
    BY <2>1, <2>7, FieldsTyped
  <2> QED
    BY <1>21, <1>1, <2>2, <2>3, <2>4, <2>8, PairSame DEF Tells, TypeOf, WithDex, WithCoin, WithUser
<1> QED
  BY <1>2, <1>3, <1>4, <1>5, <1>6, <1>7, <1>8, <1>9, <1>10, <1>11, <1>12, <1>13, <1>14, <1>15, <1>16, <1>17, <1>18, <1>19, <1>20, <1>21, AsksAssumption DEF Fetches, Watches, MarketFetches

\* Two accepted asks of one side with the same body ask for the same thing.
LEMMA BodyMeans ==
  ASSUME NEW a \in Asks, Asked(a).ok, NEW b \in Asks, Asked(b).ok,
         SameSide(a, b), Asked(a).body = Asked(b).body
  PROVE  Meaning(b) = Meaning(a)
<1>1. \A k, v : Tells(a, k, v) <=> Tells(b, k, v)
  <2> TAKE k, v
  <2>1. Pair(k, v) \in ToSet(Asked(a).body[2]) <=> Tells(a, k, v)
    BY BodyTells, Zenon
  <2>2. Pair(k, v) \in ToSet(Asked(b).body[2]) <=> Tells(b, k, v)
    BY BodyTells, Zenon
  <2> QED
    BY <2>1, <2>2, Zenon
<1>2. a.op \in Fetches \cup Watches /\ b.op \in Fetches \cup Watches
  BY AsksAssumption
<1>3. a.op = b.op
  <2>1. Tells(a, "type", JStr(TypeOf(a.op)))
    BY Zenon DEF Tells
  <2>2. Tells(b, "type", JStr(TypeOf(a.op)))
    BY <1>1, <2>1, Zenon
  <2>3. TypeOf(a.op) = TypeOf(b.op)
    BY <2>2, ScalarSame DEF Tells
  <2>4. (a.op \in Watches) <=> (b.op \in Watches)
    BY Zenon DEF SameSide
  <2>5. CASE a.op \in Watches
    BY <2>3, <2>4, <2>5 DEF TypeOf, Watches
  <2>6. CASE a.op \notin Watches
    BY <1>2, <2>3, <2>4, <2>6 DEF TypeOf, Fetches, MarketFetches
  <2> QED
    BY <2>5, <2>6
<1>4. ASSUME a.op = "getCandles"
      PROVE  a.coin = b.coin /\ a.interval = b.interval /\ a.start = b.start /\ a.end = b.end
  <2>1. Tells(a, "req", Obj(ReqOf(a)))
    BY <1>4, Zenon DEF Tells
  <2>2. Tells(b, "req", Obj(ReqOf(a)))
    BY <1>1, <2>1, Zenon
  <2>3. Obj(ReqOf(a)) = Obj(ReqOf(b))
    BY <2>2 DEF Tells
  <2>4. ToSet(ReqOf(a)) = ToSet(ReqOf(b))
    BY <2>3, FieldsObj
  <2> DEFINE A == {Pair("coin", JStr(a.coin)), Pair("interval", JStr(a.interval)),
                   Pair("startTime", JNum(a.start)), Pair("endTime", JNum(a.end))}
             B == {Pair("coin", JStr(b.coin)), Pair("interval", JStr(b.interval)),
                   Pair("startTime", JNum(b.start)), Pair("endTime", JNum(b.end))}
  <2>5. A = B
    BY <2>4, ReqFields
  <2>6. /\ Pair("coin", JStr(a.coin)) \in A /\ Pair("interval", JStr(a.interval)) \in A
        /\ Pair("startTime", JNum(a.start)) \in A /\ Pair("endTime", JNum(a.end)) \in A
    BY Zenon
  <2> HIDE DEF A
  <2>7. JStr(a.coin) = JStr(b.coin)
    BY <2>5, <2>6, PairSame
  <2>8. JStr(a.interval) = JStr(b.interval)
    BY <2>5, <2>6, PairSame
  <2>9. JNum(a.start) = JNum(b.start) /\ JNum(a.end) = JNum(b.end)
    BY <2>5, <2>6, PairSame
  <2> QED
    BY <2>7, <2>8, <2>9, ScalarSame
<1>5. a.coin = b.coin
  <2>1. CASE a.op \in WithCoin
    <3>1. Tells(a, "coin", JStr(a.coin))
      BY <2>1, Zenon DEF Tells
    <3>2. Tells(b, "coin", JStr(a.coin))
      BY <1>1, <3>1, Zenon
    <3> QED
      BY <3>2, ScalarSame DEF Tells
  <2>2. CASE a.op \notin WithCoin /\ a.op # "getCandles"
    <3>1. "coin" \in DOMAIN TakenBy /\ a.op \notin TakenBy["coin"]
      BY <2>2 DEF WithCoin, TakenBy, CoinOps
    <3> QED
      BY <1>3, <3>1, Agree
  <2> QED
    BY <1>4, <2>1, <2>2
<1>6. a.user = b.user
  <2>1. CASE a.op \in WithUser
    <3>1. Tells(a, "user", JStr(a.user))
      BY <2>1, Zenon DEF Tells
    <3>2. Tells(b, "user", JStr(a.user))
      BY <1>1, <3>1, Zenon
    <3> QED
      BY <3>2, ScalarSame DEF Tells
  <2>2. CASE a.op \notin WithUser
    <3>1. "user" \in DOMAIN TakenBy /\ a.op \notin TakenBy["user"]
      BY <2>2 DEF WithUser, TakenBy
    <3> QED
      BY <1>3, <3>1, Agree
  <2> QED
    BY <2>1, <2>2
<1>7. a.interval = b.interval
  <2>1. CASE a.op = "watchCandles"
    <3>1. Tells(a, "interval", JStr(a.interval))
      BY <2>1, Zenon DEF Tells
    <3>2. Tells(b, "interval", JStr(a.interval))
      BY <1>1, <3>1, Zenon
    <3> QED
      BY <3>2, ScalarSame DEF Tells
  <2>2. CASE a.op # "watchCandles" /\ a.op # "getCandles"
    <3>1. "interval" \in DOMAIN TakenBy /\ a.op \notin TakenBy["interval"]
      BY <2>2 DEF TakenBy
    <3> QED
      BY <1>3, <3>1, Agree
  <2> QED
    BY <1>4, <2>1, <2>2
<1>8. a.start = b.start
  <2>1. CASE a.op = "getUserFillsByTime"
    <3>1. Tells(a, "startTime", JNum(a.start))
      BY <2>1, Zenon DEF Tells
    <3>2. Tells(b, "startTime", JNum(a.start))
      BY <1>1, <3>1, Zenon
    <3> QED
      BY <3>2, ScalarSame DEF Tells
  <2>2. CASE a.op # "getUserFillsByTime" /\ a.op # "getCandles"
    <3>1. "start" \in DOMAIN TakenBy /\ a.op \notin TakenBy["start"]
      BY <2>2 DEF TakenBy
    <3> QED
      BY <1>3, <3>1, Agree
  <2> QED
    BY <1>4, <2>1, <2>2
<1>9. a.end = b.end
  <2>1. CASE a.op = "getUserFillsByTime"
    <3>1. a.end # 0 => Tells(b, "endTime", JNum(a.end))
      BY <1>1, <2>1, Zenon DEF Tells
    <3>2. b.end # 0 => Tells(a, "endTime", JNum(b.end))
      BY <1>1, <1>3, <2>1, ZenonT(40) DEF Tells
    <3> QED
      BY <3>1, <3>2, ScalarSame DEF Tells
  <2>2. CASE a.op # "getUserFillsByTime" /\ a.op # "getCandles"
    <3>1. "end" \in DOMAIN TakenBy /\ a.op \notin TakenBy["end"]
      BY <2>2 DEF TakenBy
    <3> QED
      BY <1>3, <3>1, Agree
  <2> QED
    BY <1>4, <2>1, <2>2
<1>10. a.nSigFigs = b.nSigFigs /\ a.mantissa = b.mantissa
  <2>1. CASE a.op \in {"getOrderBook", "watchOrderbook"}
    <3>1. /\ a.nSigFigs # 0 => Tells(b, "nSigFigs", JNum(a.nSigFigs))
          /\ a.mantissa # 0 => Tells(b, "mantissa", JNum(a.mantissa))
      BY <1>1, <2>1, ZenonT(40) DEF Tells
    <3>2. /\ b.nSigFigs # 0 => Tells(a, "nSigFigs", JNum(b.nSigFigs))
          /\ b.mantissa # 0 => Tells(a, "mantissa", JNum(b.mantissa))
      BY <1>1, <1>3, <2>1, ZenonT(40) DEF Tells
    <3> QED
      BY <3>1, <3>2, ScalarSame DEF Tells
  <2>2. CASE a.op \notin {"getOrderBook", "watchOrderbook"}
    <3>1. "nSigFigs" \in DOMAIN TakenBy /\ a.op \notin TakenBy["nSigFigs"]
          /\ "mantissa" \in DOMAIN TakenBy /\ a.op \notin TakenBy["mantissa"]
      BY <2>2 DEF TakenBy
    <3> QED
      BY <1>3, <3>1, Agree
  <2> QED
    BY <2>1, <2>2
<1>11. a.flag = b.flag
  <2>1. a.flag \in BOOLEAN /\ b.flag \in BOOLEAN
    BY AsksAssumption
  <2>2. CASE a.op = "watchOrderbook"
    <3>1. a.flag => Tells(b, "fast", Yes)
      BY <1>1, <2>2, Zenon DEF Tells
    <3>2. b.flag => Tells(a, "fast", Yes)
      BY <1>1, <1>3, <2>2, Zenon DEF Tells
    <3>3. a.flag <=> b.flag
      BY <3>1, <3>2 DEF Tells
    <3> QED
      BY <2>1, <3>3
  <2>3. CASE a.op \in {"getUserFills", "getUserFillsByTime", "watchUserFills"}
    <3>1. a.flag => Tells(b, "aggregateByTime", Yes)
      BY <1>1, <2>3, Zenon DEF Tells
    <3>2. b.flag => Tells(a, "aggregateByTime", Yes)
      BY <1>1, <1>3, <2>3, Zenon DEF Tells
    <3>3. a.flag <=> b.flag
      BY <3>1, <3>2 DEF Tells
    <3> QED
      BY <2>1, <3>3
  <2>4. CASE a.op \notin {"watchOrderbook", "getUserFills", "getUserFillsByTime", "watchUserFills"}
    <3>1. "flag" \in DOMAIN TakenBy /\ a.op \notin TakenBy["flag"]
      BY <2>4 DEF TakenBy
    <3> QED
      BY <1>3, <3>1, Agree
  <2> QED
    BY <2>2, <2>3, <2>4
<1>12. a.cloid = b.cloid /\ (IsSet(a.cloid) \/ a.oid = b.oid)
  <2>1. CASE a.op = "getOrderStatus"
    <3>1. /\ IsSet(a.cloid) => Tells(b, "oid", JStr(a.cloid))
          /\ ~ IsSet(a.cloid) => Tells(b, "oid", JNum(a.oid))
      BY <1>1, <2>1, ZenonT(40) DEF Tells
    <3>2. /\ IsSet(a.cloid) => IsSet(b.cloid) /\ a.cloid = b.cloid
          /\ ~ IsSet(a.cloid) => ~ IsSet(b.cloid) /\ a.oid = b.oid
      BY <3>1, ScalarSame DEF Tells
    <3> QED
      BY <3>2 DEF IsSet
  <2>2. CASE a.op # "getOrderStatus"
    <3>1. "cloid" \in DOMAIN TakenBy /\ a.op \notin TakenBy["cloid"]
          /\ "oid" \in DOMAIN TakenBy /\ a.op \notin TakenBy["oid"]
      BY <2>2 DEF TakenBy
    <3> QED
      BY <1>3, <3>1, Agree
  <2> QED
    BY <2>1, <2>2
<1>13. \A arg \in DOMAIN TakenBy \ {"oid"} : a[arg] = b[arg]
  BY <1>5, <1>6, <1>7, <1>8, <1>9, <1>10, <1>11, <1>12 DEF TakenBy
<1> QED
  BY <1>3, <1>12, <1>13, SameMeaning

\* The body of a query or a subscription tells everything the caller asked for: two
\* accepted asks with one body mean the same (perps, account, markets).
THEOREM QueriesToldAlways == Spec => []QueriesTold
<1>1. ASSUME InputType, input.kind = "ask"
      PROVE  input.ask \in Asks
  BY <1>1, Kinds DEF IsAsk
<1>2. InputType => QueriesTold
  <2>1. SUFFICES ASSUME InputType, input.kind = "ask", Asked(input.ask).ok,
                        NEW other \in Asks, SameSide(input.ask, other), Asked(other).ok,
                        Asked(other).body = Asked(input.ask).body
                 PROVE  Meaning(other) = Meaning(input.ask)
    BY Zenon DEF QueriesTold
  <2> QED
    BY <1>1, <2>1, BodyMeans, Zenon
<1> QED
  BY <1>2, InputTyped, PTL

\* A key tells the function, its coin and its interval.
LEMMA KeyTells ==
  ASSUME NEW a \in Asks, a.op \in Watches, Asked(a).ok,
         NEW b \in Asks, b.op \in Watches, Asked(b).ok, Asked(a).key = Asked(b).key
  PROVE  a.op = b.op /\ a.coin = b.coin /\ a.interval = b.interval
<1> DEFINE head == [op \in Watches |->
                      CASE op = "watchOrderbook" -> "l2Book"
                        [] op = "watchBBO" -> "bbo"
                        [] op = "watchTrades" -> "trades"
                        [] op = "watchCandles" -> "candle"
                        [] op = "watchAssetCtx" -> "activeAssetCtx"
                        [] op = "watchOrderUpdates" -> "orderUpdates"
                        [] op = "watchUserFills" -> "userFills"
                        [] op = "watchAccountState" -> "clearinghouseState"]
<1>1. ASSUME NEW q \in Asks, q.op \in Watches, Asked(q).ok
      PROVE  Asked(q).key[1] = head[q.op]
  BY <1>1, KeyOf DEF Watches
<1>2. \A x, y \in Watches : head[x] = head[y] => x = y
  BY DEF Watches
<1> HIDE DEF head
<1>3. a.op = b.op
  BY <1>1, <1>2
<1>4. a.coin = b.coin
  <2>1. a.op \in TakenBy.coin \/ a.op \notin TakenBy.coin
    OBVIOUS
  <2>2. CASE a.op \notin TakenBy.coin
    BY <1>3, <2>2, Agree DEF TakenBy
  <2>3. CASE a.op \in TakenBy.coin
    BY <1>3, <2>3, KeyOf DEF TakenBy, CoinOps, Watches
  <2> QED
    BY <2>1, <2>2, <2>3
<1>5. a.interval = b.interval
  <2>2. CASE a.op \notin TakenBy.interval
    BY <1>3, <2>2, Agree DEF TakenBy
  <2>3. CASE a.op \in TakenBy.interval
    BY <1>3, <2>3, KeyOf DEF TakenBy, Watches
  <2> QED
    BY <2>2, <2>3
<1> QED
  BY <1>3, <1>4, <1>5

\* What an ask means names its user.
LEMMA MeaningUser ==
  ASSUME NEW a \in Asks, NEW b \in Asks, Meaning(b) = Meaning(a)
  PROVE  a.user = b.user
<1>1. ASSUME NEW q \in Asks
      PROVE  Meaning(q).user = q.user
  <2>1. "user" \in DOMAIN q
    BY AsksAssumption DEF TakenBy
  <2> QED
    BY <2>1 DEF Meaning
<1> QED
  BY <1>1

\* The pushes of a subscription follow from its function, coin, interval and user.
LEMMA PushesTold ==
  ASSUME NEW a, NEW b, a.op = b.op, a.coin = b.coin, a.interval = b.interval,
         a.user = b.user
  PROVE  PushesOf(a) = PushesOf(b)
BY Zenon DEF PushesOf

\* Whatever the asks, the coins and the dex: a push is routed to the key of its
\* subscription, and under one key two subscriptions of one user, or with one
\* payload, have the same pushes (ws/protocol.go, conn.go, streams.go).
THEOREM PushesRoutedAlways == Spec => []PushesRouted
<1>1. ASSUME InputType, input.kind = "ask"
      PROVE  input.ask \in Asks
  BY <1>1, Kinds DEF IsAsk
<1>2. ASSUME NEW a \in Asks, a.op \in Watches, Asked(a).ok,
             NEW b \in Asks, b.op \in Watches, Asked(b).ok,
             Asked(b).key = Asked(a).key,
             b.user = a.user \/ Asked(b).body = Asked(a).body
      PROVE  PushesOf(b) = PushesOf(a)
  <2>1. a.op = b.op /\ a.coin = b.coin /\ a.interval = b.interval
    BY <1>2, KeyTells
  <2>2. a.user = b.user
    <3>1. CASE Asked(b).body = Asked(a).body
      <4>1. SameSide(a, b)
        BY <1>2 DEF SameSide
      <4>2. Meaning(b) = Meaning(a)
        BY <1>2, <3>1, <4>1, BodyMeans, Zenon
      <4> QED
        BY <4>2, MeaningUser
    <3> QED
      BY <1>2, <3>1
  <2> QED
    BY <2>1, <2>2, PushesTold, Zenon
<1>3. ASSUME InputType, input.kind = "ask", input.ask \in Asks, input.ask.op \in Watches,
             Asked(input.ask).ok
      PROVE  LET q == input.ask
             IN /\ \A push \in PushesOf(q) : pushRouteKey(push) = Asked(q).key
                /\ \A other \in Asks :
                     /\ other.op \in Watches /\ Asked(other).ok
                     /\ Asked(other).key = Asked(q).key
                     /\ other.user = q.user \/ Asked(other).body = Asked(q).body
                     => PushesOf(other) = PushesOf(q)
  BY <1>2, <1>3, PushFound, Zenon
<1>4. InputType => PushesRouted
  BY <1>1, <1>3, Zenon DEF PushesRouted
<1> QED
  BY <1>4, InputTyped, PTL

(***************************************************************************)
(* Slippage.                                                               *)
(***************************************************************************)
\* The next number has the same tick, or is a multiple of its own.
LEMMA NextTick ==
  ASSUME NEW p, p.sz \in Int, p.max \in Int, NEW f \in Nat, NEW n \in {f, f + 1}, n # 0
  PROVE  TickSize(p, n) = TickSize(p, f) \/ n % TickSize(p, n) = 0
<1>1. CASE n = f
  BY <1>1
<1>2. CASE n = f + 1 /\ f = 0
  <2>1. n = 1 /\ countDigits[n] = 1
    <3>1. countDigits[1] = 1 + countDigits[1 \div 10] /\ 1 \div 10 = 0 /\ countDigits[0] = 0
      BY CountDef
    <3> QED
      BY <1>2, <3>1
  <2>2. FixedDecimals \in Nat /\ MaxSignificantFigures \in Nat \ {0}
    BY NumbersAssumption
  <2>3. PriceDecimals(p, n) = PriceDecimals(p, f)
    BY <1>2, <2>1, <2>2 DEF PriceDecimals, clampDecimals, AbsOf
  <2> QED
    BY <2>3 DEF TickSize
<1>3. CASE n = f + 1 /\ f # 0
  <2>1. PICK E \in [Nat -> Nat], F \in Nat :
           /\ \A c \in Nat : F =< E[c] /\ (E[c] = F \/ E[c] =< c - 1)
           /\ \A b, c \in Nat : b =< c => E[b] =< E[c]
           /\ \A v \in Nat \ {0} : TickSize(p, v) = pow10[E[countDigits[v]]]
    BY PriceGrid, Zenon
  <2> DEFINE b == countDigits[f]
             c == countDigits[n]
  <2>2. f \in Nat \ {0} /\ n \in Nat \ {0} /\ b \in Nat /\ c \in Nat
    BY <1>3, CountDef
  <2>3. (c =< b <=> n < pow10[b]) /\ (b =< c <=> f < pow10[c]) /\ f < pow10[b] /\ n < pow10[c]
    BY <2>2, CountBelow
  <2>4. pow10[b] \in Nat /\ pow10[c] \in Nat
    BY <2>2, Powers
  <2>5. b =< c
    BY <1>3, <2>2, <2>3, <2>4
  <2>6. TickSize(p, n) = pow10[E[c]] /\ TickSize(p, f) = pow10[E[b]]
    BY <2>1, <2>2
  <2>7. CASE E[b] = E[c]
    BY <2>6, <2>7
  <2>8. CASE E[b] # E[c]
    <3>1. ~ (c =< b)
      BY <2>2, <2>5, <2>8
    <3>2. n = pow10[b]
      BY <1>3, <2>2, <2>3, <2>4, <3>1
    <3>3. c = b + 1
      BY <2>2, <3>2, PowerDigits
    <3>4. E[c] \in Nat /\ E[b] \in Nat /\ F =< E[b] /\ E[b] =< E[c] /\ (E[c] = F \/ E[c] =< c - 1)
      BY <2>1, <2>2, <2>5
    <3>5. E[c] \in 0 .. b
      BY <2>1, <2>2, <2>8, <3>3, <3>4
    <3> QED
      BY <2>2, <2>6, <3>2, <3>5, PowerMultiple
  <2> QED
    BY <2>7, <2>8
<1> QED
  BY <1>1, <1>2, <1>3

\* A tick is at most a whole unit.
LEMMA TickType ==
  ASSUME NEW p, p.sz \in Int, p.max \in Int, NEW v \in Nat
  PROVE  TickSize(p, v) \in Nat \ {0} /\ TickSize(p, v) =< Scale
<1>1. FixedDecimals \in Nat /\ MaxSignificantFigures \in Nat
  BY NumbersAssumption
<1>2. countDigits[AbsOf(v)] \in Nat
  BY CountDef DEF AbsOf
<1>3. PriceDecimals(p, v) \in 0 .. FixedDecimals
  BY <1>1, <1>2 DEF PriceDecimals, clampDecimals
<1>4. FixedDecimals - PriceDecimals(p, v) \in Nat
      /\ FixedDecimals - PriceDecimals(p, v) =< FixedDecimals
  BY <1>1, <1>3
<1> QED
  BY <1>1, <1>4, Powers, PowerOrder, Constants DEF TickSize

\* A remainder is below the divisor and at most the number.
LEMMA ModSmall ==
  ASSUME NEW n \in Nat, NEW step \in Nat \ {0}
  PROVE  n % step \in 0 .. step - 1 /\ n % step =< n
<1>1. n \div step \in Nat /\ n % step \in 0 .. step - 1 /\ n = step * (n \div step) + (n % step)
  BY DivMod
<1> DEFINE q == n \div step
<1>2. step * q \in Nat
  BY <1>1, NonNeg
<1> HIDE DEF q
<1> QED
  BY <1>1, <1>2 DEF q

\* Rounding a price up or down moves it by less than its tick.
LEMMA RoundedNear ==
  ASSUME NEW p, p.sz \in Int, p.max \in Int, NEW n \in Nat \ {0},
         n + TickSize(p, n) =< MaxInt, NEW mode \in {"up", "down"}
  PROVE  LET r == NormalizePrice(p, n, mode)
             step == TickSize(p, n)
         IN /\ r \in Nat
            /\ mode = "up" => n =< r /\ r < n + step /\ PriceTaken(p, r)
            /\ mode = "down" => r =< n /\ n < r + step /\ (r = 0 \/ PriceTaken(p, r))
            /\ n % step = 0 => r = n
<1> DEFINE r == NormalizePrice(p, n, mode)
           step == TickSize(p, n)
           rem == n % step
<1>1. step \in Nat \ {0} /\ rem \in 0 .. step - 1 /\ rem =< n
  BY TickType, ModSmall
<1>2. r = roundToStep(n, step, mode)
  BY DEF NormalizePrice
<1>3. r = IF rem = 0 \/ mode = "down" \/ (mode = "nearest" /\ rem * 2 < step)
          THEN n - rem ELSE Wrap((n - rem) + step)
  BY <1>2, Zenon DEF roundToStep
<1>4. MaxInt \in Nat
  BY Constants
<1>5. /\ r \in Nat /\ (r = 0 \/ PriceTaken(p, r))
  BY PriceRounded DEF Modes
<1> HIDE DEF r, step, rem
<1>6. Wrap((n - rem) + step) = (n - rem) + step
  <2>1. (n - rem) + step \in Int /\ (n - rem) + step =< MaxInt
    BY <1>1, <1>4 DEF step
  <2> QED
    BY <2>1, NoWrap
<1>7. /\ mode = "up" => n =< r /\ r < n + step
      /\ mode = "down" => r =< n /\ n < r + step
      /\ rem = 0 => r = n
  BY <1>1, <1>3, <1>6
<1>8. mode = "up" => PriceTaken(p, r)
  BY <1>5, <1>7
<1> QED
  BY <1>5, <1>7, <1>8, Zenon DEF r, step, rem

\* The multiple of a number within less than t of the rounded quotient.
LEMMA Within ==
  ASSUME NEW den \in Nat \ {0}, NEW x \in Nat, NEW n \in Nat, NEW r \in Nat, NEW t \in Nat \ {0},
         (2 * den) * n =< 2 * x + den, 2 * x + den < (2 * den) * n + 2 * den
  PROVE  /\ n =< r /\ r < n + t =>
              /\ (2 * den) * r >= 2 * x - den
              /\ (2 * den) * r < (2 * x + den) + (2 * den) * t
         /\ r =< n /\ n < r + t =>
              /\ (2 * den) * r =< 2 * x + den
              /\ (2 * den) * r > (2 * x - den) - (2 * den) * t
<1> DEFINE D == 2 * den
<1>1. D \in Nat \ {0} /\ D * n \in Nat /\ D * r \in Nat /\ D * t \in Nat \ {0}
  <2>1. D \in Nat \ {0}
    OBVIOUS
  <2> HIDE DEF D
  <2> QED
    BY <2>1, NonNeg
<1>2. D * n =< 2 * x + den /\ 2 * x + den < D * n + D
  OBVIOUS
<1>3. D = 2 * den
  OBVIOUS
<1> HIDE DEF D
<1>4. ASSUME n =< r, r < n + t
      PROVE  D * r >= D * n /\ D * r < D * n + D * t
  <2>1. D * (n + t) = D * n + D * t /\ n + t \in Nat
    BY <1>1
  <2>2. D * (n + t) >= D * r + D
    BY <1>1, <1>4, <2>1, NextMultiple
  <2>3. CASE n = r
    BY <1>1, <2>1, <2>2, <2>3
  <2>4. CASE n < r
    <3>1. D * r >= D * n + D
      BY <1>1, <2>4, NextMultiple
    <3> QED
      BY <1>1, <2>1, <2>2, <3>1
  <2> QED
    BY <1>4, <2>3, <2>4
<1>5. ASSUME r =< n, n < r + t
      PROVE  D * r =< D * n /\ D * n + D =< D * r + D * t
  <2>1. D * (r + t) = D * r + D * t /\ r + t \in Nat
    BY <1>1
  <2>2. D * (r + t) >= D * n + D
    BY <1>1, <1>5, <2>1, NextMultiple
  <2>3. CASE n = r
    BY <1>1, <2>1, <2>2, <2>3
  <2>4. CASE r < n
    <3>1. D * n >= D * r + D
      BY <1>1, <2>4, NextMultiple
    <3> QED
      BY <1>1, <2>1, <2>2, <3>1
  <2> QED
    BY <1>5, <2>3, <2>4
<1>6. ASSUME n =< r, r < n + t
      PROVE  D * r >= 2 * x - den /\ D * r < (2 * x + den) + D * t
  <2> DEFINE a == D * n
             b == D * r
             c == D * t
  <2>1. b >= a /\ b < a + c /\ a =< 2 * x + den /\ 2 * x + den < a + D
        /\ a \in Nat /\ b \in Nat /\ c \in Nat
    BY <1>1, <1>2, <1>4, <1>6
  <2> HIDE DEF a, b, c
  <2>2. b >= 2 * x - den /\ b < (2 * x + den) + c
    BY <1>1, <1>3, <2>1
  <2> QED
    BY <2>2 DEF b, c
<1>7. ASSUME r =< n, n < r + t
      PROVE  D * r =< 2 * x + den /\ D * r > (2 * x - den) - D * t
  <2> DEFINE a == D * n
             b == D * r
             c == D * t
  <2>1. b =< a /\ a + D =< b + c /\ a =< 2 * x + den /\ 2 * x + den < a + D
        /\ a \in Nat /\ b \in Nat /\ c \in Nat
    BY <1>1, <1>2, <1>5, <1>7
  <2> HIDE DEF a, b, c
  <2>2. b =< 2 * x + den /\ b > (2 * x - den) - c
    BY <1>1, <1>3, <2>1
  <2> QED
    BY <2>2 DEF b, c
<1> QED
  BY <1>6, <1>7 DEF D

\* The rounded quotient and the one cut off are the same or neighbours.
LEMMA HalfUp ==
  ASSUME NEW den \in Nat \ {0}, NEW x \in Nat
  PROVE  LET n == (2 * x + den) \div (2 * den)
             f == (2 * x) \div (2 * den)
         IN /\ n \in Nat /\ f \in Nat /\ n \in {f, f + 1}
            /\ (2 * den) * n =< 2 * x + den
            /\ 2 * x + den < (2 * den) * n + 2 * den
<1> DEFINE D == 2 * den
           a == 2 * x + den
           b == 2 * x
           n == a \div D
           f == b \div D
<1>1. D \in Nat \ {0} /\ a \in Nat /\ b \in Nat /\ a = b + den /\ D = 2 * den
  OBVIOUS
<1> HIDE DEF D, a, b
<1>2. /\ n \in Nat /\ a % D \in 0 .. D - 1 /\ a = D * n + (a % D)
      /\ f \in Nat /\ b % D \in 0 .. D - 1 /\ b = D * f + (b % D)
  BY <1>1, DivMod
<1>3. D * n \in Nat /\ D * f \in Nat
  BY <1>1, <1>2, NonNeg
<1> HIDE DEF n, f
<1>4. n =< f + 1
  <2>1. SUFFICES ASSUME f + 1 < n
                 PROVE  FALSE
    BY <1>2
  <2>2. D * n >= D * (f + 1) + D /\ D * (f + 1) = D * f + D
    BY <1>1, <1>2, <2>1, NextMultiple
  <2> QED
    BY <1>1, <1>2, <1>3, <2>2
<1>5. f =< n
  <2>1. SUFFICES ASSUME n < f
                 PROVE  FALSE
    BY <1>2
  <2>2. D * f >= D * n + D
    BY <1>1, <1>2, <2>1, NextMultiple
  <2> QED
    BY <1>1, <1>2, <1>3, <2>2
<1>6. n \in {f, f + 1} /\ D * n =< a /\ a < D * n + D
  BY <1>1, <1>2, <1>3, <1>4, <1>5
<1> QED
  BY <1>2, <1>6 DEF n, f, a, b, D

\* The float that is rounded, and what comes of it.
LEMMA SlippedOf ==
  ASSUME NEW p, NEW s, s.num \in Int, s.den \in Nat \ {0},
         NEW v \in Nat \ {0}, NEW isBuy \in BOOLEAN, SlippagePrice(p, v, isBuy, s).ok
  PROVE  LET factor == IF isBuy THEN s.den + s.num ELSE s.den - s.num
             x == v * factor
             n == (2 * x + s.den) \div (2 * s.den)
         IN /\ s.num \in Nat /\ s.num < s.den /\ factor \in Nat \ {0} /\ x \in Nat
            /\ isBuy => x >= s.den
            /\ x < FixedMaxFloat * s.den
            /\ SlippagePrice(p, v, isBuy, s).value =
                 NormalizePrice(p, n, IF isBuy THEN "up" ELSE "down")
<1> DEFINE factor == IF isBuy THEN s.den + s.num ELSE s.den - s.num
           x == v * factor
           raw == FixedFromFloat64(x, s.den)
           mode == IF isBuy THEN "up" ELSE "down"
           good == 0 =< s.num /\ s.num < s.den
           price == NormalizePrice(p, raw.value, mode)
           r == SlippagePrice(p, v, isBuy, s)
           n == (2 * x + s.den) \div (2 * s.den)
<1>1. r = IF ~ good \/ ~ raw.ok THEN Failed ELSE Done(price)
  BY Zenon DEF SlippagePrice
<1> HIDE DEF raw, price, good, r
<1>2. good /\ raw.ok /\ r = Done(price) /\ r.value = price
  <2>1. r.ok
    BY DEF r
  <2>2. r.ok => r # Failed
    BY DEF Failed
  <2>3. Done(price).value = price
    BY DEF Done
  <2>4. good /\ raw.ok /\ r = Done(price)
    BY <1>1, <2>1, <2>2, Zenon
  <2> QED
    BY <2>3, <2>4
<1>3. s.num \in Nat /\ s.num < s.den
  BY <1>2 DEF good
<1>4. factor \in Nat \ {0} /\ (isBuy => factor >= s.den)
  BY <1>3
<1> HIDE DEF factor
<1>5. x \in Nat /\ (isBuy => x >= s.den)
  <2>1. x \in Nat /\ x >= factor
    BY <1>4, NonNeg, Assoc
  <2> QED
    BY <1>4, <2>1
<1> HIDE DEF x
<1>6. AbsOf(x) = x /\ ~ (x < 0)
  BY <1>5 DEF AbsOf
<1> HIDE DEF n
<1>7. raw = IF x >= FixedMaxFloat * s.den THEN Failed ELSE Done(n)
  <2>1. raw = IF AbsOf(x) >= FixedMaxFloat * s.den THEN Failed
              ELSE Done(IF x < 0 THEN -((2 * AbsOf(x) + s.den) \div (2 * s.den))
                        ELSE (2 * AbsOf(x) + s.den) \div (2 * s.den))
    BY Zenon DEF FixedFromFloat64, raw
  <2>2. (2 * AbsOf(x) + s.den) \div (2 * s.den) = n
    BY <1>6, Zenon DEF n
  <2> QED
    BY <1>6, <2>1, <2>2, Zenon
<1>8. ~ (x >= FixedMaxFloat * s.den) /\ raw.value = n
  <2>1. raw.ok => raw # Failed
    BY DEF Failed
  <2>2. Done(n).value = n
    BY DEF Done
  <2> QED
    BY <1>2, <1>7, <2>1, <2>2, Zenon
<1>9. x < FixedMaxFloat * s.den
  <2>1. FixedMaxFloat \in Nat
    BY NumbersAssumption
  <2>2. FixedMaxFloat * s.den \in Nat
    BY <2>1, NonNeg
  <2> QED
    BY <1>5, <1>8, <2>2
<1>10. r.value = NormalizePrice(p, n, mode)
  BY <1>2, <1>8, Zenon DEF price
<1> QED
  BY <1>3, <1>4, <1>5, <1>9, <1>10, Zenon DEF n, x, factor, r

\* A rounded price is on the wrong side of the asked one only where rounding to
\* a unit put it there and the grid left it alone.
LEMMA ShortOnGrid ==
  ASSUME NEW p, NEW den \in Nat \ {0}, NEW x \in Nat, NEW n \in Nat, NEW r \in Nat,
         (2 * den) * n =< 2 * x + den, 2 * x + den < (2 * den) * n + 2 * den,
         PriceTaken(p, n) => r = n
  PROVE  /\ n =< r /\ PriceTaken(p, r) =>
              ((2 * den) * r < 2 * x <=> (2 * den) * n < 2 * x /\ PriceTaken(p, n))
         /\ r =< n /\ (r = 0 \/ PriceTaken(p, r)) =>
              ((2 * den) * r > 2 * x <=> (2 * den) * n > 2 * x /\ PriceTaken(p, n))
<1> DEFINE D == 2 * den
           a == D * n
           b == D * r
<1>1. D \in Nat \ {0} /\ D = 2 * den
  OBVIOUS
<1> HIDE DEF D
<1>2. a \in Nat /\ b \in Nat /\ (n < r => b >= a + D) /\ (r < n => a >= b + D)
  BY <1>1, NonNeg, NextMultiple
<1>3. r = n => b = a
  OBVIOUS
<1>4. a =< 2 * x + den /\ 2 * x + den < a + D
  BY <1>1
<1>5. r = 0 => b = 0
  BY <1>1
<1> HIDE DEF a, b
<1>6. n =< r /\ b < 2 * x => r = n
  BY <1>1, <1>2, <1>4
<1>7. r =< n /\ b > 2 * x => r = n /\ r # 0
  BY <1>1, <1>2, <1>4, <1>5
<1>8. n =< r /\ PriceTaken(p, r) => (b < 2 * x <=> a < 2 * x /\ PriceTaken(p, n))
  BY <1>3, <1>6, Zenon
<1>9. r =< n /\ (r = 0 \/ PriceTaken(p, r)) => (b > 2 * x <=> a > 2 * x /\ PriceTaken(p, n))
  BY <1>3, <1>7, Zenon
<1> QED
  BY <1>1, <1>8, <1>9 DEF a, b

\* The slippage price against the price that was asked for.
LEMMA SlippedNear ==
  ASSUME NEW p, p.sz \in Int, p.max \in Int, NEW den \in Nat \ {0}, NEW x \in Nat,
         x < FixedMaxFloat * den, NEW isBuy \in BOOLEAN, isBuy => x >= den
  PROVE  LET n == (2 * x + den) \div (2 * den)
             r == NormalizePrice(p, n, IF isBuy THEN "up" ELSE "down")
             tick == (2 * den) * TickSize(p, (2 * x) \div (2 * den))
         IN /\ PriceTaken(p, r) \/ (~ isBuy /\ r = 0)
            /\ isBuy => (2 * den) * r >= 2 * x - den /\ (2 * den) * r < (2 * x + den) + tick
            /\ ~ isBuy => (2 * den) * r =< 2 * x + den /\ (2 * den) * r > (2 * x - den) - tick
            /\ isBuy => ((2 * den) * r < 2 * x <=> (2 * den) * n < 2 * x /\ PriceTaken(p, n))
            /\ ~ isBuy => ((2 * den) * r > 2 * x <=> (2 * den) * n > 2 * x /\ PriceTaken(p, n))
<1> DEFINE n == (2 * x + den) \div (2 * den)
           f == (2 * x) \div (2 * den)
           mode == IF isBuy THEN "up" ELSE "down"
           r == NormalizePrice(p, n, mode)
           t == TickSize(p, f)
<1>1. /\ n \in Nat /\ f \in Nat /\ n \in {f, f + 1}
      /\ (2 * den) * n =< 2 * x + den
      /\ 2 * x + den < (2 * den) * n + 2 * den
  BY HalfUp
<1> HIDE DEF n, f
<1>2. t \in Nat \ {0} /\ t =< Scale /\ TickSize(p, n) \in Nat \ {0} /\ TickSize(p, n) =< Scale
  BY <1>1, TickType
<1> HIDE DEF t
<1>3. CASE n = 0
  <2>1. 2 * x < den
    BY <1>1, <1>3
  <2>2. ~ isBuy
    BY <2>1
  <2>3. r = 0
    BY <1>3 DEF NormalizePrice
  <2> DEFINE D == 2 * den
             T == D * t
  <2>4. D * r = 0 /\ D \in Nat \ {0} /\ T \in Nat
    <3>1. D \in Nat \ {0}
      OBVIOUS
    <3> HIDE DEF D
    <3> QED
      BY <1>2, <2>3, <3>1, NonNeg
  <2> HIDE DEF T
  <2>5. D * r =< 2 * x + den /\ D * r > (2 * x - den) - T
    BY <2>1, <2>4
  <2>6. r = n
    BY <1>3, <2>3
  <2>7. (2 * den) * r > 2 * x <=> (2 * den) * n > 2 * x /\ PriceTaken(p, n)
    <3>1. ~ ((2 * den) * r > 2 * x)
      BY <2>4
    <3> QED
      BY <2>6, <3>1, Zenon
  <2> QED
    BY <2>2, <2>3, <2>5, <2>7 DEF n, t, f, T
<1>4. CASE n # 0
  <2>1. n =< FixedMaxFloat
    <3> DEFINE D == 2 * den
               M == FixedMaxFloat
    <3>1. D \in Nat \ {0} /\ D = 2 * den /\ M \in Nat /\ D * n =< 2 * x + den /\ x < M * den
      BY <1>1, NumbersAssumption
    <3>2. D * M = 2 * (M * den) /\ D * M \in Nat /\ M * den \in Nat
      BY <3>1, NonNeg, Assoc
    <3> HIDE DEF D, M
    <3>3. D * n < D * M + D
      <4> DEFINE a == D * n
                 b == M * den
                 c == D * M
      <4>1. a =< 2 * x + den /\ x < b /\ c = 2 * b /\ b \in Nat /\ c \in Nat /\ a \in Nat
        BY <1>1, <3>1, <3>2, NonNeg
      <4> HIDE DEF a, b, c
      <4>2. a < c + D
        BY <3>1, <4>1
      <4> QED
        BY <4>2 DEF a, c
    <3>4. SUFFICES ASSUME M < n
                   PROVE  FALSE
      BY <1>1, <3>1 DEF M
    <3>5. D * n >= D * M + D
      BY <1>1, <3>1, <3>4, NextMultiple
    <3> DEFINE a == D * n
               c == D * M
    <3>6. a \in Nat /\ c \in Nat /\ a < c + D /\ a >= c + D
      BY <1>1, <3>1, <3>2, <3>3, <3>5, NonNeg
    <3> HIDE DEF a, c
    <3> QED
      BY <3>1, <3>6
  <2>2. n + TickSize(p, n) =< MaxInt
    BY <1>1, <1>2, <2>1, Constants, NumbersAssumption
  <2>3. mode \in {"up", "down"} /\ (isBuy => mode = "up") /\ (~ isBuy => mode = "down")
    OBVIOUS
  <2>4. /\ r \in Nat
        /\ mode = "up" => n =< r /\ r < n + TickSize(p, n) /\ PriceTaken(p, r)
        /\ mode = "down" => r =< n /\ n < r + TickSize(p, n) /\ (r = 0 \/ PriceTaken(p, r))
        /\ n % TickSize(p, n) = 0 => r = n
    BY <1>1, <1>4, <2>2, <2>3, RoundedNear
  <2> HIDE DEF r, mode
  <2>5. TickSize(p, n) = t \/ n % TickSize(p, n) = 0
    BY <1>1, <1>4, NextTick DEF t
  <2>6. /\ isBuy => n =< r /\ r < n + t
        /\ ~ isBuy => r =< n /\ n < r + t
    BY <1>1, <1>2, <2>3, <2>4, <2>5
  <2>7. /\ isBuy => (2 * den) * r >= 2 * x - den /\ (2 * den) * r < (2 * x + den) + (2 * den) * t
        /\ ~ isBuy => (2 * den) * r =< 2 * x + den /\ (2 * den) * r > (2 * x - den) - (2 * den) * t
    BY <1>1, <1>2, <2>4, <2>6, Within
  <2>8. PriceTaken(p, r) \/ (~ isBuy /\ r = 0)
    BY <2>3, <2>4, Zenon
  <2>9. PriceTaken(p, n) => r = n
    <3>1. ValidatePrice(p, n) = PriceTaken(p, n)
      BY <1>1, PriceRule
    <3>2. ValidatePrice(p, n) => n % TickSize(p, n) = 0
      BY DEF ValidatePrice
    <3> QED
      BY <2>4, <3>1, <3>2, Zenon
  <2>10. /\ n =< r /\ PriceTaken(p, r) =>
              ((2 * den) * r < 2 * x <=> (2 * den) * n < 2 * x /\ PriceTaken(p, n))
         /\ r =< n /\ (r = 0 \/ PriceTaken(p, r)) =>
              ((2 * den) * r > 2 * x <=> (2 * den) * n > 2 * x /\ PriceTaken(p, n))
    BY <1>1, <2>4, <2>9, ShortOnGrid
  <2>11. /\ isBuy => ((2 * den) * r < 2 * x <=> (2 * den) * n < 2 * x /\ PriceTaken(p, n))
         /\ ~ isBuy => ((2 * den) * r > 2 * x <=> (2 * den) * n > 2 * x /\ PriceTaken(p, n))
    BY <2>3, <2>4, <2>10, Zenon
  <2> QED
    BY <2>7, <2>8, <2>11, Zenon DEF n, t, f, r, mode
<1> QED
  BY <1>3, <1>4

\* SlippagePrice gives a price the exchange takes that is within half of the last
\* decimal and a tick of the slippage that was asked for, on the aggressive side
\* unless rounding to a unit leaves it on the grid and on the other one.
THEOREM SlippageAggressiveAlways == Spec => []SlippageAggressive
<1>1. ASSUME InputType, input.kind = "fixed"
      PROVE  input.value \in Int
  <2>1. IsFixed
    BY <1>1, Kinds
  <2> QED
    BY <2>1, Constants DEF IsFixed
<1>2. ASSUME InputType, input.kind = "fixed", input.value > 0,
             NEW p \in Precisions, NEW s \in Slips, NEW isBuy \in BOOLEAN,
             SlippagePrice(p, input.value, isBuy, s).ok
      PROVE  LET result == SlippagePrice(p, input.value, isBuy, s)
                 px == 2 * s.den * result.value
                 asked == 2 * input.value * (s.den + IF isBuy THEN s.num ELSE -s.num)
                 tick == 2 * s.den * TickSize(p, asked \div (2 * s.den))
                 nearest == (asked + s.den) \div (2 * s.den)
                 Short(y) == IF isBuy THEN y < asked ELSE y > asked
             IN /\ PriceTaken(p, result.value) \/ (~ isBuy /\ result.value = 0)
                /\ IF isBuy THEN px >= asked - s.den /\ px < asked + s.den + tick
                            ELSE px =< asked + s.den /\ px > asked - s.den - tick
                /\ Short(px) <=> Short(2 * s.den * nearest) /\ PriceTaken(p, nearest)
  <2> DEFINE v == input.value
             den == s.den
             result == SlippagePrice(p, v, isBuy, s)
             px == 2 * den * result.value
             factor == IF isBuy THEN den + s.num ELSE den - s.num
             signed == den + IF isBuy THEN s.num ELSE -s.num
             x == v * factor
             asked == 2 * v * signed
             tick == 2 * den * TickSize(p, asked \div (2 * den))
             nearest == (asked + den) \div (2 * den)
             near == 2 * den * nearest
             Short(y) == IF isBuy THEN y < asked ELSE y > asked
             mode == IF isBuy THEN "up" ELSE "down"
             n == (2 * x + den) \div (2 * den)
             r == NormalizePrice(p, n, mode)
             t == (2 * den) * TickSize(p, (2 * x) \div (2 * den))
  <2>1. v \in Nat \ {0}
    BY <1>1, <1>2
  <2>2. p.sz \in Int /\ p.max \in Int /\ s.num \in Int /\ den \in Nat \ {0}
    BY <1>2, ValuesAssumption
  <2>3. result.ok
    BY <1>2
  <2> HIDE DEF v
  <2>4. /\ s.num \in Nat /\ s.num < den /\ factor \in Nat \ {0} /\ x \in Nat
        /\ isBuy => x >= den
        /\ x < FixedMaxFloat * den
        /\ result.value = r
    BY <2>1, <2>2, <2>3, SlippedOf, ZenonT(40)
  <2> HIDE DEF result, den
  <2>5. signed = factor
    BY <2>2, <2>4
  <2> HIDE DEF factor, signed
  <2>6. asked = 2 * x
    BY <2>1, <2>4, <2>5, Assoc
  <2> HIDE DEF asked, x
  <2>7. /\ PriceTaken(p, r) \/ (~ isBuy /\ r = 0)
        /\ isBuy => (2 * den) * r >= 2 * x - den /\ (2 * den) * r < (2 * x + den) + t
        /\ ~ isBuy => (2 * den) * r =< 2 * x + den /\ (2 * den) * r > (2 * x - den) - t
        /\ isBuy => ((2 * den) * r < 2 * x <=> (2 * den) * n < 2 * x /\ PriceTaken(p, n))
        /\ ~ isBuy => ((2 * den) * r > 2 * x <=> (2 * den) * n > 2 * x /\ PriceTaken(p, n))
    BY <2>2, <2>4, SlippedNear, ZenonT(40)
  <2>8. tick = t
    BY <2>6
  <2>9. px = (2 * den) * r /\ nearest = n /\ near = (2 * den) * n
    BY <2>4, <2>6
  <2> HIDE DEF px, tick, t, r, n, near, nearest
  <2>10. /\ PriceTaken(p, result.value) \/ (~ isBuy /\ result.value = 0)
         /\ IF isBuy THEN px >= asked - den /\ px < asked + den + tick
                     ELSE px =< asked + den /\ px > asked - den - tick
    <3>1. PriceTaken(p, result.value) \/ (~ isBuy /\ result.value = 0)
      BY <2>4, <2>7, Zenon
    <3> QED
      BY <2>6, <2>7, <2>8, <2>9, <3>1
  <2>11. Short(px) <=> Short(near) /\ PriceTaken(p, nearest)
    <3>1. CASE isBuy
      <4>1. px < asked <=> near < asked /\ PriceTaken(p, nearest)
        BY <2>6, <2>7, <2>9, <3>1, Zenon
      <4> QED
        BY <3>1, <4>1
    <3>2. CASE ~ isBuy
      <4>1. px > asked <=> near > asked /\ PriceTaken(p, nearest)
        BY <2>6, <2>7, <2>9, <3>2, Zenon
      <4> QED
        BY <3>2, <4>1
    <3> QED
      BY <3>1, <3>2
  <2> QED
    BY <2>10, <2>11, Zenon DEF px, tick, near, nearest, asked, signed, result, den, v
<1>3. InputType => SlippageAggressive
  BY <1>2, Zenon DEF SlippageAggressive
<1> QED
  BY <1>3, InputTyped, PTL

(***************************************************************************)
(* Texts read back.                                                        *)
(***************************************************************************)
\* The first n digits d are read from the left, one after the other.
ReadInTurn(base, d, n) ==
  \E f \in [0 .. n -> Nat] :
    /\ f[0] = 0 /\ InBase(base, d) = f[n]
    /\ \A i \in 1 .. n : f[i] = base * f[i - 1] + d[i]

\* InBase reads its digits so.
LEMMA Positional ==
  ASSUME NEW base \in Nat, NEW n \in Nat, NEW d \in [1 .. n -> Nat], Len(d) = n
  PROVE  ReadInTurn(base, d, n)
<1> DEFINE F == [x \in Nat \X [Nat -> Nat] |->
                   IF x[1] \in 1 .. n THEN base * x[2][x[1] - 1] + d[x[1]] ELSE 0]
<1>1. F \in [Nat \X [Nat -> Nat] -> Nat]
  <2> SUFFICES ASSUME NEW m \in Nat, NEW g \in [Nat -> Nat]
               PROVE  (IF m \in 1 .. n THEN base * g[m - 1] + d[m] ELSE 0) \in Nat
    OBVIOUS
  <2>1. CASE m \in 1 .. n
    <3>1. m - 1 \in Nat /\ d[m] \in Nat
      BY <2>1
    <3>2. g[m - 1] \in Nat
      BY <3>1
    <3> DEFINE x == g[m - 1]
               y == d[m]
    <3>3. x \in Nat /\ y \in Nat
      BY <3>1, <3>2
    <3> HIDE DEF x, y
    <3>4. base * x \in Nat
      BY <3>3, NonNeg
    <3>5. base * x + y \in Nat
      <4> DEFINE z == base * x
      <4> HIDE DEF z
      <4>1. z \in Nat => z + y \in Nat
        BY <3>3
      <4> QED
        BY <3>4, <4>1 DEF z
    <3> QED
      BY <2>1, <3>5 DEF x, y
  <2> QED
    BY <2>1
<1>2. \A m \in Nat : \A g \in [Nat -> Nat] :
        F[<<m, g>>] = IF m \in 1 .. n THEN base * g[m - 1] + d[m] ELSE 0
  OBVIOUS
<1> HIDE DEF F
<1>3. \A m \in Nat : \A g, h \in [Nat -> Nat] :
        (\A i \in 0 .. m - 1 : g[i] = h[i]) => F[<<m, g>>] = F[<<m, h>>]
  <2> SUFFICES ASSUME NEW m \in Nat, NEW g \in [Nat -> Nat], NEW h \in [Nat -> Nat],
                      \A i \in 0 .. m - 1 : g[i] = h[i]
               PROVE  F[<<m, g>>] = F[<<m, h>>]
    BY Zenon
  <2>1. CASE m \in 1 .. n
    <3>1. m - 1 \in 0 .. m - 1
      BY <2>1
    <3>2. g[m - 1] = h[m - 1]
      BY <3>1
    <3> QED
      BY <1>2, <2>1, <3>2, Zenon
  <2>2. CASE m \notin 1 .. n
    BY <1>2, <2>2, Zenon
  <2> QED
    BY <2>1, <2>2
<1>4. PICK f \in [Nat -> Nat] : \A m \in Nat : f[m] = F[<<m, f>>]
  <2>1. 0 \in Nat
    OBVIOUS
  <2>2. StepOver(Nat, F)
    BY <1>1, <1>3 DEF StepOver
  <2>3. HasSolution(Nat, F)
    BY <2>1, <2>2, Recursion, Zenon
  <2> QED
    BY <2>3 DEF HasSolution
<1>5. \A m \in Nat : f[m] = IF m \in 1 .. n THEN base * f[m - 1] + d[m] ELSE 0
  BY <1>2, <1>4
<1> DEFINE Is(g) == g = [m \in 0 .. n |-> IF m = 0 THEN 0 ELSE base * g[m - 1] + d[m]]
           p == CHOOSE g : Is(g)
<1>6. Is([m \in 0 .. n |-> f[m]])
  <2> DEFINE g == [m \in 0 .. n |-> f[m]]
  <2>1. \A m \in 0 .. n : g[m] = IF m = 0 THEN 0 ELSE base * g[m - 1] + d[m]
    BY <1>5
  <2> HIDE DEF g
  <2>2. g = [m \in 0 .. n |-> g[m]]
    BY DEF g
  <2> QED
    BY <2>1, <2>2 DEF g
<1>7. Is(p)
  BY <1>6, Zenon
<1>8. InBase(base, d) = p[n]
  BY DEF InBase
<1> HIDE DEF p
<1>9. \A m \in 0 .. n : p[m] = IF m = 0 THEN 0 ELSE base * p[m - 1] + d[m]
  BY <1>7
<1> DEFINE E == {m \in Nat : m =< n => p[m] = f[m]}
<1>10. ASSUME NEW m \in Nat, \A k \in 0 .. m - 1 : k \in E
       PROVE  m \in E
  <2> SUFFICES ASSUME m =< n
               PROVE  p[m] = f[m]
    OBVIOUS
  <2>1. CASE m = 0
    BY <1>5, <1>9, <2>1
  <2>2. CASE m # 0
    <3>1. m - 1 \in 0 .. m - 1 /\ m - 1 =< n /\ m \in 1 .. n /\ m \in 0 .. n
      BY <2>2
    <3>2. m - 1 \in E
      <4> HIDE DEF E
      <4> QED
        BY <1>10, <3>1
    <3> QED
      BY <1>5, <1>9, <2>2, <3>1, <3>2
  <2> QED
    BY <2>1, <2>2
<1>11. Nat \subseteq E
  <2> HIDE DEF E
  <2> QED
    BY <1>10, Induction
<1>12. \A m \in 0 .. n : p[m] = f[m]
  BY <1>11
<1>13. p \in [0 .. n -> Nat]
  <2>1. \A m \in 0 .. n : m \in Nat
    OBVIOUS
  <2>2. \A m \in 0 .. n : p[m] \in Nat
    BY <1>12, <2>1
  <2>3. DOMAIN p = 0 .. n /\ p = [m \in DOMAIN p |-> p[m]]
    BY <1>7
  <2> QED
    BY <2>2, <2>3
<1>14. p[0] = 0 /\ \A i \in 1 .. n : p[i] = base * p[i - 1] + d[i]
  <2>1. 0 \in 0 .. n /\ \A i \in 1 .. n : i \in 0 .. n /\ i # 0
    OBVIOUS
  <2> QED
    BY <1>9, <2>1, Zenon
<1> QED
  BY <1>8, <1>13, <1>14, Zenon DEF ReadInTurn

\* And so does ValueOf.
LEMMA Horner ==
  ASSUME NEW d, NEW n \in Nat, d \in [1 .. n -> Nat], Len(d) = n
  PROVE  \E f \in [0 .. n -> Nat] :
           /\ f[0] = 0 /\ ValueOf(d) = f[n]
           /\ \A i \in 1 .. n : f[i] = 10 * f[i - 1] + d[i]
<1>1. ReadInTurn(10, d, n)
  BY Positional
<1> QED
  BY <1>1, Zenon DEF ReadInTurn, ValueOf

\* The digits of a number are read back as the number.
LEMMA ReadBack ==
  ASSUME NEW v \in Nat, NEW n \in Nat, v < pow10[n], NEW d,
         d = [i \in 1 .. n |-> Digit(v, n - i)]
  PROVE  ValueOf(d) = v
<1>1. \A i \in 1 .. n : n - i \in Nat /\ Digit(v, n - i) \in 0 .. 9
  BY DigitType
<1>2. d \in [1 .. n -> Nat] /\ Len(d) = n
  BY <1>1
<1>3. PICK f \in [0 .. n -> Nat] : 
         /\ f[0] = 0 /\ ValueOf(d) = f[n]
         /\ \A i \in 1 .. n : f[i] = 10 * f[i - 1] + d[i]
  BY <1>2, Horner
<1> DEFINE E == {m \in Nat : m =< n => f[m] = v \div pow10[n - m]}
<1>4. ASSUME NEW m \in Nat, \A k \in 0 .. m - 1 : k \in E
      PROVE  m \in E
  <2> SUFFICES ASSUME m =< n
               PROVE  f[m] = v \div pow10[n - m]
    OBVIOUS
  <2>1. CASE m = 0
    <3>1. n - m = n /\ pow10[n] \in Nat \ {0}
      BY <2>1, Powers
    <3> QED
      BY <1>3, <2>1, <3>1, SmallDiv
  <2>2. CASE m # 0
    <3>1. m - 1 \in E /\ m - 1 =< n /\ m \in 1 .. n
      BY <1>4, <2>2
    <3> DEFINE k == n - m
    <3>2. k \in Nat /\ n - (m - 1) = k + 1
      BY <3>1
    <3>3. f[m - 1] = v \div pow10[k + 1]
      BY <3>1, <3>2
    <3>4. f[m] = 10 * f[m - 1] + Digit(v, k)
      BY <1>3, <3>1
    <3>5. v \div pow10[k] = 10 * (v \div pow10[k + 1]) + Digit(v, k)
      BY <3>2, DigitStep
    <3> QED
      BY <3>3, <3>4, <3>5
  <2> QED
    BY <2>1, <2>2
<1>5. Nat \subseteq E
  <2> HIDE DEF E
  <2> QED
    BY <1>4, Induction
<1>6. f[n] = v \div pow10[0]
  <2>1. n \in E /\ n - n = 0
    BY <1>5
  <2> QED
    BY <2>1
<1>7. v \div pow10[0] = v
  <2>1. v = 1 * v + 0
    OBVIOUS
  <2>2. v \div 1 = v
    BY <2>1, DivUnique
  <2> QED
    BY <2>2, Powers
<1> QED
  BY <1>3, <1>6, <1>7

\* The value of digits has those digits and no other.
LEMMA ReadDigits ==
  ASSUME NEW d, NEW n \in Nat, d \in [1 .. n -> 0 .. 9], Len(d) = n
  PROVE  /\ ValueOf(d) \in Nat /\ ValueOf(d) < pow10[n]
         /\ \A i \in 1 .. n : d[i] = Digit(ValueOf(d), n - i)
<1>1. d \in [1 .. n -> Nat]
  OBVIOUS
<1>2. PICK f \in [0 .. n -> Nat] : 
         /\ f[0] = 0 /\ ValueOf(d) = f[n]
         /\ \A i \in 1 .. n : f[i] = 10 * f[i - 1] + d[i]
  BY <1>1, Horner
<1> DEFINE v == ValueOf(d)
           E == {k \in Nat : k =< n => v \div pow10[k] = f[n - k]}
<1>3. v \in Nat
  BY <1>2
<1> HIDE DEF v
<1>4. \A k \in Nat : v \div pow10[k] \in Nat
                     /\ v \div pow10[k] = 10 * (v \div pow10[k + 1]) + Digit(v, k)
                     /\ Digit(v, k) \in 0 .. 9
  BY <1>3, DigitType, DigitStep
<1>5. ASSUME NEW k \in Nat, \A m \in 0 .. k - 1 : m \in E
      PROVE  k \in E
  <2> SUFFICES ASSUME k =< n
               PROVE  v \div pow10[k] = f[n - k]
    OBVIOUS
  <2>1. CASE k = 0
    <3>1. v = 1 * v + 0 /\ n - k = n
      BY <1>3, <2>1
    <3>2. v \div 1 = v
      BY <1>3, <3>1, DivUnique
    <3> QED
      BY <1>2, <2>1, <3>1, <3>2, Powers DEF v
  <2>2. CASE k # 0
    <3> DEFINE m == k - 1
               i == n - m
               q == v \div pow10[m]
               s == v \div pow10[k]
    <3>1. m \in E /\ m \in Nat /\ m =< n /\ i \in 1 .. n /\ i - 1 = n - k /\ m + 1 = k
          /\ k \in Nat
      BY <1>5, <2>2
    <3>2. q = f[i]
      BY <3>1
    <3>3. f[i] = 10 * f[i - 1] + d[i] /\ d[i] \in 0 .. 9 /\ f[i - 1] \in Nat
      BY <1>2, <3>1
    <3>4. q = 10 * s + Digit(v, m) /\ Digit(v, m) \in 0 .. 9 /\ s \in Nat
      BY <1>4, <3>1
    <3> HIDE DEF q, s, m, i
    <3>5. s = f[i - 1]
      <4> DEFINE x == f[i - 1]
                 y == d[i]
                 z == Digit(v, m)
      <4>1. 10 * x + y = 10 * s + z /\ x \in Nat /\ s \in Nat /\ y \in 0 .. 9 /\ z \in 0 .. 9
        BY <3>2, <3>3, <3>4
      <4> HIDE DEF x, y, z
      <4>2. s = x
        BY <4>1
      <4> QED
        BY <4>2 DEF x
    <3> QED
      BY <3>1, <3>5 DEF s
  <2> QED
    BY <2>1, <2>2
<1>6. Nat \subseteq E
  <2> HIDE DEF E
  <2> QED
    BY <1>5, Induction
<1>7. \A k \in 0 .. n : v \div pow10[k] = f[n - k]
  BY <1>6
<1>8. v < pow10[n]
  <2>1. v \div pow10[n] = f[0] /\ pow10[n] \in Nat \ {0}
    BY <1>7, Powers
  <2> QED
    BY <1>2, <1>3, <2>1, SmallDiv
<1>9. ASSUME NEW i \in 1 .. n
      PROVE  d[i] = Digit(v, n - i)
  <2> DEFINE k == n - i
             q == v \div pow10[k]
             s == v \div pow10[k + 1]
  <2>1. k \in Nat /\ k \in 0 .. n /\ k + 1 \in 0 .. n /\ n - k = i /\ n - (k + 1) = i - 1
    OBVIOUS
  <2>2. q = f[i] /\ s = f[i - 1]
    BY <1>7, <2>1
  <2>3. f[i] = 10 * f[i - 1] + d[i] /\ f[i - 1] \in Nat /\ d[i] \in 0 .. 9
    BY <1>2
  <2>4. q = 10 * s + Digit(v, k) /\ Digit(v, k) \in 0 .. 9
    BY <1>4, <2>1
  <2> HIDE DEF q, s, k
  <2> DEFINE x == f[i - 1]
             y == d[i]
             z == Digit(v, k)
  <2>5. 10 * x + y = 10 * x + z /\ x \in Nat /\ y \in 0 .. 9 /\ z \in 0 .. 9
    BY <2>2, <2>3, <2>4
  <2> HIDE DEF x, y, z
  <2>6. y = z
    BY <2>5
  <2> QED
    BY <2>6 DEF k, y, z
<1> QED
  BY <1>3, <1>8, <1>9 DEF v

\* The digits of the remainder by a power of ten are the lowest digits.
LEMMA LowDigits ==
  ASSUME NEW v \in Nat, NEW n \in Nat
  PROVE  /\ v % pow10[n] \in Nat /\ v % pow10[n] < pow10[n]
         /\ \A k \in 0 .. n - 1 : Digit(v % pow10[n], k) = Digit(v, k)
<1> DEFINE p == pow10[n]
           r == v % p
           q == v \div p
<1>1. p \in Nat \ {0}
  BY Powers
<1>2. q \in Nat /\ r \in 0 .. p - 1 /\ v = p * q + r
  BY <1>1, DivMod
<1> HIDE DEF p, q, r
<1>3. r \in Nat /\ r < p
  BY <1>1, <1>2
<1>4. v = r + q * p
  BY <1>1, <1>2, <1>3, Assoc
<1>5. ASSUME NEW k \in 0 .. n - 1
      PROVE  Digit(r, k) = Digit(v, k)
  <2>1. Digit(r + q * pow10[n], k) = Digit(r, k)
    BY <1>2, <1>3, DigitPlus
  <2> QED
    BY <1>4, <2>1 DEF p
<1> QED
  BY <1>3, <1>5 DEF r, p

\* The highest of the digits of a number is not zero.
LEMMA FirstDigit ==
  ASSUME NEW w \in Nat \ {0}
  PROVE  Places(w) \in Nat \ {0} /\ Digit(w, Places(w) - 1) # 0
<1> DEFINE L == Places(w)
           p == pow10[L - 1]
<1>1. L \in Nat \ {0} /\ w < pow10[L] /\ L = countDigits[w]
  BY PlacesType DEF Places
<1>2. L - 1 \in Nat /\ (L - 1) + 1 = L
  BY <1>1
<1>3. ~ (w < p)
  BY <1>1, <1>2, CountBelow
<1>4. (w < pow10[L - 1]) <=> \A k \in L - 1 .. ((L - 1) + 1) - 1 : Digit(w, k) = 0
  BY <1>1, <1>2, LeadingDigits
<1> HIDE DEF L
<1>5. \A k \in L - 1 .. ((L - 1) + 1) - 1 : k = L - 1
  BY <1>2
<1> QED
  BY <1>1, <1>3, <1>4, <1>5 DEF L

\* The places that are looked at: those of the text, then zeros.
LEMMA Padded ==
  ASSUME NEW s, s \in Seq(Nat)
  PROVE  SubSeq(s \o Zeros(FixedDecimals), 1, FixedDecimals) =
           [i \in 1 .. FixedDecimals |-> IF i =< Len(s) THEN s[i] ELSE 0]
<1> DEFINE n == FixedDecimals
           z == Zeros(n)
           t == s \o z
           e == SubSeq(t, 1, n)
<1>1. n \in Nat /\ Len(s) \in Nat
  BY Constants
<1> HIDE DEF n
<1>2. z \in [1 .. n -> Nat] /\ z \in Seq(Nat) /\ Len(z) = n /\ \A i \in 1 .. n : z[i] = 0
  BY <1>1 DEF Zeros
<1> HIDE DEF z
<1>3. /\ t \in Seq(Nat) /\ Len(t) = Len(s) + n
      /\ \A i \in 1 .. Len(s) + n : t[i] = IF i =< Len(s) THEN s[i] ELSE z[i - Len(s)]
  BY <1>1, <1>2, ConcatProperties
<1> HIDE DEF t
<1>4. \A i \in 1 .. n : t[i] \in Nat /\ t[i] = IF i =< Len(s) THEN s[i] ELSE 0
  <2> TAKE i \in 1 .. n
  <2>1. i \in 1 .. Len(s) + n /\ (~ (i =< Len(s)) => i - Len(s) \in 1 .. n)
    BY <1>1
  <2>2. t[i] = IF i =< Len(s) THEN s[i] ELSE 0
    BY <1>2, <1>3, <2>1
  <2>3. t[i] \in Nat
    BY <1>3, <2>1
  <2> QED
    BY <2>2, <2>3
<1>5. e \in Seq(Nat) /\ Len(e) = n /\ \A i \in 1 .. n : e[i] = t[i]
  <2>1. /\ e \in Seq(Nat) /\ Len(e) = (IF 1 =< n THEN n - 1 + 1 ELSE 0)
        /\ \A i \in 1 .. n - 1 + 1 : e[i] = t[1 + i - 1]
    <3>1. 1 \in Int /\ n \in Int
      BY <1>1
    <3>2. \A i \in 1 .. n : t[i] \in Nat
      BY <1>4
    <3> QED
      BY <3>1, <3>2, SubSeqProperties
  <2>2. \A i \in 1 .. n : 1 + i - 1 = i /\ i \in 1 .. n - 1 + 1
    BY <1>1
  <2> HIDE DEF e
  <2>3. Len(e) = n
    BY <1>1, <2>1
  <2> QED
    BY <2>1, <2>2, <2>3
<1> HIDE DEF e
<1>6. e = [i \in 1 .. n |-> e[i]]
  BY <1>1, <1>5
<1>7. e = [i \in 1 .. n |-> IF i =< Len(s) THEN s[i] ELSE 0]
  BY <1>4, <1>5, <1>6
<1> QED
  BY <1>7 DEF e, t, z, n

\* What is left of a range check in two parts.
LEMMA RangeParts ==
  ASSUME NEW b \in Nat \ {0}, NEW m \in Nat, NEW q \in Nat, NEW r \in 0 .. b - 1
  PROVE  (b * q + r =< m) <=> /\ q =< m \div b
                              /\ ~ (q = m \div b /\ r > m % b)
<1> DEFINE x == m \div b
           y == m % b
           bx == b * x
           bq == b * q
<1>1. x \in Nat /\ y \in 0 .. b - 1 /\ m = bx + y
  BY DivMod
<1> HIDE DEF x, y
<1>2. bx \in Nat /\ bq \in Nat
  BY <1>1, NonNeg
<1>3. q < x => bx >= bq + b
  BY <1>1, NextMultiple
<1>4. x < q => bq >= bx + b
  BY <1>1, NextMultiple
<1>5. q = x => bq = bx
  OBVIOUS
<1> HIDE DEF bx, bq
<1>6. q < x \/ x < q \/ q = x
  BY <1>1
<1>7. (bq + r =< m) <=> q =< x /\ ~ (q = x /\ r > y)
  BY <1>1, <1>2, <1>3, <1>4, <1>5, <1>6
<1> QED
  BY <1>7 DEF bq, x, y

\* The two parts AppendWire writes are read back.
LEMMA PartsRead ==
  ASSUME NEW f \in Int
  PROVE  /\ ValueOf(AppendWire(f).int) = AbsOf(f) \div Scale
         /\ FracPart(AppendWire(f).frac) = AbsOf(f) % Scale
<1> DEFINE v == AbsOf(f)
           w == v \div Scale
           r == v % Scale
           FD == FixedDecimals
           L == Places(w)
           int == AppendWire(f).int
           frac == AppendWire(f).frac
           U == Len(frac)
<1>1. /\ v \in Nat /\ L \in Nat \ {0} /\ v < pow10[FD + L]
      /\ int = [i \in 1 .. L |-> Digit(v, FD + (L - i))]
      /\ U \in 0 .. FD
      /\ frac = [i \in 1 .. U |-> Digit(v, FD - i)]
      /\ \A k \in 0 .. FD - U - 1 : Digit(v, k) = 0
  BY WireText, Zenon
<1> HIDE DEF v, int, frac, U
<1>2. FD \in Nat \ {0} /\ Scale = pow10[FD] /\ w \in Nat
  BY <1>1, Constants, DivMod
<1>3. w < pow10[L]
  BY <1>2, PlacesType
<1> HIDE DEF L
<1>4. int = [i \in 1 .. L |-> Digit(w, L - i)]
  <2>1. \A i \in 1 .. L : L - i \in Nat
    BY <1>1
  <2>2. \A i \in 1 .. L : Digit(w, L - i) = Digit(v, FD + (L - i))
    BY <1>1, <2>1, IntDigits
  <2> QED
    BY <1>1, <2>2
<1>5. ValueOf(int) = w
  <2> HIDE DEF w
  <2> QED
    BY <1>1, <1>2, <1>3, <1>4, ReadBack
<1>6. /\ r \in Nat /\ r < pow10[FD]
      /\ \A k \in 0 .. FD - 1 : Digit(r, k) = Digit(v, k)
  <2>1. FD \in Nat
    BY <1>2
  <2> QED
    BY <1>1, <1>2, <2>1, LowDigits
<1> HIDE DEF w, r
<1>7. frac \in Seq(Nat) /\ U = Len(frac) /\ U \in Nat
  <2>1. \A i \in 1 .. U : FD - i \in Nat
    BY <1>1, <1>2
  <2>2. \A i \in 1 .. U : Digit(v, FD - i) \in Nat
    <3>1. \A k \in Nat : Digit(v, k) \in 0 .. 9
      BY <1>1, DigitType
    <3>2. \A k \in Nat : Digit(v, k) \in Nat
      BY <3>1
    <3> QED
      BY <2>1, <3>2
  <2>3. U \in Nat
    BY <1>1, <1>2
  <2>4. frac \in [1 .. U -> Nat]
    BY <1>1, <2>2
  <2> QED
    BY <2>3, <2>4 DEF U
<1> DEFINE e == SubSeq(frac \o Zeros(FixedDecimals), 1, FixedDecimals)
<1>8. e = [i \in 1 .. FD |-> IF i =< U THEN frac[i] ELSE 0]
  BY <1>7, Padded, Zenon
<1>9. \A i \in 1 .. FD : (IF i =< U THEN frac[i] ELSE 0) = Digit(r, FD - i)
  <2> TAKE i \in 1 .. FD
  <2>1. FD - i \in 0 .. FD - 1
    BY <1>2
  <2>2. Digit(r, FD - i) = Digit(v, FD - i)
    BY <1>6, <2>1
  <2>3. CASE i =< U
    <3>1. i \in 1 .. U
      BY <2>3, <1>7
    <3> QED
      BY <1>1, <2>2, <2>3, <3>1
  <2>4. CASE ~ (i =< U)
    <3>1. FD - i \in 0 .. FD - U - 1
      BY <1>2, <1>7, <2>4
    <3> QED
      BY <1>1, <2>2, <2>4, <3>1
  <2> QED
    BY <2>3, <2>4
<1>10. e = [i \in 1 .. FD |-> Digit(r, FD - i)]
  BY <1>8, <1>9
<1>11. ValueOf(e) = r
  <2> HIDE DEF e
  <2>1. FD \in Nat
    BY <1>2
  <2> QED
    BY <1>6, <1>10, <2>1, ReadBack
<1>12. FracPart(frac) = r
  BY <1>11, Zenon DEF FracPart
<1> QED
  BY <1>5, <1>12 DEF w, r, v, int, frac

\* The digits AppendWire writes are digits, one of them not zero unless the
\* number is.
LEMMA WrittenDigits ==
  ASSUME NEW f \in Int
  PROVE  LET int == AppendWire(f).int
             frac == AppendWire(f).frac
         IN /\ int \in Seq(0 .. 9) /\ frac \in Seq(0 .. 9)
            /\ Len(int) \in Nat \ {0} /\ Len(frac) \in 0 .. FixedDecimals
            /\ AppendWire(f).dot = (frac # <<>>)
            /\ frac # <<>> => frac[Len(frac)] # 0
            /\ AbsOf(f) \div Scale # 0 => int[1] # 0
            /\ AbsOf(f) \div Scale = 0 => Len(int) = 1
            /\ frac = <<>> => AbsOf(f) % Scale = 0
<1> DEFINE v == AbsOf(f)
           w == v \div Scale
           r == v % Scale
           FD == FixedDecimals
           L == Places(w)
           int == AppendWire(f).int
           frac == AppendWire(f).frac
           dot == AppendWire(f).dot
           U == Len(frac)
<1>1. /\ v \in Nat /\ L \in Nat \ {0}
      /\ dot = (r # 0)
      /\ int = [i \in 1 .. L |-> Digit(v, FD + (L - i))]
      /\ U \in 0 .. FD
      /\ frac = [i \in 1 .. U |-> Digit(v, FD - i)]
      /\ (U = 0) <=> (r = 0)
      /\ U # 0 => Digit(v, FD - U) # 0
  BY WireText, Zenon
<1> HIDE DEF v, int, frac, U, dot
<1>2. FD \in Nat \ {0} /\ w \in Nat /\ U \in Nat
  <2>1. w \in Nat
    BY <1>1, Constants, DivMod
  <2>2. FD \in Nat \ {0} /\ U \in Nat
    BY <1>1, Constants
  <2> QED
    BY <2>1, <2>2
<1>3. \A k \in Nat : Digit(v, k) \in 0 .. 9
  BY <1>1, DigitType
<1>4. w # 0 => Digit(w, L - 1) # 0
  BY <1>2, FirstDigit
<1>5. w = 0 => L = 1
  BY DEF Places
<1>6. \A k \in Nat : Digit(w, k) = Digit(v, FD + k)
  BY <1>1, IntDigits
<1> HIDE DEF w, L, r
<1>7. int \in [1 .. L -> 0 .. 9]
  <2>1. \A i \in 1 .. L : FD + (L - i) \in Nat
    BY <1>1, <1>2
  <2> QED
    BY <1>1, <1>3, <2>1
<1>8. frac \in [1 .. U -> 0 .. 9]
  <2>1. \A i \in 1 .. U : FD - i \in Nat
    BY <1>1, <1>2
  <2> QED
    BY <1>1, <1>3, <2>1
<1>9. int \in Seq(0 .. 9) /\ Len(int) = L /\ frac \in Seq(0 .. 9) /\ Len(frac) = U
  <2>1. L \in Nat
    BY <1>1
  <2>2. int \in Seq(0 .. 9) /\ Len(int) = L
    BY <1>7, <2>1
  <2>3. frac \in Seq(0 .. 9)
    BY <1>2, <1>8
  <2> QED
    BY <2>2, <2>3 DEF U
<1>10. (frac = <<>>) <=> U = 0
  BY <1>2, <1>9
<1>11. U # 0 => frac[U] # 0
  <2> SUFFICES ASSUME U # 0
               PROVE  frac[U] # 0
    OBVIOUS
  <2>1. U \in 1 .. U
    BY <1>2
  <2> QED
    BY <1>1, <2>1
<1>12. w # 0 => int[1] # 0
  <2> SUFFICES ASSUME w # 0
               PROVE  int[1] # 0
    OBVIOUS
  <2>1. 1 \in 1 .. L /\ L - 1 \in Nat
    BY <1>1
  <2>2. int[1] = Digit(v, FD + (L - 1))
    BY <1>1, <2>1
  <2> QED
    BY <1>4, <1>6, <2>1, <2>2
<1>13. dot = (frac # <<>>)
  <2>1. (frac # <<>>) = (r # 0)
    BY <1>1, <1>10
  <2> QED
    BY <1>1, <2>1
<1>14. /\ Len(int) \in Nat \ {0} /\ Len(frac) \in 0 .. FD
       /\ frac # <<>> => frac[Len(frac)] # 0
       /\ w = 0 => Len(int) = 1
       /\ frac = <<>> => r = 0
  BY <1>1, <1>5, <1>9, <1>10, <1>11
<1> QED
  BY <1>9, <1>12, <1>13, <1>14 DEF v, w, r, int, frac, dot

\* What AppendWire writes of a number has no superfluous zero,
LEMMA WrittenCanonical ==
  ASSUME NEW f \in Int
  PROVE  Canonical(AppendWire(f))
<1> DEFINE v == AbsOf(f)
           text == AppendWire(f)
           int == text.int
           frac == text.frac
           all == int \o frac
<1>1. /\ int \in Seq(0 .. 9) /\ frac \in Seq(0 .. 9)
      /\ Len(int) \in Nat \ {0} /\ Len(frac) \in 0 .. FixedDecimals
      /\ text.dot = (frac # <<>>)
      /\ frac # <<>> => frac[Len(frac)] # 0
      /\ v \div Scale # 0 => int[1] # 0
      /\ v \div Scale = 0 => Len(int) = 1
      /\ frac = <<>> => v % Scale = 0
  BY WrittenDigits, Zenon
<1>2. v \in Nat /\ text.sign = SignOf(f)
  BY WireText, Zenon
<1> HIDE DEF v, text, int, frac, all
<1>3. frac # <<>> => Last(frac) # 0
  BY <1>1 DEF Last
<1>4. Len(int) > 1 => Head(int) # 0
  <2> DEFINE n == Len(int)
             zero == v \div Scale = 0
  <2>1. int # <<>> /\ n \in Nat \ {0}
    BY <1>1
  <2>2. Head(int) = int[1]
    BY <1>1, <2>1
  <2>3. zero => n = 1
    BY <1>1
  <2>4. ~ zero => int[1] # 0
    BY <1>1
  <2> HIDE DEF n, zero
  <2>5. n > 1 => Head(int) # 0
    BY <2>1, <2>2, <2>3, <2>4
  <2> QED
    BY <2>5 DEF n
<1>5. text.sign = "-" => ToSet(all) # {0}
  <2> SUFFICES ASSUME text.sign = "-"
               PROVE  ToSet(all) # {0}
    OBVIOUS
  <2>1. f < 0
    BY <1>2, Zenon DEF SignOf
  <2>2. v # 0
    BY <2>1 DEF v, AbsOf
  <2>3. /\ all \in Seq(0 .. 9) /\ Len(all) = Len(int) + Len(frac)
        /\ \A i \in 1 .. Len(int) + Len(frac) :
             all[i] = IF i =< Len(int) THEN int[i] ELSE frac[i - Len(int)]
    BY <1>1, ConcatProperties DEF all
  <2>4. \E i \in 1 .. Len(int) + Len(frac) : all[i] # 0
    <3>1. CASE frac # <<>>
      <4> DEFINE n == Len(int) + Len(frac)
      <4>1. Len(frac) # 0
        BY <1>1, <3>1
      <4>2. n \in 1 .. Len(int) + Len(frac) /\ ~ (n =< Len(int)) /\ n - Len(int) = Len(frac)
        BY <1>1, <4>1
      <4>3. all[n] = frac[Len(frac)]
        BY <2>3, <4>2
      <4> QED
        BY <1>1, <3>1, <4>2, <4>3
    <3>2. CASE frac = <<>>
      <4>1. v \div Scale # 0
        <5>1. v = Scale * (v \div Scale) + (v % Scale) /\ Scale \in Nat
          BY <1>2, Constants, DivMod
        <5> QED
          BY <1>1, <2>2, <3>2, <5>1
      <4>2. 1 \in 1 .. Len(int) + Len(frac) /\ 1 =< Len(int)
        BY <1>1
      <4> QED
        BY <1>1, <2>3, <4>1, <4>2
    <3> QED
      BY <3>1, <3>2
  <2>5. \E i \in DOMAIN all : all[i] # 0
    BY <2>3, <2>4
  <2> QED
    BY <2>5 DEF ToSet
<1>6. text.sign # "+"
  BY <1>2, Zenon DEF SignOf
<1>7. Canonical(text)
  BY <1>1, <1>3, <1>4, <1>5, <1>6 DEF Canonical, int, frac, all
<1> QED
  BY <1>7 DEF text

\* A text of digits, joined.
LEMMA JoinedDigits ==
  ASSUME NEW S, NEW s \in Seq(S), NEW t \in Seq(S)
  PROVE  /\ (s \o t = <<>>) <=> (s = <<>> /\ t = <<>>)
         /\ ToSet(s \o t) = ToSet(s) \cup ToSet(t)
         /\ ToSet(s \o t) \subseteq S
<1>1. /\ s \o t \in Seq(S) /\ Len(s \o t) = Len(s) + Len(t)
      /\ \A i \in 1 .. Len(s) + Len(t) :
           (s \o t)[i] = IF i =< Len(s) THEN s[i] ELSE t[i - Len(s)]
  BY ConcatProperties
<1>2. IsSeq(s) /\ IsSeq(t)
  BY OwnSeq
<1>3. ToSet(s \o t) = ToSet(s) \cup ToSet(t)
  BY <1>2, FieldsJoined
<1>4. ToSet(s \o t) \subseteq S
  BY <1>1, OwnSeq
<1>5. Len(s) \in Nat /\ Len(t) \in Nat
  OBVIOUS
<1> DEFINE u == s \o t
<1>6. u \in Seq(S) /\ Len(u) = Len(s) + Len(t)
  BY <1>1
<1> HIDE DEF u
<1>7. (u = <<>>) <=> (s = <<>> /\ t = <<>>)
  BY <1>5, <1>6
<1> QED
  BY <1>3, <1>4, <1>7 DEF u

\* and is read back as that number.
LEMMA WrittenRead ==
  ASSUME NEW f \in Int, AbsOf(f) =< MaxInt
  PROVE  parseFixed(AppendWire(f), TRUE) = Done(f)
<1> DEFINE v == AbsOf(f)
           text == AppendWire(f)
           int == text.int
           frac == text.frac
           dropped == SubSeq(frac, FixedDecimals + 1, Len(frac))
           q == v \div Scale
           r == v % Scale
<1>1. /\ int \in Seq(0 .. 9) /\ frac \in Seq(0 .. 9)
      /\ Len(int) \in Nat \ {0} /\ Len(frac) \in 0 .. FixedDecimals
  BY WrittenDigits, Zenon
<1>2. v \in Nat /\ text.sign = SignOf(f)
  BY WireText, Zenon
<1>3. ValueOf(int) = q /\ FracPart(frac) = r
  BY PartsRead
<1>4. v =< MaxInt
  OBVIOUS
<1> HIDE DEF int, frac
<1>5. int \o frac # <<>>
  <2>1. int # <<>>
    BY <1>1
  <2> QED
    BY <1>1, <2>1, JoinedDigits
<1>6. \A d \in ToSet(int \o frac) : d =< 9
  BY <1>1, JoinedDigits
<1>7. dropped = <<>>
  <2>1. FixedDecimals + 1 \in Int /\ Len(frac) \in Int /\ Len(frac) < FixedDecimals + 1
    BY <1>1, Constants
  <2> QED
    BY <2>1, SubSeqEmpty
<1> HIDE DEF dropped
<1>8. ToSet(dropped) \subseteq {0}
  BY <1>7 DEF ToSet
<1> HIDE DEF v
<1>9. q \in Nat /\ r \in 0 .. Scale - 1 /\ v = Scale * q + r
  BY <1>2, Constants, DivMod
<1> HIDE DEF q, r, text
<1>10. q =< fixedMaxIntPart /\ ~ (q = fixedMaxIntPart /\ r > MaxInt % Scale)
  <2>1. Scale * q + r =< MaxInt
    BY <1>4, <1>9
  <2> QED
    BY <1>9, <2>1, RangeParts, Constants DEF fixedMaxIntPart
<1>11. v = q * Scale + r
  BY <1>9, Constants, Assoc
<1>12. (IF text.sign = "-" THEN -v ELSE v) = f
  <2>1. (text.sign = "-") <=> f < 0
    <3>1. CASE f < 0
      BY <1>2, <3>1, Zenon DEF SignOf
    <3>2. CASE ~ (f < 0)
      BY <1>2, <3>2, Zenon DEF SignOf
    <3> QED
      BY <3>1, <3>2
  <2>2. v = (IF f < 0 THEN -f ELSE f)
    BY DEF v, AbsOf
  <2> HIDE DEF v
  <2>3. -(-f) = f
    OBVIOUS
  <2> QED
    BY <2>1, <2>2, <2>3
<1>13. parseFixed(text, TRUE) = Done(IF text.sign = "-" THEN -v ELSE v)
  BY <1>3, <1>5, <1>6, <1>8, <1>10, <1>11, Zenon DEF parseFixed, int, frac, dropped
<1> QED
  BY <1>12, <1>13 DEF text

(***************************************************************************)
(* Texts of any digits.                                                    *)
(***************************************************************************)
\* The digits of a number divided by a power of ten.
LEMMA Divided ==
  ASSUME NEW v \in Nat, NEW n \in Nat, NEW k \in Nat
  PROVE  v \div pow10[n] \in Nat /\ Digit(v \div pow10[n], k) = Digit(v, n + k)
<1>1. pow10[n] \in Nat \ {0} /\ pow10[k] \in Nat \ {0}
  BY Powers
<1>2. pow10[n + k] = pow10[n] * pow10[k]
  BY PowerSum
<1>3. (v \div pow10[n]) \div pow10[k] = v \div (pow10[n] * pow10[k])
  BY <1>1, DivDiv
<1>4. v \div pow10[n] \in Nat
  BY <1>1, DivMod
<1> QED
  BY <1>2, <1>3, <1>4 DEF Digit

\* Digits in front of a power of ten.
LEMMA Shifted ==
  ASSUME NEW v \in Nat, NEW n \in Nat, NEW k \in Nat
  PROVE  /\ v * pow10[n] \in Nat
         /\ k < n => Digit(v * pow10[n], k) = 0
         /\ k >= n => Digit(v * pow10[n], k) = Digit(v, k - n)
<1> DEFINE p == pow10[n]
           x == v * p
<1>1. p \in Nat \ {0}
  BY Powers
<1>2. x \in Nat
  BY <1>1, NonNeg
<1>3. x = p * v + 0 /\ 0 \in 0 .. p - 1
  BY <1>1, Assoc
<1> HIDE DEF p, x
<1>4. x \div p = v /\ x % p = 0
  BY <1>1, <1>2, <1>3, DivUnique
<1>5. ASSUME k < n
      PROVE  Digit(x, k) = 0
  <2>1. k \in 0 .. n - 1
    BY <1>5
  <2> QED
    BY <1>2, <1>4, <2>1, TrailingZeros DEF p
<1>6. ASSUME k >= n
      PROVE  Digit(x, k) = Digit(v, k - n)
  <2> DEFINE m == k - n
  <2>1. m \in Nat /\ n + m = k
    BY <1>6
  <2> HIDE DEF m
  <2>2. Digit(x \div pow10[n], m) = Digit(x, n + m)
    BY <1>2, <2>1, Divided
  <2> QED
    BY <1>4, <2>1, <2>2 DEF p, m
<1> QED
  BY <1>2, <1>5, <1>6 DEF p, x

\* The number a text of digits says, in units, by the two parts that are read.
LEMMA TextUnits ==
  ASSUME NEW int \in Seq(0 .. 9), NEW frac \in Seq(0 .. 9)
  PROVE  LET num == ValueOf(int \o frac) * Scale
             den == pow10[Len(frac)]
             dropped == SubSeq(frac, FixedDecimals + 1, Len(frac))
         IN /\ num \div den = Scale * ValueOf(int) + FracPart(frac)
            /\ ValueOf(int) \in Nat /\ FracPart(frac) \in 0 .. Scale - 1
            /\ (num % den = 0) <=> ToSet(dropped) \subseteq {0}
<1> DEFINE FD == FixedDecimals
           a == Len(int)
           b == Len(frac)
           all == int \o frac
           W == ValueOf(all)
           num == W * Scale
           den == pow10[b]
           units == num \div den
           dropped == SubSeq(frac, FD + 1, b)
           I == W \div den
           P == units % Scale
<1>1. a \in Nat /\ b \in Nat /\ FD \in Nat \ {0} /\ Scale = pow10[FD] /\ Scale \in Nat \ {0}
  BY Constants
<1>2. /\ int \in [1 .. a -> 0 .. 9] /\ frac \in [1 .. b -> 0 .. 9]
  BY <1>1
<1>3. /\ all \in Seq(0 .. 9) /\ Len(all) = a + b
      /\ \A i \in 1 .. a + b : all[i] = IF i =< a THEN int[i] ELSE frac[i - a]
  BY ConcatProperties
<1> HIDE DEF a, b, all
<1>4. all \in [1 .. a + b -> 0 .. 9] /\ a + b \in Nat
  BY <1>1, <1>3
<1>5. /\ W \in Nat /\ W < pow10[a + b]
      /\ \A i \in 1 .. a + b : all[i] = Digit(W, (a + b) - i)
  BY <1>3, <1>4, ReadDigits
<1> HIDE DEF W
<1>6. den \in Nat \ {0} /\ num \in Nat
  BY <1>1, <1>5, Powers, NonNeg
<1>7. units \in Nat /\ num % den \in Nat
  <2> HIDE DEF num, den
  <2>1. num \div den \in Nat /\ num % den \in 0 .. den - 1
    BY <1>6, DivMod
  <2> QED
    BY <1>6, <2>1
<1>8. ValueOf(int) = I /\ I \in Nat
  <2>1. I \in Nat /\ \A k \in Nat : Digit(I, k) = Digit(W, b + k)
    <3>1. I \in Nat
      BY <1>5, <1>6, DivMod
    <3>2. ASSUME NEW k \in Nat
          PROVE  Digit(I, k) = Digit(W, b + k)
      BY <1>1, <1>5, Divided
    <3> QED
      BY <3>1, <3>2
  <2>2. I < pow10[a]
    <3>1. pow10[a + b] = pow10[a] * den /\ pow10[a] \in Nat
      BY <1>1, PowerSum, Powers
    <3>2. W = den * I + (W % den) /\ W % den \in 0 .. den - 1
      BY <1>5, <1>6, DivMod
    <3> DEFINE c == pow10[a]
               e == W % den
    <3>3. pow10[a] * den = den * pow10[a]
      BY <1>6, <3>1, Assoc
    <3>4. W < den * c /\ W = den * I + e /\ e \in 0 .. den - 1 /\ c \in Nat
      BY <1>5, <3>1, <3>2, <3>3
    <3>5. c =< I => den * I >= den * c
      <4>1. c < I => den * I >= den * c + den
        BY <1>6, <2>1, <3>4, NextMultiple
      <4> DEFINE x == den * I
                 y == den * c
      <4>2. x \in Nat /\ y \in Nat /\ (c = I => x = y)
        BY <1>6, <2>1, <3>4, NonNeg
      <4> HIDE DEF x, y, c, I, den
      <4> QED
        BY <1>6, <2>1, <3>4, <4>1, <4>2 DEF x, y
    <3> DEFINE x == den * I
               y == den * c
    <3>6. x \in Nat /\ y \in Nat
      BY <1>6, <2>1, <3>4, NonNeg
    <3> HIDE DEF c, e, I, den, x, y
    <3>7. ~ (c =< I)
      BY <3>4, <3>5, <3>6 DEF x, y
    <3> QED
      BY <2>1, <3>4, <3>7 DEF c
  <2>3. int = [i \in 1 .. a |-> Digit(I, a - i)]
    <3>1. ASSUME NEW i \in 1 .. a
          PROVE  int[i] = Digit(I, a - i)
      <4>1. i \in 1 .. a + b /\ i =< a /\ a - i \in Nat /\ b + (a - i) = (a + b) - i
        BY <1>1
      <4>2. all[i] = int[i] /\ all[i] = Digit(W, (a + b) - i)
        BY <1>3, <1>5, <4>1
      <4>3. Digit(I, a - i) = Digit(W, b + (a - i))
        BY <2>1, <4>1
      <4> QED
        BY <4>1, <4>2, <4>3
    <3>2. int = [i \in 1 .. a |-> int[i]]
      BY <1>2
    <3> HIDE DEF I
    <3> QED
      BY <3>1, <3>2
  <2> HIDE DEF I
  <2>4. ValueOf(int) = I
    <3>1. I \in Nat /\ a \in Nat
      BY <1>1, <2>1
    <3> QED
      BY <2>2, <2>3, <3>1, ReadBack
  <2> QED
    BY <2>1, <2>4
<1>9. ASSUME NEW j \in 1 .. b
      PROVE  b - j \in Nat /\ frac[j] = Digit(W, b - j)
  <2>1. a + j \in 1 .. a + b /\ ~ (a + j =< a) /\ (a + j) - a = j
        /\ (a + b) - (a + j) = b - j /\ b - j \in Nat
    BY <1>1
  <2>2. all[a + j] = frac[j] /\ all[a + j] = Digit(W, (a + b) - (a + j))
    BY <1>3, <1>5, <2>1
  <2> QED
    BY <2>1, <2>2
<1>10. \A k \in Nat : /\ k < FD => Digit(num, k) = 0
                      /\ k >= FD => Digit(num, k) = Digit(W, k - FD)
  <2> TAKE k \in Nat
  <2>1. FD \in Nat /\ num = W * pow10[FD]
    BY <1>1
  <2>2. /\ k < FD => Digit(W * pow10[FD], k) = 0
        /\ k >= FD => Digit(W * pow10[FD], k) = Digit(W, k - FD)
    BY <1>5, <2>1, Shifted, SMTT(30)
  <2> QED
    BY <2>1, <2>2
<1> HIDE DEF num
<1>11. FracPart(frac) = P /\ P \in 0 .. Scale - 1
  <2> DEFINE e == SubSeq(frac \o Zeros(FD), 1, FD)
  <2>1. frac \in Seq(Nat)
    BY <1>1, <1>2, SMTT(30)
  <2>2. e = [i \in 1 .. FD |-> IF i =< b THEN frac[i] ELSE 0]
    BY <2>1, Padded DEF b
  <2>3. P \in Nat /\ P < pow10[FD] /\ \A k \in 0 .. FD - 1 : Digit(P, k) = Digit(units, k)
    BY <1>1, <1>7, LowDigits, ZenonT(40)
  <2>4. \A k \in Nat : Digit(units, k) = Digit(num, b + k)
    BY <1>1, <1>6, Divided
  <2> HIDE DEF P, units
  <2>5. ASSUME NEW i \in 1 .. FD
        PROVE  (IF i =< b THEN frac[i] ELSE 0) = Digit(P, FD - i)
    <3>1. FD - i \in 0 .. FD - 1 /\ FD - i \in Nat /\ b + (FD - i) \in Nat
      BY <1>1
    <3>2. Digit(P, FD - i) = Digit(num, b + (FD - i))
      BY <2>3, <2>4, <3>1
    <3>3. CASE i =< b
      <4>1. i \in 1 .. b /\ b + (FD - i) >= FD /\ (b + (FD - i)) - FD = b - i
        BY <1>1, <3>3
      <4>2. Digit(num, b + (FD - i)) = Digit(W, b - i)
        BY <1>10, <3>1, <4>1
      <4> QED
        BY <1>9, <3>2, <3>3, <4>1, <4>2
    <3>4. CASE ~ (i =< b)
      <4>1. b + (FD - i) < FD
        BY <1>1, <3>4
      <4> QED
        BY <1>10, <3>1, <3>2, <3>4, <4>1
    <3> QED
      BY <3>3, <3>4
  <2>6. e = [i \in 1 .. FD |-> Digit(P, FD - i)]
    BY <2>2, <2>5
  <2> HIDE DEF e
  <2>7. FD \in Nat
    BY <1>1
  <2>8. ValueOf(e) = P
    BY <2>3, <2>6, <2>7, ReadBack
  <2> QED
    BY <1>1, <2>3, <2>8 DEF FracPart, e
<1>12. units = Scale * I + P
  <2>1. units = Scale * (units \div Scale) + P
    BY <1>1, <1>7, DivMod
  <2>2. units \div Scale = I
    <3> DEFINE x == W * den
    <3>1. units \div Scale = num \div (den * Scale)
      BY <1>1, <1>6, DivDiv, SMTT(30)
    <3>2. num \div (Scale * den) = (num \div Scale) \div den
      BY <1>1, <1>6, DivDiv, SMTT(30)
    <3>3. num = Scale * W + 0 /\ 0 \in 0 .. Scale - 1
      BY <1>1, <1>5, Assoc DEF num
    <3>4. num \div Scale = W
      BY <1>1, <1>5, <1>6, <3>3, DivUnique
    <3>5. den * Scale = Scale * den
      BY <1>1, <1>6, Assoc
    <3> QED
      BY <3>1, <3>2, <3>4, <3>5
  <2> QED
    BY <2>1, <2>2
<1>13. (num % den = 0) <=> ToSet(dropped) \subseteq {0}
  <2>1. (num % den = 0) <=> \A k \in 0 .. b - 1 : Digit(num, k) = 0
    BY <1>1, <1>6, TrailingZeros
  <2>2. (\A k \in 0 .. b - 1 : Digit(num, k) = 0) <=> \A j \in FD + 1 .. b : frac[j] = 0
    <3>1. ASSUME NEW j \in FD + 1 .. b
          PROVE  /\ FD + (b - j) \in 0 .. b - 1
                 /\ frac[j] = Digit(num, FD + (b - j))
      <4>1. j \in 1 .. b /\ FD + (b - j) \in Nat /\ FD + (b - j) >= FD
            /\ (FD + (b - j)) - FD = b - j /\ FD + (b - j) \in 0 .. b - 1
        BY <1>1
      <4> QED
        BY <1>9, <1>10, <4>1
    <3>2. ASSUME NEW k \in 0 .. b - 1, k >= FD
          PROVE  /\ (FD + b) - k \in FD + 1 .. b
                 /\ FD + (b - ((FD + b) - k)) = k
      BY <1>1, <3>2
    <3>3. \A k \in 0 .. b - 1 : k < FD => Digit(num, k) = 0
      BY <1>10
    <3>4. ASSUME \A k \in 0 .. b - 1 : Digit(num, k) = 0
          PROVE  \A j \in FD + 1 .. b : frac[j] = 0
      BY <3>1, <3>4
    <3>5. ASSUME \A j \in FD + 1 .. b : frac[j] = 0, NEW k \in 0 .. b - 1
          PROVE  Digit(num, k) = 0
      <4>1. CASE k < FD
        BY <3>3, <4>1
      <4>2. CASE ~ (k < FD)
        <5> DEFINE j == (FD + b) - k
        <5>1. k >= FD
          BY <1>1, <4>2
        <5>2. j \in FD + 1 .. b /\ FD + (b - j) = k
          BY <3>2, <5>1
        <5> HIDE DEF j
        <5>3. frac[j] = Digit(num, FD + (b - j))
          BY <3>1, <5>2
        <5> QED
          BY <3>5, <5>2, <5>3
      <4> QED
        BY <4>1, <4>2
    <3> QED
      BY <3>4, <3>5
  <2>3. ToSet(dropped) = {frac[j] : j \in FD + 1 .. b}
    <3> DEFINE m == FD + 1
    <3>1. m \in Int /\ b \in Int /\ m \in Nat
      BY <1>1
    <3>2. \A i \in m .. b : frac[i] \in 0 .. 9
      <4>1. \A i \in m .. b : i \in 1 .. b
        BY <1>1
      <4> QED
        BY <1>2, <4>1
    <3> HIDE DEF m
    <3>3. /\ SubSeq(frac, m, b) \in Seq(0 .. 9)
          /\ Len(SubSeq(frac, m, b)) = (IF m <= b THEN b - m + 1 ELSE 0)
          /\ \A i \in 1 .. b - m + 1 : SubSeq(frac, m, b)[i] = frac[m + i - 1]
      BY <3>1, <3>2, SubSeqProperties
    <3> DEFINE t == SubSeq(frac, m, b)
               n == IF m =< b THEN (b - m) + 1 ELSE 0
    <3>4. /\ t \in Seq(0 .. 9) /\ Len(t) = n
          /\ \A i \in 1 .. n : t[i] = frac[(m + i) - 1]
      <4>1. (IF m <= b THEN b - m + 1 ELSE 0) = n
        BY <3>1
      <4>2. \A i \in 1 .. n : i \in 1 .. b - m + 1 /\ m + i - 1 = (m + i) - 1
        BY <3>1
      <4> HIDE DEF n
      <4> QED
        BY <3>3, <4>1, <4>2
    <3>5. n \in Nat
      BY <3>1
    <3> HIDE DEF t, n
    <3>6. DOMAIN t = 1 .. n
      BY <3>4
    <3>7. ToSet(t) = {t[i] : i \in 1 .. n}
      BY <3>6 DEF ToSet
    <3>8. \A i \in 1 .. n : (m + i) - 1 \in m .. b
      BY <3>1 DEF n
    <3>9. \A j \in m .. b : (j - m) + 1 \in 1 .. n /\ (m + ((j - m) + 1)) - 1 = j
      BY <3>1 DEF n
    <3>10. {t[i] : i \in 1 .. n} \subseteq {frac[j] : j \in m .. b}
      BY <3>4, <3>8
    <3>11. {frac[j] : j \in m .. b} \subseteq {t[i] : i \in 1 .. n}
      <4> SUFFICES ASSUME NEW j \in m .. b
                   PROVE  frac[j] \in {t[i] : i \in 1 .. n}
        OBVIOUS
      <4> DEFINE i == (j - m) + 1
      <4>1. i \in 1 .. n /\ (m + i) - 1 = j
        BY <3>9
      <4> HIDE DEF i
      <4>2. t[i] = frac[j]
        BY <3>4, <4>1
      <4> QED
        BY <4>1, <4>2
    <3> QED
      BY <3>7, <3>10, <3>11 DEF t, m
  <2>4. ToSet(dropped) \subseteq {0} <=> \A j \in FD + 1 .. b : frac[j] = 0
    <3> HIDE DEF dropped
    <3> QED
      BY <2>3
  <2> QED
    BY <2>1, <2>2, <2>4
<1> QED
  BY <1>8, <1>11, <1>12, <1>13 DEF num, all, W, b

\* A text is read as exactly the number it says, or not at all.
LEMMA TextRead ==
  ASSUME NEW text, text.int \in Seq(Nat), text.frac \in Seq(Nat)
  PROVE  ParsesExactly(text)
<1> DEFINE int == text.int
           frac == text.frac
           all == int \o frac
           num == Numerator(text)
           den == Denominator(text)
           units == num \div den
           value == IF text.sign = "-" THEN -units ELSE units
           dropped == SubSeq(frac, FixedDecimals + 1, Len(frac))
           I == ValueOf(int)
           P == FracPart(frac)
           read == I * Scale + P
           Small == I =< fixedMaxIntPart /\ ~ (I = fixedMaxIntPart /\ P > MaxInt % Scale)
           Digital == all # <<>> /\ \A d \in ToSet(all) : d =< 9
<1>1. ToSet(all) \subseteq Nat
  BY JoinedDigits
<1>2. Digital <=> IsDecimal(text)
  <2> HIDE DEF all
  <2> DEFINE D == ToSet(all)
  <2>1. D \subseteq Nat
    BY <1>1
  <2> HIDE DEF D
  <2>2. (\A d \in D : d =< 9) <=> D \subseteq 0 .. 9
    <3>1. \A d \in Nat : d =< 9 <=> d \in 0 .. 9
      OBVIOUS
    <3> QED
      BY <2>1, <3>1
  <2> QED
    BY <2>2, Zenon DEF IsDecimal, all, D
<1>3. ASSUME NEW strict
      PROVE  parseFixed(text, strict) =
               IF Digital /\ (strict => ToSet(dropped) \subseteq {0}) /\ Small
               THEN Done(IF text.sign = "-" THEN -read ELSE read) ELSE Failed
  BY Zenon DEF parseFixed
<1>4. ASSUME IsDecimal(text)
      PROVE  /\ read = units
             /\ Small <=> units =< MaxInt
             /\ (num % den = 0) <=> ToSet(dropped) \subseteq {0}
  <2>1. ToSet(all) \subseteq 0 .. 9
    BY <1>4 DEF IsDecimal
  <2>2. ToSet(int) \subseteq 0 .. 9 /\ ToSet(frac) \subseteq 0 .. 9
    <3>1. ToSet(all) = ToSet(int) \cup ToSet(frac)
      <4>1. IsSeq(int) /\ IsSeq(frac)
        BY OwnSeq
      <4> QED
        BY <4>1, FieldsJoined
    <3> QED
      BY <2>1, <3>1, Zenon
  <2>3. int \in Seq(0 .. 9) /\ frac \in Seq(0 .. 9)
    <3>1. IsSeq(int) /\ IsSeq(frac)
      BY OwnSeq
    <3> QED
      BY <2>2, <3>1 DEF IsSeq
  <2>4. /\ units = Scale * I + P
        /\ I \in Nat /\ P \in 0 .. Scale - 1
        /\ (num % den = 0) <=> ToSet(dropped) \subseteq {0}
    BY <2>3, TextUnits, Zenon DEF Numerator, Denominator
  <2> HIDE DEF I, P, num, den, dropped
  <2>5. Scale * I = I * Scale
    BY <2>4, Constants, Assoc
  <2>6. read = units
    BY <2>4, <2>5
  <2>7. (Scale * I + P =< MaxInt) <=> Small
    BY <2>4, Constants, RangeParts DEF fixedMaxIntPart
  <2> QED
    BY <2>4, <2>6, <2>7
<1> HIDE DEF num, den, dropped, I, P, Digital, read, Small, all
<1>5. parseFixed(text, TRUE) =
        IF IsDecimal(text) /\ num % den = 0 /\ units =< MaxInt THEN Done(value) ELSE Failed
  BY <1>2, <1>3, <1>4
<1>6. parseFixed(text, FALSE) =
        IF IsDecimal(text) /\ units =< MaxInt THEN Done(value) ELSE Failed
  BY <1>2, <1>3, <1>4
<1>7. \A form \in {"quoted", "bare"} :
        UnmarshalJSON([form |-> form, text |-> text]) = parseFixed(text, FALSE)
  BY DEF UnmarshalJSON
<1> QED
  BY <1>5, <1>6, <1>7, Zenon DEF ParsesExactly, num, den

(***************************************************************************)
(* Client order ids.                                                       *)
(***************************************************************************)
\* How many dashes are in front of the j-th digit, and in front of place i.
Gap(j) == IF j =< 8 THEN 0 ELSE IF j =< 12 THEN 1 ELSE IF j =< 16 THEN 2
          ELSE IF j =< 20 THEN 3 ELSE 4
Before(i) == IF i =< 9 THEN 0 ELSE IF i =< 14 THEN 1 ELSE IF i =< 19 THEN 2
             ELSE IF i =< 24 THEN 3 ELSE 4

\* The dashes counted.
LEMMA DashesBefore ==
  ASSUME NEW i \in 1 .. 36
  PROVE  Cardinality({d \in DashAt : d < i}) = Before(i)
<1> DEFINE D == {d \in DashAt : d < i}
<1>1. Cardinality({}) = 0 /\ IsFiniteSet({})
  BY FS_EmptySet
<1>2. Cardinality({9}) = 1 /\ IsFiniteSet({9})
  BY FS_Singleton
<1>3. Cardinality({9, 14}) = 2 /\ IsFiniteSet({9, 14})
  <2>1. {9, 14} = {9} \cup {14} /\ 14 \notin {9}
    OBVIOUS
  <2> QED
    BY <1>2, <2>1, FS_AddElement
<1>4. Cardinality({9, 14, 19}) = 3 /\ IsFiniteSet({9, 14, 19})
  <2>1. {9, 14, 19} = {9, 14} \cup {19} /\ 19 \notin {9, 14}
    OBVIOUS
  <2> QED
    BY <1>3, <2>1, FS_AddElement
<1>5. Cardinality({9, 14, 19, 24}) = 4
  <2>1. {9, 14, 19, 24} = {9, 14, 19} \cup {24} /\ 24 \notin {9, 14, 19}
    OBVIOUS
  <2> QED
    BY <1>4, <2>1, FS_AddElement
<1>6. CASE i =< 9
  <2>1. D = {}
    BY <1>6 DEF DashAt
  <2> QED
    BY <1>1, <1>6, <2>1 DEF Before
<1>7. CASE i > 9 /\ i =< 14
  <2>1. D = {9}
    BY <1>7 DEF DashAt
  <2> QED
    BY <1>2, <1>7, <2>1 DEF Before
<1>8. CASE i > 14 /\ i =< 19
  <2>1. D = {9, 14}
    BY <1>8 DEF DashAt
  <2> QED
    BY <1>3, <1>8, <2>1 DEF Before
<1>9. CASE i > 19 /\ i =< 24
  <2>1. D = {9, 14, 19}
    BY <1>9 DEF DashAt
  <2> QED
    BY <1>4, <1>9, <2>1 DEF Before
<1>10. CASE i > 24
  <2>1. D = {9, 14, 19, 24}
    BY <1>10 DEF DashAt
  <2> QED
    BY <1>5, <1>10, <2>1 DEF Before
<1> QED
  BY <1>6, <1>7, <1>8, <1>9, <1>10

\* A digit's place, and the digit of a place.
LEMMA Places36 ==
  /\ \A j \in 1 .. 32 : /\ j + Gap(j) \in 1 .. 36 /\ j + Gap(j) \notin DashAt
                        /\ (j + Gap(j)) - Before(j + Gap(j)) = j
  /\ \A i \in (1 .. 36) \ DashAt : /\ i - Before(i) \in 1 .. 32
                                   /\ (i - Before(i)) + Gap(i - Before(i)) = i
BY DEF Gap, Before, DashAt

\* The characters between the dashes, by their places.
LEMMA UndashedAt ==
  ASSUME NEW S, NEW c, c \in [1 .. 36 -> S]
  PROVE  Undashed(c) = [j \in 1 .. 32 |-> c[j + Gap(j)]]
<1> DEFINE a == SubSeq(c, 1, 8)
           b == SubSeq(c, 10, 13)
           d == SubSeq(c, 15, 18)
           e == SubSeq(c, 20, 23)
           f == SubSeq(c, 25, 36)
<1>1. a \in Seq(S) /\ Len(a) = 8 /\ \A i \in 1 .. 8 : a[i] = c[i]
  <2>1. \A i \in 1 .. 8 : c[i] \in S
    OBVIOUS
  <2>2. /\ a \in Seq(S) /\ Len(a) = (IF 1 <= 8 THEN 8 - 1 + 1 ELSE 0)
        /\ \A i \in 1 .. 8 - 1 + 1 : a[i] = c[1 + i - 1]
    BY <2>1, SubSeqProperties
  <2> HIDE DEF a
  <2> QED
    BY <2>2
<1>2. b \in Seq(S) /\ Len(b) = 4 /\ \A i \in 1 .. 4 : b[i] = c[i + 9]
  <2>1. \A i \in 10 .. 13 : c[i] \in S
    OBVIOUS
  <2>2. /\ b \in Seq(S) /\ Len(b) = (IF 10 <= 13 THEN 13 - 10 + 1 ELSE 0)
        /\ \A i \in 1 .. 13 - 10 + 1 : b[i] = c[10 + i - 1]
    BY <2>1, SubSeqProperties
  <2> HIDE DEF b
  <2> QED
    BY <2>2
<1>3. d \in Seq(S) /\ Len(d) = 4 /\ \A i \in 1 .. 4 : d[i] = c[i + 14]
  <2>1. \A i \in 15 .. 18 : c[i] \in S
    OBVIOUS
  <2>2. /\ d \in Seq(S) /\ Len(d) = (IF 15 <= 18 THEN 18 - 15 + 1 ELSE 0)
        /\ \A i \in 1 .. 18 - 15 + 1 : d[i] = c[15 + i - 1]
    BY <2>1, SubSeqProperties
  <2> HIDE DEF d
  <2> QED
    BY <2>2
<1>4. e \in Seq(S) /\ Len(e) = 4 /\ \A i \in 1 .. 4 : e[i] = c[i + 19]
  <2>1. \A i \in 20 .. 23 : c[i] \in S
    OBVIOUS
  <2>2. /\ e \in Seq(S) /\ Len(e) = (IF 20 <= 23 THEN 23 - 20 + 1 ELSE 0)
        /\ \A i \in 1 .. 23 - 20 + 1 : e[i] = c[20 + i - 1]
    BY <2>1, SubSeqProperties
  <2> HIDE DEF e
  <2> QED
    BY <2>2
<1>5. f \in Seq(S) /\ Len(f) = 12 /\ \A i \in 1 .. 12 : f[i] = c[i + 24]
  <2>1. \A i \in 25 .. 36 : c[i] \in S
    OBVIOUS
  <2>2. /\ f \in Seq(S) /\ Len(f) = (IF 25 <= 36 THEN 36 - 25 + 1 ELSE 0)
        /\ \A i \in 1 .. 36 - 25 + 1 : f[i] = c[25 + i - 1]
    BY <2>1, SubSeqProperties
  <2> HIDE DEF f
  <2> QED
    BY <2>2
<1> DEFINE ab == a \o b
           abd == ab \o d
           abde == abd \o e
           all == abde \o f
<1> HIDE DEF a, b, d, e, f
<1>60. /\ ab \in Seq(S) /\ Len(ab) = Len(a) + Len(b)
       /\ \A i \in 1 .. Len(a) + Len(b) :
            ab[i] = IF i <= Len(a) THEN a[i] ELSE b[i - Len(a)]
  <2>1. a \in Seq(S) /\ b \in Seq(S)
    BY <1>1, <1>2
  <2> QED
    BY <2>1, ConcatProperties
<1> HIDE DEF ab
<1>61. ab \in Seq(S) /\ Len(ab) = 12
  BY <1>60, <1>1, <1>2
<1>62. \A i \in 1 .. 8 + 4 : ab[i] = IF i <= 8 THEN a[i] ELSE b[i - 8]
  <2>1. Len(a) = 8 /\ Len(b) = 4
    BY <1>1, <1>2
  <2> QED
    BY <1>60, <2>1, Zenon
<1>63. ASSUME NEW i \in 1 .. 8
     PROVE  ab[i] = a[i]
  <2>1. i \in 1 .. 8 + 4 /\ i <= 8
    OBVIOUS
  <2> QED
    BY <1>62, <2>1, Zenon
<1>64. ASSUME NEW i \in 1 .. 4
     PROVE  ab[i + 8] = b[i]
  <2>1. i + 8 \in 1 .. 8 + 4 /\ ~ (i + 8 <= 8) /\ (i + 8) - 8 = i
    OBVIOUS
  <2> QED
    BY <1>62, <2>1, Zenon
<1>70. /\ abd \in Seq(S) /\ Len(abd) = Len(ab) + Len(d)
       /\ \A i \in 1 .. Len(ab) + Len(d) :
            abd[i] = IF i <= Len(ab) THEN ab[i] ELSE d[i - Len(ab)]
  <2>1. ab \in Seq(S) /\ d \in Seq(S)
    BY <1>61, <1>3
  <2> QED
    BY <2>1, ConcatProperties
<1> HIDE DEF abd
<1>71. abd \in Seq(S) /\ Len(abd) = 16
  BY <1>70, <1>61, <1>3
<1>72. \A i \in 1 .. 12 + 4 : abd[i] = IF i <= 12 THEN ab[i] ELSE d[i - 12]
  <2>1. Len(ab) = 12 /\ Len(d) = 4
    BY <1>61, <1>3
  <2> QED
    BY <1>70, <2>1, Zenon
<1>73. ASSUME NEW i \in 1 .. 12
     PROVE  abd[i] = ab[i]
  <2>1. i \in 1 .. 12 + 4 /\ i <= 12
    OBVIOUS
  <2> QED
    BY <1>72, <2>1, Zenon
<1>74. ASSUME NEW i \in 1 .. 4
     PROVE  abd[i + 12] = d[i]
  <2>1. i + 12 \in 1 .. 12 + 4 /\ ~ (i + 12 <= 12) /\ (i + 12) - 12 = i
    OBVIOUS
  <2> QED
    BY <1>72, <2>1, Zenon
<1>80. /\ abde \in Seq(S) /\ Len(abde) = Len(abd) + Len(e)
       /\ \A i \in 1 .. Len(abd) + Len(e) :
            abde[i] = IF i <= Len(abd) THEN abd[i] ELSE e[i - Len(abd)]
  <2>1. abd \in Seq(S) /\ e \in Seq(S)
    BY <1>71, <1>4
  <2> QED
    BY <2>1, ConcatProperties
<1> HIDE DEF abde
<1>81. abde \in Seq(S) /\ Len(abde) = 20
  BY <1>80, <1>71, <1>4
<1>82. \A i \in 1 .. 16 + 4 : abde[i] = IF i <= 16 THEN abd[i] ELSE e[i - 16]
  <2>1. Len(abd) = 16 /\ Len(e) = 4
    BY <1>71, <1>4
  <2> QED
    BY <1>80, <2>1, Zenon
<1>83. ASSUME NEW i \in 1 .. 16
     PROVE  abde[i] = abd[i]
  <2>1. i \in 1 .. 16 + 4 /\ i <= 16
    OBVIOUS
  <2> QED
    BY <1>82, <2>1, Zenon
<1>84. ASSUME NEW i \in 1 .. 4
     PROVE  abde[i + 16] = e[i]
  <2>1. i + 16 \in 1 .. 16 + 4 /\ ~ (i + 16 <= 16) /\ (i + 16) - 16 = i
    OBVIOUS
  <2> QED
    BY <1>82, <2>1, Zenon
<1>90. /\ all \in Seq(S) /\ Len(all) = Len(abde) + Len(f)
       /\ \A i \in 1 .. Len(abde) + Len(f) :
            all[i] = IF i <= Len(abde) THEN abde[i] ELSE f[i - Len(abde)]
  <2>1. abde \in Seq(S) /\ f \in Seq(S)
    BY <1>81, <1>5
  <2> QED
    BY <2>1, ConcatProperties
<1> HIDE DEF all
<1>91. all \in Seq(S) /\ Len(all) = 32
  BY <1>90, <1>81, <1>5
<1>92. \A i \in 1 .. 20 + 12 : all[i] = IF i <= 20 THEN abde[i] ELSE f[i - 20]
  <2>1. Len(abde) = 20 /\ Len(f) = 12
    BY <1>81, <1>5
  <2> QED
    BY <1>90, <2>1, Zenon
<1>93. ASSUME NEW i \in 1 .. 20
     PROVE  all[i] = abde[i]
  <2>1. i \in 1 .. 20 + 12 /\ i <= 20
    OBVIOUS
  <2> QED
    BY <1>92, <2>1, Zenon
<1>94. ASSUME NEW i \in 1 .. 12
     PROVE  all[i + 20] = f[i]
  <2>1. i + 20 \in 1 .. 20 + 12 /\ ~ (i + 20 <= 20) /\ (i + 20) - 20 = i
    OBVIOUS
  <2> QED
    BY <1>92, <2>1, Zenon
<1>10. Undashed(c) = all
  BY DEF Undashed, all, abde, abd, ab, a, b, d, e, f
<1> HIDE DEF all
<1>11. ASSUME NEW j \in 1 .. 32
       PROVE  all[j] = c[j + Gap(j)]
  <2>1. ASSUME j =< 20
       PROVE  all[j] = abde[j]
    <3>1. j \in 1 .. 20
      BY <2>1
    <3> QED
      BY <1>93, <3>1, Zenon
  <2>2. ASSUME j =< 16
       PROVE  abde[j] = abd[j]
    <3>1. j \in 1 .. 16
      BY <2>2
    <3> QED
      BY <1>83, <3>1, Zenon
  <2>3. ASSUME j =< 12
       PROVE  abd[j] = ab[j]
    <3>1. j \in 1 .. 12
      BY <2>3
    <3> QED
      BY <1>73, <3>1, Zenon
  <2>4. CASE j =< 8
    <3>1. j \in 1 .. 8 /\ j + Gap(j) = j /\ j =< 20 /\ j =< 16 /\ j =< 12
      BY <2>4 DEF Gap
    <3>2. ab[j] = a[j] /\ a[j] = c[j]
      BY <1>1, <1>63, <3>1
    <3> QED
      BY <2>1, <2>2, <2>3, <3>1, <3>2
  <2>5. CASE j > 8 /\ j =< 12
    <3>1. PICK i \in 1 .. 4 : j = i + 8
      <4>1. j - 8 \in 1 .. 4 /\ j = (j - 8) + 8
        BY <2>5
      <4> QED
        BY <4>1
    <3>2. j + Gap(j) = i + 9 /\ j =< 20 /\ j =< 16 /\ j =< 12
      BY <2>5, <3>1 DEF Gap
    <3>3. ab[i + 8] = b[i] /\ b[i] = c[i + 9]
      BY <1>2, <1>64
    <3> QED
      BY <2>1, <2>2, <2>3, <3>1, <3>2, <3>3
  <2>6. CASE j > 12 /\ j =< 16
    <3>1. PICK i \in 1 .. 4 : j = i + 12
      <4>1. j - 12 \in 1 .. 4 /\ j = (j - 12) + 12
        BY <2>6
      <4> QED
        BY <4>1
    <3>2. j + Gap(j) = i + 14 /\ j =< 20 /\ j =< 16
      BY <2>6, <3>1 DEF Gap
    <3>3. abd[i + 12] = d[i] /\ d[i] = c[i + 14]
      BY <1>3, <1>74
    <3> QED
      BY <2>1, <2>2, <3>1, <3>2, <3>3
  <2>7. CASE j > 16 /\ j =< 20
    <3>1. PICK i \in 1 .. 4 : j = i + 16
      <4>1. j - 16 \in 1 .. 4 /\ j = (j - 16) + 16
        BY <2>7
      <4> QED
        BY <4>1
    <3>2. j + Gap(j) = i + 19 /\ j =< 20
      BY <2>7, <3>1 DEF Gap
    <3>3. abde[i + 16] = e[i] /\ e[i] = c[i + 19]
      BY <1>4, <1>84
    <3> QED
      BY <2>1, <3>1, <3>2, <3>3
  <2>8. CASE j > 20
    <3>1. PICK i \in 1 .. 12 : j = i + 20
      <4>1. j - 20 \in 1 .. 12 /\ j = (j - 20) + 20
        BY <2>8
      <4> QED
        BY <4>1
    <3>2. j + Gap(j) = i + 24
      BY <2>8, <3>1 DEF Gap
    <3> QED
      BY <1>5, <1>94, <3>1, <3>2, ZenonT(40)
  <2> QED
    BY <2>4, <2>5, <2>6, <2>7, <2>8
<1>12. all = [j \in 1 .. 32 |-> all[j]]
  BY <1>91
<1> QED
  BY <1>10, <1>11, <1>12

\* The members of a text of a known length.
LEMMA Members ==
  ASSUME NEW S, NEW n \in Nat, NEW f, f \in [1 .. n -> S]
  PROVE  /\ f \in Seq(S) /\ Len(f) = n
         /\ ToSet(f) \subseteq Hex <=> \A i \in 1 .. n : f[i] \in Hex
<1>1. f \in Seq(S)
  BY FunctionSeq
<1>2. Len(f) = n
  BY <1>1, LenProperties
<1>3. ToSet(f) = {f[i] : i \in 1 .. n}
  BY DEF ToSet
<1> QED
  BY <1>1, <1>2, <1>3

\* The record UUID makes.
LEMMA UUIDText ==
  ASSUME NEW c
  PROVE  /\ UUID(c) = [prefix |-> "", chars |-> UUID(c).chars]
         /\ UUID(c).prefix = ""
<1> DEFINE none == ""
           chars == [i \in 1 .. 36 |-> IF i \in DashAt THEN 16
                                       ELSE c[i - Cardinality({d \in DashAt : d < i})]]
<1>1. UUID(c) = [prefix |-> none, chars |-> chars]
  BY Zenon DEF UUID
<1> HIDE DEF none, chars
<1>2. UUID(c).prefix = none /\ UUID(c).chars = chars
  BY <1>1
<1> QED
  BY <1>1, <1>2, Zenon DEF none

\* UUID writes 32 digits between four dashes.
LEMMA Dashed ==
  ASSUME NEW c, c \in [1 .. 32 -> Hex]
  PROVE  /\ UUID(c).prefix = "" /\ UUID(c).chars \in [1 .. 36 -> 0 .. 16]
         /\ \A i \in 1 .. 36 : UUID(c).chars[i] = IF i \in DashAt THEN 16 ELSE c[i - Before(i)]
<1> DEFINE before(i) == Cardinality({d \in DashAt : d < i})
           chars == [i \in 1 .. 36 |-> IF i \in DashAt THEN 16 ELSE c[i - before(i)]]
<1>1. UUID(c) = [prefix |-> "", chars |-> chars]
  BY Zenon DEF UUID
<1> HIDE DEF chars
<1>2. UUID(c).prefix = "" /\ UUID(c).chars = chars
  <2> DEFINE none == ""
  <2>1. UUID(c) = [prefix |-> none, chars |-> chars]
    BY <1>1, Zenon DEF none
  <2> HIDE DEF none
  <2>2. UUID(c).prefix = none /\ UUID(c).chars = chars
    BY <2>1
  <2> QED
    BY <2>2, Zenon DEF none
<1>3. \A i \in 1 .. 36 : before(i) = Before(i)
  BY DashesBefore
<1> HIDE DEF before
<1>4. chars = [i \in 1 .. 36 |-> chars[i]]
      /\ \A i \in 1 .. 36 : chars[i] = IF i \in DashAt THEN 16 ELSE c[i - Before(i)]
  BY <1>3 DEF chars
<1>5. \A i \in 1 .. 36 : chars[i] \in 0 .. 16
  <2> SUFFICES ASSUME NEW i \in 1 .. 36
               PROVE  chars[i] \in 0 .. 16
    OBVIOUS
  <2>1. CASE i \in DashAt
    BY <1>4, <2>1
  <2>2. CASE i \notin DashAt
    <3>1. i - Before(i) \in 1 .. 32
      BY <2>2, Places36
    <3>2. c[i - Before(i)] \in 0 .. 15
      BY <3>1 DEF Hex
    <3> QED
      BY <1>4, <2>2, <3>2
  <2> QED
    BY <2>1, <2>2
<1>6. chars \in [1 .. 36 -> 0 .. 16]
  BY <1>4, <1>5
<1> QED
  BY <1>2, <1>4, <1>6, Zenon

\* What the 36 characters of an id in the other form are.
IsUUID(chars) ==
  /\ Len(chars) = 36 /\ \A i \in DashAt : chars[i] = 16
  /\ ToSet(Undashed(chars)) \subseteq Hex

\* The text UUID writes says the digits.
LEMMA DashedRead ==
  ASSUME NEW c, c \in [1 .. 32 -> Hex]
  PROVE  /\ Undashed(UUID(c).chars) = c
         /\ IsUUID(UUID(c).chars)
<1> DEFINE chars == UUID(c).chars
<1>1. chars \in [1 .. 36 -> 0 .. 16]
      /\ \A i \in 1 .. 36 : chars[i] = IF i \in DashAt THEN 16 ELSE c[i - Before(i)]
  BY Dashed
<1> HIDE DEF chars
<1>2. Undashed(chars) = [j \in 1 .. 32 |-> chars[j + Gap(j)]]
  BY <1>1, UndashedAt
<1>3. ASSUME NEW j \in 1 .. 32
      PROVE  chars[j + Gap(j)] = c[j]
  <2> DEFINE i == j + Gap(j)
  <2>1. i \in 1 .. 36 /\ i \notin DashAt /\ i - Before(i) = j
    BY Places36
  <2> HIDE DEF i
  <2>2. chars[i] = c[j]
    BY <1>1, <2>1
  <2> QED
    BY <2>2 DEF i
<1>4. Undashed(chars) = c
  BY <1>2, <1>3
<1>5. Len(chars) = 36
  BY <1>1, Members
<1>6. \A i \in DashAt : chars[i] = 16
  BY <1>1 DEF DashAt
<1>7. ToSet(c) \subseteq Hex
  BY Members
<1> QED
  BY <1>4, <1>5, <1>6, <1>7, Zenon DEF IsUUID, chars

\* A text that is one, is the one of its digits.
LEMMA ReadDashed ==
  ASSUME NEW S, NEW n \in Nat, NEW chars, chars \in [1 .. n -> S], IsUUID(chars)
  PROVE  UUID(Undashed(chars)).chars = chars
<1> DEFINE c == Undashed(chars)
           text == UUID(c).chars
<1>1. n = 36
  <2>1. Len(chars) = n
    BY Members
  <2>2. Len(chars) = 36
    BY Zenon DEF IsUUID
  <2> QED
    BY <2>1, <2>2
<1>2. c = [j \in 1 .. 32 |-> chars[j + Gap(j)]]
  BY <1>1, UndashedAt
<1>3. ToSet(c) \subseteq Hex
  BY Zenon DEF IsUUID
<1>4. \A i \in DashAt : chars[i] = 16
  BY Zenon DEF IsUUID
<1> HIDE DEF c
<1>5. c \in [1 .. 32 -> Hex]
  <2>1. \A j \in 1 .. 32 : j + Gap(j) \in 1 .. 36
    BY Places36
  <2>2. c \in [1 .. 32 -> S]
    BY <1>1, <1>2, <2>1
  <2>3. \A j \in 1 .. 32 : c[j] \in Hex
    BY <1>3, <2>2, Members, ZenonT(40)
  <2> QED
    BY <2>2, <2>3
<1>6. text \in [1 .. 36 -> 0 .. 16]
      /\ \A i \in 1 .. 36 : text[i] = IF i \in DashAt THEN 16 ELSE c[i - Before(i)]
  BY <1>5, Dashed
<1> HIDE DEF text
<1>7. ASSUME NEW i \in 1 .. 36
      PROVE  text[i] = chars[i]
  <2>1. CASE i \in DashAt
    BY <1>4, <1>6, <2>1
  <2>2. CASE i \notin DashAt
    <3> DEFINE j == i - Before(i)
    <3>1. j \in 1 .. 32 /\ j + Gap(j) = i
      BY <2>2, Places36
    <3>2. text[i] = c[j]
      BY <1>6, <2>2
    <3> HIDE DEF j
    <3>3. c[j] = chars[i]
      BY <1>2, <3>1
    <3> QED
      BY <3>2, <3>3
  <2> QED
    BY <2>1, <2>2
<1>8. text = chars
  BY <1>1, <1>6, <1>7
<1> QED
  BY <1>8 DEF text, c

\* What the two parsers of types/cloid.go answer.
LEMMA Parsers ==
  ASSUME NEW text
  PROVE  /\ ParseCloid(text) =
              IF text.prefix = "0x" /\ Len(text.chars) = 32 /\ ToSet(text.chars) \subseteq Hex
              THEN text.chars ELSE NoCloid
         /\ CloidFromUUID(text) =
              IF text.prefix = "" /\ IsUUID(text.chars) THEN Undashed(text.chars) ELSE NoCloid
BY Zenon DEF ParseCloid, CloidFromUUID, IsUUID

\* Writing and reading an id.
LEMMA IdWritten ==
  ASSUME NEW c, c \in [1 .. 32 -> Hex]
  PROVE  ParseCloid(AppendHex(c)) = c /\ CloidFromUUID(UUID(c)) = c
<1>1. AppendHex(c).prefix = "0x" /\ AppendHex(c).chars = c
  BY DEF AppendHex
<1>2. Len(c) = 32 /\ ToSet(c) \subseteq Hex
  <2>1. Len(c) = 32
    BY Members
  <2>2. ToSet(c) \subseteq Hex
    BY Members
  <2> QED
    BY <2>1, <2>2
<1>3. ParseCloid(AppendHex(c)) = c
  BY <1>1, <1>2, Parsers, Zenon
<1>4. UUID(c).prefix = ""
  BY Dashed, Zenon
<1> QED
  BY <1>3, <1>4, DashedRead, Parsers, Zenon

\* Reading a text and writing it.
LEMMA IdRead ==
  ASSUME NEW S, NEW n \in Nat, NEW chars, chars \in [1 .. n -> S], NEW p, NEW text,
         text = [prefix |-> p, chars |-> chars]
  PROVE  /\ IsSet(ParseCloid(text)) => AppendHex(ParseCloid(text)) = text
         /\ IsSet(CloidFromUUID(text)) => UUID(CloidFromUUID(text)) = text
<1>1. text.prefix = p /\ text.chars = chars
  OBVIOUS
<1>2. ASSUME IsSet(ParseCloid(text))
      PROVE  AppendHex(ParseCloid(text)) = text
  <2>1. p = "0x" /\ ParseCloid(text) = chars
    BY <1>1, <1>2, Parsers, Zenon DEF IsSet
  <2> QED
    BY <2>1, Zenon DEF AppendHex
<1>3. ASSUME IsSet(CloidFromUUID(text))
      PROVE  UUID(CloidFromUUID(text)) = text
  <2>1. p = "" /\ IsUUID(chars) /\ CloidFromUUID(text) = Undashed(chars)
    BY <1>1, <1>3, Parsers, Zenon DEF IsSet
  <2>2. UUID(Undashed(chars)).chars = chars
    BY <2>1, ReadDashed
  <2>3. UUID(Undashed(chars)) = [prefix |-> "", chars |-> UUID(Undashed(chars)).chars]
    BY UUIDText, Zenon
  <2> QED
    BY <2>1, <2>2, <2>3, Zenon
<1> QED
  BY <1>2, <1>3

\* Every number's text has no superfluous zero and reads back as that number; a
\* text is read as exactly the number it says or not at all; an id is read from
\* a text exactly when the text is that id's own form, for every int64, text and
\* id (types/fixed.go, types/cloid.go).
THEOREM WireRoundTripAlways == Spec => []WireRoundTrip
<1>1. ASSUME InputType, input.kind = "fixed"
      PROVE  /\ Canonical(AppendWire(input.value))
             /\ parseFixed(AppendWire(input.value), TRUE) = Done(input.value)
  <2>1. PICK v \in -MaxInt .. MaxInt : input = [kind |-> "fixed", value |-> v]
    BY <1>1, Kinds, Zenon DEF IsFixed
  <2>2. input.value = v
    BY <2>1
  <2>3. MaxInt \in Nat
    BY Constants
  <2>4. v \in Int /\ AbsOf(v) =< MaxInt
    BY <2>3 DEF AbsOf
  <2>5. Canonical(AppendWire(v)) /\ parseFixed(AppendWire(v), TRUE) = Done(v)
    BY <2>4, WrittenCanonical, WrittenRead
  <2> QED
    BY <2>2, <2>5, Zenon
<1>2. ASSUME InputType, input.kind = "text"
      PROVE  ParsesExactly(input.text)
  <2>1. PICK int \in Upto(2), frac \in Upto(3) : \E sign, dot :
               input = [kind |-> "text", text |-> Text(sign, int, dot, frac)]
    BY <1>2, Kinds, Zenon DEF IsText
  <2>2. \E sign, dot : input.text = Text(sign, int, dot, frac)
    BY <2>1
  <2>3. input.text.int = int /\ input.text.frac = frac
    BY <2>2 DEF Text
  <2>4. \A n \in Nat : \A s \in Upto(n) : s \in Seq(Nat)
    <3> SUFFICES ASSUME NEW n \in Nat, NEW s \in Upto(n)
                 PROVE  s \in Seq(Nat)
      OBVIOUS
    <3>1. PICK m \in 0 .. n : s \in [1 .. m -> Digits]
      BY DEF Upto
    <3>2. Digits \subseteq Nat
      BY ValuesAssumption, Zenon
    <3>3. s \in [1 .. m -> Nat]
      <4> HIDE DEF Upto
      <4> QED
        BY <3>1, <3>2
    <3> QED
      BY <3>3, FunctionSeq
  <2>5. input.text.int \in Seq(Nat) /\ input.text.frac \in Seq(Nat)
    BY <2>3, <2>4
  <2> QED
    BY <2>5, TextRead
<1>3. ASSUME InputType, input.kind = "id"
      PROVE  /\ ParseCloid(AppendHex(input.digits)) = input.digits
             /\ CloidFromUUID(UUID(input.digits)) = input.digits
             /\ IsSet(ParseCloid(input.text)) =>
                  AppendHex(ParseCloid(input.text)) = input.text
             /\ IsSet(CloidFromUUID(input.text)) =>
                  UUID(CloidFromUUID(input.text)) = input.text
  <2>1. PICK c \in Cloids : \E chars, at, ch, prefix :
               /\ chars = UUID(c).chars \/ chars = AppendHex(c).chars
               /\ input = [kind |-> "id", digits |-> c,
                           text |-> [prefix |-> prefix, chars |-> [chars EXCEPT ![at] = ch]]]
    BY <1>3, Kinds, Zenon DEF IsId
  <2>2. PICK chars, at, ch, prefix :
               /\ chars = UUID(c).chars \/ chars = AppendHex(c).chars
               /\ input = [kind |-> "id", digits |-> c,
                           text |-> [prefix |-> prefix, chars |-> [chars EXCEPT ![at] = ch]]]
    BY <2>1, Zenon
  <2>3. c \in [1 .. 32 -> Hex]
    BY ValuesAssumption, Zenon
  <2>4. PICK n \in Nat : chars \in [1 .. n -> 0 .. 16]
    <3>1. UUID(c).chars \in [1 .. 36 -> 0 .. 16]
      BY <2>3, Dashed, Zenon
    <3>2. AppendHex(c).chars \in [1 .. 32 -> 0 .. 16]
      BY <2>3 DEF AppendHex, Hex
    <3> QED
      BY <2>2, <3>1, <3>2
  <2> DEFINE f == [chars EXCEPT ![at] = ch]
  <2>5. f \in [1 .. n -> (0 .. 16) \cup {ch}]
    BY <2>4
  <2> HIDE DEF f
  <2>6. input.digits = c /\ input.text = [prefix |-> prefix, chars |-> f]
    BY <2>2 DEF f
  <2>7. ParseCloid(AppendHex(c)) = c /\ CloidFromUUID(UUID(c)) = c
    BY <2>3, IdWritten
  <2>8. /\ IsSet(ParseCloid(input.text)) => AppendHex(ParseCloid(input.text)) = input.text
        /\ IsSet(CloidFromUUID(input.text)) => UUID(CloidFromUUID(input.text)) = input.text
    BY <2>5, <2>6, IdRead, Zenon
  <2> QED
    BY <2>6, <2>7, <2>8, Zenon
<1>4. InputType => WireRoundTrip
  BY <1>1, <1>2, <1>3, Zenon DEF WireRoundTrip
<1> QED
  BY <1>4, InputTyped, PTL

(***************************************************************************)
(* MessagePack integers and headers.                                       *)
(***************************************************************************)
Byte == 0 .. 255
Widths == {1, 2, 4, 8}
Words == [1 .. 8 -> Byte]

\* The tags of the widths, those of signed integers apart.
LEMMA Tags ==
  /\ DOMAIN UintTag = Widths /\ DOMAIN IntTag = Widths
  /\ \A n \in Widths : UintTag[n] \in 204 .. 207 /\ IntTag[n] \in 208 .. 211
  /\ Range(IntTag) = 208 .. 211
<1>1. DOMAIN UintTag = Widths /\ DOMAIN IntTag = Widths
  BY DEF UintTag, IntTag, Widths
<1>2. UintTag[1] = 204 /\ UintTag[2] = 205 /\ UintTag[4] = 206 /\ UintTag[8] = 207
  BY DEF UintTag
<1>3. IntTag[1] = 208 /\ IntTag[2] = 209 /\ IntTag[4] = 210 /\ IntTag[8] = 211
  BY <1>2 DEF IntTag
<1>4. Range(IntTag) = {IntTag[1], IntTag[2], IntTag[4], IntTag[8]}
  BY <1>1, Zenon DEF Range, Widths
<1>5. {208, 209, 210, 211} = 208 .. 211
  OBVIOUS
<1> QED
  BY <1>1, <1>2, <1>3, <1>4, <1>5 DEF Widths

\* The last bytes of an integer.
LEMMA LowOf ==
  ASSUME NEW v \in Words, NEW n \in Widths
  PROVE  /\ LowBytes(v, n) \in Seq(Byte) /\ Len(LowBytes(v, n)) = n
         /\ \A i \in 1 .. n : LowBytes(v, n)[i] = v[(8 - n) + i]
<1> DEFINE s == LowBytes(v, n)
<1>1. n \in 1 .. 8
  BY DEF Widths
<1>2. \A i \in 9 - n .. 8 : v[i] \in Byte
  BY <1>1 DEF Words
<1>3. 9 - n \in Int /\ 8 \in Int
  BY <1>1
<1>4. /\ s \in Seq(Byte) /\ Len(s) = (IF 9 - n <= 8 THEN 8 - (9 - n) + 1 ELSE 0)
      /\ \A i \in 1 .. 8 - (9 - n) + 1 : s[i] = v[(9 - n) + i - 1]
  BY <1>2, <1>3, SubSeqProperties DEF LowBytes
<1> HIDE DEF s
<1>5. 8 - (9 - n) + 1 = n /\ 9 - n <= 8
  BY <1>1
<1>6. ASSUME NEW i \in 1 .. n
      PROVE  s[i] = v[(8 - n) + i]
  <2>1. (9 - n) + i - 1 = (8 - n) + i
    BY <1>1
  <2> QED
    BY <1>4, <1>5, <2>1
<1> QED
  BY <1>4, <1>5, <1>6 DEF s

\* A tag and the last bytes behind it.
LEMMA TaggedOf ==
  ASSUME NEW v \in Words, NEW n \in Widths, NEW t \in Byte
  PROVE  LET s == <<t>> \o LowBytes(v, n)
         IN /\ Len(s) = n + 1 /\ s[1] = t /\ s[2] = v[9 - n] /\ Tail(s) = LowBytes(v, n)
<1> DEFINE low == LowBytes(v, n)
           s == <<t>> \o low
<1>1. n \in 1 .. 8
  BY DEF Widths
<1>2. low \in Seq(Byte) /\ Len(low) = n /\ low[1] = v[9 - n]
  <2>1. 1 \in 1 .. n /\ (8 - n) + 1 = 9 - n
    BY <1>1
  <2> QED
    BY <2>1, LowOf
<1> HIDE DEF low
<1>3. <<t>> \in Seq(Byte) /\ Len(<<t>>) = 1 /\ <<t>>[1] = t
  OBVIOUS
<1>4. /\ s \in Seq(Byte) /\ Len(s) = Len(<<t>>) + Len(low)
      /\ \A i \in 1 .. Len(<<t>>) + Len(low) :
           s[i] = IF i <= Len(<<t>>) THEN <<t>>[i] ELSE low[i - Len(<<t>>)]
  BY <1>2, <1>3, ConcatProperties
<1> HIDE DEF s
<1>5. Len(s) = n + 1 /\ s[1] = t
  BY <1>1, <1>2, <1>3, <1>4
<1>6. \A i \in 1 .. n : s[i + 1] = low[i]
  <2> SUFFICES ASSUME NEW i \in 1 .. n
               PROVE  s[i + 1] = low[i]
    OBVIOUS
  <2>1. i + 1 \in 1 .. 1 + n /\ ~ (i + 1 <= 1) /\ (i + 1) - 1 = i
    BY <1>1
  <2> QED
    BY <1>2, <1>3, <1>4, <2>1
<1>7. s[2] = v[9 - n]
  <2>1. 1 \in 1 .. n /\ 1 + 1 = 2
    BY <1>1
  <2> QED
    BY <1>2, <1>6, <2>1
<1>8. Tail(s) = low
  <2>1. s # << >>
    BY <1>1, <1>5
  <2>2. Tail(s) \in Seq(Byte) /\ Len(Tail(s)) = Len(s) - 1
        /\ \A i \in 1 .. Len(Tail(s)) : Tail(s)[i] = s[i + 1]
    BY <1>4, <2>1, HeadTailProperties
  <2>3. Len(Tail(s)) = n
    BY <1>1, <1>5, <2>2
  <2>4. \A i \in 1 .. Len(Tail(s)) : Tail(s)[i] = low[i]
    BY <1>6, <2>2, <2>3
  <2> QED
    BY <1>2, <2>2, <2>3, <2>4, SeqEqual
<1> QED
  BY <1>5, <1>7, <1>8 DEF s, low

\* Bytes in front of the last ones give the integer back if they were there.
LEMMA Extended ==
  ASSUME NEW v \in Words, NEW n \in Widths, NEW b
  PROVE  Extend(b, LowBytes(v, n)) = v <=> \A i \in 1 .. 8 - n : v[i] = b
<1> DEFINE low == LowBytes(v, n)
           e == [i \in 1 .. 8 |-> IF i =< 8 - n THEN b ELSE low[i - (8 - n)]]
<1>1. n \in 1 .. 8
  BY DEF Widths
<1>2. Len(low) = n /\ \A i \in 1 .. n : low[i] = v[(8 - n) + i]
  BY LowOf
<1> HIDE DEF low
<1>3. Extend(b, low) = e
  BY <1>2 DEF Extend
<1>4. \A i \in 1 .. 8 : e[i] = IF i =< 8 - n THEN b ELSE v[i]
  <2> SUFFICES ASSUME NEW i \in 1 .. 8, ~ (i =< 8 - n)
               PROVE  e[i] = v[i]
    OBVIOUS
  <2>1. i - (8 - n) \in 1 .. n /\ (8 - n) + (i - (8 - n)) = i
    BY <1>1
  <2> QED
    BY <1>2, <2>1
<1>5. e = [i \in 1 .. 8 |-> e[i]] /\ v = [i \in 1 .. 8 |-> v[i]]
  BY DEF Words
<1> HIDE DEF e
<1>6. \A i \in 1 .. 8 - n : i \in 1 .. 8 /\ i =< 8 - n
  BY <1>1
<1>7. ASSUME e = v
      PROVE  \A i \in 1 .. 8 - n : v[i] = b
  BY <1>4, <1>6, <1>7
<1>8. ASSUME \A i \in 1 .. 8 - n : v[i] = b
      PROVE  e = v
  <2>1. \A i \in 1 .. 8 : e[i] = v[i]
    <3> SUFFICES ASSUME NEW i \in 1 .. 8
                 PROVE  e[i] = v[i]
      OBVIOUS
    <3>1. i =< 8 - n => i \in 1 .. 8 - n
      BY <1>1
    <3> QED
      BY <1>4, <1>8, <3>1
  <2> QED
    BY <1>5, <2>1
<1> QED
  BY <1>3, <1>7, <1>8 DEF low

\* What one byte is read as.
LEMMA OneRead ==
  ASSUME NEW v \in Words
  PROVE  /\ Len(LowBytes(v, 1)) = 1 /\ LowBytes(v, 1)[1] = v[8]
         /\ ReadInt(LowBytes(v, 1)) = v <=>
              \A i \in 1 .. 7 : v[i] = IF v[8] >= 224 THEN 255 ELSE 0
<1>1. 1 \in Widths /\ 8 - 1 = 7
  BY DEF Widths
<1>2. Len(LowBytes(v, 1)) = 1 /\ LowBytes(v, 1)[1] = v[8]
  <2>1. Len(LowBytes(v, 1)) = 1 /\ \A i \in 1 .. 1 : LowBytes(v, 1)[i] = v[(8 - 1) + i]
    BY <1>1, LowOf
  <2>2. 1 \in 1 .. 1 /\ (8 - 1) + 1 = 8
    OBVIOUS
  <2> QED
    BY <2>1, <2>2
<1>3. ReadInt(LowBytes(v, 1)) = Extend(IF v[8] >= 224 THEN 255 ELSE 0, LowBytes(v, 1))
  BY <1>2, Zenon DEF ReadInt
<1> QED
  BY <1>1, <1>2, <1>3, Extended

\* The same of a tag and the bytes behind it.
LEMMA TaggedRead ==
  ASSUME NEW v \in Words, NEW n \in Widths, NEW t \in Byte
  PROVE  /\ Len(<<t>> \o LowBytes(v, n)) = n + 1
         /\ ReadInt(<<t>> \o LowBytes(v, n)) = v <=>
              \A i \in 1 .. 8 - n :
                v[i] = IF t \in 208 .. 211 /\ v[9 - n] >= 128 THEN 255 ELSE 0
<1> DEFINE s == <<t>> \o LowBytes(v, n)
           b == IF t \in 208 .. 211 /\ v[9 - n] >= 128 THEN 255 ELSE 0
<1>1. Len(s) = n + 1 /\ s[1] = t /\ s[2] = v[9 - n] /\ Tail(s) = LowBytes(v, n)
  BY TaggedOf
<1> HIDE DEF s
<1>2. ~ (Len(s) = 1)
  BY <1>1 DEF Widths
<1>3. Range(IntTag) = 208 .. 211
  BY Tags
<1>4. ReadInt(s) = Extend(b, LowBytes(v, n))
  BY <1>1, <1>2, <1>3, ZenonT(40) DEF ReadInt
<1>5. Extend(b, LowBytes(v, n)) = v <=> \A i \in 1 .. 8 - n : v[i] = b
  <2> HIDE DEF b
  <2> QED
    BY Extended
<1> HIDE DEF b
<1>6. ReadInt(s) = v <=> \A i \in 1 .. 8 - n : v[i] = b
  BY <1>4, <1>5, Zenon
<1> QED
  BY <1>1, <1>6, Zenon DEF s, b

\* The narrowest width of a set that has the widest.
LEMMA Narrowest ==
  ASSUME NEW W, W \subseteq Widths, W # {}
  PROVE  \E n \in W : \A x \in W : n =< x
<1>1. W \subseteq Nat
  BY DEF Widths
<1> QED
  BY <1>1, SmallestOf

\* What AppendUint and AppendInt write.
LEMMA UintWritten ==
  ASSUME NEW v \in Words
  PROVE  \/ FitsUint(v, 1) /\ v[8] =< 127 /\ AppendUint(v) = LowBytes(v, 1)
         \/ /\ ~ (FitsUint(v, 1) /\ v[8] =< 127)
            /\ \E n \in Widths : /\ FitsUint(v, n)
                                 /\ \A x \in Widths : FitsUint(v, x) => n =< x
                                 /\ AppendUint(v) = <<UintTag[n]>> \o LowBytes(v, n)
<1> DEFINE W == {w \in Widths : FitsUint(v, w)}
           Is(w) == FitsUint(v, w) /\ \A x \in DOMAIN UintTag : FitsUint(v, x) => w =< x
           n == CHOOSE w \in DOMAIN UintTag : Is(w)
<1>1. 8 \in W
  BY DEF FitsUint, Widths
<1>2. DOMAIN UintTag = Widths
  BY Tags
<1>3. \E w \in W : \A x \in W : w =< x
  <2>1. W \subseteq Widths /\ W # {}
    BY <1>1
  <2> HIDE DEF W
  <2> QED
    BY <2>1, Narrowest
<1>4. \E w \in DOMAIN UintTag : Is(w)
  BY <1>2, <1>3, Zenon
<1>5. n \in DOMAIN UintTag /\ Is(n)
  BY <1>4, Zenon
<1>6. AppendUint(v) = IF FitsUint(v, 1) /\ v[8] =< 127 THEN LowBytes(v, 1)
                      ELSE <<UintTag[n]>> \o LowBytes(v, n)
  BY Zenon DEF AppendUint
<1> HIDE DEF n
<1> QED
  BY <1>2, <1>5, <1>6, Zenon

\* The same of a negative integer.
LEMMA IntWritten ==
  ASSUME NEW v \in Words, v[1] >= 128
  PROVE  \/ FitsInt(v, 1) /\ v[8] >= 224 /\ AppendInt(v) = LowBytes(v, 1)
         \/ /\ ~ (FitsInt(v, 1) /\ v[8] >= 224)
            /\ \E n \in Widths : /\ FitsInt(v, n)
                                 /\ \A x \in Widths : FitsInt(v, x) => n =< x
                                 /\ AppendInt(v) = <<IntTag[n]>> \o LowBytes(v, n)
<1> DEFINE W == {w \in Widths : FitsInt(v, w)}
           Is(w) == FitsInt(v, w) /\ \A x \in DOMAIN IntTag : FitsInt(v, x) => w =< x
           n == CHOOSE w \in DOMAIN IntTag : Is(w)
<1>1. 8 \in W
  BY DEF FitsInt, Widths
<1>2. DOMAIN IntTag = Widths
  BY Tags
<1>3. \E w \in W : \A x \in W : w =< x
  <2>1. W \subseteq Widths /\ W # {}
    BY <1>1
  <2> HIDE DEF W
  <2> QED
    BY <2>1, Narrowest
<1>4. \E w \in DOMAIN IntTag : Is(w)
  BY <1>2, <1>3, Zenon
<1>5. n \in DOMAIN IntTag /\ Is(n)
  BY <1>4, Zenon
<1>6. ~ (v[1] < 128)
  BY DEF Words, Byte
<1>7. AppendInt(v) = IF FitsInt(v, 1) /\ v[8] >= 224 THEN LowBytes(v, 1)
                     ELSE <<IntTag[n]>> \o LowBytes(v, n)
  BY <1>6, Zenon DEF AppendInt
<1> HIDE DEF n
<1> QED
  BY <1>2, <1>5, <1>7, Zenon

\* The encodings there are.
LEMMA EncodingForms ==
  ASSUME NEW v, NEW other \in Encodings(v)
  PROVE  \/ other = LowBytes(v, 1)
         \/ \E tag \in {UintTag, IntTag}, n \in Widths : other = <<tag[n]>> \o LowBytes(v, n)
<1>1. DOMAIN UintTag = Widths
  BY Tags
<1> QED
  BY <1>1 DEF Encodings

\* What another encoding that is read as v says of v.
LEMMA OtherRead ==
  ASSUME NEW v \in Words, NEW other \in Encodings(v), ReadInt(other) = v,
         other[1] =< 127 \/ other[1] >= 224 \/ Len(other) > 1
  PROVE  \/ FitsUint(v, 1) /\ v[8] =< 127
         \/ FitsInt(v, 1) /\ v[8] >= 224
         \/ \E n \in Widths : Len(other) = n + 1 /\ (n = 8 \/ FitsUint(v, n) \/ FitsInt(v, n))
<1>1. CASE other = LowBytes(v, 1)
  <2>1. Len(other) = 1 /\ other[1] = v[8]
        /\ \A i \in 1 .. 7 : v[i] = IF v[8] >= 224 THEN 255 ELSE 0
    BY <1>1, OneRead
  <2>2. v[8] \in 0 .. 255
    BY DEF Words, Byte
  <2>3. v[8] =< 127 \/ v[8] >= 224
    BY <2>1
  <2>4. CASE v[8] >= 224
    <3>1. \A i \in 1 .. 8 - 1 : v[i] = 255
      BY <2>1, <2>4
    <3>2. v[9 - 1] >= 128
      <4>1. 9 - 1 = 8
        OBVIOUS
      <4>2. v[8] >= 128
        <5> DEFINE x == v[8]
        <5>1. x \in 0 .. 255 /\ x >= 224
          BY <2>2, <2>4, Zenon
        <5> HIDE DEF x
        <5>2. x >= 128
          BY <5>1
        <5> QED
          BY <5>2, Zenon DEF x
      <4> QED
        BY <4>1, <4>2, Zenon
    <3> QED
      BY <2>4, <3>1, <3>2, Zenon DEF FitsInt
  <2>5. CASE v[8] =< 127
    <3>1. \A i \in 1 .. 8 - 1 : v[i] = 0
      BY <2>1, <2>2, <2>5
    <3> QED
      BY <2>5, <3>1, Zenon DEF FitsUint
  <2> QED
    BY <2>3, <2>4, <2>5
<1>2. ASSUME NEW tag \in {UintTag, IntTag}, NEW n \in Widths,
             other = <<tag[n]>> \o LowBytes(v, n)
      PROVE  Len(other) = n + 1 /\ (n = 8 \/ FitsUint(v, n) \/ FitsInt(v, n))
  <2> DEFINE t == tag[n]
  <2>1. t \in Byte
    BY Tags DEF Byte
  <2> HIDE DEF t
  <2>2. /\ Len(other) = n + 1
        /\ \A i \in 1 .. 8 - n :
             v[i] = IF t \in 208 .. 211 /\ v[9 - n] >= 128 THEN 255 ELSE 0
    BY <1>2, <2>1, TaggedRead, ZenonT(40) DEF t
  <2>3. CASE t \in 208 .. 211 /\ v[9 - n] >= 128
    BY <2>2, <2>3, ZenonT(40) DEF FitsInt
  <2>4. CASE ~ (t \in 208 .. 211 /\ v[9 - n] >= 128)
    BY <2>2, <2>4, Zenon DEF FitsUint
  <2> QED
    BY <2>2, <2>3, <2>4
<1> QED
  BY <1>1, <1>2, EncodingForms, Zenon

\* The two signs exclude each other's forms.
LEMMA Signs ==
  ASSUME NEW v \in Words, NEW n \in Widths
  PROVE  /\ v[1] < 128 /\ FitsInt(v, n) => FALSE
         /\ v[1] >= 128 /\ FitsUint(v, n) => n = 8
<1>1. n \in 1 .. 8
  BY DEF Widths
<1>2. v[1] \in 0 .. 255
  BY DEF Words, Byte
<1>3. n # 8 => 1 \in 1 .. 8 - n
  BY <1>1
<1>4. n = 8 => 9 - n = 1
  OBVIOUS
<1> QED
  BY <1>2, <1>3, <1>4 DEF FitsInt, FitsUint

\* No encoding is empty.
LEMMA EncodingLength ==
  ASSUME NEW v \in Words, NEW other \in Encodings(v)
  PROVE  1 =< Len(other)
<1>1. CASE other = LowBytes(v, 1)
  BY <1>1, OneRead
<1>2. ASSUME NEW tag \in {UintTag, IntTag}, NEW n \in Widths,
             other = <<tag[n]>> \o LowBytes(v, n)
      PROVE  1 =< Len(other)
  <2>1. tag[n] \in Byte
    BY Tags DEF Byte
  <2>2. Len(other) = n + 1
    BY <1>2, <2>1, TaggedRead, Zenon
  <2> QED
    BY <2>2 DEF Widths
<1> QED
  BY <1>1, <1>2, EncodingForms, Zenon

\* An integer that is not negative is written in the fewest bytes.
LEMMA UintShortest ==
  ASSUME NEW v \in Words, v[1] < 128
  PROVE  Shortest(v, AppendUint(v))
<1> DEFINE bytes == AppendUint(v)
<1>1. CASE FitsUint(v, 1) /\ v[8] =< 127 /\ bytes = LowBytes(v, 1)
  <2>1. ~ (v[8] >= 224)
    BY <1>1 DEF Words, Byte
  <2>2. \A i \in 1 .. 7 : v[i] = 0
    BY <1>1 DEF FitsUint
  <2>3. ReadInt(bytes) = v /\ Len(bytes) = 1
    BY <1>1, <2>1, <2>2, OneRead
  <2>4. \A other \in Encodings(v) : 1 =< Len(other)
    BY EncodingLength
  <2> QED
    BY <2>3, <2>4, Zenon DEF Shortest
<1>2. CASE ~ (FitsUint(v, 1) /\ v[8] =< 127)
  <2>1. PICK n \in Widths : /\ FitsUint(v, n)
                            /\ \A x \in Widths : FitsUint(v, x) => n =< x
                            /\ bytes = <<UintTag[n]>> \o LowBytes(v, n)
    BY <1>2, UintWritten, Zenon
  <2> HIDE DEF bytes
  <2>2. UintTag[n] \in Byte /\ ~ (UintTag[n] \in 208 .. 211)
    BY Tags DEF Byte
  <2>3. \A i \in 1 .. 8 - n : v[i] = 0
    BY <2>1, Zenon DEF FitsUint
  <2>4. Len(bytes) = n + 1 /\ ReadInt(bytes) = v
    BY <2>1, <2>2, <2>3, TaggedRead, ZenonT(40)
  <2>5. ASSUME NEW other \in Encodings(v), ReadInt(other) = v,
               other[1] =< 127 \/ other[1] >= 224 \/ Len(other) > 1
        PROVE  Len(bytes) =< Len(other)
    <3>1. 1 \in Widths /\ ~ FitsInt(v, 1)
      BY Signs DEF Widths
    <3>2. PICK m \in Widths : Len(other) = m + 1 /\ (m = 8 \/ FitsUint(v, m) \/ FitsInt(v, m))
      BY <1>2, <2>5, <3>1, OtherRead
    <3>3. ~ FitsInt(v, m)
      BY Signs
    <3>4. m = 8 => n =< m
      BY DEF Widths
    <3>5. n =< m
      BY <2>1, <3>2, <3>3, <3>4
    <3> QED
      BY <2>4, <3>2, <3>5 DEF Widths
  <2> QED
    BY <2>4, <2>5, Zenon DEF Shortest, bytes
<1> QED
  BY <1>1, <1>2, UintWritten, Zenon

\* And so is a negative one.
LEMMA IntShortest ==
  ASSUME NEW v \in Words, v[1] >= 128
  PROVE  Shortest(v, AppendInt(v))
<1> DEFINE bytes == AppendInt(v)
<1>1. CASE FitsInt(v, 1) /\ v[8] >= 224 /\ bytes = LowBytes(v, 1)
  <2>1. \A i \in 1 .. 7 : v[i] = 255
    BY <1>1 DEF FitsInt
  <2>2. ReadInt(bytes) = v /\ Len(bytes) = 1
    BY <1>1, <2>1, OneRead
  <2>3. \A other \in Encodings(v) : 1 =< Len(other)
    BY EncodingLength
  <2> QED
    BY <2>2, <2>3, Zenon DEF Shortest
<1>2. CASE ~ (FitsInt(v, 1) /\ v[8] >= 224)
  <2>1. PICK n \in Widths : /\ FitsInt(v, n)
                            /\ \A x \in Widths : FitsInt(v, x) => n =< x
                            /\ bytes = <<IntTag[n]>> \o LowBytes(v, n)
    BY <1>2, IntWritten, Zenon
  <2> HIDE DEF bytes
  <2>2. IntTag[n] \in Byte /\ IntTag[n] \in 208 .. 211
    BY Tags DEF Byte
  <2>3. v[9 - n] >= 128 /\ \A i \in 1 .. 8 - n : v[i] = 255
    BY <2>1, Zenon DEF FitsInt
  <2>4. Len(bytes) = n + 1 /\ ReadInt(bytes) = v
    <3>1. \A i \in 1 .. 8 - n :
            v[i] = IF IntTag[n] \in 208 .. 211 /\ v[9 - n] >= 128 THEN 255 ELSE 0
      BY <2>2, <2>3
    <3> QED
      BY <2>1, <2>2, <3>1, TaggedRead, ZenonT(40)
  <2>5. ASSUME NEW other \in Encodings(v), ReadInt(other) = v,
               other[1] =< 127 \/ other[1] >= 224 \/ Len(other) > 1
        PROVE  Len(bytes) =< Len(other)
    <3>1. 1 \in Widths /\ ~ FitsUint(v, 1)
      BY Signs DEF Widths
    <3>2. PICK m \in Widths : Len(other) = m + 1 /\ (m = 8 \/ FitsUint(v, m) \/ FitsInt(v, m))
      BY <1>2, <2>5, <3>1, OtherRead
    <3>3. m # 8 => ~ FitsUint(v, m)
      BY Signs
    <3>4. m = 8 => n =< m
      BY DEF Widths
    <3>5. n =< m
      BY <2>1, <3>2, <3>3, <3>4
    <3> QED
      BY <2>4, <3>2, <3>5 DEF Widths
  <2> QED
    BY <2>4, <2>5, Zenon DEF Shortest, bytes
<1> QED
  BY <1>1, <1>2, IntWritten, Zenon

\* One, two and four bytes as a number.
BytesSay(a, b, c, d) ==
  /\ NumberOf(<<d>>) = d
  /\ NumberOf(<<c, d>>) = 256 * c + d
  /\ NumberOf(<<a, b, c, d>>) = 256 * (256 * (256 * a + b) + c) + d

\* What two bytes and four say as a number.
LEMMA BytesRead ==
  ASSUME NEW a \in Nat, NEW b \in Nat, NEW c \in Nat, NEW d \in Nat
  PROVE  BytesSay(a, b, c, d)
<1>1. NumberOf(<<d>>) = d
  <2>1. <<d>> \in [1 .. 1 -> Nat] /\ Len(<<d>>) = 1
    OBVIOUS
  <2>2. ReadInTurn(256, <<d>>, 1)
    <3>1. 256 \in Nat /\ 1 \in Nat
      OBVIOUS
    <3> QED
      BY <2>1, <3>1, Positional, ZenonT(40)
  <2>3. PICK f \in [0 .. 1 -> Nat] : /\ f[0] = 0 /\ InBase(256, <<d>>) = f[1]
                                     /\ \A i \in 1 .. 1 : f[i] = 256 * f[i - 1] + <<d>>[i]
    BY <2>2, Zenon DEF ReadInTurn
  <2>4. f[1] = 256 * f[0] + d
    BY <2>3
  <2>5. f[1] = d
    BY <2>3, <2>4
  <2> QED
    BY <2>3, <2>5 DEF NumberOf
<1>2. NumberOf(<<c, d>>) = 256 * c + d
  <2>1. <<c, d>> \in [1 .. 2 -> Nat] /\ Len(<<c, d>>) = 2
    OBVIOUS
  <2>2. ReadInTurn(256, <<c, d>>, 2)
    <3>1. 256 \in Nat /\ 2 \in Nat
      OBVIOUS
    <3> QED
      BY <2>1, <3>1, Positional, ZenonT(40)
  <2>3. PICK f \in [0 .. 2 -> Nat] : /\ f[0] = 0 /\ InBase(256, <<c, d>>) = f[2]
                                     /\ \A i \in 1 .. 2 : f[i] = 256 * f[i - 1] + <<c, d>>[i]
    BY <2>2, Zenon DEF ReadInTurn
  <2>4. f[1] = 256 * f[0] + c /\ f[2] = 256 * f[1] + d
    BY <2>3
  <2>5. f[2] = 256 * c + d
    BY <2>3, <2>4
  <2> QED
    BY <2>3, <2>5 DEF NumberOf
<1>3. NumberOf(<<a, b, c, d>>) = 256 * (256 * (256 * a + b) + c) + d
  <2>1. <<a, b, c, d>> \in [1 .. 4 -> Nat] /\ Len(<<a, b, c, d>>) = 4
    OBVIOUS
  <2>2. ReadInTurn(256, <<a, b, c, d>>, 4)
    <3>1. 256 \in Nat /\ 4 \in Nat
      OBVIOUS
    <3> QED
      BY <2>1, <3>1, Positional, ZenonT(40)
  <2>3. PICK f \in [0 .. 4 -> Nat] :
          /\ f[0] = 0 /\ InBase(256, <<a, b, c, d>>) = f[4]
          /\ \A i \in 1 .. 4 : f[i] = 256 * f[i - 1] + <<a, b, c, d>>[i]
    BY <2>2, Zenon DEF ReadInTurn
  <2>4. /\ f[1] = 256 * f[0] + a /\ f[2] = 256 * f[1] + b
        /\ f[3] = 256 * f[2] + c /\ f[4] = 256 * f[3] + d
    BY <2>3
  <2>5. f[4] = 256 * (256 * (256 * a + b) + c) + d
    BY <2>3, <2>4
  <2> QED
    BY <2>3, <2>5 DEF NumberOf
<1> QED
  BY <1>1, <1>2, <1>3, Zenon DEF BytesSay

\* A short sequence by its elements.
LEMMA Elements ==
  ASSUME NEW S, NEW r \in Seq(S)
  PROVE  /\ Len(r) = 2 => r = <<r[1], r[2]>>
         /\ Len(r) = 3 => r = <<r[1], r[2], r[3]>>
         /\ Len(r) = 4 => r = <<r[1], r[2], r[3], r[4]>>
         /\ Len(r) = 5 => r = <<r[1], r[2], r[3], r[4], r[5]>>
<1>1. r \in [1 .. Len(r) -> S]
  BY LenProperties
<1>2. ASSUME NEW q \in [1 .. 2 -> S]
      PROVE  q = <<q[1], q[2]>>
  OBVIOUS
<1>3. ASSUME NEW q \in [1 .. 3 -> S]
      PROVE  q = <<q[1], q[2], q[3]>>
  OBVIOUS
<1>4. ASSUME NEW q \in [1 .. 4 -> S]
      PROVE  q = <<q[1], q[2], q[3], q[4]>>
  OBVIOUS
<1>5. ASSUME NEW q \in [1 .. 5 -> S]
      PROVE  q = <<q[1], q[2], q[3], q[4], q[5]>>
  OBVIOUS
<1> QED
  BY <1>1, <1>2, <1>3, <1>4, <1>5, Zenon

\* Two and four bytes behind a tag.
AreQuads(a, b, c, d, t) ==
  /\ SubSeq(<<a, b, c, d>>, 5 - 2, 4) = <<c, d>>
  /\ SubSeq(<<a, b, c, d>>, 5 - 4, 4) = <<a, b, c, d>>
  /\ <<t>> \o <<c, d>> = <<t, c, d>> /\ <<t>> \o <<a, b, c, d>> = <<t, a, b, c, d>>
  /\ Len(<<t, c, d>>) = 3 /\ Len(<<t, a, b, c, d>>) = 5
  /\ Tail(<<t, c, d>>) = <<c, d>> /\ Tail(<<t, a, b, c, d>>) = <<a, b, c, d>>

\* Four bytes behind a tag: what joining, cutting and counting make of them.
LEMMA Quads ==
  ASSUME NEW a, NEW b, NEW c, NEW d, NEW t
  PROVE  AreQuads(a, b, c, d, t)
<1> DEFINE S == {a, b, c, d, t}
           s == <<a, b, c, d>>
           one == <<t>>
           two == <<c, d>>
<1>1. /\ s \in Seq(S) /\ Len(s) = 4 /\ s[1] = a /\ s[2] = b /\ s[3] = c /\ s[4] = d
      /\ one \in Seq(S) /\ Len(one) = 1 /\ one[1] = t
      /\ two \in Seq(S) /\ Len(two) = 2 /\ two[1] = c /\ two[2] = d
  OBVIOUS
<1> HIDE DEF S, s, one, two
<1>2. \A m \in Int : m > 0 =>
        /\ SubSeq(s, m, 4) \in Seq(S)
        /\ Len(SubSeq(s, m, 4)) = IF m <= 4 THEN 4 - m + 1 ELSE 0
        /\ \A i \in 1 .. 4 - m + 1 : SubSeq(s, m, 4)[i] = s[m + i - 1]
  <2> SUFFICES ASSUME NEW m \in Int, m > 0
               PROVE  /\ SubSeq(s, m, 4) \in Seq(S)
                      /\ Len(SubSeq(s, m, 4)) = IF m <= 4 THEN 4 - m + 1 ELSE 0
                      /\ \A i \in 1 .. 4 - m + 1 : SubSeq(s, m, 4)[i] = s[m + i - 1]
    OBVIOUS
  <2>1. \A i \in m .. 4 : s[i] \in S
    <3> TAKE i \in m .. 4
    <3>1. i \in 1 .. Len(s)
      BY <1>1
    <3> QED
      BY <1>1, <3>1, ElementOfSeq, Zenon
  <2> DEFINE n == 4
  <2>2. n \in Int /\ \A i \in m .. n : s[i] \in S
    BY <2>1
  <2> HIDE DEF n
  <2>3. /\ SubSeq(s, m, n) \in Seq(S)
        /\ Len(SubSeq(s, m, n)) = IF m <= n THEN n - m + 1 ELSE 0
        /\ \A i \in 1 .. n - m + 1 : SubSeq(s, m, n)[i] = s[m + i - 1]
    BY <2>2, SubSeqProperties
  <2> QED
    BY <2>3 DEF n
<1>3. SubSeq(s, 5 - 2, 4) = two
  <2> DEFINE m == 5 - 2
             r == SubSeq(s, m, 4)
  <2>1. m \in Int /\ m > 0 /\ m = 3
    OBVIOUS
  <2> HIDE DEF m
  <2>2. r \in Seq(S) /\ Len(r) = 2 /\ \A i \in 1 .. 2 : r[i] = s[m + i - 1]
    BY <1>2, <2>1
  <2> HIDE DEF r
  <2>3. r[1] = s[3] /\ r[2] = s[4]
    BY <2>1, <2>2
  <2>4. r = <<r[1], r[2]>>
    BY <2>2, Elements, Zenon
  <2> QED
    BY <1>1, <2>3, <2>4, Zenon DEF r, m, two
<1>4. SubSeq(s, 5 - 4, 4) = s
  <2> DEFINE m == 5 - 4
             r == SubSeq(s, m, 4)
  <2>1. m \in Int /\ m > 0 /\ m = 1
    OBVIOUS
  <2> HIDE DEF m
  <2>2. r \in Seq(S) /\ Len(r) = 4 /\ \A i \in 1 .. 4 : r[i] = s[m + i - 1]
    BY <1>2, <2>1
  <2> HIDE DEF r
  <2>3. r[1] = s[1] /\ r[2] = s[2] /\ r[3] = s[3] /\ r[4] = s[4]
    BY <2>1, <2>2
  <2>4. r = <<r[1], r[2], r[3], r[4]>>
    BY <2>2, Elements, Zenon
  <2> QED
    BY <1>1, <2>3, <2>4, Zenon DEF r, m, s
<1>5. \A p, q \in Seq(S) :
        /\ p \o q \in Seq(S) /\ Len(p \o q) = Len(p) + Len(q)
        /\ \A i \in 1 .. Len(p) + Len(q) :
             (p \o q)[i] = IF i <= Len(p) THEN p[i] ELSE q[i - Len(p)]
  BY ConcatProperties
<1>6. one \o two = <<t, c, d>>
  <2> DEFINE r == one \o two
  <2>1. /\ r \in Seq(S) /\ Len(r) = Len(one) + Len(two)
        /\ \A i \in 1 .. Len(one) + Len(two) :
             r[i] = IF i <= Len(one) THEN one[i] ELSE two[i - Len(one)]
    BY <1>1, <1>5
  <2> HIDE DEF r
  <2>2. Len(r) = 3 /\ r[1] = one[1] /\ r[2] = two[1] /\ r[3] = two[2]
    BY <1>1, <2>1
  <2>3. r = <<r[1], r[2], r[3]>>
    BY <2>1, <2>2, Elements, Zenon
  <2> QED
    BY <1>1, <2>2, <2>3, Zenon DEF r
<1>7. one \o s = <<t, a, b, c, d>>
  <2> DEFINE r == one \o s
  <2>1. /\ r \in Seq(S) /\ Len(r) = Len(one) + Len(s)
        /\ \A i \in 1 .. Len(one) + Len(s) :
             r[i] = IF i <= Len(one) THEN one[i] ELSE s[i - Len(one)]
    BY <1>1, <1>5
  <2> HIDE DEF r
  <2>2. Len(r) = 5 /\ r[1] = one[1] /\ r[2] = s[1] /\ r[3] = s[2] /\ r[4] = s[3] /\ r[5] = s[4]
    BY <1>1, <2>1
  <2>3. r = <<r[1], r[2], r[3], r[4], r[5]>>
    BY <2>1, <2>2, Elements, Zenon
  <2> QED
    BY <1>1, <2>2, <2>3, Zenon DEF r
<1>8. Len(<<t, c, d>>) = 3 /\ Len(<<t, a, b, c, d>>) = 5
  OBVIOUS
<1>9. Tail(<<t, c, d>>) = <<c, d>> /\ Tail(<<t, a, b, c, d>>) = <<a, b, c, d>>
  OBVIOUS
<1> QED
  BY <1>3, <1>4, <1>6, <1>7, <1>8, <1>9, Zenon DEF AreQuads, s, one, two

\* The bytes of a length say it.
LEMMA LengthSaid ==
  ASSUME NEW len \in Nat, InFourBytes(len), NEW t
  PROVE  /\ len =< MaxUint16 => LET s == <<t>> \o LengthBytes(len, 2)
                            IN Len(s) = 3 /\ NumberOf(Tail(s)) = len
         /\ LET s == <<t>> \o LengthBytes(len, 4)
            IN Len(s) = 5 /\ NumberOf(Tail(s)) = len
<1> DEFINE q1 == ShiftByte(len)
           q2 == ShiftByte(q1)
           q3 == ShiftByte(q2)
           a == q3 % 256
           b == q2 % 256
           c == q1 % 256
           d == len % 256
<1>1. q1 \in Nat /\ d \in 0 .. 255 /\ len = 256 * q1 + d
  BY DivMod DEF ShiftByte
<1>2. q3 =< 255
  BY Zenon DEF InFourBytes
<1> HIDE DEF q1
<1>4. q2 \in Nat /\ c \in 0 .. 255 /\ q1 = 256 * q2 + c
  <2>1. q1 \in Nat /\ 256 \in Nat \ {0}
    BY <1>1
  <2>2. q1 \div 256 \in Nat /\ q1 % 256 \in 0 .. 256 - 1 /\ q1 = 256 * (q1 \div 256) + (q1 % 256)
    BY <2>1, DivMod, ZenonT(40)
  <2>3. q2 = q1 \div 256
    BY Zenon DEF ShiftByte
  <2> QED
    BY <2>2, <2>3
<1> HIDE DEF q2
<1>5. q3 \in Nat /\ b \in 0 .. 255 /\ q2 = 256 * q3 + b
  <2>1. q2 \in Nat /\ 256 \in Nat \ {0}
    BY <1>4
  <2>2. q2 \div 256 \in Nat /\ q2 % 256 \in 0 .. 256 - 1 /\ q2 = 256 * (q2 \div 256) + (q2 % 256)
    BY <2>1, DivMod, ZenonT(40)
  <2>3. q3 = q2 \div 256
    BY Zenon DEF ShiftByte
  <2> QED
    BY <2>2, <2>3
<1> HIDE DEF q3
<1>7. a = q3
  BY <1>2, <1>5
<1> HIDE DEF a, b, c, d
<1>8. len = 256 * (256 * (256 * a + b) + c) + d
  BY <1>1, <1>4, <1>5, <1>7
<1>9. len =< MaxUint16 => len = 256 * c + d
  <2>1. len =< MaxUint16 => q2 = 0
    BY <1>1, <1>4, SMTT(20) DEF MaxUint16
  <2> QED
    BY <1>1, <1>4, <2>1, SMTT(20) DEF MaxUint16
<1>10. a \in Nat /\ b \in Nat /\ c \in Nat /\ d \in Nat
  BY <1>1, <1>4, <1>5, <1>7
<1>a. AreQuads(a, b, c, d, t)
  BY Quads, Zenon
<1>b. BytesSay(a, b, c, d)
  BY <1>10, BytesRead, Zenon
<1>11. LengthBytes(len, 2) = <<c, d>> /\ LengthBytes(len, 4) = <<a, b, c, d>>
  <2>1. \A n : LengthBytes(len, n) = SubSeq(<<a, b, c, d>>, 5 - n, 4)
    BY Zenon DEF LengthBytes, a, b, c, d, q1, q2, q3
  <2>2. SubSeq(<<a, b, c, d>>, 5 - 2, 4) = <<c, d>>
    BY <1>a, Zenon DEF AreQuads
  <2>3. SubSeq(<<a, b, c, d>>, 5 - 4, 4) = <<a, b, c, d>>
    BY <1>a, Zenon DEF AreQuads
  <2> QED
    BY <2>1, <2>2, <2>3, Zenon
<1>12. <<t>> \o <<c, d>> = <<t, c, d>> /\ <<t>> \o <<a, b, c, d>> = <<t, a, b, c, d>>
  BY <1>a, Zenon DEF AreQuads
<1>13. Len(<<t, c, d>>) = 3 /\ Len(<<t, a, b, c, d>>) = 5
  BY <1>a, Zenon DEF AreQuads
<1>14. Tail(<<t, c, d>>) = <<c, d>> /\ Tail(<<t, a, b, c, d>>) = <<a, b, c, d>>
  BY <1>a, Zenon DEF AreQuads
<1>15. NumberOf(<<c, d>>) = 256 * c + d
       /\ NumberOf(<<a, b, c, d>>) = 256 * (256 * (256 * a + b) + c) + d
  BY <1>b, Zenon DEF BytesSay
<1>16. <<t>> \o LengthBytes(len, 2) = <<t, c, d>>
  BY <1>11, <1>12, Zenon
<1>17. <<t>> \o LengthBytes(len, 4) = <<t, a, b, c, d>>
  BY <1>11, <1>12, Zenon
<1>18. Len(<<t>> \o LengthBytes(len, 2)) = 3 /\ Len(<<t>> \o LengthBytes(len, 4)) = 5
  BY <1>13, <1>16, <1>17, Zenon
<1>19. NumberOf(Tail(<<t>> \o LengthBytes(len, 2))) = 256 * c + d
  BY <1>14, <1>15, <1>16, ZenonT(40)
<1>20. NumberOf(Tail(<<t>> \o LengthBytes(len, 4))) = 256 * (256 * (256 * a + b) + c) + d
  BY <1>14, <1>15, <1>17, ZenonT(40)
<1>21. NumberOf(Tail(<<t>> \o LengthBytes(len, 4))) = len
  BY <1>8, <1>20, Zenon
<1>22. len =< MaxUint16 => NumberOf(Tail(<<t>> \o LengthBytes(len, 2))) = len
  BY <1>9, <1>19, Zenon
<1> QED
  BY <1>18, <1>21, <1>22

\* A header of arrays and maps, and one of strings, say the length.
LEMMA HeadersSay ==
  ASSUME NEW len \in Nat, InFourBytes(len), NEW fix \in Nat, NEW tag \in Nat
  PROVE  /\ HeaderSound(AppendHeader(fix, tag, len), len, fix, 16)
         /\ HeaderSound(AppendStringHeader(len), len, 160, 32)
<1>0. MaxUint16 \in Nat /\ 255 < MaxUint16
  BY SMTT(20) DEF MaxUint16
<1>1. HeaderSound(AppendHeader(fix, tag, len), len, fix, 16)
  <2>1. CASE len =< 15
    <3>1. AppendHeader(fix, tag, len) = <<fix + len>> /\ len < 16
      BY <2>1 DEF AppendHeader
    <3>2. Len(<<fix + len>>) = 1 /\ <<fix + len>>[1] = fix + len
      OBVIOUS
    <3> QED
      BY <3>1, <3>2, Zenon DEF HeaderSound
  <2>2. CASE len > 15 /\ len =< MaxUint16
    <3> DEFINE s == <<tag>> \o LengthBytes(len, 2)
    <3>1. ~ (len =< 15)
      BY <2>2
    <3>2. AppendHeader(fix, tag, len) = s
      BY <2>2, <3>1, Zenon DEF AppendHeader
    <3>3. Len(s) = 3 /\ NumberOf(Tail(s)) = len
      BY <2>2, LengthSaid, Zenon
    <3> HIDE DEF s
    <3>4. Len(s) # 1 /\ Len(s) # 5 /\ len >= 16
      BY <2>2, <3>3
    <3> QED
      BY <3>2, <3>3, <3>4, Zenon DEF HeaderSound
  <2>3. CASE len > MaxUint16
    <3> DEFINE s == <<tag + 1>> \o LengthBytes(len, 4)
    <3>1. ~ (len =< 15) /\ ~ (len =< MaxUint16)
      BY <1>0, <2>3
    <3>2. AppendHeader(fix, tag, len) = s
      BY <3>1, Zenon DEF AppendHeader
    <3>3. Len(s) = 5 /\ NumberOf(Tail(s)) = len
      BY LengthSaid, Zenon
    <3> HIDE DEF s
    <3>4. Len(s) # 1 /\ len >= 16
      BY <1>0, <2>3, <3>3
    <3> QED
      BY <2>3, <3>2, <3>3, <3>4, Zenon DEF HeaderSound
  <2> QED
    BY <1>0, <2>1, <2>2, <2>3
<1>2. HeaderSound(AppendStringHeader(len), len, 160, 32)
  <2>1. CASE len =< 31
    <3>1. AppendStringHeader(len) = <<160 + len>> /\ len < 32
      BY <2>1 DEF AppendStringHeader
    <3>2. Len(<<160 + len>>) = 1 /\ <<160 + len>>[1] = 160 + len
      OBVIOUS
    <3> QED
      BY <3>1, <3>2, Zenon DEF HeaderSound
  <2>2. CASE len > 31 /\ len =< 255
    <3>1. ~ (len =< 31)
      BY <2>2
    <3>2. AppendStringHeader(len) = <<217, len>>
      BY <2>2, <3>1, ZenonT(40) DEF AppendStringHeader
    <3>3. Len(<<217, len>>) = 2 /\ Tail(<<217, len>>) = <<len>>
      OBVIOUS
    <3>4. NumberOf(<<len>>) = len
      <4>1. BytesSay(len, len, len, len)
        BY BytesRead, Zenon
      <4> QED
        BY <4>1, Zenon DEF BytesSay
    <3> DEFINE s == <<217, len>>
    <3>5. Len(s) = 2 /\ NumberOf(Tail(s)) = len
      BY <3>3, <3>4, Zenon
    <3> HIDE DEF s
    <3>6. Len(s) # 1 /\ Len(s) # 5 /\ ~ (Len(s) > 2) /\ len >= 32
      BY <2>2, <3>5
    <3>7. HeaderSound(s, len, 160, 32)
      BY <3>5, <3>6, Zenon DEF HeaderSound
    <3> QED
      BY <3>2, <3>7, Zenon DEF s
  <2>3. CASE len > 255 /\ len =< MaxUint16
    <3> DEFINE s == <<218>> \o LengthBytes(len, 2)
    <3>1. ~ (len =< 31) /\ ~ (len =< 255)
      BY <2>3
    <3>2. AppendStringHeader(len) = s
      BY <2>3, <3>1, Zenon DEF AppendStringHeader
    <3>3. Len(s) = 3 /\ NumberOf(Tail(s)) = len
      BY <2>3, LengthSaid, ZenonT(40)
    <3> HIDE DEF s
    <3>4. Len(s) # 1 /\ Len(s) # 5 /\ len >= 32
      BY <2>3, <3>3
    <3> QED
      BY <2>3, <3>2, <3>3, <3>4, Zenon DEF HeaderSound
  <2>4. CASE len > MaxUint16
    <3> DEFINE s == <<219>> \o LengthBytes(len, 4)
    <3>1. ~ (len =< 31) /\ ~ (len =< 255) /\ ~ (len =< MaxUint16) /\ len > 255
      BY <1>0, <2>4
    <3>2. AppendStringHeader(len) = s
      BY <3>1, Zenon DEF AppendStringHeader
    <3>3. Len(s) = 5 /\ NumberOf(Tail(s)) = len
      BY LengthSaid, ZenonT(40)
    <3> HIDE DEF s
    <3>4. Len(s) # 1 /\ len >= 32
      BY <1>0, <2>4, <3>3
    <3> QED
      BY <2>4, <3>1, <3>2, <3>3, <3>4, Zenon DEF HeaderSound
  <2> QED
    BY <1>0, <2>1, <2>2, <2>3, <2>4
<1> QED
  BY <1>1, <1>2

\* An integer reads back as itself and is written in no more bytes than any other
\* encoding of it, and a header says its length, for every 64-bit integer and every
\* length of four bytes (internal/msgpack/writer.go).
THEOREM IntegersShortestAlways == Spec => []IntegersShortest
<1>1. ASSUME NEW v \in Words
      PROVE  /\ Shortest(v, AppendInt(v))
             /\ v[1] < 128 => AppendUint(v) = AppendInt(v)
             /\ Extend(0, IF Len(AppendUint(v)) = 1 THEN AppendUint(v)
                          ELSE Tail(AppendUint(v))) = v
  <2>1. v[1] < 128 \/ v[1] >= 128
    BY DEF Words, Byte
  <2>2. v[1] < 128 => AppendUint(v) = AppendInt(v)
    BY Zenon DEF AppendInt
  <2>3. Shortest(v, AppendInt(v))
    BY <2>1, <2>2, UintShortest, IntShortest, Zenon
  <2> DEFINE bytes == AppendUint(v)
  <2>4. CASE FitsUint(v, 1) /\ v[8] =< 127 /\ bytes = LowBytes(v, 1)
    <3>1. 1 \in Widths /\ \A i \in 1 .. 8 - 1 : v[i] = 0
      BY <2>4 DEF FitsUint, Widths
    <3>2. Len(LowBytes(v, 1)) = 1 /\ Extend(0, LowBytes(v, 1)) = v
      BY <3>1, LowOf, Extended
    <3> QED
      BY <2>2, <2>3, <2>4, <3>2, Zenon
  <2>5. ASSUME NEW n \in Widths, FitsUint(v, n), bytes = <<UintTag[n]>> \o LowBytes(v, n)
        PROVE  Len(bytes) # 1 /\ Extend(0, Tail(bytes)) = v
    <3>1. UintTag[n] \in Byte
      BY Tags DEF Byte
    <3>2. Len(bytes) = n + 1 /\ Tail(bytes) = LowBytes(v, n)
      <4> DEFINE t == UintTag[n]
                 tagged == <<t>> \o LowBytes(v, n)
      <4>1. t \in Byte /\ bytes = tagged
        BY <2>5, <3>1, Zenon
      <4> HIDE DEF t
      <4>2. Len(tagged) = n + 1 /\ Tail(tagged) = LowBytes(v, n)
        BY <4>1, TaggedOf, Zenon
      <4> HIDE DEF bytes, tagged
      <4> QED
        BY <4>1, <4>2, Zenon
    <3>3. \A i \in 1 .. 8 - n : v[i] = 0
      BY <2>5, Zenon DEF FitsUint
    <3>4. Extend(0, LowBytes(v, n)) = v
      BY <3>3, Extended
    <3>5. n + 1 # 1
      BY DEF Widths
    <3> QED
      BY <3>2, <3>4, <3>5, Zenon
  <2> QED
    BY <2>2, <2>3, <2>4, <2>5, UintWritten, Zenon
<1>2. ASSUME InputType, input.kind = "integer"
      PROVE  input.value \in Words
  <2>1. PICK f \in Fillers, n \in 0 .. 7, low \in [1 .. 3 -> Bytes] :
          input = [kind  |-> "integer",
                   value |-> [i \in 1 .. 8 |-> IF i =< n THEN f
                                               ELSE IF i > 5 THEN low[i - 5] ELSE 0]]
    BY <1>2, Kinds, Zenon DEF IsInteger
  <2>2. input.value = [i \in 1 .. 8 |-> IF i =< n THEN f
                                        ELSE IF i > 5 THEN low[i - 5] ELSE 0]
    BY <2>1
  <2>3. f \in 0 .. 255 /\ \A i \in 1 .. 3 : low[i] \in 0 .. 255
    BY ValuesAssumption
  <2>4. \A i \in 1 .. 8 : i > 5 => i - 5 \in 1 .. 3
    OBVIOUS
  <2>5. \A i \in 1 .. 8 : (IF i =< n THEN f ELSE IF i > 5 THEN low[i - 5] ELSE 0) \in 0 .. 255
    BY <2>3, <2>4
  <2> QED
    BY <2>2, <2>5 DEF Words, Byte
<1>3. ASSUME InputType, input.kind = "length"
      PROVE  input.value \in Nat /\ InFourBytes(input.value)
  <2>1. PICK n \in Lengths : input = [kind |-> "length", value |-> n]
    BY <1>3, Kinds, Zenon DEF IsLength
  <2>2. input.value = n
    BY <2>1
  <2>3. InFourBytes(n)
    BY ValuesAssumption
  <2> QED
    BY <2>2, <2>3 DEF InFourBytes
<1>4. ASSUME InputType, input.kind = "length"
      PROVE  /\ HeaderSound(AppendHeader(128, 222, input.value), input.value, 128, 16)
             /\ HeaderSound(AppendHeader(144, 220, input.value), input.value, 144, 16)
             /\ HeaderSound(AppendStringHeader(input.value), input.value, 160, 32)
  BY <1>3, <1>4, HeadersSay
<1>5. InputType => IntegersShortest
  BY <1>1, <1>2, <1>4, Zenon DEF IntegersShortest
<1> QED
  BY <1>5, InputTyped, PTL

(***************************************************************************)
(* What is signed and what is sent.                                        *)
(***************************************************************************)
\* Sequences put together, whatever their members.
LEMMA Chained ==
  ASSUME NEW s, NEW t, NEW u, IsSeq(s), IsSeq(t), IsSeq(u)
  PROVE  s \o (t \o u) = (s \o t) \o u
<1> DEFINE S == ToSet(s) \cup ToSet(t) \cup ToSet(u)
<1>1. s \in Seq(S) /\ t \in Seq(S) /\ u \in Seq(S)
  <2>1. ToSet(s) \subseteq S /\ ToSet(t) \subseteq S /\ ToSet(u) \subseteq S
    OBVIOUS
  <2> HIDE DEF S
  <2> QED
    BY <2>1, SeqMonotonic DEF IsSeq
<1> HIDE DEF S
<1> QED
  BY <1>1, ConcatAssociative

\* The empty sequence and those of one member.
LEMMA Pieces ==
  /\ IsSeq(<<>>) /\ \A x : IsSeq(<<x>>)
  /\ \A s : IsSeq(s) => s \o <<>> = s
<1>1. ASSUME NEW S, NEW s \in Seq(S)
      PROVE  IsSeq(s) /\ s \o <<>> = s
  BY OwnSeq, ConcatEmptySeq
<1>2. <<>> \in Seq({}) /\ \A x : <<x>> \in Seq({x})
  OBVIOUS
<1>3. IsSeq(<<>>) /\ \A x : IsSeq(<<x>>)
  BY <1>1, <1>2
<1>4. ASSUME NEW s, IsSeq(s)
      PROVE  s \o <<>> = s
  BY <1>1, <1>4 DEF IsSeq
<1> QED
  BY <1>3, <1>4

\* FlattenSeq puts the parts together from the left.
JoinedInTurn(n, g) ==
  \E f : /\ f[1] = g[1] /\ FlattenSeq(g) = f[n]
         /\ \A i \in 2 .. n : f[i] = f[i - 1] \o g[i]
         /\ \A i \in 1 .. n : IsSeq(f[i])

\* FlattenSeq puts the parts together from the left, one after the other.
LEMMA Flatten ==
  ASSUME NEW n \in Nat \ {0}, NEW g, DOMAIN g = 1 .. n, Len(g) = n,
         \A i \in 1 .. n : IsSeq(g[i])
  PROVE  JoinedInTurn(n, g)
<1> DEFINE T == UNION {ToSet(g[i]) : i \in 1 .. n}
           S == Seq(T)
           F == [x \in Nat \X [Nat -> S] |->
                   IF x[1] \in 2 .. n THEN x[2][x[1] - 1] \o g[x[1]] ELSE g[1]]
<1>1. \A i \in 1 .. n : g[i] \in S
  <2> SUFFICES ASSUME NEW i \in 1 .. n
               PROVE  g[i] \in S
    OBVIOUS
  <2>1. ToSet(g[i]) \subseteq T
    OBVIOUS
  <2>2. g[i] \in Seq(ToSet(g[i]))
    BY Zenon DEF IsSeq
  <2> HIDE DEF T
  <2> QED
    BY <2>1, <2>2, SeqMonotonic
<1>2. \A s, t \in S : s \o t \in S
  <2> HIDE DEF T
  <2> QED
    BY ConcatProperties
<1>3. \A s \in S : IsSeq(s)
  <2> HIDE DEF T
  <2> QED
    BY OwnSeq
<1> HIDE DEF S
<1>4. \A m \in Nat : \A h \in [Nat -> S] :
        F[<<m, h>>] = IF m \in 2 .. n THEN h[m - 1] \o g[m] ELSE g[1]
  OBVIOUS
<1>5. F \in [Nat \X [Nat -> S] -> S]
  <2> SUFFICES ASSUME NEW m \in Nat, NEW h \in [Nat -> S]
               PROVE  (IF m \in 2 .. n THEN h[m - 1] \o g[m] ELSE g[1]) \in S
    OBVIOUS
  <2>1. CASE m \in 2 .. n
    <3>1. m - 1 \in Nat /\ m \in 1 .. n
      BY <2>1
    <3>2. h[m - 1] \in S /\ g[m] \in S
      BY <1>1, <3>1
    <3> QED
      BY <1>2, <2>1, <3>2, Zenon
  <2>2. CASE m \notin 2 .. n
    <3>1. 1 \in 1 .. n
      OBVIOUS
    <3> QED
      BY <1>1, <2>2, <3>1, Zenon
  <2> QED
    BY <2>1, <2>2
<1> HIDE DEF F
<1>6. \A m \in Nat : \A h, k \in [Nat -> S] :
        (\A i \in 0 .. m - 1 : h[i] = k[i]) => F[<<m, h>>] = F[<<m, k>>]
  <2> SUFFICES ASSUME NEW m \in Nat, NEW h \in [Nat -> S], NEW k \in [Nat -> S],
                      \A i \in 0 .. m - 1 : h[i] = k[i]
               PROVE  F[<<m, h>>] = F[<<m, k>>]
    BY Zenon
  <2>1. CASE m \in 2 .. n
    <3>1. m - 1 \in 0 .. m - 1
      BY <2>1
    <3>2. h[m - 1] = k[m - 1]
      BY <3>1
    <3>3. F[<<m, h>>] = h[m - 1] \o g[m]
      BY <1>4, <2>1, Zenon
    <3>4. F[<<m, k>>] = k[m - 1] \o g[m]
      BY <1>4, <2>1, Zenon
    <3> QED
      BY <3>2, <3>3, <3>4, Zenon
  <2>2. CASE m \notin 2 .. n
    BY <1>4, <2>2, Zenon
  <2> QED
    BY <2>1, <2>2
<1>7. PICK f \in [Nat -> S] : \A m \in Nat : f[m] = F[<<m, f>>]
  <2>1. 0 \in Nat
    OBVIOUS
  <2>2. g[1] \in S
    BY <1>1
  <2>3. StepOver(S, F)
    BY <1>5, <1>6, Zenon DEF StepOver
  <2>4. HasSolution(S, F)
    BY <2>2, <2>3, Recursion, Zenon
  <2> QED
    BY <2>4 DEF HasSolution
<1>8. \A m \in Nat : f[m] = IF m \in 2 .. n THEN f[m - 1] \o g[m] ELSE g[1]
  BY <1>4, <1>7
<1> DEFINE Is(h) == h = [i \in 1 .. n |-> IF i = 1 THEN g[i] ELSE h[i - 1] \o g[i]]
           p == CHOOSE h : Is(h)
<1>9. Is([i \in 1 .. n |-> f[i]])
  <2> DEFINE h == [i \in 1 .. n |-> f[i]]
  <2>1. \A i \in 1 .. n : h[i] = IF i = 1 THEN g[i] ELSE h[i - 1] \o g[i]
    <3> SUFFICES ASSUME NEW i \in 1 .. n
                 PROVE  h[i] = IF i = 1 THEN g[i] ELSE h[i - 1] \o g[i]
      OBVIOUS
    <3>1. CASE i = 1
      BY <1>8, <3>1
    <3>2. CASE i # 1
      <4>1. i \in Nat /\ i \in 2 .. n /\ i - 1 \in 1 .. n
        BY <3>2
      <4>2. h[i] = f[i] /\ h[i - 1] = f[i - 1]
        BY <4>1
      <4>3. f[i] = f[i - 1] \o g[i]
        BY <1>8, <4>1, Zenon
      <4> QED
        BY <3>2, <4>2, <4>3, Zenon
    <3> QED
      BY <3>1, <3>2
  <2>2. h = [i \in 1 .. n |-> h[i]]
    OBVIOUS
  <2> HIDE DEF h
  <2> QED
    BY <2>1, <2>2 DEF h
<1>10. Is(p)
  BY <1>9, Zenon
<1>11. FlattenSeq(g) = p[n]
  <2>1. ~ (Len(g) = 0)
    OBVIOUS
  <2> QED
    BY <2>1, Zenon DEF FlattenSeq
<1> HIDE DEF p
<1>12. \A i \in 1 .. n : p[i] = IF i = 1 THEN g[i] ELSE p[i - 1] \o g[i]
  BY <1>10
<1> DEFINE E == {i \in Nat : i \in 1 .. n => p[i] = f[i]}
<1>13. ASSUME NEW i \in Nat, \A k \in 0 .. i - 1 : k \in E
       PROVE  i \in E
  <2> SUFFICES ASSUME i \in 1 .. n
               PROVE  p[i] = f[i]
    OBVIOUS
  <2>1. CASE i = 1
    BY <1>8, <1>12, <2>1
  <2>2. CASE i # 1
    <3>1. i \in 2 .. n /\ i - 1 \in 1 .. n /\ i - 1 \in 0 .. i - 1
      BY <2>2
    <3>2. i - 1 \in E
      BY <1>13, <3>1, Zenon
    <3>3. p[i - 1] = f[i - 1]
      BY <3>1, <3>2
    <3>4. p[i] = p[i - 1] \o g[i] /\ f[i] = f[i - 1] \o g[i]
      BY <1>8, <1>12, <2>2, <3>1, Zenon
    <3> QED
      BY <3>3, <3>4, Zenon
  <2> QED
    BY <2>1, <2>2
<1>14. Nat \subseteq E
  <2> HIDE DEF E
  <2> QED
    BY <1>13, Induction
<1>15. \A i \in 1 .. n : p[i] = f[i]
  BY <1>14
<1>16. p[1] = g[1] /\ \A i \in 2 .. n : p[i] = p[i - 1] \o g[i]
  <2>1. 1 \in 1 .. n /\ \A i \in 2 .. n : i \in 1 .. n /\ i # 1
    OBVIOUS
  <2> QED
    BY <1>12, <2>1, Zenon
<1>17. \A i \in 1 .. n : IsSeq(p[i])
  <2>1. \A i \in 1 .. n : i \in Nat
    OBVIOUS
  <2>2. \A i \in 1 .. n : f[i] \in S
    BY <2>1
  <2> QED
    BY <1>3, <1>15, <2>2, Zenon
<1> QED
  BY <1>11, <1>16, <1>17, Zenon DEF JoinedInTurn

\* Two functions that FlattenSeq puts together, one of which has one part more.
LEMMA FlattenMore ==
  ASSUME NEW n \in Nat \ {0}, NEW g, NEW h,
         DOMAIN g = 1 .. n, Len(g) = n, DOMAIN h = 1 .. n + 1, Len(h) = n + 1,
         \A i \in 1 .. n + 1 : IsSeq(h[i]),
         \A i \in 1 .. n : h[i] = g[i]
  PROVE  FlattenSeq(h) = FlattenSeq(g) \o h[n + 1] /\ IsSeq(FlattenSeq(g))
<1>1. \A i \in 1 .. n : i \in 1 .. n + 1
  OBVIOUS
<1>2. \A i \in 1 .. n : IsSeq(g[i])
  BY <1>1, Zenon
<1>3. JoinedInTurn(n, g)
  BY <1>2, Flatten
<1> DEFINE m == n + 1
<1>4. m \in Nat \ {0} /\ DOMAIN h = 1 .. m /\ Len(h) = m /\ \A i \in 1 .. m : IsSeq(h[i])
  OBVIOUS
<1> HIDE DEF m
<1>5. JoinedInTurn(m, h)
  BY <1>4, Flatten
<1>6. PICK p : /\ p[1] = g[1] /\ FlattenSeq(g) = p[n]
               /\ \A i \in 2 .. n : p[i] = p[i - 1] \o g[i]
               /\ \A i \in 1 .. n : IsSeq(p[i])
  BY <1>3, Zenon DEF JoinedInTurn
<1>7. PICK q : /\ q[1] = h[1] /\ FlattenSeq(h) = q[m]
               /\ \A i \in 2 .. m : q[i] = q[i - 1] \o h[i]
  BY <1>5, Zenon DEF JoinedInTurn
<1> DEFINE E == {i \in Nat : i \in 1 .. n => p[i] = q[i]}
<1>8. ASSUME NEW i \in Nat, \A k \in 0 .. i - 1 : k \in E
      PROVE  i \in E
  <2> SUFFICES ASSUME i \in 1 .. n
               PROVE  p[i] = q[i]
    OBVIOUS
  <2>1. CASE i = 1
    <3>1. h[1] = g[1]
      BY <2>1, Zenon
    <3> QED
      BY <1>6, <1>7, <2>1, <3>1, Zenon
  <2>2. CASE i # 1
    <3>1. i \in 2 .. n /\ i \in 2 .. m /\ i - 1 \in 1 .. n /\ i - 1 \in 0 .. i - 1
      BY <2>2 DEF m
    <3>2. i - 1 \in E
      BY <1>8, <3>1, Zenon
    <3>3. p[i - 1] = q[i - 1]
      BY <3>1, <3>2
    <3>4. p[i] = p[i - 1] \o g[i]
      BY <1>6, <3>1, Zenon
    <3>5. q[i] = q[i - 1] \o h[i]
      BY <1>7, <3>1, Zenon
    <3>6. h[i] = g[i]
      BY Zenon
    <3> QED
      BY <3>3, <3>4, <3>5, <3>6, Zenon
  <2> QED
    BY <2>1, <2>2
<1>9. Nat \subseteq E
  <2> HIDE DEF E
  <2> QED
    BY <1>8, Induction
<1>10. n \in 1 .. n /\ m \in 2 .. m /\ m - 1 = n
  BY DEF m
<1>11. p[n] = q[n]
  BY <1>9, <1>10
<1>12. q[m] = q[n] \o h[m]
  BY <1>7, <1>10, Zenon
<1>13. IsSeq(p[n])
  BY <1>6, <1>10, Zenon
<1> QED
  BY <1>6, <1>7, <1>11, <1>12, <1>13, Zenon DEF m

\* A single part is what FlattenSeq makes of it.
LEMMA FlattenOne ==
  ASSUME NEW g, DOMAIN g = {1}, Len(g) = 1, IsSeq(g[1])
  PROVE  FlattenSeq(g) = g[1]
<1> DEFINE n == 1
<1>1. n \in Nat \ {0} /\ DOMAIN g = 1 .. n /\ Len(g) = n /\ \A i \in 1 .. n : IsSeq(g[i])
  OBVIOUS
<1> HIDE DEF n
<1>2. JoinedInTurn(n, g)
  BY <1>1, Flatten
<1>3. FlattenSeq(g) = g[n]
  BY <1>2, Zenon DEF JoinedInTurn, n
<1> QED
  BY <1>3, Zenon DEF n

\* The fields of an object with one more.
LEMMA FieldAdded ==
  ASSUME NEW f, IsSeq(f), NEW k, NEW v
  PROVE  /\ IsSeq(f \o At(k, v)) /\ Len(f) \in Nat /\ DOMAIN f = 1 .. Len(f)
         /\ Len(f \o At(k, v)) = Len(f) + 1 /\ DOMAIN (f \o At(k, v)) = 1 .. Len(f) + 1
         /\ \A i \in 1 .. Len(f) : (f \o At(k, v))[i] = f[i]
         /\ (f \o At(k, v))[Len(f) + 1] = Pair(k, v)
<1> DEFINE p == Pair(k, v)
           S == ToSet(f) \cup {p}
<1>1. At(k, v) = <<p>> /\ f \in Seq(ToSet(f))
  BY DEF At, Pair, IsSeq
<1> HIDE DEF p
<1>2. <<p>> \in Seq(S) /\ Len(<<p>>) = 1 /\ <<p>>[1] = p
  OBVIOUS
<1>3. f \in Seq(S)
  <2>1. ToSet(f) \subseteq S
    OBVIOUS
  <2> QED
    BY <1>1, <2>1, SeqMonotonic
<1>4. Len(f) \in Nat /\ DOMAIN f = 1 .. Len(f)
  BY <1>3, OwnSeq
<1> HIDE DEF S
<1> DEFINE q == <<p>>
           c == f \o q
<1>5. q \in Seq(S) /\ Len(q) = 1 /\ q[1] = p
  BY <1>2
<1> HIDE DEF q
<1>6. /\ c \in Seq(S) /\ Len(c) = Len(f) + 1
      /\ \A i \in 1 .. Len(f) + 1 : c[i] = IF i <= Len(f) THEN f[i] ELSE q[i - Len(f)]
  <2>1. \A a, b \in Seq(S) :
          /\ a \o b \in Seq(S) /\ Len(a \o b) = Len(a) + Len(b)
          /\ \A i \in 1 .. Len(a) + Len(b) :
               (a \o b)[i] = IF i <= Len(a) THEN a[i] ELSE b[i - Len(a)]
    BY ConcatProperties
  <2>2. /\ f \o q \in Seq(S) /\ Len(f \o q) = Len(f) + Len(q)
        /\ \A i \in 1 .. Len(f) + Len(q) :
             (f \o q)[i] = IF i <= Len(f) THEN f[i] ELSE q[i - Len(f)]
    BY <1>3, <1>5, <2>1, Zenon
  <2>3. Len(q) = 1
    BY <1>5
  <2> QED
    BY <2>2, <2>3, SMTT(30)
<1> HIDE DEF c
<1>7. IsSeq(c) /\ DOMAIN c = 1 .. Len(f) + 1
  BY <1>6, OwnSeq
<1>8. \A i \in 1 .. Len(f) : c[i] = f[i]
  BY <1>4, <1>6
<1>9. c[Len(f) + 1] = q[1]
  <2> DEFINE m == Len(f) + 1
  <2>1. m \in 1 .. Len(f) + 1 /\ ~ (m <= Len(f)) /\ m - Len(f) = 1
    BY <1>4
  <2> HIDE DEF m
  <2>2. c[m] = q[1]
    BY <1>6, <2>1, Zenon
  <2> QED
    BY <2>2 DEF m
<1>10. c = f \o At(k, v)
  BY <1>1, Zenon DEF c, q
<1> QED
  BY <1>4, <1>5, <1>6, <1>7, <1>8, <1>9, <1>10, Zenon DEF p

\* One field is a list of one.
LEMMA FieldFirst ==
  ASSUME NEW k, NEW v
  PROVE  /\ IsSeq(At(k, v)) /\ Len(At(k, v)) = 1 /\ DOMAIN At(k, v) = {1}
         /\ At(k, v)[1] = Pair(k, v)
<1>1. At(k, v) = <<Pair(k, v)>>
  BY DEF At, Pair
<1> DEFINE p == Pair(k, v)
<1> HIDE DEF p
<1>2. Len(<<p>>) = 1 /\ DOMAIN <<p>> = {1} /\ <<p>>[1] = p
  OBVIOUS
<1>3. IsSeq(At(k, v))
  BY FieldAt, Zenon
<1> QED
  BY <1>1, <1>2, <1>3, Zenon DEF p

\* The text of an object with fields f, by maps a value to its text.
Parts(by, f) == [i \in DOMAIN f |-> Str(f[i].key) \o by[f[i].value]]
Said(by, n, f, t) ==
  /\ IsSeq(f) /\ Len(f) # 0
  /\ \A i \in DOMAIN f : f[i].value \in DOMAIN by /\ IsSeq(by[f[i].value])
  /\ t = Map(n) \o FlattenSeq(Parts(by, f))
  /\ IsSeq(t)

\* The tokens of the MessagePack form are sequences.
LEMMA Tokens ==
  /\ \A n : IsSeq(Map(n)) /\ IsSeq(Array(n)) /\ IsSeq(Uint(n))
  /\ \A s : IsSeq(Str(s)) /\ IsSeq(Flag(s)) /\ IsSeq(Dec(s))
BY Pieces, Zenon DEF Map, Array, Uint, Str, Flag, Dec

\* There is one part for each field.
LEMMA LenOfParts ==
  ASSUME NEW by, NEW f, IsSeq(f)
  PROVE  Len(Parts(by, f)) = Len(f) /\ DOMAIN Parts(by, f) = 1 .. Len(f)
<1>1. Len(f) \in Nat /\ DOMAIN f = 1 .. Len(f)
  BY OwnSeq DEF IsSeq
<1>2. DOMAIN Parts(by, f) = 1 .. Len(f)
  BY <1>1 DEF Parts
<1> QED
  BY <1>1, <1>2

Grows(by, n, f, t, len) == Said(by, n, f, t) /\ Len(f) = len
Packs(by, v, w) == v \in DOMAIN by /\ by[v] = w /\ IsSeq(w)

\* The text of an object grows with its fields: the first one,
LEMMA SaidFirst ==
  ASSUME NEW by, NEW n, NEW k, NEW v, NEW w, Packs(by, v, w)
  PROVE  Grows(by, n, At(k, v), Map(n) \o Str(k) \o w, 1)
<1>0. v \in DOMAIN by /\ by[v] = w /\ IsSeq(w)
  BY Zenon DEF Packs
<1> DEFINE f == At(k, v)
           g == Parts(by, f)
           x == Str(k) \o w
<1>1. IsSeq(f) /\ Len(f) = 1 /\ DOMAIN f = {1} /\ f[1] = Pair(k, v)
  BY FieldFirst, Zenon
<1>2. f[1].key = k /\ f[1].value = v
  BY <1>1 DEF Pair
<1> HIDE DEF f
<1>3. Len(g) = 1 /\ DOMAIN g = {1}
  <2>1. Len(g) = Len(f) /\ DOMAIN g = 1 .. Len(f)
    BY <1>1, LenOfParts, Zenon
  <2> QED
    BY <1>1, <2>1
<1>4. g[1] = x
  BY <1>0, <1>1, <1>2 DEF Parts
<1>5. IsSeq(Map(n)) /\ IsSeq(Str(k))
  BY Tokens, Zenon
<1>6. IsSeq(x)
  BY <1>0, <1>5, FieldsJoined, Zenon
<1> HIDE DEF g
<1>7. FlattenSeq(g) = x
  BY <1>3, <1>4, <1>6, FlattenOne, Zenon
<1>8. Map(n) \o x = Map(n) \o Str(k) \o w
  BY <1>5, Chained
<1>9. IsSeq(Map(n) \o x)
  BY <1>5, <1>6, FieldsJoined, Zenon
<1>10. \A i \in DOMAIN f : f[i].value \in DOMAIN by /\ IsSeq(by[f[i].value])
  BY <1>0, <1>1, <1>2
<1>11. Len(f) # 0
  BY <1>1
<1> HIDE DEF x
<1> QED
  BY <1>1, <1>7, <1>8, <1>9, <1>10, <1>11, Zenon DEF Grows, Said, f, g

\* the next one,
LEMMA SaidNext ==
  ASSUME NEW by, NEW n, NEW f, NEW t, NEW len, Grows(by, n, f, t, len),
         NEW k, NEW v, NEW w, Packs(by, v, w)
  PROVE  Grows(by, n, f \o At(k, v), t \o Str(k) \o w, len + 1)
<1>0. v \in DOMAIN by /\ by[v] = w /\ IsSeq(w) /\ Said(by, n, f, t) /\ Len(f) = len
  BY Zenon DEF Packs, Grows
<1> DEFINE c == f \o At(k, v)
           g == Parts(by, f)
           h == Parts(by, c)
           x == Str(k) \o w
           m == Len(f)
<1>1. IsSeq(f) /\ m # 0 /\ t = Map(n) \o FlattenSeq(g) /\ IsSeq(t)
  BY <1>0, Zenon DEF Said
<1>2. /\ IsSeq(c) /\ m \in Nat /\ DOMAIN f = 1 .. m /\ Len(c) = m + 1 /\ DOMAIN c = 1 .. m + 1
      /\ \A i \in 1 .. m : c[i] = f[i]
      /\ c[m + 1] = Pair(k, v)
  BY <1>1, FieldAdded
<1>3. c[m + 1].key = k /\ c[m + 1].value = v
  BY <1>2 DEF Pair
<1>4. Len(g) = m /\ DOMAIN g = 1 .. m
  BY <1>1, LenOfParts, Zenon
<1>5. Len(h) = m + 1 /\ DOMAIN h = 1 .. m + 1
  BY <1>2, LenOfParts, Zenon
<1>6. \A i \in DOMAIN f : f[i].value \in DOMAIN by /\ IsSeq(by[f[i].value])
  BY <1>0, Zenon DEF Said
<1> HIDE DEF c, m
<1>7. \A i \in DOMAIN c : c[i].value \in DOMAIN by /\ IsSeq(by[c[i].value])
  <2> SUFFICES ASSUME NEW i \in 1 .. m + 1
               PROVE  c[i].value \in DOMAIN by /\ IsSeq(by[c[i].value])
    BY <1>2, Zenon
  <2>1. CASE i \in 1 .. m
    BY <1>2, <1>6, <2>1, Zenon
  <2>2. CASE i = m + 1
    BY <1>0, <1>3, <2>2, Zenon
  <2> QED
    BY <1>2, <2>1, <2>2
<1>8. \A i \in 1 .. m : h[i] = g[i]
  <2> SUFFICES ASSUME NEW i \in 1 .. m
               PROVE  h[i] = g[i]
    OBVIOUS
  <2>1. i \in DOMAIN f /\ i \in DOMAIN c /\ c[i] = f[i]
    BY <1>2
  <2> QED
    BY <2>1 DEF Parts
<1>9. h[m + 1] = x
  <2>1. m + 1 \in DOMAIN c
    BY <1>2
  <2>2. h[m + 1] = Str(c[m + 1].key) \o by[c[m + 1].value]
    BY <2>1 DEF Parts
  <2> QED
    BY <1>0, <1>3, <2>2, Zenon
<1>10. \A i \in DOMAIN c : h[i] = Str(c[i].key) \o by[c[i].value]
  BY DEF Parts
<1>11. \A i \in 1 .. m + 1 : IsSeq(h[i])
  <2> SUFFICES ASSUME NEW i \in 1 .. m + 1
               PROVE  IsSeq(h[i])
    OBVIOUS
  <2>1. i \in DOMAIN c
    BY <1>2, Zenon
  <2>2. IsSeq(by[c[i].value])
    BY <1>7, <2>1, Zenon
  <2>3. IsSeq(Str(c[i].key))
    BY Tokens, Zenon
  <2>4. h[i] = Str(c[i].key) \o by[c[i].value]
    BY <1>10, <2>1, Zenon
  <2> QED
    BY <2>2, <2>3, <2>4, FieldsJoined, Zenon
<1> HIDE DEF g, h
<1>12. FlattenSeq(h) = FlattenSeq(g) \o h[m + 1] /\ IsSeq(FlattenSeq(g))
  <2>1. m \in Nat \ {0}
    BY <1>1, <1>2
  <2> QED
    BY <1>4, <1>5, <1>8, <1>11, <2>1, FlattenMore, Zenon
<1>13. IsSeq(Map(n)) /\ IsSeq(Str(k))
  BY Tokens, Zenon
<1>14. IsSeq(x)
  BY <1>0, <1>13, FieldsJoined, Zenon
<1>15. t \o x = t \o Str(k) \o w
  BY <1>1, <1>13, Chained
<1>16. IsSeq(t \o x)
  BY <1>1, <1>14, FieldsJoined, Zenon
<1> HIDE DEF x
<1>17. Map(n) \o FlattenSeq(h) = t \o x
  <2>1. Map(n) \o (FlattenSeq(g) \o x) = (Map(n) \o FlattenSeq(g)) \o x
    BY <1>12, <1>13, <1>14, Chained
  <2> QED
    BY <1>1, <1>9, <1>12, <2>1, Zenon
<1>18. Len(c) # 0
  BY <1>2
<1>19. Said(by, n, c, t \o x)
  BY <1>2, <1>7, <1>16, <1>17, <1>18, Zenon DEF Said, h
<1> QED
  BY <1>0, <1>2, <1>15, <1>19, Zenon DEF Grows, c, m

\* and one the code writes under a condition.
LEMMA SaidIf ==
  ASSUME NEW by, NEW n, NEW f, NEW t, NEW len, Grows(by, n, f, t, len),
         NEW c, NEW k, NEW v, NEW w, Packs(by, v, w)
  PROVE  Grows(by, n, f \o If(c, At(k, v)), t \o If(c, Str(k) \o w),
               IF c THEN len + 1 ELSE len)
<1>0. IsSeq(w) /\ Said(by, n, f, t)
  BY Zenon DEF Packs, Grows
<1>1. IsSeq(f) /\ IsSeq(t)
  BY <1>0, Zenon DEF Said
<1>2. CASE c
  <2>1. If(c, At(k, v)) = At(k, v) /\ If(c, Str(k) \o w) = Str(k) \o w
    BY <1>2, Zenon DEF If
  <2>2. IsSeq(Str(k)) /\ IsSeq(w)
    BY <1>0, Tokens, Zenon
  <2>3. t \o (Str(k) \o w) = t \o Str(k) \o w
    <3>1. \A x : IsSeq(x) => t \o (Str(k) \o x) = t \o Str(k) \o x
      BY <1>1, <2>2, Chained
    <3> QED
      BY <2>2, <3>1, Zenon
  <2>4. Grows(by, n, f \o At(k, v), t \o Str(k) \o w, len + 1)
    BY SaidNext, Zenon
  <2> QED
    BY <1>2, <2>1, <2>3, <2>4, Zenon
<1>3. CASE ~ c
  <2>1. If(c, At(k, v)) = <<>> /\ If(c, Str(k) \o w) = <<>>
    BY <1>3, Zenon DEF If
  <2>2. f \o <<>> = f /\ t \o <<>> = t
    BY <1>1, Pieces, Zenon
  <2> QED
    BY <1>3, <2>1, <2>2, Zenon
<1> QED
  BY <1>2, <1>3

\* What is packed by itself: neither an object nor a list.
LEMMA Plainly ==
  ASSUME NEW json, json[1] \notin {"object", "list"}
  PROVE  /\ Scalar(json) = <<json>> /\ PackTrigger(json) = <<json>>
         /\ PackOrderType(json) = <<json>> /\ PackItem(json) = <<json>>
         /\ PackChange(json) = <<json>> /\ PackItems(json) = <<json>>
<1>1. Scalar(json) = <<json>>
  BY DEF Scalar
<1>2. PackTrigger(json) = <<json>>
  BY DEF PackTrigger, PackBy, Scalar
<1>3. PackOrderType(json) = <<json>>
  BY DEF PackOrderType, PackBy, Scalar
<1>4. PackItem(json) = <<json>>
  BY DEF PackItem, PackBy, Scalar
<1>5. PackChange(json) = <<json>>
  BY DEF PackChange, PackBy, Scalar
<1>6. PackItems(json) = <<json>>
  BY DEF PackItems, PackBy, Scalar
<1> QED
  BY <1>1, <1>2, <1>3, <1>4, <1>5, <1>6

IsPlain(v) == v[1] \notin {"object", "list"}

\* The strings, numbers, flags and decimals are packed as their tokens.
LEMMA PlainValues ==
  ASSUME NEW x
  PROVE  /\ IsPlain(JStr(x)) /\ <<JStr(x)>> = Str(x)
         /\ IsPlain(JNum(x)) /\ <<JNum(x)>> = Uint(x)
         /\ IsPlain(JFlag(x)) /\ <<JFlag(x)>> = Flag(x)
         /\ IsPlain(JDec(x)) /\ <<JDec(x)>> = Dec(x)
<1>1. IsPlain(JStr(x)) /\ <<JStr(x)>> = Str(x)
  BY DEF IsPlain, JStr, Str
<1>2. IsPlain(JNum(x)) /\ <<JNum(x)>> = Uint(x)
  BY DEF IsPlain, JNum, Uint
<1>3. IsPlain(JFlag(x)) /\ <<JFlag(x)>> = Flag(x)
  BY DEF IsPlain, JFlag, Flag
<1>4. IsPlain(JDec(x)) /\ <<JDec(x)>> = Dec(x)
  <2> DEFINE d == AppendWire(x)
  <2> HIDE DEF d
  <2>1. IsPlain(<<"dec", d>>)
    BY DEF IsPlain
  <2> QED
    BY <2>1, Zenon DEF JDec, Dec, d
<1> QED
  BY <1>1, <1>2, <1>3, <1>4

\* An object is packed as its text, on each level of PackBy.
LEMMA ObjectTrigger ==
  ASSUME NEW D, NEW n, NEW f, n = Len(f), NEW t, Said([v \in D |-> Scalar(v)], n, f, t)
  PROVE  PackTrigger(Obj(f)) = t
<1> DEFINE by == [v \in D |-> Scalar(v)]
           json == Obj(f)
           parts == [i \in DOMAIN f |-> Str(f[i].key) \o Scalar(f[i].value)]
<1>1. json[1] = "object" /\ json[2] = f
  BY DEF Obj
<1> HIDE DEF json
<1>2. PackTrigger(json) = Map(Len(f)) \o FlattenSeq(parts)
  BY <1>1 DEF PackTrigger, PackBy, Each
<1>3. DOMAIN by = D /\ \A v \in D : by[v] = Scalar(v)
  OBVIOUS
<1> HIDE DEF by
<1>4. /\ t = Map(n) \o FlattenSeq(Parts(by, f))
      /\ \A i \in DOMAIN f : f[i].value \in DOMAIN by
  BY Zenon DEF Said, by
<1>5. \A i \in DOMAIN f : by[f[i].value] = Scalar(f[i].value)
  BY <1>3, <1>4, Zenon
<1>6. Parts(by, f) = parts
  <2>1. \A i \in DOMAIN f : Str(f[i].key) \o by[f[i].value] = Str(f[i].key) \o Scalar(f[i].value)
    BY <1>5, Zenon
  <2> QED
    BY <2>1 DEF Parts
<1> HIDE DEF parts
<1> QED
  BY <1>2, <1>4, <1>6, Zenon DEF json

\* The same one level up, the type of an order.
LEMMA ObjectOrderType ==
  ASSUME NEW D, NEW n, NEW f, n = Len(f), NEW t, Said([v \in D |-> PackTrigger(v)], n, f, t)
  PROVE  PackOrderType(Obj(f)) = t
<1> DEFINE by == [v \in D |-> PackTrigger(v)]
           json == Obj(f)
           parts == [i \in DOMAIN f |-> Str(f[i].key) \o PackTrigger(f[i].value)]
<1>1. json[1] = "object" /\ json[2] = f
  BY DEF Obj
<1> HIDE DEF json
<1>2. PackOrderType(json) = Map(Len(f)) \o FlattenSeq(parts)
  BY <1>1 DEF PackOrderType, PackBy, Each
<1>3. DOMAIN by = D /\ \A v \in D : by[v] = PackTrigger(v)
  OBVIOUS
<1> HIDE DEF by
<1>4. /\ t = Map(n) \o FlattenSeq(Parts(by, f))
      /\ \A i \in DOMAIN f : f[i].value \in DOMAIN by
  BY Zenon DEF Said, by
<1>5. \A i \in DOMAIN f : by[f[i].value] = PackTrigger(f[i].value)
  BY <1>3, <1>4, Zenon
<1>6. Parts(by, f) = parts
  <2>1. \A i \in DOMAIN f : Str(f[i].key) \o by[f[i].value] = Str(f[i].key) \o PackTrigger(f[i].value)
    BY <1>5, Zenon
  <2> QED
    BY <2>1 DEF Parts
<1> HIDE DEF parts
<1> QED
  BY <1>2, <1>4, <1>6, Zenon DEF json

\* The same of an item.
LEMMA ObjectItem ==
  ASSUME NEW D, NEW n, NEW f, n = Len(f), NEW t, Said([v \in D |-> PackOrderType(v)], n, f, t)
  PROVE  PackItem(Obj(f)) = t
<1> DEFINE by == [v \in D |-> PackOrderType(v)]
           json == Obj(f)
           parts == [i \in DOMAIN f |-> Str(f[i].key) \o PackOrderType(f[i].value)]
<1>1. json[1] = "object" /\ json[2] = f
  BY DEF Obj
<1> HIDE DEF json
<1>2. PackItem(json) = Map(Len(f)) \o FlattenSeq(parts)
  BY <1>1 DEF PackItem, PackBy, Each
<1>3. DOMAIN by = D /\ \A v \in D : by[v] = PackOrderType(v)
  OBVIOUS
<1> HIDE DEF by
<1>4. /\ t = Map(n) \o FlattenSeq(Parts(by, f))
      /\ \A i \in DOMAIN f : f[i].value \in DOMAIN by
  BY Zenon DEF Said, by
<1>5. \A i \in DOMAIN f : by[f[i].value] = PackOrderType(f[i].value)
  BY <1>3, <1>4, Zenon
<1>6. Parts(by, f) = parts
  <2>1. \A i \in DOMAIN f : Str(f[i].key) \o by[f[i].value] = Str(f[i].key) \o PackOrderType(f[i].value)
    BY <1>5, Zenon
  <2> QED
    BY <2>1 DEF Parts
<1> HIDE DEF parts
<1> QED
  BY <1>2, <1>4, <1>6, Zenon DEF json

\* The same of an item or of a modify's order.
LEMMA ObjectChange ==
  ASSUME NEW D, NEW n, NEW f, n = Len(f), NEW t, Said([v \in D |-> PackItem(v)], n, f, t)
  PROVE  PackChange(Obj(f)) = t
<1> DEFINE by == [v \in D |-> PackItem(v)]
           json == Obj(f)
           parts == [i \in DOMAIN f |-> Str(f[i].key) \o PackItem(f[i].value)]
<1>1. json[1] = "object" /\ json[2] = f
  BY DEF Obj
<1> HIDE DEF json
<1>2. PackChange(json) = Map(Len(f)) \o FlattenSeq(parts)
  BY <1>1 DEF PackChange, PackBy, Each
<1>3. DOMAIN by = D /\ \A v \in D : by[v] = PackItem(v)
  OBVIOUS
<1> HIDE DEF by
<1>4. /\ t = Map(n) \o FlattenSeq(Parts(by, f))
      /\ \A i \in DOMAIN f : f[i].value \in DOMAIN by
  BY Zenon DEF Said, by
<1>5. \A i \in DOMAIN f : by[f[i].value] = PackItem(f[i].value)
  BY <1>3, <1>4, Zenon
<1>6. Parts(by, f) = parts
  <2>1. \A i \in DOMAIN f : Str(f[i].key) \o by[f[i].value] = Str(f[i].key) \o PackItem(f[i].value)
    BY <1>5, Zenon
  <2> QED
    BY <2>1 DEF Parts
<1> HIDE DEF parts
<1> QED
  BY <1>2, <1>4, <1>6, Zenon DEF json

\* The same of what an action has beside its lists.
LEMMA ObjectItems ==
  ASSUME NEW D, NEW n, NEW f, n = Len(f), NEW t, Said([v \in D |-> PackChange(v)], n, f, t)
  PROVE  PackItems(Obj(f)) = t
<1> DEFINE by == [v \in D |-> PackChange(v)]
           json == Obj(f)
           parts == [i \in DOMAIN f |-> Str(f[i].key) \o PackChange(f[i].value)]
<1>1. json[1] = "object" /\ json[2] = f
  BY DEF Obj
<1> HIDE DEF json
<1>2. PackItems(json) = Map(Len(f)) \o FlattenSeq(parts)
  BY <1>1 DEF PackItems, PackBy, Each
<1>3. DOMAIN by = D /\ \A v \in D : by[v] = PackChange(v)
  OBVIOUS
<1> HIDE DEF by
<1>4. /\ t = Map(n) \o FlattenSeq(Parts(by, f))
      /\ \A i \in DOMAIN f : f[i].value \in DOMAIN by
  BY Zenon DEF Said, by
<1>5. \A i \in DOMAIN f : by[f[i].value] = PackChange(f[i].value)
  BY <1>3, <1>4, Zenon
<1>6. Parts(by, f) = parts
  <2>1. \A i \in DOMAIN f : Str(f[i].key) \o by[f[i].value] = Str(f[i].key) \o PackChange(f[i].value)
    BY <1>5, Zenon
  <2> QED
    BY <2>1 DEF Parts
<1> HIDE DEF parts
<1> QED
  BY <1>2, <1>4, <1>6, Zenon DEF json

\* The same of an action.
LEMMA ObjectWhole ==
  ASSUME NEW D, NEW n, NEW f, n = Len(f), NEW t, Said([v \in D |-> PackItems(v)], n, f, t)
  PROVE  Pack(Obj(f)) = t
<1> DEFINE by == [v \in D |-> PackItems(v)]
           json == Obj(f)
           parts == [i \in DOMAIN f |-> Str(f[i].key) \o PackItems(f[i].value)]
<1>1. json[1] = "object" /\ json[2] = f
  BY DEF Obj
<1> HIDE DEF json
<1>2. Pack(json) = Map(Len(f)) \o FlattenSeq(parts)
  BY <1>1 DEF Pack, PackBy, Each
<1>3. DOMAIN by = D /\ \A v \in D : by[v] = PackItems(v)
  OBVIOUS
<1> HIDE DEF by
<1>4. /\ t = Map(n) \o FlattenSeq(Parts(by, f))
      /\ \A i \in DOMAIN f : f[i].value \in DOMAIN by
  BY Zenon DEF Said, by
<1>5. \A i \in DOMAIN f : by[f[i].value] = PackItems(f[i].value)
  BY <1>3, <1>4, Zenon
<1>6. Parts(by, f) = parts
  <2>1. \A i \in DOMAIN f : Str(f[i].key) \o by[f[i].value] = Str(f[i].key) \o PackItems(f[i].value)
    BY <1>5, Zenon
  <2> QED
    BY <2>1 DEF Parts
<1> HIDE DEF parts
<1> QED
  BY <1>2, <1>4, <1>6, Zenon DEF json

\* The fields of an order, inside out, and their texts.
TriggerFields(o) == At("isMarket", JFlag(o.isMarket)) \o At("triggerPx", JDec(o.triggerPx))
                    \o At("tpsl", JStr(o.tpsl))
LimitFields(o) == At("tif", JStr(o.tif))

\* by packs what is plain as itself.
PacksPlain(by) == \A v \in DOMAIN by : IsPlain(v) => by[v] = <<v>>

\* What by makes of a string, a number, a flag and a decimal.
LEMMA PlainTexts ==
  ASSUME NEW by, PacksPlain(by), NEW x
  PROVE  /\ JStr(x) \in DOMAIN by => Packs(by, JStr(x), Str(x))
         /\ JNum(x) \in DOMAIN by => Packs(by, JNum(x), Uint(x))
         /\ JFlag(x) \in DOMAIN by => Packs(by, JFlag(x), Flag(x))
         /\ JDec(x) \in DOMAIN by => Packs(by, JDec(x), Dec(x))
<1>1. IsSeq(Str(x)) /\ IsSeq(Uint(x)) /\ IsSeq(Flag(x)) /\ IsSeq(Dec(x))
  BY Tokens, Zenon
<1>2. JStr(x) \in DOMAIN by => by[JStr(x)] = Str(x)
  BY PlainValues, Zenon DEF PacksPlain
<1>3. JNum(x) \in DOMAIN by => by[JNum(x)] = Uint(x)
  BY PlainValues, Zenon DEF PacksPlain
<1>4. JFlag(x) \in DOMAIN by => by[JFlag(x)] = Flag(x)
  BY PlainValues, Zenon DEF PacksPlain
<1>5. JDec(x) \in DOMAIN by => by[JDec(x)] = Dec(x)
  BY PlainValues, Zenon DEF PacksPlain
<1> QED
  BY <1>1, <1>2, <1>3, <1>4, <1>5, Zenon DEF Packs

\* The text of an order, from the trigger outwards: what appendMsgpack writes is
\* what the exchange packs from what appendJSON writes, on every level an order is
\* found on.
LEMMA TriggerSaid ==
  ASSUME NEW o, NEW by, PacksPlain(by),
         {JFlag(o.isMarket), JDec(o.triggerPx), JStr(o.tpsl)} \subseteq DOMAIN by
  PROVE  Said(by, 3, TriggerFields(o), PackTriggered(o)) /\ Len(TriggerFields(o)) = 3
<1>0. /\ JFlag(o.isMarket) \in DOMAIN by
      /\ JDec(o.triggerPx) \in DOMAIN by
      /\ JStr(o.tpsl) \in DOMAIN by
  BY Zenon
<1> DEFINE f1 == At("isMarket", JFlag(o.isMarket))
           t1 == Map(3) \o Str("isMarket") \o Flag(o.isMarket)
           f2 == f1 \o At("triggerPx", JDec(o.triggerPx))
           t2 == t1 \o Str("triggerPx") \o Dec(o.triggerPx)
           f3 == f2 \o At("tpsl", JStr(o.tpsl))
           t3 == t2 \o Str("tpsl") \o Str(o.tpsl)
<1>a1. Packs(by, JFlag(o.isMarket), Flag(o.isMarket))
  BY <1>0, PlainTexts, Zenon
<1>b1. Grows(by, 3, f1, t1, 1)
  BY <1>a1, SaidFirst, Zenon
<1> HIDE DEF f1, t1
<1>a2. Packs(by, JDec(o.triggerPx), Dec(o.triggerPx))
  BY <1>0, PlainTexts, Zenon
<1>b2. Grows(by, 3, f2, t2, 1 + 1)
  BY <1>a2, <1>b1, SaidNext, Zenon
<1> HIDE DEF f2, t2
<1>a3. Packs(by, JStr(o.tpsl), Str(o.tpsl))
  BY <1>0, PlainTexts, Zenon
<1>b3. Grows(by, 3, f3, t3, 1 + 1 + 1)
  BY <1>a3, <1>b2, SaidNext, Zenon
<1> HIDE DEF f3, t3
<1>c. 3 = 1 + 1 + 1
  OBVIOUS
<1>d. Said(by, 3, TriggerFields(o), PackTriggered(o)) /\ Len(TriggerFields(o)) = 3
  BY <1>c, <1>b3, Zenon DEF Grows, TriggerFields, PackTriggered, f1, t1, f2, t2, f3, t3
<1> QED
  BY <1>d, Zenon

\* The exchange's packing of a trigger.
LEMMA TriggerPacked ==
  ASSUME NEW o
  PROVE  /\ PackTrigger(Obj(TriggerFields(o))) = PackTriggered(o)
         /\ PackOrderType(Obj(TriggerFields(o))) = PackTriggered(o)
         /\ PackItem(Obj(TriggerFields(o))) = PackTriggered(o)
         /\ IsSeq(PackTriggered(o))
<1> DEFINE D == {JFlag(o.isMarket), JDec(o.triggerPx), JStr(o.tpsl)}
<1>1. PackTrigger(Obj(TriggerFields(o))) = PackTriggered(o) /\ IsSeq(PackTriggered(o))
  <2> DEFINE by == [v \in D |-> Scalar(v)]
  <2>1. DOMAIN by = D /\ \A v \in D : by[v] = Scalar(v)
    OBVIOUS
  <2>2. PacksPlain(by)
    BY <2>1, Plainly, Zenon DEF PacksPlain, IsPlain
  <2>3. {JFlag(o.isMarket), JDec(o.triggerPx), JStr(o.tpsl)} \subseteq DOMAIN by
    BY <2>1, Zenon
  <2> HIDE DEF D, by
  <2>4. Said(by, 3, TriggerFields(o), PackTriggered(o)) /\ Len(TriggerFields(o)) = 3
    BY <2>2, <2>3, TriggerSaid, Zenon
  <2> QED
    BY <2>4, ObjectTrigger, Zenon DEF by, Said
<1>2. PackOrderType(Obj(TriggerFields(o))) = PackTriggered(o) /\ IsSeq(PackTriggered(o))
  <2> DEFINE by == [v \in D |-> PackTrigger(v)]
  <2>1. DOMAIN by = D /\ \A v \in D : by[v] = PackTrigger(v)
    OBVIOUS
  <2>2. PacksPlain(by)
    BY <2>1, Plainly, Zenon DEF PacksPlain, IsPlain
  <2>3. {JFlag(o.isMarket), JDec(o.triggerPx), JStr(o.tpsl)} \subseteq DOMAIN by
    BY <2>1, Zenon
  <2> HIDE DEF D, by
  <2>4. Said(by, 3, TriggerFields(o), PackTriggered(o)) /\ Len(TriggerFields(o)) = 3
    BY <2>2, <2>3, TriggerSaid, Zenon
  <2> QED
    BY <2>4, ObjectOrderType, Zenon DEF by, Said
<1>3. PackItem(Obj(TriggerFields(o))) = PackTriggered(o) /\ IsSeq(PackTriggered(o))
  <2> DEFINE by == [v \in D |-> PackOrderType(v)]
  <2>1. DOMAIN by = D /\ \A v \in D : by[v] = PackOrderType(v)
    OBVIOUS
  <2>2. PacksPlain(by)
    BY <2>1, Plainly, Zenon DEF PacksPlain, IsPlain
  <2>3. {JFlag(o.isMarket), JDec(o.triggerPx), JStr(o.tpsl)} \subseteq DOMAIN by
    BY <2>1, Zenon
  <2> HIDE DEF D, by
  <2>4. Said(by, 3, TriggerFields(o), PackTriggered(o)) /\ Len(TriggerFields(o)) = 3
    BY <2>2, <2>3, TriggerSaid, Zenon
  <2> QED
    BY <2>4, ObjectItem, Zenon DEF by, Said
<1> QED
  BY <1>1, <1>2, <1>3, Zenon

\* The text of a limit.
LEMMA LimitSaid ==
  ASSUME NEW o, NEW by, PacksPlain(by),
         {JStr(o.tif)} \subseteq DOMAIN by
  PROVE  Said(by, 1, LimitFields(o), PackLimit(o)) /\ Len(LimitFields(o)) = 1
<1>0. /\ JStr(o.tif) \in DOMAIN by
  BY Zenon
<1> DEFINE f1 == At("tif", JStr(o.tif))
           t1 == Map(1) \o Str("tif") \o Str(o.tif)
<1>a1. Packs(by, JStr(o.tif), Str(o.tif))
  BY <1>0, PlainTexts, Zenon
<1>b1. Grows(by, 1, f1, t1, 1)
  BY <1>a1, SaidFirst, Zenon
<1> HIDE DEF f1, t1
<1>c. 1 = 1
  OBVIOUS
<1>d. Said(by, 1, LimitFields(o), PackLimit(o)) /\ Len(LimitFields(o)) = 1
  BY <1>c, <1>b1, Zenon DEF Grows, LimitFields, PackLimit, f1, t1
<1> QED
  BY <1>d, Zenon

\* The exchange's packing of it.
LEMMA LimitPacked ==
  ASSUME NEW o
  PROVE  /\ PackTrigger(Obj(LimitFields(o))) = PackLimit(o)
         /\ PackOrderType(Obj(LimitFields(o))) = PackLimit(o)
         /\ PackItem(Obj(LimitFields(o))) = PackLimit(o)
         /\ IsSeq(PackLimit(o))
<1> DEFINE D == {JStr(o.tif)}
<1>1. PackTrigger(Obj(LimitFields(o))) = PackLimit(o) /\ IsSeq(PackLimit(o))
  <2> DEFINE by == [v \in D |-> Scalar(v)]
  <2>1. DOMAIN by = D /\ \A v \in D : by[v] = Scalar(v)
    OBVIOUS
  <2>2. PacksPlain(by)
    BY <2>1, Plainly, Zenon DEF PacksPlain, IsPlain
  <2>3. {JStr(o.tif)} \subseteq DOMAIN by
    BY <2>1, Zenon
  <2> HIDE DEF D, by
  <2>4. Said(by, 1, LimitFields(o), PackLimit(o)) /\ Len(LimitFields(o)) = 1
    BY <2>2, <2>3, LimitSaid, Zenon
  <2> QED
    BY <2>4, ObjectTrigger, Zenon DEF by, Said
<1>2. PackOrderType(Obj(LimitFields(o))) = PackLimit(o) /\ IsSeq(PackLimit(o))
  <2> DEFINE by == [v \in D |-> PackTrigger(v)]
  <2>1. DOMAIN by = D /\ \A v \in D : by[v] = PackTrigger(v)
    OBVIOUS
  <2>2. PacksPlain(by)
    BY <2>1, Plainly, Zenon DEF PacksPlain, IsPlain
  <2>3. {JStr(o.tif)} \subseteq DOMAIN by
    BY <2>1, Zenon
  <2> HIDE DEF D, by
  <2>4. Said(by, 1, LimitFields(o), PackLimit(o)) /\ Len(LimitFields(o)) = 1
    BY <2>2, <2>3, LimitSaid, Zenon
  <2> QED
    BY <2>4, ObjectOrderType, Zenon DEF by, Said
<1>3. PackItem(Obj(LimitFields(o))) = PackLimit(o) /\ IsSeq(PackLimit(o))
  <2> DEFINE by == [v \in D |-> PackOrderType(v)]
  <2>1. DOMAIN by = D /\ \A v \in D : by[v] = PackOrderType(v)
    OBVIOUS
  <2>2. PacksPlain(by)
    BY <2>1, Plainly, Zenon DEF PacksPlain, IsPlain
  <2>3. {JStr(o.tif)} \subseteq DOMAIN by
    BY <2>1, Zenon
  <2> HIDE DEF D, by
  <2>4. Said(by, 1, LimitFields(o), PackLimit(o)) /\ Len(LimitFields(o)) = 1
    BY <2>2, <2>3, LimitSaid, Zenon
  <2> QED
    BY <2>4, ObjectItem, Zenon DEF by, Said
<1> QED
  BY <1>1, <1>2, <1>3, Zenon

\* The branch of an order's type, and the type.
Branch(o) == IF o.isTrigger THEN Obj(TriggerFields(o)) ELSE Obj(LimitFields(o))
BranchKey(o) == IF o.isTrigger THEN "trigger" ELSE "limit"
BranchText(o) == IF o.isTrigger THEN PackTriggered(o) ELSE PackLimit(o)
TypeFields(o) == At(BranchKey(o), Branch(o))
TypeText(o) == Map(1) \o Str(BranchKey(o)) \o BranchText(o)

\* The branch an order has, trigger or limit, is packed as it is written.
LEMMA BranchPacked ==
  ASSUME NEW o
  PROVE  /\ PackTrigger(Branch(o)) = BranchText(o) /\ PackOrderType(Branch(o)) = BranchText(o)
         /\ PackItem(Branch(o)) = BranchText(o) /\ IsSeq(BranchText(o))
<1>1. CASE o.isTrigger
  <2>1. Branch(o) = Obj(TriggerFields(o)) /\ BranchText(o) = PackTriggered(o)
    BY <1>1, Zenon DEF Branch, BranchText
  <2> QED
    BY <2>1, TriggerPacked, Zenon
<1>2. CASE ~ o.isTrigger
  <2>1. Branch(o) = Obj(LimitFields(o)) /\ BranchText(o) = PackLimit(o)
    BY <1>2, Zenon DEF Branch, BranchText
  <2> QED
    BY <2>1, LimitPacked, Zenon
<1> QED
  BY <1>1, <1>2

\* The text of an order's type.
LEMMA TypeSaid ==
  ASSUME NEW o, NEW by, PacksPlain(by),
         {Branch(o)} \subseteq DOMAIN by,
         by[Branch(o)] = BranchText(o), IsSeq(BranchText(o))
  PROVE  Said(by, 1, TypeFields(o), TypeText(o)) /\ Len(TypeFields(o)) = 1
<1>0. /\ Branch(o) \in DOMAIN by
  BY Zenon
<1> DEFINE f1 == At(BranchKey(o), Branch(o))
           t1 == Map(1) \o Str(BranchKey(o)) \o BranchText(o)
<1>a1. Packs(by, Branch(o), BranchText(o))
  BY <1>0, Zenon DEF Packs
<1>b1. Grows(by, 1, f1, t1, 1)
  BY <1>a1, SaidFirst, Zenon
<1> HIDE DEF f1, t1
<1>c. 1 = 1
  OBVIOUS
<1>d. Said(by, 1, TypeFields(o), TypeText(o)) /\ Len(TypeFields(o)) = 1
  BY <1>c, <1>b1, Zenon DEF Grows, TypeFields, TypeText, f1, t1
<1> QED
  BY <1>d, Zenon

\* The exchange's packing of it.
LEMMA TypePacked ==
  ASSUME NEW o
  PROVE  /\ PackOrderType(Obj(TypeFields(o))) = TypeText(o)
         /\ PackItem(Obj(TypeFields(o))) = TypeText(o)
         /\ PackChange(Obj(TypeFields(o))) = TypeText(o)
         /\ IsSeq(TypeText(o))
<1> DEFINE D == {Branch(o)}
<1>1. PackOrderType(Obj(TypeFields(o))) = TypeText(o) /\ IsSeq(TypeText(o))
  <2> DEFINE by == [v \in D |-> PackTrigger(v)]
  <2>1. DOMAIN by = D /\ \A v \in D : by[v] = PackTrigger(v)
    OBVIOUS
  <2>2. PacksPlain(by)
    BY <2>1, Plainly, Zenon DEF PacksPlain, IsPlain
  <2>x1. by[Branch(o)] = BranchText(o) /\ IsSeq(BranchText(o))
    <3>1. Branch(o) \in D
      BY Zenon
    <3> QED
      BY <2>1, <3>1, BranchPacked, Zenon
  <2>3. {Branch(o)} \subseteq DOMAIN by
    BY <2>1, Zenon
  <2> HIDE DEF D, by
  <2>4. Said(by, 1, TypeFields(o), TypeText(o)) /\ Len(TypeFields(o)) = 1
    BY <2>2, <2>3, <2>x1, TypeSaid, Zenon
  <2> QED
    BY <2>4, ObjectOrderType, Zenon DEF by, Said
<1>2. PackItem(Obj(TypeFields(o))) = TypeText(o) /\ IsSeq(TypeText(o))
  <2> DEFINE by == [v \in D |-> PackOrderType(v)]
  <2>1. DOMAIN by = D /\ \A v \in D : by[v] = PackOrderType(v)
    OBVIOUS
  <2>2. PacksPlain(by)
    BY <2>1, Plainly, Zenon DEF PacksPlain, IsPlain
  <2>x1. by[Branch(o)] = BranchText(o) /\ IsSeq(BranchText(o))
    <3>1. Branch(o) \in D
      BY Zenon
    <3> QED
      BY <2>1, <3>1, BranchPacked, Zenon
  <2>3. {Branch(o)} \subseteq DOMAIN by
    BY <2>1, Zenon
  <2> HIDE DEF D, by
  <2>4. Said(by, 1, TypeFields(o), TypeText(o)) /\ Len(TypeFields(o)) = 1
    BY <2>2, <2>3, <2>x1, TypeSaid, Zenon
  <2> QED
    BY <2>4, ObjectItem, Zenon DEF by, Said
<1>3. PackChange(Obj(TypeFields(o))) = TypeText(o) /\ IsSeq(TypeText(o))
  <2> DEFINE by == [v \in D |-> PackItem(v)]
  <2>1. DOMAIN by = D /\ \A v \in D : by[v] = PackItem(v)
    OBVIOUS
  <2>2. PacksPlain(by)
    BY <2>1, Plainly, Zenon DEF PacksPlain, IsPlain
  <2>x1. by[Branch(o)] = BranchText(o) /\ IsSeq(BranchText(o))
    <3>1. Branch(o) \in D
      BY Zenon
    <3> QED
      BY <2>1, <3>1, BranchPacked, Zenon
  <2>3. {Branch(o)} \subseteq DOMAIN by
    BY <2>1, Zenon
  <2> HIDE DEF D, by
  <2>4. Said(by, 1, TypeFields(o), TypeText(o)) /\ Len(TypeFields(o)) = 1
    BY <2>2, <2>3, <2>x1, TypeSaid, Zenon
  <2> QED
    BY <2>4, ObjectChange, Zenon DEF by, Said
<1> QED
  BY <1>1, <1>2, <1>3, Zenon

OrderCount(o) == IF IsSet(o.cloid) THEN 7 ELSE 6
OrderFields(o) ==
  At("a", JNum(o.asset)) \o At("b", JFlag(o.isBuy)) \o At("p", JDec(o.px))
  \o At("s", JDec(o.sz)) \o At("r", JFlag(o.reduceOnly)) \o At("t", Obj(TypeFields(o)))
  \o If(IsSet(o.cloid), At("c", JStr(o.cloid)))
OrderText(o) ==
  Map(OrderCount(o)) \o Str("a") \o Uint(o.asset) \o Str("b") \o Flag(o.isBuy)
  \o Str("p") \o Dec(o.px) \o Str("s") \o Dec(o.sz) \o Str("r") \o Flag(o.reduceOnly)
  \o Str("t") \o TypeText(o) \o If(IsSet(o.cloid), Str("c") \o Str(o.cloid))

\* The text of an order.
LEMMA OrderSaid ==
  ASSUME NEW o, NEW by, PacksPlain(by),
         {JNum(o.asset), JFlag(o.isBuy), JDec(o.px), JDec(o.sz), JFlag(o.reduceOnly),
          Obj(TypeFields(o)), JStr(o.cloid)} \subseteq DOMAIN by,
         by[Obj(TypeFields(o))] = TypeText(o), IsSeq(TypeText(o))
  PROVE  Said(by, OrderCount(o), OrderFields(o), OrderText(o)) /\ Len(OrderFields(o)) = OrderCount(o)
<1>0. /\ JNum(o.asset) \in DOMAIN by
      /\ JFlag(o.isBuy) \in DOMAIN by
      /\ JDec(o.px) \in DOMAIN by
      /\ JDec(o.sz) \in DOMAIN by
      /\ JFlag(o.reduceOnly) \in DOMAIN by
      /\ Obj(TypeFields(o)) \in DOMAIN by
      /\ JStr(o.cloid) \in DOMAIN by
  BY Zenon
<1> DEFINE n == OrderCount(o)
           f1 == At("a", JNum(o.asset))
           t1 == Map(n) \o Str("a") \o Uint(o.asset)
           f2 == f1 \o At("b", JFlag(o.isBuy))
           t2 == t1 \o Str("b") \o Flag(o.isBuy)
           f3 == f2 \o At("p", JDec(o.px))
           t3 == t2 \o Str("p") \o Dec(o.px)
           f4 == f3 \o At("s", JDec(o.sz))
           t4 == t3 \o Str("s") \o Dec(o.sz)
           f5 == f4 \o At("r", JFlag(o.reduceOnly))
           t5 == t4 \o Str("r") \o Flag(o.reduceOnly)
           f6 == f5 \o At("t", Obj(TypeFields(o)))
           t6 == t5 \o Str("t") \o TypeText(o)
           f7 == f6 \o If(IsSet(o.cloid), At("c", JStr(o.cloid)))
           t7 == t6 \o If(IsSet(o.cloid), Str("c") \o Str(o.cloid))
<1> HIDE DEF n
<1>a1. Packs(by, JNum(o.asset), Uint(o.asset))
  BY <1>0, PlainTexts, Zenon
<1>b1. Grows(by, n, f1, t1, 1)
  BY <1>a1, SaidFirst, Zenon
<1> HIDE DEF f1, t1
<1>a2. Packs(by, JFlag(o.isBuy), Flag(o.isBuy))
  BY <1>0, PlainTexts, Zenon
<1>b2. Grows(by, n, f2, t2, 1 + 1)
  BY <1>a2, <1>b1, SaidNext, Zenon
<1> HIDE DEF f2, t2
<1>a3. Packs(by, JDec(o.px), Dec(o.px))
  BY <1>0, PlainTexts, Zenon
<1>b3. Grows(by, n, f3, t3, 1 + 1 + 1)
  BY <1>a3, <1>b2, SaidNext, Zenon
<1> HIDE DEF f3, t3
<1>a4. Packs(by, JDec(o.sz), Dec(o.sz))
  BY <1>0, PlainTexts, Zenon
<1>b4. Grows(by, n, f4, t4, 1 + 1 + 1 + 1)
  BY <1>a4, <1>b3, SaidNext, Zenon
<1> HIDE DEF f4, t4
<1>a5. Packs(by, JFlag(o.reduceOnly), Flag(o.reduceOnly))
  BY <1>0, PlainTexts, Zenon
<1>b5. Grows(by, n, f5, t5, 1 + 1 + 1 + 1 + 1)
  BY <1>a5, <1>b4, SaidNext, Zenon
<1> HIDE DEF f5, t5
<1>a6. Packs(by, Obj(TypeFields(o)), TypeText(o))
  BY <1>0, Zenon DEF Packs
<1>b6. Grows(by, n, f6, t6, 1 + 1 + 1 + 1 + 1 + 1)
  BY <1>a6, <1>b5, SaidNext, Zenon
<1> HIDE DEF f6, t6
<1>a7. Packs(by, JStr(o.cloid), Str(o.cloid))
  BY <1>0, PlainTexts, Zenon
<1>b7. Grows(by, n, f7, t7, IF IsSet(o.cloid) THEN 1 + 1 + 1 + 1 + 1 + 1 + 1 ELSE 1 + 1 + 1 + 1 + 1 + 1)
  BY <1>a7, <1>b6, SaidIf, Zenon
<1> HIDE DEF f7, t7
<1>c. n = IF IsSet(o.cloid) THEN 1 + 1 + 1 + 1 + 1 + 1 + 1 ELSE 1 + 1 + 1 + 1 + 1 + 1
  BY DEF n, OrderCount
<1>d. Said(by, OrderCount(o), OrderFields(o), OrderText(o)) /\ Len(OrderFields(o)) = OrderCount(o)
  BY <1>c, <1>b7, Zenon DEF Grows, n, OrderFields, OrderText, f1, t1, f2, t2, f3, t3, f4,
                                   t4, f5, t5, f6, t6, f7, t7
<1> QED
  BY <1>d, Zenon

\* The exchange's packing of it, in a modify, in a list and in an action.
LEMMA OrderPacked ==
  ASSUME NEW o
  PROVE  /\ PackItem(Obj(OrderFields(o))) = OrderText(o)
         /\ PackChange(Obj(OrderFields(o))) = OrderText(o)
         /\ PackItems(Obj(OrderFields(o))) = OrderText(o)
         /\ IsSeq(OrderText(o))
<1> DEFINE D == {JNum(o.asset), JFlag(o.isBuy), JDec(o.px), JDec(o.sz),
                 JFlag(o.reduceOnly), Obj(TypeFields(o)), JStr(o.cloid)}
<1>1. PackItem(Obj(OrderFields(o))) = OrderText(o) /\ IsSeq(OrderText(o))
  <2> DEFINE by == [v \in D |-> PackOrderType(v)]
  <2>1. DOMAIN by = D /\ \A v \in D : by[v] = PackOrderType(v)
    OBVIOUS
  <2>2. PacksPlain(by)
    BY <2>1, Plainly, Zenon DEF PacksPlain, IsPlain
  <2>x1. by[Obj(TypeFields(o))] = TypeText(o) /\ IsSeq(TypeText(o))
    <3>1. Obj(TypeFields(o)) \in D
      BY Zenon
    <3> QED
      BY <2>1, <3>1, TypePacked, Zenon
  <2>3. {JNum(o.asset), JFlag(o.isBuy), JDec(o.px), JDec(o.sz), JFlag(o.reduceOnly),
         Obj(TypeFields(o)), JStr(o.cloid)} \subseteq DOMAIN by
    BY <2>1, Zenon
  <2> HIDE DEF D, by
  <2>4. Said(by, OrderCount(o), OrderFields(o), OrderText(o)) /\ Len(OrderFields(o)) = OrderCount(o)
    BY <2>2, <2>3, <2>x1, OrderSaid, Zenon
  <2> QED
    BY <2>4, ObjectItem, Zenon DEF by, Said
<1>2. PackChange(Obj(OrderFields(o))) = OrderText(o) /\ IsSeq(OrderText(o))
  <2> DEFINE by == [v \in D |-> PackItem(v)]
  <2>1. DOMAIN by = D /\ \A v \in D : by[v] = PackItem(v)
    OBVIOUS
  <2>2. PacksPlain(by)
    BY <2>1, Plainly, Zenon DEF PacksPlain, IsPlain
  <2>x1. by[Obj(TypeFields(o))] = TypeText(o) /\ IsSeq(TypeText(o))
    <3>1. Obj(TypeFields(o)) \in D
      BY Zenon
    <3> QED
      BY <2>1, <3>1, TypePacked, Zenon
  <2>3. {JNum(o.asset), JFlag(o.isBuy), JDec(o.px), JDec(o.sz), JFlag(o.reduceOnly),
         Obj(TypeFields(o)), JStr(o.cloid)} \subseteq DOMAIN by
    BY <2>1, Zenon
  <2> HIDE DEF D, by
  <2>4. Said(by, OrderCount(o), OrderFields(o), OrderText(o)) /\ Len(OrderFields(o)) = OrderCount(o)
    BY <2>2, <2>3, <2>x1, OrderSaid, Zenon
  <2> QED
    BY <2>4, ObjectChange, Zenon DEF by, Said
<1>3. PackItems(Obj(OrderFields(o))) = OrderText(o) /\ IsSeq(OrderText(o))
  <2> DEFINE by == [v \in D |-> PackChange(v)]
  <2>1. DOMAIN by = D /\ \A v \in D : by[v] = PackChange(v)
    OBVIOUS
  <2>2. PacksPlain(by)
    BY <2>1, Plainly, Zenon DEF PacksPlain, IsPlain
  <2>x1. by[Obj(TypeFields(o))] = TypeText(o) /\ IsSeq(TypeText(o))
    <3>1. Obj(TypeFields(o)) \in D
      BY Zenon
    <3> QED
      BY <2>1, <3>1, TypePacked, Zenon
  <2>3. {JNum(o.asset), JFlag(o.isBuy), JDec(o.px), JDec(o.sz), JFlag(o.reduceOnly),
         Obj(TypeFields(o)), JStr(o.cloid)} \subseteq DOMAIN by
    BY <2>1, Zenon
  <2> HIDE DEF D, by
  <2>4. Said(by, OrderCount(o), OrderFields(o), OrderText(o)) /\ Len(OrderFields(o)) = OrderCount(o)
    BY <2>2, <2>3, <2>x1, OrderSaid, Zenon
  <2> QED
    BY <2>4, ObjectItems, Zenon DEF by, Said
<1> QED
  BY <1>1, <1>2, <1>3, Zenon

\* OrderFields and OrderText are what appendJSON and appendMsgpack write.
LEMMA OrderForms ==
  ASSUME NEW o
  PROVE  JsonOrder(o) = Obj(OrderFields(o)) /\ PackOrder(o) = OrderText(o)
<1>1. JsonType(o) = Obj(TypeFields(o)) /\ PackType(o) = TypeText(o)
  <2>1. CASE o.isTrigger
    <3>1. Branch(o) = Obj(TriggerFields(o)) /\ BranchKey(o) = "trigger"
          /\ BranchText(o) = PackTriggered(o)
      BY <2>1, Zenon DEF Branch, BranchKey, BranchText
    <3>2. JsonType(o) = Obj(At("trigger", Obj(TriggerFields(o))))
      BY <2>1, Zenon DEF JsonType, TriggerFields
    <3>3. PackType(o) = Map(1) \o Str("trigger") \o PackTriggered(o)
      BY <2>1, Zenon DEF PackType
    <3> QED
      BY <3>1, <3>2, <3>3, Zenon DEF TypeFields, TypeText
  <2>2. CASE ~ o.isTrigger
    <3>1. Branch(o) = Obj(LimitFields(o)) /\ BranchKey(o) = "limit"
          /\ BranchText(o) = PackLimit(o)
      BY <2>2, Zenon DEF Branch, BranchKey, BranchText
    <3>2. JsonType(o) = Obj(At("limit", Obj(LimitFields(o))))
      BY <2>2, Zenon DEF JsonType, LimitFields
    <3>3. PackType(o) = Map(1) \o Str("limit") \o PackLimit(o)
      BY <2>2, Zenon DEF PackType
    <3> QED
      BY <3>1, <3>2, <3>3, Zenon DEF TypeFields, TypeText
  <2> QED
    BY <2>1, <2>2
<1>2. JsonOrder(o) = Obj(OrderFields(o))
  BY <1>1, Zenon DEF JsonOrder, OrderFields
<1>3. PackOrder(o) = OrderText(o)
  BY <1>1, Zenon DEF PackOrder, OrderText, OrderCount
<1> QED
  BY <1>2, <1>3

\* An order packs as it is written, in an action, in its list and in a modify.
LEMMA OrdersPack ==
  ASSUME NEW o
  PROVE  /\ PackItem(JsonOrder(o)) = PackOrder(o) /\ PackChange(JsonOrder(o)) = PackOrder(o)
         /\ PackItems(JsonOrder(o)) = PackOrder(o) /\ IsSeq(PackOrder(o))
BY OrderForms, OrderPacked, Zenon

\* So does what names an order to modify.
LEMMA RefTexts ==
  ASSUME NEW by, PacksPlain(by), NEW r, JsonRef(r) \in DOMAIN by
  PROVE  Packs(by, JsonRef(r), PackRef(r))
<1>1. CASE IsSet(r.cloid)
  <2>1. JsonRef(r) = JStr(r.cloid) /\ PackRef(r) = Str(r.cloid)
    BY <1>1, Zenon DEF JsonRef, PackRef
  <2> QED
    BY <2>1, PlainTexts, Zenon
<1>2. CASE ~ IsSet(r.cloid)
  <2>1. JsonRef(r) = JNum(r.oid) /\ PackRef(r) = Uint(r.oid)
    BY <1>2, Zenon DEF JsonRef, PackRef
  <2> QED
    BY <2>1, PlainTexts, Zenon
<1> QED
  BY <1>1, <1>2

\* The items of the other lists, and the builder.
CancelFields(c) == At("a", JNum(c.asset)) \o At("o", JNum(c.oid))
ByCloidFields(c) == At("asset", JNum(c.asset)) \o At("cloid", JStr(c.cloid))
ModifyFields(m) == At("oid", JsonRef(m.ref)) \o At("order", JsonOrder(m.order))
BuilderFields(b) == At("b", JStr(b.address)) \o At("f", JNum(b.fee))

\* The exchange's packing of a cancel.
LEMMA CancelPacked ==
  ASSUME NEW c
  PROVE  PackChange(Obj(CancelFields(c))) = PackCancel(c) /\ IsSeq(PackCancel(c))
<1> DEFINE D == {JNum(c.asset), JNum(c.oid)}
           by == [v \in D |-> PackItem(v)]
<1>1. DOMAIN by = D /\ \A v \in D : by[v] = PackItem(v)
  OBVIOUS
<1>2. PacksPlain(by)
  BY <1>1, Plainly, Zenon DEF PacksPlain, IsPlain
<1>0. /\ JNum(c.asset) \in DOMAIN by
      /\ JNum(c.oid) \in DOMAIN by
      /\ PacksPlain(by)
  BY <1>1, <1>2, Zenon
<1> HIDE DEF D, by
<1> DEFINE f1 == At("a", JNum(c.asset))
           t1 == Map(2) \o Str("a") \o Uint(c.asset)
           f2 == f1 \o At("o", JNum(c.oid))
           t2 == t1 \o Str("o") \o Uint(c.oid)
<1>a1. Packs(by, JNum(c.asset), Uint(c.asset))
  BY <1>0, PlainTexts, Zenon
<1>b1. Grows(by, 2, f1, t1, 1)
  BY <1>a1, SaidFirst, Zenon
<1> HIDE DEF f1, t1
<1>a2. Packs(by, JNum(c.oid), Uint(c.oid))
  BY <1>0, PlainTexts, Zenon
<1>b2. Grows(by, 2, f2, t2, 1 + 1)
  BY <1>a2, <1>b1, SaidNext, Zenon
<1> HIDE DEF f2, t2
<1>c. 2 = 1 + 1
  OBVIOUS
<1>d. Said(by, 2, CancelFields(c), PackCancel(c)) /\ Len(CancelFields(c)) = 2
  BY <1>c, <1>b2, Zenon DEF Grows, CancelFields, PackCancel, f1, t1, f2, t2
<1> QED
  BY <1>d, ObjectChange, Zenon DEF by, Said

\* Of a cancel by client order id.
LEMMA ByCloidPacked ==
  ASSUME NEW c
  PROVE  PackChange(Obj(ByCloidFields(c))) = PackCancelByCloid(c) /\ IsSeq(PackCancelByCloid(c))
<1> DEFINE D == {JNum(c.asset), JStr(c.cloid)}
           by == [v \in D |-> PackItem(v)]
<1>1. DOMAIN by = D /\ \A v \in D : by[v] = PackItem(v)
  OBVIOUS
<1>2. PacksPlain(by)
  BY <1>1, Plainly, Zenon DEF PacksPlain, IsPlain
<1>0. /\ JNum(c.asset) \in DOMAIN by
      /\ JStr(c.cloid) \in DOMAIN by
      /\ PacksPlain(by)
  BY <1>1, <1>2, Zenon
<1> HIDE DEF D, by
<1> DEFINE f1 == At("asset", JNum(c.asset))
           t1 == Map(2) \o Str("asset") \o Uint(c.asset)
           f2 == f1 \o At("cloid", JStr(c.cloid))
           t2 == t1 \o Str("cloid") \o Str(c.cloid)
<1>a1. Packs(by, JNum(c.asset), Uint(c.asset))
  BY <1>0, PlainTexts, Zenon
<1>b1. Grows(by, 2, f1, t1, 1)
  BY <1>a1, SaidFirst, Zenon
<1> HIDE DEF f1, t1
<1>a2. Packs(by, JStr(c.cloid), Str(c.cloid))
  BY <1>0, PlainTexts, Zenon
<1>b2. Grows(by, 2, f2, t2, 1 + 1)
  BY <1>a2, <1>b1, SaidNext, Zenon
<1> HIDE DEF f2, t2
<1>c. 2 = 1 + 1
  OBVIOUS
<1>d. Said(by, 2, ByCloidFields(c), PackCancelByCloid(c)) /\ Len(ByCloidFields(c)) = 2
  BY <1>c, <1>b2, Zenon DEF Grows, ByCloidFields, PackCancelByCloid, f1, t1, f2, t2
<1> QED
  BY <1>d, ObjectChange, Zenon DEF by, Said

\* Of a modify in a batch.
LEMMA ModifyPacked ==
  ASSUME NEW m
  PROVE  PackChange(Obj(ModifyFields(m))) = PackModify(m) /\ IsSeq(PackModify(m))
<1> DEFINE D == {JsonRef(m.ref), JsonOrder(m.order)}
           by == [v \in D |-> PackItem(v)]
<1>1. DOMAIN by = D /\ \A v \in D : by[v] = PackItem(v)
  OBVIOUS
<1>2. PacksPlain(by)
  BY <1>1, Plainly, Zenon DEF PacksPlain, IsPlain
<1>0. /\ JsonRef(m.ref) \in DOMAIN by
      /\ JsonOrder(m.order) \in DOMAIN by
      /\ by[JsonOrder(m.order)] = PackOrder(m.order) /\ IsSeq(PackOrder(m.order))
      /\ PacksPlain(by)
  BY <1>1, <1>2, OrdersPack, Zenon
<1> HIDE DEF D, by
<1> DEFINE f1 == At("oid", JsonRef(m.ref))
           t1 == Map(2) \o Str("oid") \o PackRef(m.ref)
           f2 == f1 \o At("order", JsonOrder(m.order))
           t2 == t1 \o Str("order") \o PackOrder(m.order)
<1>a1. Packs(by, JsonRef(m.ref), PackRef(m.ref))
  BY <1>0, RefTexts, Zenon
<1>b1. Grows(by, 2, f1, t1, 1)
  BY <1>a1, SaidFirst, Zenon
<1> HIDE DEF f1, t1
<1>a2. Packs(by, JsonOrder(m.order), PackOrder(m.order))
  BY <1>0, Zenon DEF Packs
<1>b2. Grows(by, 2, f2, t2, 1 + 1)
  BY <1>a2, <1>b1, SaidNext, Zenon
<1> HIDE DEF f2, t2
<1>c. 2 = 1 + 1
  OBVIOUS
<1>d. Said(by, 2, ModifyFields(m), PackModify(m)) /\ Len(ModifyFields(m)) = 2
  BY <1>c, <1>b2, Zenon DEF Grows, ModifyFields, PackModify, f1, t1, f2, t2
<1> QED
  BY <1>d, ObjectChange, Zenon DEF by, Said

\* Of a builder.
LEMMA BuilderPacked ==
  ASSUME NEW b
  PROVE  PackItems(Obj(BuilderFields(b))) = PackBuilder(b) /\ IsSeq(PackBuilder(b))
<1> DEFINE D == {JStr(b.address), JNum(b.fee)}
           by == [v \in D |-> PackChange(v)]
<1>1. DOMAIN by = D /\ \A v \in D : by[v] = PackChange(v)
  OBVIOUS
<1>2. PacksPlain(by)
  BY <1>1, Plainly, Zenon DEF PacksPlain, IsPlain
<1>0. /\ JStr(b.address) \in DOMAIN by
      /\ JNum(b.fee) \in DOMAIN by
      /\ PacksPlain(by)
  BY <1>1, <1>2, Zenon
<1> HIDE DEF D, by
<1> DEFINE f1 == At("b", JStr(b.address))
           t1 == Map(2) \o Str("b") \o Str(b.address)
           f2 == f1 \o At("f", JNum(b.fee))
           t2 == t1 \o Str("f") \o Uint(b.fee)
<1>a1. Packs(by, JStr(b.address), Str(b.address))
  BY <1>0, PlainTexts, Zenon
<1>b1. Grows(by, 2, f1, t1, 1)
  BY <1>a1, SaidFirst, Zenon
<1> HIDE DEF f1, t1
<1>a2. Packs(by, JNum(b.fee), Uint(b.fee))
  BY <1>0, PlainTexts, Zenon
<1>b2. Grows(by, 2, f2, t2, 1 + 1)
  BY <1>a2, <1>b1, SaidNext, Zenon
<1> HIDE DEF f2, t2
<1>c. 2 = 1 + 1
  OBVIOUS
<1>d. Said(by, 2, BuilderFields(b), PackBuilder(b)) /\ Len(BuilderFields(b)) = 2
  BY <1>c, <1>b2, Zenon DEF Grows, BuilderFields, PackBuilder, f1, t1, f2, t2
<1> QED
  BY <1>d, ObjectItems, Zenon DEF by, Said

\* And what AppendJSON writes of them.
LEMMA ItemForms ==
  ASSUME NEW x
  PROVE  /\ JsonCancel(x) = Obj(CancelFields(x)) /\ JsonCancelByCloid(x) = Obj(ByCloidFields(x))
         /\ JsonModify(x) = Obj(ModifyFields(x))
<1>1. JsonCancel(x) = Obj(CancelFields(x))
  BY Zenon DEF JsonCancel, CancelFields
<1>2. JsonCancelByCloid(x) = Obj(ByCloidFields(x))
  BY Zenon DEF JsonCancelByCloid, ByCloidFields
<1>3. JsonModify(x) = Obj(ModifyFields(x))
  BY Zenon DEF JsonModify, ModifyFields
<1> QED
  BY <1>1, <1>2, <1>3

\* The items of the lists pack as they are written.
LEMMA ItemsPack ==
  ASSUME NEW x
  PROVE  /\ PackChange(JsonCancel(x)) = PackCancel(x) /\ IsSeq(PackCancel(x))
         /\ PackChange(JsonCancelByCloid(x)) = PackCancelByCloid(x) /\ IsSeq(PackCancelByCloid(x))
         /\ PackChange(JsonModify(x)) = PackModify(x) /\ IsSeq(PackModify(x))
<1>1. PackChange(JsonCancel(x)) = PackCancel(x) /\ IsSeq(PackCancel(x))
  BY ItemForms, CancelPacked, Zenon
<1>2. PackChange(JsonCancelByCloid(x)) = PackCancelByCloid(x) /\ IsSeq(PackCancelByCloid(x))
  BY ItemForms, ByCloidPacked, Zenon
<1>3. PackChange(JsonModify(x)) = PackModify(x) /\ IsSeq(PackModify(x))
  BY ItemForms, ModifyPacked, Zenon
<1> QED
  BY <1>1, <1>2, <1>3

\* A list packs as its items do, one after the other.
LEMMA Lists ==
  ASSUME NEW s, IsSeq(s), Len(s) # 0, NEW json, NEW text,
         DOMAIN json = DOMAIN s, DOMAIN text = DOMAIN s,
         json = [i \in DOMAIN s |-> json[i]], text = [i \in DOMAIN s |-> text[i]],
         \A i \in DOMAIN s : PackChange(json[i]) = text[i] /\ IsSeq(text[i])
  PROVE  /\ PackItems(<<"list", json>>) = Array(Len(s)) \o FlattenSeq(text)
         /\ IsSeq(Array(Len(s)) \o FlattenSeq(text))
<1> DEFINE n == Len(s)
           list == <<"list", json>>
           parts == [i \in DOMAIN json |-> PackChange(json[i])]
<1>1. n \in Nat \ {0} /\ DOMAIN s = 1 .. n
  BY OwnSeq DEF IsSeq
<1>2. list[1] = "list" /\ list[2] = json
  OBVIOUS
<1>3. Len(json) = n /\ Len(text) = n /\ DOMAIN text = 1 .. n
  BY <1>1
<1> HIDE DEF list
<1>4. PackItems(list) = Array(Len(json)) \o FlattenSeq(parts)
  BY <1>2 DEF PackItems, PackBy, Each
<1>5. parts = text
  <2>1. \A i \in DOMAIN s : PackChange(json[i]) = text[i]
    BY Zenon
  <2>2. parts = [i \in DOMAIN s |-> PackChange(json[i])]
    BY Zenon
  <2>3. text = [i \in DOMAIN s |-> text[i]]
    BY Zenon
  <2> HIDE DEF parts
  <2> QED
    BY <2>1, <2>2, <2>3
<1> HIDE DEF n, parts
<1>6. \A i \in 1 .. n : IsSeq(text[i])
  BY <1>1, Zenon
<1>7. JoinedInTurn(n, text)
  BY <1>1, <1>3, <1>6, Flatten, Zenon
<1>8. PICK f : FlattenSeq(text) = f[n] /\ \A i \in 1 .. n : IsSeq(f[i])
  BY <1>7, Zenon DEF JoinedInTurn
<1>9. n \in 1 .. n
  BY <1>1
<1>10. IsSeq(Array(n) \o FlattenSeq(text))
  <2>1. IsSeq(f[n]) /\ IsSeq(Array(n))
    BY <1>8, <1>9, Tokens, Zenon
  <2> QED
    BY <1>8, <2>1, FieldsJoined, Zenon
<1> QED
  BY <1>3, <1>4, <1>5, <1>10, Zenon DEF n, list

\* The fields and the text of each action; list and text are those of its items.
OrdersFields(a, list) ==
  At("type", JStr("order")) \o At("orders", list) \o At("grouping", JStr(a.grouping))
  \o If(a.builder.set, At("builder", Obj(BuilderFields(a.builder))))
OrdersCount(a) == IF a.builder.set THEN 4 ELSE 3
OrdersText(a, text) ==
  Map(OrdersCount(a)) \o Str("type") \o Str("order") \o Str("orders") \o text
  \o Str("grouping") \o Str(a.grouping)
  \o If(a.builder.set, Str("builder") \o PackBuilder(a.builder))
OneFields(a, m) ==
  At("type", JStr("modify")) \o At("oid", JsonRef(m.ref)) \o At("order", JsonOrder(m.order))
  \o If(a.alwaysPlace, At("a", JFlag(TRUE)))
OneCount(a) == IF a.alwaysPlace THEN 4 ELSE 3
OneText(a, m) ==
  Map(OneCount(a)) \o Str("type") \o Str("modify") \o Str("oid") \o PackRef(m.ref)
  \o Str("order") \o PackOrder(m.order) \o If(a.alwaysPlace, Str("a") \o Flag(TRUE))
ModifiesFields(a, list) ==
  At("type", JStr("batchModify")) \o At("modifies", list)
  \o If(a.alwaysPlace, At("a", JFlag(TRUE)))
ModifiesCount(a) == IF a.alwaysPlace THEN 3 ELSE 2
ModifiesText(a, text) ==
  Map(ModifiesCount(a)) \o Str("type") \o Str("batchModify") \o Str("modifies") \o text
  \o If(a.alwaysPlace, Str("a") \o Flag(TRUE))
CancelsFields(a, list) ==
  At("type", JStr(a.type)) \o At("cancels", list) \o If(a.fast, At("f", JFlag(TRUE)))
CancelsCount(a) == IF a.fast THEN 3 ELSE 2
CancelsText(a, text) ==
  Map(CancelsCount(a)) \o Str("type") \o Str(a.type) \o Str("cancels") \o text
  \o If(a.fast, Str("f") \o Flag(TRUE))
ScheduleFields(a) ==
  At("type", JStr("scheduleCancel")) \o If(a.hasTime, At("time", JNum(a.timeMs)))
ScheduleCount(a) == IF a.hasTime THEN 2 ELSE 1
ScheduleText(a) ==
  Map(ScheduleCount(a)) \o Str("type") \o Str("scheduleCancel")
  \o If(a.hasTime, Str("time") \o Uint(a.timeMs))
NoopFields == At("type", JStr("noop"))
LeverageFields(a) ==
  At("type", JStr("updateLeverage")) \o At("asset", JNum(a.asset))
  \o At("isCross", JFlag(a.isCross)) \o At("leverage", JNum(a.leverage))
MarginFields(a) ==
  At("type", JStr("updateIsolatedMargin")) \o At("asset", JNum(a.asset))
  \o At("isBuy", JFlag(a.isBuy)) \o At("ntli", JNum(a.ntli))

\* The packing of an action from its fields: of new orders,
LEMMA OrdersPacked ==
  ASSUME NEW a, NEW list, NEW text,
         PackItems(list) = text, IsSeq(text)
  PROVE  Pack(Obj(OrdersFields(a, list))) = OrdersText(a, text) /\ IsSeq(OrdersText(a, text))
<1> DEFINE D == {JStr("order"), list, JStr(a.grouping), Obj(BuilderFields(a.builder))}
           by == [v \in D |-> PackItems(v)]
<1>1. DOMAIN by = D /\ \A v \in D : by[v] = PackItems(v)
  OBVIOUS
<1>2. PacksPlain(by)
  BY <1>1, Plainly, Zenon DEF PacksPlain, IsPlain
<1>0. /\ JStr("order") \in DOMAIN by
      /\ list \in DOMAIN by
      /\ JStr(a.grouping) \in DOMAIN by
      /\ Obj(BuilderFields(a.builder)) \in DOMAIN by
      /\ by[list] = text /\ IsSeq(text)
      /\ by[Obj(BuilderFields(a.builder))] = PackBuilder(a.builder) /\ IsSeq(PackBuilder(a.builder))
      /\ PacksPlain(by)
  BY <1>1, <1>2, BuilderPacked, Zenon
<1> HIDE DEF D, by
<1> DEFINE n == OrdersCount(a)
           f1 == At("type", JStr("order"))
           t1 == Map(n) \o Str("type") \o Str("order")
           f2 == f1 \o At("orders", list)
           t2 == t1 \o Str("orders") \o text
           f3 == f2 \o At("grouping", JStr(a.grouping))
           t3 == t2 \o Str("grouping") \o Str(a.grouping)
           f4 == f3 \o If(a.builder.set, At("builder", Obj(BuilderFields(a.builder))))
           t4 == t3 \o If(a.builder.set, Str("builder") \o PackBuilder(a.builder))
<1> HIDE DEF n
<1>a1. Packs(by, JStr("order"), Str("order"))
  BY <1>0, PlainTexts, Zenon
<1>b1. Grows(by, n, f1, t1, 1)
  BY <1>a1, SaidFirst, Zenon
<1> HIDE DEF f1, t1
<1>a2. Packs(by, list, text)
  BY <1>0, Zenon DEF Packs
<1>b2. Grows(by, n, f2, t2, 1 + 1)
  BY <1>a2, <1>b1, SaidNext, Zenon
<1> HIDE DEF f2, t2
<1>a3. Packs(by, JStr(a.grouping), Str(a.grouping))
  BY <1>0, PlainTexts, Zenon
<1>b3. Grows(by, n, f3, t3, 1 + 1 + 1)
  BY <1>a3, <1>b2, SaidNext, Zenon
<1> HIDE DEF f3, t3
<1>a4. Packs(by, Obj(BuilderFields(a.builder)), PackBuilder(a.builder))
  BY <1>0, Zenon DEF Packs
<1>b4. Grows(by, n, f4, t4, IF a.builder.set THEN 1 + 1 + 1 + 1 ELSE 1 + 1 + 1)
  BY <1>a4, <1>b3, SaidIf, Zenon
<1> HIDE DEF f4, t4
<1>c. n = IF a.builder.set THEN 1 + 1 + 1 + 1 ELSE 1 + 1 + 1
  BY DEF n, OrdersCount
<1>d. Said(by, OrdersCount(a), OrdersFields(a, list), OrdersText(a, text)) /\ Len(OrdersFields(a, list)) = OrdersCount(a)
  BY <1>c, <1>b4, Zenon DEF Grows, n, OrdersFields, OrdersText, f1, t1, f2, t2, f3, t3, f4,
                                   t4
<1> QED
  BY <1>d, ObjectWhole, Zenon DEF by, Said

\* of one modify,
LEMMA OnePacked ==
  ASSUME NEW a, NEW m
  PROVE  Pack(Obj(OneFields(a, m))) = OneText(a, m) /\ IsSeq(OneText(a, m))
<1> DEFINE D == {JStr("modify"), JsonRef(m.ref), JsonOrder(m.order), JFlag(TRUE)}
           by == [v \in D |-> PackItems(v)]
<1>1. DOMAIN by = D /\ \A v \in D : by[v] = PackItems(v)
  OBVIOUS
<1>2. PacksPlain(by)
  BY <1>1, Plainly, Zenon DEF PacksPlain, IsPlain
<1>0. /\ JStr("modify") \in DOMAIN by
      /\ JsonRef(m.ref) \in DOMAIN by
      /\ JsonOrder(m.order) \in DOMAIN by
      /\ JFlag(TRUE) \in DOMAIN by
      /\ by[JsonOrder(m.order)] = PackOrder(m.order) /\ IsSeq(PackOrder(m.order))
      /\ PacksPlain(by)
  BY <1>1, <1>2, OrdersPack, Zenon
<1> HIDE DEF D, by
<1> DEFINE n == OneCount(a)
           f1 == At("type", JStr("modify"))
           t1 == Map(n) \o Str("type") \o Str("modify")
           f2 == f1 \o At("oid", JsonRef(m.ref))
           t2 == t1 \o Str("oid") \o PackRef(m.ref)
           f3 == f2 \o At("order", JsonOrder(m.order))
           t3 == t2 \o Str("order") \o PackOrder(m.order)
           f4 == f3 \o If(a.alwaysPlace, At("a", JFlag(TRUE)))
           t4 == t3 \o If(a.alwaysPlace, Str("a") \o Flag(TRUE))
<1> HIDE DEF n
<1>a1. Packs(by, JStr("modify"), Str("modify"))
  BY <1>0, PlainTexts, Zenon
<1>b1. Grows(by, n, f1, t1, 1)
  BY <1>a1, SaidFirst, Zenon
<1> HIDE DEF f1, t1
<1>a2. Packs(by, JsonRef(m.ref), PackRef(m.ref))
  BY <1>0, RefTexts, Zenon
<1>b2. Grows(by, n, f2, t2, 1 + 1)
  BY <1>a2, <1>b1, SaidNext, Zenon
<1> HIDE DEF f2, t2
<1>a3. Packs(by, JsonOrder(m.order), PackOrder(m.order))
  BY <1>0, Zenon DEF Packs
<1>b3. Grows(by, n, f3, t3, 1 + 1 + 1)
  BY <1>a3, <1>b2, SaidNext, Zenon
<1> HIDE DEF f3, t3
<1>a4. Packs(by, JFlag(TRUE), Flag(TRUE))
  BY <1>0, PlainTexts, Zenon
<1>b4. Grows(by, n, f4, t4, IF a.alwaysPlace THEN 1 + 1 + 1 + 1 ELSE 1 + 1 + 1)
  BY <1>a4, <1>b3, SaidIf, Zenon
<1> HIDE DEF f4, t4
<1>c. n = IF a.alwaysPlace THEN 1 + 1 + 1 + 1 ELSE 1 + 1 + 1
  BY DEF n, OneCount
<1>d. Said(by, OneCount(a), OneFields(a, m), OneText(a, m)) /\ Len(OneFields(a, m)) = OneCount(a)
  BY <1>c, <1>b4, Zenon DEF Grows, n, OneFields, OneText, f1, t1, f2, t2, f3, t3, f4, t4
<1> QED
  BY <1>d, ObjectWhole, Zenon DEF by, Said

\* of a batch of modifies,
LEMMA ModifiesPacked ==
  ASSUME NEW a, NEW list, NEW text,
         PackItems(list) = text, IsSeq(text)
  PROVE  Pack(Obj(ModifiesFields(a, list))) = ModifiesText(a, text) /\ IsSeq(ModifiesText(a, text))
<1> DEFINE D == {JStr("batchModify"), list, JFlag(TRUE)}
           by == [v \in D |-> PackItems(v)]
<1>1. DOMAIN by = D /\ \A v \in D : by[v] = PackItems(v)
  OBVIOUS
<1>2. PacksPlain(by)
  BY <1>1, Plainly, Zenon DEF PacksPlain, IsPlain
<1>0. /\ JStr("batchModify") \in DOMAIN by
      /\ list \in DOMAIN by
      /\ JFlag(TRUE) \in DOMAIN by
      /\ by[list] = text /\ IsSeq(text)
      /\ PacksPlain(by)
  BY <1>1, <1>2, Zenon
<1> HIDE DEF D, by
<1> DEFINE n == ModifiesCount(a)
           f1 == At("type", JStr("batchModify"))
           t1 == Map(n) \o Str("type") \o Str("batchModify")
           f2 == f1 \o At("modifies", list)
           t2 == t1 \o Str("modifies") \o text
           f3 == f2 \o If(a.alwaysPlace, At("a", JFlag(TRUE)))
           t3 == t2 \o If(a.alwaysPlace, Str("a") \o Flag(TRUE))
<1> HIDE DEF n
<1>a1. Packs(by, JStr("batchModify"), Str("batchModify"))
  BY <1>0, PlainTexts, Zenon
<1>b1. Grows(by, n, f1, t1, 1)
  BY <1>a1, SaidFirst, Zenon
<1> HIDE DEF f1, t1
<1>a2. Packs(by, list, text)
  BY <1>0, Zenon DEF Packs
<1>b2. Grows(by, n, f2, t2, 1 + 1)
  BY <1>a2, <1>b1, SaidNext, Zenon
<1> HIDE DEF f2, t2
<1>a3. Packs(by, JFlag(TRUE), Flag(TRUE))
  BY <1>0, PlainTexts, Zenon
<1>b3. Grows(by, n, f3, t3, IF a.alwaysPlace THEN 1 + 1 + 1 ELSE 1 + 1)
  BY <1>a3, <1>b2, SaidIf, Zenon
<1> HIDE DEF f3, t3
<1>c. n = IF a.alwaysPlace THEN 1 + 1 + 1 ELSE 1 + 1
  BY DEF n, ModifiesCount
<1>d. Said(by, ModifiesCount(a), ModifiesFields(a, list), ModifiesText(a, text)) /\ Len(ModifiesFields(a, list)) = ModifiesCount(a)
  BY <1>c, <1>b3, Zenon DEF Grows, n, ModifiesFields, ModifiesText, f1, t1, f2, t2, f3, t3
<1> QED
  BY <1>d, ObjectWhole, Zenon DEF by, Said

\* of cancels, by either id,
LEMMA CancelsPacked ==
  ASSUME NEW a, NEW list, NEW text,
         PackItems(list) = text, IsSeq(text)
  PROVE  Pack(Obj(CancelsFields(a, list))) = CancelsText(a, text) /\ IsSeq(CancelsText(a, text))
<1> DEFINE D == {JStr(a.type), list, JFlag(TRUE)}
           by == [v \in D |-> PackItems(v)]
<1>1. DOMAIN by = D /\ \A v \in D : by[v] = PackItems(v)
  OBVIOUS
<1>2. PacksPlain(by)
  BY <1>1, Plainly, Zenon DEF PacksPlain, IsPlain
<1>0. /\ JStr(a.type) \in DOMAIN by
      /\ list \in DOMAIN by
      /\ JFlag(TRUE) \in DOMAIN by
      /\ by[list] = text /\ IsSeq(text)
      /\ PacksPlain(by)
  BY <1>1, <1>2, Zenon
<1> HIDE DEF D, by
<1> DEFINE n == CancelsCount(a)
           f1 == At("type", JStr(a.type))
           t1 == Map(n) \o Str("type") \o Str(a.type)
           f2 == f1 \o At("cancels", list)
           t2 == t1 \o Str("cancels") \o text
           f3 == f2 \o If(a.fast, At("f", JFlag(TRUE)))
           t3 == t2 \o If(a.fast, Str("f") \o Flag(TRUE))
<1> HIDE DEF n
<1>a1. Packs(by, JStr(a.type), Str(a.type))
  BY <1>0, PlainTexts, Zenon
<1>b1. Grows(by, n, f1, t1, 1)
  BY <1>a1, SaidFirst, Zenon
<1> HIDE DEF f1, t1
<1>a2. Packs(by, list, text)
  BY <1>0, Zenon DEF Packs
<1>b2. Grows(by, n, f2, t2, 1 + 1)
  BY <1>a2, <1>b1, SaidNext, Zenon
<1> HIDE DEF f2, t2
<1>a3. Packs(by, JFlag(TRUE), Flag(TRUE))
  BY <1>0, PlainTexts, Zenon
<1>b3. Grows(by, n, f3, t3, IF a.fast THEN 1 + 1 + 1 ELSE 1 + 1)
  BY <1>a3, <1>b2, SaidIf, Zenon
<1> HIDE DEF f3, t3
<1>c. n = IF a.fast THEN 1 + 1 + 1 ELSE 1 + 1
  BY DEF n, CancelsCount
<1>d. Said(by, CancelsCount(a), CancelsFields(a, list), CancelsText(a, text)) /\ Len(CancelsFields(a, list)) = CancelsCount(a)
  BY <1>c, <1>b3, Zenon DEF Grows, n, CancelsFields, CancelsText, f1, t1, f2, t2, f3, t3
<1> QED
  BY <1>d, ObjectWhole, Zenon DEF by, Said

\* of scheduleCancel,
LEMMA SchedulePacked ==
  ASSUME NEW a
  PROVE  Pack(Obj(ScheduleFields(a))) = ScheduleText(a) /\ IsSeq(ScheduleText(a))
<1> DEFINE D == {JStr("scheduleCancel"), JNum(a.timeMs)}
           by == [v \in D |-> PackItems(v)]
<1>1. DOMAIN by = D /\ \A v \in D : by[v] = PackItems(v)
  OBVIOUS
<1>2. PacksPlain(by)
  BY <1>1, Plainly, Zenon DEF PacksPlain, IsPlain
<1>0. /\ JStr("scheduleCancel") \in DOMAIN by
      /\ JNum(a.timeMs) \in DOMAIN by
      /\ PacksPlain(by)
  BY <1>1, <1>2, Zenon
<1> HIDE DEF D, by
<1> DEFINE n == ScheduleCount(a)
           f1 == At("type", JStr("scheduleCancel"))
           t1 == Map(n) \o Str("type") \o Str("scheduleCancel")
           f2 == f1 \o If(a.hasTime, At("time", JNum(a.timeMs)))
           t2 == t1 \o If(a.hasTime, Str("time") \o Uint(a.timeMs))
<1> HIDE DEF n
<1>a1. Packs(by, JStr("scheduleCancel"), Str("scheduleCancel"))
  BY <1>0, PlainTexts, Zenon
<1>b1. Grows(by, n, f1, t1, 1)
  BY <1>a1, SaidFirst, Zenon
<1> HIDE DEF f1, t1
<1>a2. Packs(by, JNum(a.timeMs), Uint(a.timeMs))
  BY <1>0, PlainTexts, Zenon
<1>b2. Grows(by, n, f2, t2, IF a.hasTime THEN 1 + 1 ELSE 1)
  BY <1>a2, <1>b1, SaidIf, Zenon
<1> HIDE DEF f2, t2
<1>c. n = IF a.hasTime THEN 1 + 1 ELSE 1
  BY DEF n, ScheduleCount
<1>d. Said(by, ScheduleCount(a), ScheduleFields(a), ScheduleText(a)) /\ Len(ScheduleFields(a)) = ScheduleCount(a)
  BY <1>c, <1>b2, Zenon DEF Grows, n, ScheduleFields, ScheduleText, f1, t1, f2, t2
<1> QED
  BY <1>d, ObjectWhole, Zenon DEF by, Said

\* of updateLeverage,
LEMMA LeveragePacked ==
  ASSUME NEW a
  PROVE  Pack(Obj(LeverageFields(a))) = PackLeverage(a) /\ IsSeq(PackLeverage(a))
<1> DEFINE D == {JStr("updateLeverage"), JNum(a.asset), JFlag(a.isCross), JNum(a.leverage)}
           by == [v \in D |-> PackItems(v)]
<1>1. DOMAIN by = D /\ \A v \in D : by[v] = PackItems(v)
  OBVIOUS
<1>2. PacksPlain(by)
  BY <1>1, Plainly, Zenon DEF PacksPlain, IsPlain
<1>0. /\ JStr("updateLeverage") \in DOMAIN by
      /\ JNum(a.asset) \in DOMAIN by
      /\ JFlag(a.isCross) \in DOMAIN by
      /\ JNum(a.leverage) \in DOMAIN by
      /\ PacksPlain(by)
  BY <1>1, <1>2, Zenon
<1> HIDE DEF D, by
<1> DEFINE f1 == At("type", JStr("updateLeverage"))
           t1 == Map(4) \o Str("type") \o Str("updateLeverage")
           f2 == f1 \o At("asset", JNum(a.asset))
           t2 == t1 \o Str("asset") \o Uint(a.asset)
           f3 == f2 \o At("isCross", JFlag(a.isCross))
           t3 == t2 \o Str("isCross") \o Flag(a.isCross)
           f4 == f3 \o At("leverage", JNum(a.leverage))
           t4 == t3 \o Str("leverage") \o Uint(a.leverage)
<1>a1. Packs(by, JStr("updateLeverage"), Str("updateLeverage"))
  BY <1>0, PlainTexts, Zenon
<1>b1. Grows(by, 4, f1, t1, 1)
  BY <1>a1, SaidFirst, Zenon
<1> HIDE DEF f1, t1
<1>a2. Packs(by, JNum(a.asset), Uint(a.asset))
  BY <1>0, PlainTexts, Zenon
<1>b2. Grows(by, 4, f2, t2, 1 + 1)
  BY <1>a2, <1>b1, SaidNext, Zenon
<1> HIDE DEF f2, t2
<1>a3. Packs(by, JFlag(a.isCross), Flag(a.isCross))
  BY <1>0, PlainTexts, Zenon
<1>b3. Grows(by, 4, f3, t3, 1 + 1 + 1)
  BY <1>a3, <1>b2, SaidNext, Zenon
<1> HIDE DEF f3, t3
<1>a4. Packs(by, JNum(a.leverage), Uint(a.leverage))
  BY <1>0, PlainTexts, Zenon
<1>b4. Grows(by, 4, f4, t4, 1 + 1 + 1 + 1)
  BY <1>a4, <1>b3, SaidNext, Zenon
<1> HIDE DEF f4, t4
<1>c. 4 = 1 + 1 + 1 + 1
  OBVIOUS
<1>d. Said(by, 4, LeverageFields(a), PackLeverage(a)) /\ Len(LeverageFields(a)) = 4
  BY <1>c, <1>b4, Zenon DEF Grows, LeverageFields, PackLeverage, f1, t1, f2, t2, f3, t3,
                                   f4, t4
<1> QED
  BY <1>d, ObjectWhole, Zenon DEF by, Said

\* of updateIsolatedMargin
LEMMA MarginPacked ==
  ASSUME NEW a
  PROVE  Pack(Obj(MarginFields(a))) = PackMargin(a) /\ IsSeq(PackMargin(a))
<1> DEFINE D == {JStr("updateIsolatedMargin"), JNum(a.asset), JFlag(a.isBuy), JNum(a.ntli)}
           by == [v \in D |-> PackItems(v)]
<1>1. DOMAIN by = D /\ \A v \in D : by[v] = PackItems(v)
  OBVIOUS
<1>2. PacksPlain(by)
  BY <1>1, Plainly, Zenon DEF PacksPlain, IsPlain
<1>0. /\ JStr("updateIsolatedMargin") \in DOMAIN by
      /\ JNum(a.asset) \in DOMAIN by
      /\ JFlag(a.isBuy) \in DOMAIN by
      /\ JNum(a.ntli) \in DOMAIN by
      /\ PacksPlain(by)
  BY <1>1, <1>2, Zenon
<1> HIDE DEF D, by
<1> DEFINE f1 == At("type", JStr("updateIsolatedMargin"))
           t1 == Map(4) \o Str("type") \o Str("updateIsolatedMargin")
           f2 == f1 \o At("asset", JNum(a.asset))
           t2 == t1 \o Str("asset") \o Uint(a.asset)
           f3 == f2 \o At("isBuy", JFlag(a.isBuy))
           t3 == t2 \o Str("isBuy") \o Flag(a.isBuy)
           f4 == f3 \o At("ntli", JNum(a.ntli))
           t4 == t3 \o Str("ntli") \o Uint(a.ntli)
<1>a1. Packs(by, JStr("updateIsolatedMargin"), Str("updateIsolatedMargin"))
  BY <1>0, PlainTexts, Zenon
<1>b1. Grows(by, 4, f1, t1, 1)
  BY <1>a1, SaidFirst, Zenon
<1> HIDE DEF f1, t1
<1>a2. Packs(by, JNum(a.asset), Uint(a.asset))
  BY <1>0, PlainTexts, Zenon
<1>b2. Grows(by, 4, f2, t2, 1 + 1)
  BY <1>a2, <1>b1, SaidNext, Zenon
<1> HIDE DEF f2, t2
<1>a3. Packs(by, JFlag(a.isBuy), Flag(a.isBuy))
  BY <1>0, PlainTexts, Zenon
<1>b3. Grows(by, 4, f3, t3, 1 + 1 + 1)
  BY <1>a3, <1>b2, SaidNext, Zenon
<1> HIDE DEF f3, t3
<1>a4. Packs(by, JNum(a.ntli), Uint(a.ntli))
  BY <1>0, PlainTexts, Zenon
<1>b4. Grows(by, 4, f4, t4, 1 + 1 + 1 + 1)
  BY <1>a4, <1>b3, SaidNext, Zenon
<1> HIDE DEF f4, t4
<1>c. 4 = 1 + 1 + 1 + 1
  OBVIOUS
<1>d. Said(by, 4, MarginFields(a), PackMargin(a)) /\ Len(MarginFields(a)) = 4
  BY <1>c, <1>b4, Zenon DEF Grows, MarginFields, PackMargin, f1, t1, f2, t2, f3, t3, f4, t4
<1> QED
  BY <1>d, ObjectWhole, Zenon DEF by, Said

\* and of noop.
LEMMA NoopPacked ==
  ASSUME NEW a
  PROVE  Pack(Obj(NoopFields)) = PackNoop /\ IsSeq(PackNoop)
<1> DEFINE D == {JStr("noop")}
           by == [v \in D |-> PackItems(v)]
<1>1. DOMAIN by = D /\ \A v \in D : by[v] = PackItems(v)
  OBVIOUS
<1>2. PacksPlain(by)
  BY <1>1, Plainly, Zenon DEF PacksPlain, IsPlain
<1>0. /\ JStr("noop") \in DOMAIN by
      /\ PacksPlain(by)
  BY <1>1, <1>2, Zenon
<1> HIDE DEF D, by
<1> DEFINE f1 == At("type", JStr("noop"))
           t1 == Map(1) \o Str("type") \o Str("noop")
<1>a1. Packs(by, JStr("noop"), Str("noop"))
  BY <1>0, PlainTexts, Zenon
<1>b1. Grows(by, 1, f1, t1, 1)
  BY <1>a1, SaidFirst, Zenon
<1> HIDE DEF f1, t1
<1>c. 1 = 1
  OBVIOUS
<1>d. Said(by, 1, NoopFields, PackNoop) /\ Len(NoopFields) = 1
  BY <1>c, <1>b1, Zenon DEF Grows, NoopFields, PackNoop, f1, t1
<1> QED
  BY <1>d, ObjectWhole, Zenon DEF by, Said

\* Four sequences put together, grouped from the right or from the left.
Regroup(x, y, z, u) ==
  /\ x \o (y \o z) = x \o y \o z
  /\ x \o (y \o z \o u) = x \o y \o z \o u

\* Sequences may be grouped from the right as from the left.
LEMMA Grouped ==
  ASSUME NEW x, NEW y, NEW z, NEW u, IsSeq(x), IsSeq(y), IsSeq(z), IsSeq(u)
  PROVE  Regroup(x, y, z, u)
<1>1. IsSeq(y \o z)
  BY FieldsJoined, Zenon
<1>2. x \o (y \o z) = x \o y \o z
  BY Chained, SMTT(30)
<1>3. x \o ((y \o z) \o u) = (x \o (y \o z)) \o u
  BY <1>1, Chained, SMTT(30)
<1> QED
  BY <1>2, <1>3, Zenon DEF Regroup

\* A field is a sequence, under a condition or not.
LEMMA FieldParts ==
  ASSUME NEW k, NEW v
  PROVE  IsSeq(At(k, v)) /\ \A c : IsSeq(If(c, At(k, v)))
BY FieldAt, FieldIf, Zenon

SaysTheSame(a) == Pack(AppendJSON(a)) = AppendMsgpack(a)
HasItems(a) == IsSeq(a.items) /\ Len(a.items) # 0

\* An action of new orders packs, from what is sent, to what is signed.
LEMMA OrdersAgree ==
  ASSUME NEW a, a.type = "order", HasItems(a)
  PROVE  SaysTheSame(a)
<1> DEFINE s == a.items
           json == [i \in DOMAIN s |-> JsonOrder(s[i])]
           text == [i \in DOMAIN s |-> PackOrder(s[i])]
           list == <<"list", json>>
           said == Array(Len(s)) \o FlattenSeq(text)
<1>1. JsonOrders(a) = Obj(OrdersFields(a, list))
  <2> DEFINE x == At("type", JStr("order"))
             y == At("orders", list)
             z == At("grouping", JStr(a.grouping))
             u == If(a.builder.set, At("builder", Obj(BuilderFields(a.builder))))
  <2>1. IsSeq(x) /\ IsSeq(y) /\ IsSeq(z) /\ IsSeq(u)
    BY FieldParts, Zenon
  <2>2. x \o (y \o z \o u) = x \o y \o z \o u
    <3> HIDE DEF x, y, z, u
    <3>1. Regroup(x, y, z, u)
      BY <2>1, Grouped, Zenon
    <3> QED
      BY <3>1, Zenon DEF Regroup
  <2> QED
    BY <2>2, Zenon DEF JsonOrders, Typed, List, OrdersFields, BuilderFields
<1>2. PackOrders(a) = OrdersText(a, said)
  BY Zenon DEF PackOrders, Listed, Each, OrdersText, OrdersCount
<1>3. AppendJSON(a) = JsonOrders(a) /\ AppendMsgpack(a) = PackOrders(a)
  BY Zenon DEF AppendJSON, AppendMsgpack, List, Listed, Each
<1>4. PackItems(list) = said /\ IsSeq(said)
  <2>1. \A i \in DOMAIN s : PackChange(json[i]) = text[i] /\ IsSeq(text[i])
    BY OrdersPack, Zenon
  <2>2. /\ DOMAIN json = DOMAIN s /\ DOMAIN text = DOMAIN s
        /\ json = [i \in DOMAIN s |-> json[i]] /\ text = [i \in DOMAIN s |-> text[i]]
    BY Zenon
  <2>3. IsSeq(s) /\ Len(s) # 0
    BY Zenon DEF HasItems
  <2> HIDE DEF s, json, text
  <2> QED
    BY <2>1, <2>2, <2>3, Lists, Zenon
<1> HIDE DEF list, said
<1> QED
  BY <1>1, <1>2, <1>3, <1>4, OrdersPacked, Zenon DEF SaysTheSame

\* So does a batch of modifies,
LEMMA ModifiesAgree ==
  ASSUME NEW a, a.type = "batchModify", HasItems(a)
  PROVE  SaysTheSame(a)
<1> DEFINE s == a.items
           json == [i \in DOMAIN s |-> JsonModify(s[i])]
           text == [i \in DOMAIN s |-> PackModify(s[i])]
           list == <<"list", json>>
           said == Array(Len(s)) \o FlattenSeq(text)
<1>1. JsonModifies(a) = Obj(ModifiesFields(a, list))
  <2> DEFINE x == At("type", JStr("batchModify"))
             y == At("modifies", list)
             z == If(a.alwaysPlace, At("a", JFlag(TRUE)))
             u == <<>>
  <2>1. IsSeq(x) /\ IsSeq(y) /\ IsSeq(z) /\ IsSeq(u)
    BY FieldParts, Pieces, Zenon
  <2>2. x \o (y \o z) = x \o y \o z
    <3> HIDE DEF x, y, z, u
    <3>1. Regroup(x, y, z, u)
      BY <2>1, Grouped, Zenon
    <3> QED
      BY <3>1, Zenon DEF Regroup
  <2> QED
    BY <2>2, Zenon DEF JsonModifies, Typed, List, ModifiesFields
<1>2. PackModifies(a) = ModifiesText(a, said)
  BY Zenon DEF PackModifies, Listed, Each, ModifiesText, ModifiesCount
<1>3. AppendJSON(a) = JsonModifies(a) /\ AppendMsgpack(a) = PackModifies(a)
  BY Zenon DEF AppendJSON, AppendMsgpack, List, Listed, Each
<1>4. PackItems(list) = said /\ IsSeq(said)
  <2>1. \A i \in DOMAIN s : PackChange(json[i]) = text[i] /\ IsSeq(text[i])
    BY ItemsPack, Zenon
  <2>2. /\ DOMAIN json = DOMAIN s /\ DOMAIN text = DOMAIN s
        /\ json = [i \in DOMAIN s |-> json[i]] /\ text = [i \in DOMAIN s |-> text[i]]
    BY Zenon
  <2>3. IsSeq(s) /\ Len(s) # 0
    BY Zenon DEF HasItems
  <2> HIDE DEF s, json, text
  <2> QED
    BY <2>1, <2>2, <2>3, Lists, Zenon
<1> HIDE DEF list, said
<1> QED
  BY <1>1, <1>2, <1>3, <1>4, ModifiesPacked, Zenon DEF SaysTheSame

\* a batch of cancels,
LEMMA CancelsAgree ==
  ASSUME NEW a, a.type = "cancel", HasItems(a)
  PROVE  SaysTheSame(a)
<1> DEFINE s == a.items
           json == [i \in DOMAIN s |-> JsonCancel(s[i])]
           text == [i \in DOMAIN s |-> PackCancel(s[i])]
           list == <<"list", json>>
           said == Array(Len(s)) \o FlattenSeq(text)
<1>1. JsonCancels(a, list) = Obj(CancelsFields(a, list))
  <2> DEFINE x == At("type", JStr(a.type))
             y == At("cancels", list)
             z == If(a.fast, At("f", JFlag(TRUE)))
             u == <<>>
  <2>1. IsSeq(x) /\ IsSeq(y) /\ IsSeq(z) /\ IsSeq(u)
    BY FieldParts, Pieces, Zenon
  <2>2. x \o (y \o z) = x \o y \o z
    <3> HIDE DEF x, y, z, u
    <3>1. Regroup(x, y, z, u)
      BY <2>1, Grouped, Zenon
    <3> QED
      BY <3>1, Zenon DEF Regroup
  <2> QED
    BY <2>2, Zenon DEF JsonCancels, Typed, CancelsFields
<1>2. PackCancels(a, said) = CancelsText(a, said)
  BY Zenon DEF PackCancels, CancelsText, CancelsCount
<1>3. AppendJSON(a) = JsonCancels(a, list) /\ AppendMsgpack(a) = PackCancels(a, said)
  BY Zenon DEF AppendJSON, AppendMsgpack, List, Listed, Each
<1>4. PackItems(list) = said /\ IsSeq(said)
  <2>1. \A i \in DOMAIN s : PackChange(json[i]) = text[i] /\ IsSeq(text[i])
    BY ItemsPack, Zenon
  <2>2. /\ DOMAIN json = DOMAIN s /\ DOMAIN text = DOMAIN s
        /\ json = [i \in DOMAIN s |-> json[i]] /\ text = [i \in DOMAIN s |-> text[i]]
    BY Zenon
  <2>3. IsSeq(s) /\ Len(s) # 0
    BY Zenon DEF HasItems
  <2> HIDE DEF s, json, text
  <2> QED
    BY <2>1, <2>2, <2>3, Lists, Zenon
<1> HIDE DEF list, said
<1> QED
  BY <1>1, <1>2, <1>3, <1>4, CancelsPacked, Zenon DEF SaysTheSame

\* one of cancels by client order id,
LEMMA ByCloidsAgree ==
  ASSUME NEW a, a.type = "cancelByCloid", HasItems(a)
  PROVE  SaysTheSame(a)
<1> DEFINE s == a.items
           json == [i \in DOMAIN s |-> JsonCancelByCloid(s[i])]
           text == [i \in DOMAIN s |-> PackCancelByCloid(s[i])]
           list == <<"list", json>>
           said == Array(Len(s)) \o FlattenSeq(text)
<1>1. JsonCancels(a, list) = Obj(CancelsFields(a, list))
  <2> DEFINE x == At("type", JStr(a.type))
             y == At("cancels", list)
             z == If(a.fast, At("f", JFlag(TRUE)))
             u == <<>>
  <2>1. IsSeq(x) /\ IsSeq(y) /\ IsSeq(z) /\ IsSeq(u)
    BY FieldParts, Pieces, Zenon
  <2>2. x \o (y \o z) = x \o y \o z
    <3> HIDE DEF x, y, z, u
    <3>1. Regroup(x, y, z, u)
      BY <2>1, Grouped, Zenon
    <3> QED
      BY <3>1, Zenon DEF Regroup
  <2> QED
    BY <2>2, Zenon DEF JsonCancels, Typed, CancelsFields
<1>2. PackCancels(a, said) = CancelsText(a, said)
  BY Zenon DEF PackCancels, CancelsText, CancelsCount
<1>3. AppendJSON(a) = JsonCancels(a, list) /\ AppendMsgpack(a) = PackCancels(a, said)
  BY Zenon DEF AppendJSON, AppendMsgpack, List, Listed, Each
<1>4. PackItems(list) = said /\ IsSeq(said)
  <2>1. \A i \in DOMAIN s : PackChange(json[i]) = text[i] /\ IsSeq(text[i])
    BY ItemsPack, Zenon
  <2>2. /\ DOMAIN json = DOMAIN s /\ DOMAIN text = DOMAIN s
        /\ json = [i \in DOMAIN s |-> json[i]] /\ text = [i \in DOMAIN s |-> text[i]]
    BY Zenon
  <2>3. IsSeq(s) /\ Len(s) # 0
    BY Zenon DEF HasItems
  <2> HIDE DEF s, json, text
  <2> QED
    BY <2>1, <2>2, <2>3, Lists, Zenon
<1> HIDE DEF list, said
<1> QED
  BY <1>1, <1>2, <1>3, <1>4, CancelsPacked, Zenon DEF SaysTheSame

\* a modify,
LEMMA OneAgrees ==
  ASSUME NEW a, a.type = "modify"
  PROVE  SaysTheSame(a)
<1> DEFINE m == a.items[1]
<1>1. JsonOneModify(a) = Obj(OneFields(a, m))
  <2> DEFINE x == At("type", JStr("modify"))
             y == At("oid", JsonRef(m.ref))
             z == At("order", JsonOrder(m.order))
             u == If(a.alwaysPlace, At("a", JFlag(TRUE)))
  <2>1. IsSeq(x) /\ IsSeq(y) /\ IsSeq(z) /\ IsSeq(u)
    BY FieldParts, Zenon
  <2>2. x \o (y \o z \o u) = x \o y \o z \o u
    <3> HIDE DEF x, y, z, u
    <3>1. Regroup(x, y, z, u)
      BY <2>1, Grouped, Zenon
    <3> QED
      BY <3>1, Zenon DEF Regroup
  <2> QED
    BY <2>2, Zenon DEF JsonOneModify, Typed, OneFields
<1>2. AppendJSON(a) = JsonOneModify(a) /\ AppendMsgpack(a) = PackOneModify(a)
  BY Zenon DEF AppendJSON, AppendMsgpack, List, Listed, Each
<1>3. PackOneModify(a) = OneText(a, m)
  BY Zenon DEF PackOneModify, OneText, OneCount
<1> QED
  BY <1>1, <1>2, <1>3, OnePacked, Zenon DEF SaysTheSame

\* updateLeverage,
LEMMA LeverageAgrees ==
  ASSUME NEW a, a.type = "updateLeverage"
  PROVE  SaysTheSame(a)
<1>1. JsonLeverage(a) = Obj(LeverageFields(a))
  <2> DEFINE x == At("type", JStr("updateLeverage"))
             y == At("asset", JNum(a.asset))
             z == At("isCross", JFlag(a.isCross))
             u == At("leverage", JNum(a.leverage))
  <2>1. IsSeq(x) /\ IsSeq(y) /\ IsSeq(z) /\ IsSeq(u)
    BY FieldParts, Zenon
  <2>2. x \o (y \o z \o u) = x \o y \o z \o u
    <3> HIDE DEF x, y, z, u
    <3>1. Regroup(x, y, z, u)
      BY <2>1, Grouped, Zenon
    <3> QED
      BY <3>1, Zenon DEF Regroup
  <2> QED
    BY <2>2, Zenon DEF JsonLeverage, Typed, LeverageFields
<1>2. AppendJSON(a) = JsonLeverage(a) /\ AppendMsgpack(a) = PackLeverage(a)
  BY Zenon DEF AppendJSON, AppendMsgpack, List, Listed, Each
<1> QED
  BY <1>1, <1>2, LeveragePacked, Zenon DEF SaysTheSame

\* updateIsolatedMargin,
LEMMA MarginAgrees ==
  ASSUME NEW a, a.type = "updateIsolatedMargin"
  PROVE  SaysTheSame(a)
<1>1. JsonMargin(a) = Obj(MarginFields(a))
  <2> DEFINE x == At("type", JStr("updateIsolatedMargin"))
             y == At("asset", JNum(a.asset))
             z == At("isBuy", JFlag(a.isBuy))
             u == At("ntli", JNum(a.ntli))
  <2>1. IsSeq(x) /\ IsSeq(y) /\ IsSeq(z) /\ IsSeq(u)
    BY FieldParts, Zenon
  <2>2. x \o (y \o z \o u) = x \o y \o z \o u
    <3> HIDE DEF x, y, z, u
    <3>1. Regroup(x, y, z, u)
      BY <2>1, Grouped, Zenon
    <3> QED
      BY <3>1, Zenon DEF Regroup
  <2> QED
    BY <2>2, Zenon DEF JsonMargin, Typed, MarginFields
<1>2. AppendJSON(a) = JsonMargin(a) /\ AppendMsgpack(a) = PackMargin(a)
  BY Zenon DEF AppendJSON, AppendMsgpack, List, Listed, Each
<1> QED
  BY <1>1, <1>2, MarginPacked, Zenon DEF SaysTheSame

\* scheduleCancel
LEMMA ScheduleAgrees ==
  ASSUME NEW a, a.type = "scheduleCancel"
  PROVE  SaysTheSame(a)
<1>1. JsonSchedule(a) = Obj(ScheduleFields(a))
  BY Zenon DEF JsonSchedule, Typed, ScheduleFields
<1>2. AppendJSON(a) = JsonSchedule(a) /\ AppendMsgpack(a) = PackSchedule(a)
  BY Zenon DEF AppendJSON, AppendMsgpack, List, Listed, Each
<1>3. PackSchedule(a) = ScheduleText(a)
  BY Zenon DEF PackSchedule, ScheduleText, ScheduleCount
<1> QED
  BY <1>1, <1>2, <1>3, SchedulePacked, Zenon DEF SaysTheSame

\* and noop.
LEMMA NoopAgrees ==
  ASSUME NEW a, a.type = "noop"
  PROVE  SaysTheSame(a)
<1>1. JsonNoop = Obj(NoopFields)
  <2>1. IsSeq(At("type", JStr("noop")))
    BY FieldParts, Zenon
  <2>2. At("type", JStr("noop")) \o <<>> = At("type", JStr("noop"))
    BY <2>1, Pieces, Zenon
  <2> QED
    BY <2>2, Zenon DEF JsonNoop, Typed, NoopFields
<1>2. AppendJSON(a) = JsonNoop /\ AppendMsgpack(a) = PackNoop
  BY Zenon DEF AppendJSON, AppendMsgpack, List, Listed, Each
<1> QED
  BY <1>1, <1>2, NoopPacked, Zenon DEF SaysTheSame

\* An action one of the functions builds: its type, and items where it has them.
IsAction(a) ==
  \/ a.type \in {"order", "modify", "batchModify", "cancel", "cancelByCloid"} /\ HasItems(a)
  \/ a.type \in {"updateLeverage", "updateIsolatedMargin", "scheduleCancel", "noop"}

\* Every action of the SDK packs, from what is sent, to what is signed.
LEMMA ActionsAgree ==
  ASSUME NEW a, IsAction(a)
  PROVE  SaysTheSame(a)
<1>1. CASE HasItems(a) /\ a.type \in {"order", "modify", "batchModify", "cancel", "cancelByCloid"}
  BY <1>1, OrdersAgree, OneAgrees, ModifiesAgree, CancelsAgree, ByCloidsAgree, Zenon
<1>2. CASE a.type \in {"updateLeverage", "updateIsolatedMargin", "scheduleCancel", "noop"}
  BY <1>2, LeverageAgrees, MarginAgrees, ScheduleAgrees, NoopAgrees, Zenon
<1> QED
  BY <1>1, <1>2, Zenon DEF IsAction

\* The functions build no other actions.
LEMMA ActionsBuilt ==
  ASSUME InputType, NEW r \in Results, r.ok
  PROVE  IsAction(r.action)
<1> DEFINE a == r.action
<1>1. ASSUME a.items # <<>>, IsList(a.items)
      PROVE  HasItems(a)
  <2>1. PICK T : a.items \in Seq(T)
    BY <1>1, Zenon DEF IsList
  <2>2. Len(a.items) # 0
    BY <1>1, <2>1, EmptySeq
  <2> QED
    BY <2>1, <2>2, OwnSeq, Zenon DEF HasItems
<1>2. CASE input.kind = "place"
  BY <1>1, <1>2, Kinds, OrdersCheckedPlace, Zenon DEF IsAction
<1>3. CASE input.kind = "modify"
  BY <1>1, <1>3, Kinds, OrdersCheckedModify, Zenon DEF IsAction
<1>4. CASE input.kind \in {"cancel", "cancelByCloid"}
  BY <1>1, <1>4, Kinds, OrdersCheckedCancel, Zenon DEF IsAction
<1>5. CASE input.kind = "other"
  <2>1. r \in {UpdateLeverage(input.coin, input.n, input.flag),
               UpdateIsolatedMargin(input.coin, input.n), Noop, ScheduleCancel(input.n)}
    BY <1>5 DEF Results
  <2> QED
    BY <2>1 DEF UpdateLeverage, UpdateIsolatedMargin, Noop, ScheduleCancel, Built, Rejected,
                IsAction
<1>6. CASE input.kind \notin {"place", "modify", "cancel", "cancelByCloid", "other"}
  BY <1>6 DEF Results
<1> QED
  BY <1>2, <1>3, <1>4, <1>5, <1>6

\* What follows the action in the hashed bytes is read back from the body.
LEMMA TrailerAgrees ==
  ASSUME NEW a, SaysTheSame(a), NEW vault \in {"none", "vault"}, NEW e \in 0 .. 1
  PROVE  SignedText(a, 1, vault, e) = Recomputed(Body(a, 1, vault, e))
<1> DEFINE address == IF vault = "none" THEN Null ELSE JStr(vault)
           expires == IF e = 0 THEN Null ELSE JNum(e)
           body == Body(a, 1, vault, e)
<1>1. (IF address = Null THEN "none" ELSE address[2]) = vault
  BY DEF Null, JStr
<1>2. (IF expires = Null THEN 0 ELSE expires[2]) = e /\ ((expires # Null) <=> (e # 0))
  BY DEF Null, JNum
<1>3. /\ body.action = AppendJSON(a) /\ body.nonce = 1
      /\ body.vaultAddress = address /\ body.expiresAfter = expires
  BY Zenon DEF Body
<1> HIDE DEF address, expires, body
<1>4. Recomputed(body) = Hashed(AppendMsgpack(a), 1, vault, e, e # 0)
  <2>1. (expires # Null) = (e # 0)
    BY <1>2
  <2> QED
    BY <1>1, <1>2, <1>3, <2>1, Zenon DEF Recomputed, SaysTheSame
<1> QED
  BY <1>4, Zenon DEF SignedText, body

\* The signature covers what is sent: packing the sent JSON again gives the bytes
\* that were signed, for every action the functions build from any requests and
\* options, with and without every optional key, vault and expiry
\* (internal/action, engine.go).
THEOREM SignedIsSentAlways == Spec => []SignedIsSent
<1>1. InputType => SignedIsSent
  BY ActionsBuilt, ActionsAgree, TrailerAgrees, Zenon DEF SignedIsSent
<1> QED
  BY <1>1, InputTyped, PTL
============================================================================
