--------------------------- MODULE InterpreterProofs --------------------------
(***************************************************************************)
(* Proofs about Interpreter, for every set of programs that satisfies      *)
(* ProgramsAssumption: boxes, frames and what holds boxes keep their types *)
(* (WellTyped), exceptions arrive (ThrownArrives) and find the handler in  *)
(* force (HandlerInForce), and local variables are private (LocalsPrivate);*)
(* the arithmetic is Java's (ArithmeticAgrees), descriptors are parsed as  *)
(* what they declare (PeeledAsDeclared), and arguments arrive where the    *)
(* callee looks for them, in verified programs (ArgumentsArrive).          *)
(*                                                                         *)
(* Every instruction is one of four kinds of step (Outcome): the process   *)
(* halts, the top frame goes on, it calls, or it returns.  What the kinds  *)
(* promise is all that the invariant needs.                                *)
(***************************************************************************)
EXTENDS Interpreter, TLAPS, NaturalsInduction, WellFoundedInduction, SequenceTheorems,
        FiniteSetTheorems

-----------------------------------------------------------------------------
(* Recursion and numbers.                                                  *)

\* Every set of natural numbers that is not empty has a least one.
LEMMA Smallest ==
    ASSUME NEW S \in SUBSET Nat, S # {}
    PROVE  \E m \in S : \A n \in S : m <= n
<1>1. IsWellFoundedOn(OpToRel(<, Nat), Nat)
  BY NatLessThanWellFounded
<1>2. \E x \in S : \A y \in S : ~(<<y, x>> \in OpToRel(<, Nat))
  BY <1>1, WFMin
<1>3. PICK x \in S : \A y \in S : ~(<<y, x>> \in OpToRel(<, Nat))
  BY <1>2
<1>4. \A y \in S : ~(y < x)
  BY <1>3 DEF OpToRel
<1> QED
  BY <1>4

\* Induction over the natural numbers, for a set in place of a predicate.
LEMMA Induction ==
    ASSUME NEW S, 0 \in S, \A n \in Nat : n \in S => n + 1 \in S
    PROVE  \A n \in Nat : n \in S
<1> DEFINE T == {n \in Nat : n \notin S}
<1>1. ASSUME T # {} PROVE FALSE
  <2>1. PICK m \in T : \A n \in T : m <= n
    BY <1>1, Smallest
  <2>2. m # 0 /\ m - 1 \in Nat /\ m - 1 \notin T
    BY <2>1
  <2> QED BY <2>1, <2>2
<1> QED BY <1>1

(* f goes from s on, each value made by g from the one before.             *)
Steps(f, g, s, N, S) ==
  f \in [0..N -> S] /\ f[0] = s /\ \A n \in 1..N : f[n] = g[n][f[n - 1]]

\* A function defined by recursion on 0..N has the values that its steps give.
LEMMA Recursion ==
    ASSUME NEW N \in Nat, NEW S, NEW s \in S, NEW g \in [1..N -> [S -> S]]
    PROVE  \E f : Steps(f, g, s, N, S)
<1> DEFINE P(k) == \E f : Steps(f, g, s, k, S)
           T == {k \in Nat : k <= N => P(k)}
<1>1. 0 \in T
  <2>1. Steps([i \in 0..0 |-> s], g, s, 0, S)
    BY DEF Steps
  <2> QED BY <2>1
<1>2. ASSUME NEW k \in Nat, k \in T PROVE k + 1 \in T
  <2>1. SUFFICES ASSUME k + 1 <= N PROVE P(k + 1)
    OBVIOUS
  <2>2. PICK f : Steps(f, g, s, k, S)
    BY <1>2, <2>1
  <2>3. f[k] \in S /\ k + 1 \in 1..N
    BY <2>1, <2>2 DEF Steps
  <2>4. g[k + 1][f[k]] \in S
    BY <2>3
  <2> DEFINE h == [i \in 0..(k + 1) |-> IF i = k + 1 THEN g[k + 1][f[k]] ELSE f[i]]
  <2>5. h \in [0..(k + 1) -> S]
    BY <2>4, <2>2 DEF Steps
  <2>6. h[0] = s
    BY <2>2 DEF Steps
  <2>7. ASSUME NEW n \in 1..(k + 1) PROVE h[n] = g[n][h[n - 1]]
    <3>1. CASE n = k + 1
      <4>1. h[n] = g[k + 1][f[k]] /\ h[n - 1] = f[k]
        BY <3>1
      <4> QED BY <4>1, <3>1
    <3>2. CASE n # k + 1
      <4>1. h[n] = f[n] /\ h[n - 1] = f[n - 1] /\ n \in 1..k
        BY <3>2
      <4> HIDE DEF h
      <4> QED BY <4>1, <2>2 DEF Steps
    <3> QED BY <3>1, <3>2
  <2> HIDE DEF h
  <2>8. Steps(h, g, s, k + 1, S)
    BY <2>5, <2>6, <2>7 DEF Steps
  <2> QED BY <2>8
<1> HIDE DEF T
<1>3. N \in T
  BY <1>1, <1>2, Induction
<1> USE DEF T
<1> QED BY <1>3

\* PowerOf2 is what its recursion says.
LEMMA Powers ==
    ASSUME NEW n \in Nat
    PROVE  \E p \in [0..n -> Nat \ {0}] :
             /\ p[0] = 1 /\ \A i \in 1..n : p[i] = 2 * p[i - 1]
             /\ PowerOf2(n) = p[n]
<1> DEFINE S == Nat \ {0}
           g == [i \in 1..n |-> [v \in S |-> 2 * v]]
<1>1. g \in [1..n -> [S -> S]] /\ 1 \in S
  OBVIOUS
<1>a. \A i \in 1..n, v \in S : g[i][v] = 2 * v
  OBVIOUS
<1> HIDE DEF g, S
<1>2. PICK p : Steps(p, g, 1, n, S)
  BY <1>1, Recursion
<1> USE DEF S
<1>b. p \in [0..n -> S] /\ p[0] = 1
  BY <1>2 DEF Steps
<1>3. ASSUME NEW i \in 1..n PROVE p[i] = 2 * p[i - 1]
  <2>1. i - 1 \in 0..n /\ p[i - 1] \in S
    BY <1>b
  <2> QED BY <1>2, <1>a, <2>1 DEF Steps
<1>4. p = [i \in 0..n |-> IF i = 0 THEN 1 ELSE 2 * p[i - 1]]
  BY <1>b, <1>3
<1> DEFINE q == CHOOSE q : q = [i \in 0..n |-> IF i = 0 THEN 1 ELSE 2 * q[i - 1]]
<1>5. q = [i \in 0..n |-> IF i = 0 THEN 1 ELSE 2 * q[i - 1]]
  BY <1>4
<1>7. PowerOf2(n) = q[n]
  BY DEF PowerOf2
<1> HIDE DEF q
<1>8. /\ q[0] = 1
      /\ \A i \in 1..n : q[i] = 2 * q[i - 1]
  BY <1>5
<1>6. q[n] = p[n]
  <2> DEFINE T == {i \in Nat : i <= n => q[i] = p[i]}
  <2>1. 0 \in T
    BY <1>8, <1>b
  <2>2. ASSUME NEW i \in Nat, i \in T PROVE i + 1 \in T
    <3>1. SUFFICES ASSUME i + 1 <= n PROVE q[i + 1] = p[i + 1]
      OBVIOUS
    <3>2. q[i + 1] = 2 * q[i] /\ p[i + 1] = 2 * p[i]
      BY <1>8, <1>3, <3>1
    <3> QED BY <3>2, <3>1, <2>2
  <2> HIDE DEF T
  <2>3. \A i \in Nat : i \in T
    BY <2>1, <2>2, Induction
  <2> USE DEF T
  <2> QED BY <2>3
<1> QED BY <1>b, <1>3, <1>6, <1>7

\* PowerOf2 is positive, and that of one more is twice as much.
LEMMA PowersDouble ==
    /\ PowerOf2(0) = 1
    /\ \A n \in Nat : PowerOf2(n) \in Nat \ {0} /\ PowerOf2(n + 1) = 2 * PowerOf2(n)
<1>1. PowerOf2(0) = 1
  BY Powers
<1>2. ASSUME NEW n \in Nat PROVE PowerOf2(n) \in Nat \ {0} /\ PowerOf2(n + 1) = 2 * PowerOf2(n)
  <2>1. PICK p \in [0..n -> Nat \ {0}] :
             /\ p[0] = 1 /\ \A i \in 1..n : p[i] = 2 * p[i - 1]
             /\ PowerOf2(n) = p[n]
    BY Powers
  <2>2. PICK q \in [0..(n + 1) -> Nat \ {0}] :
             /\ q[0] = 1 /\ \A i \in 1..(n + 1) : q[i] = 2 * q[i - 1]
             /\ PowerOf2(n + 1) = q[n + 1]
    <3>1. n + 1 \in Nat
      OBVIOUS
    <3> QED BY <3>1, Powers
  <2>3. q[n] = p[n]
    <3> DEFINE T == {i \in Nat : i <= n => q[i] = p[i]}
    <3>1. 0 \in T
      BY <2>1, <2>2
    <3>2. ASSUME NEW i \in Nat, i \in T PROVE i + 1 \in T
      <4>1. SUFFICES ASSUME i + 1 <= n PROVE q[i + 1] = p[i + 1]
        OBVIOUS
      <4>2. i + 1 \in 1..n /\ i + 1 \in 1..(n + 1) /\ (i + 1) - 1 = i
        BY <4>1
      <4>3. q[i + 1] = 2 * q[i]
        BY <2>2, <4>2
      <4>4. p[i + 1] = 2 * p[i]
        BY <2>1, <4>2
      <4> QED BY <4>1, <4>3, <4>4, <3>2
    <3> HIDE DEF T
    <3>3. \A i \in Nat : i \in T
      BY <3>1, <3>2, Induction
    <3> USE DEF T
    <3> QED BY <3>3
  <2>4. q[n + 1] = 2 * q[n]
    BY <2>2
  <2> QED BY <2>1, <2>2, <2>3, <2>4
<1> QED BY <1>1, <1>2

\* PowerOf2 does not fall.
LEMMA PowersGrow ==
    ASSUME NEW m \in Nat, NEW n \in Nat, m <= n
    PROVE  PowerOf2(m) <= PowerOf2(n)
<1> DEFINE T == {i \in Nat : PowerOf2(m) <= PowerOf2(m + i)}
<1>1. 0 \in T
  BY PowersDouble
<1>2. ASSUME NEW i \in Nat, i \in T PROVE i + 1 \in T
  <2>1. PowerOf2(m + i) \in Nat /\ PowerOf2(m) \in Nat
    BY PowersDouble
  <2>2. PowerOf2(m + (i + 1)) = 2 * PowerOf2(m + i)
    <3>1. m + i \in Nat /\ m + (i + 1) = (m + i) + 1
      OBVIOUS
    <3> QED BY <3>1, PowersDouble
  <2> QED BY <1>2, <2>1, <2>2
<1> HIDE DEF T
<1>3. \A i \in Nat : i \in T
  BY <1>1, <1>2, Induction
<1>4. n - m \in T
  BY <1>3
<1> USE DEF T
<1>5. m + (n - m) = n
  OBVIOUS
<1> QED BY <1>4, <1>5

Between(t) == Least(t)..Greatest(t)

\* A type of width W has PowerOf2(W) numbers, half of them negative.
LEMMA Widths ==
    ASSUME NEW t \in DOMAIN Width
    PROVE  /\ PowerOf2(Width[t]) \in Nat \ {0}
           /\ PowerOf2(Width[t] - 1) \in Nat \ {0}
           /\ PowerOf2(Width[t]) = 2 * PowerOf2(Width[t] - 1)
           /\ Least(t) \in Int /\ Greatest(t) \in Int
           /\ Least(t) = -PowerOf2(Width[t] - 1)
           /\ Greatest(t) = PowerOf2(Width[t] - 1) - 1
           /\ 0 \in Between(t)
<1>1. Width[t] \in Nat \ {0}
  BY ValuesAssumption
<1>2. Width[t] - 1 \in Nat /\ (Width[t] - 1) + 1 = Width[t]
  BY <1>1
<1>3. PowerOf2(Width[t]) = 2 * PowerOf2(Width[t] - 1) /\ PowerOf2(Width[t] - 1) \in Nat \ {0}
  BY <1>2, PowersDouble
<1>4. Least(t) = -PowerOf2(Width[t] - 1) /\ Greatest(t) = PowerOf2(Width[t] - 1) - 1
  BY DEF Least, Greatest
<1> QED BY <1>3, <1>4 DEF Between

\* Unsigned gives a number of so many bits.
LEMMA UnsignedFits ==
    ASSUME NEW t \in DOMAIN Width, NEW v \in Int
    PROVE  Unsigned(t, v) \in 0..(PowerOf2(Width[t]) - 1)
<1> DEFINE m == PowerOf2(Width[t])
<1>1. m \in Int /\ m > 0
  BY Widths
<1> HIDE DEF m
<1>2. v % m \in 0..(m - 1)
  BY <1>1
<1> USE DEF m
<1> QED BY <1>2 DEF Unsigned

\* Wrap gives a number of the type.
LEMMA WrapFits ==
    ASSUME NEW t \in DOMAIN Width, NEW v \in Int
    PROVE  Wrap(t, v) \in Between(t)
<1> DEFINE u == Unsigned(t, v)
           h == PowerOf2(Width[t] - 1)
           m == PowerOf2(Width[t])
<1>1. u \in 0..(m - 1)
  BY UnsignedFits
<1>2. h \in Nat /\ m = 2 * h
  BY Widths
<1>3. Wrap(t, v) = (IF u > h - 1 THEN u - m ELSE u)
  BY DEF Wrap, Greatest
<1>4. Between(t) = (-h)..(h - 1)
  BY DEF Between, Least, Greatest
<1> HIDE DEF u, h, m
<1> QED BY <1>1, <1>2, <1>3, <1>4

\* What is made from a double is a number of the type.
LEMMA FromDoubleFits ==
    ASSUME NEW t \in DOMAIN Width, NEW v \in Int
    PROVE  FromDouble(t, v) \in Between(t)
BY Widths DEF FromDouble, Between

\* Abs and Sign are what they are called.
LEMMA Magnitudes ==
    ASSUME NEW a \in Int
    PROVE  /\ Abs(a) \in Nat /\ (Abs(a) = 0 <=> a = 0)
           /\ Sign(a) \in {-1, 0, 1} /\ (Sign(a) = 0 <=> a = 0)
           /\ a = Sign(a) * Abs(a)
BY DEF Abs, Sign

\* Rounding makes a number.
LEMMA RoundedWhole ==
    ASSUME NEW t \in DOMAIN Mantissa, NEW v \in Int
    PROVE  Rounded(t, v) \in Int
<1> DEFINE E == {i \in 0..Width["long"] : PowerOf2(Mantissa[t] + i) <= Abs(v)}
           unit == PowerOf2(Cardinality(E))
           down == Abs(v) \div unit
           up == 2 * (Abs(v) % unit) > unit \/ (2 * (Abs(v) % unit) = unit /\ down % 2 = 1)
<1>1. Cardinality(E) \in Nat
  <2>1. Width["long"] \in Int
    BY ValuesAssumption DEF IntTypes
  <2>2. IsFiniteSet(0..Width["long"])
    BY <2>1, FS_Interval
  <2>3. IsFiniteSet(E)
    BY <2>2, FS_Subset
  <2> QED BY <2>3, FS_CardinalityType
<1>2. unit \in Nat \ {0}
  BY <1>1, PowersDouble
<1>3. Rounded(t, v) = Sign(v) * unit * (IF up THEN down + 1 ELSE down)
  BY DEF Rounded
<1>4. Abs(v) \in Nat /\ Sign(v) \in Int
  BY Magnitudes
<1> HIDE DEF unit
<1>5. down \in Int
  BY <1>2, <1>4
<1> HIDE DEF down, up
<1> DEFINE d == IF up THEN down + 1 ELSE down
<1>6. d \in Int
  BY <1>5
<1> HIDE DEF d
<1>7. Sign(v) * unit \in Int
  BY <1>2, <1>4
<1>8. (Sign(v) * unit) * d \in Int
  BY <1>6, <1>7
<1> QED BY <1>3, <1>8 DEF d

\* A number of few digits is not rounded.
LEMMA ShortNotRounded ==
    ASSUME NEW t \in DOMAIN Mantissa, NEW v \in Int, Abs(v) < PowerOf2(Mantissa[t])
    PROVE  Rounded(t, v) = v
<1> DEFINE E == {i \in 0..Width["long"] : PowerOf2(Mantissa[t] + i) <= Abs(v)}
<1>1. Mantissa[t] \in Nat /\ Abs(v) \in Nat /\ v = Sign(v) * Abs(v) /\ Sign(v) \in Int
  BY ValuesAssumption, Magnitudes
<1>2. E = {}
  <2> SUFFICES ASSUME NEW i \in 0..Width["long"], PowerOf2(Mantissa[t] + i) <= Abs(v)
               PROVE  FALSE
    OBVIOUS
  <2>1. i \in Nat
    OBVIOUS
  <2>2. PowerOf2(Mantissa[t]) <= PowerOf2(Mantissa[t] + i)
    BY <1>1, <2>1, PowersGrow
  <2>3. PowerOf2(Mantissa[t]) \in Nat /\ PowerOf2(Mantissa[t] + i) \in Nat
    BY <1>1, <2>1, PowersDouble
  <2> QED BY <1>1, <2>2, <2>3
<1>3. PowerOf2(Cardinality(E)) = 1
  BY <1>2, FS_EmptySet, PowersDouble
<1> DEFINE down == Abs(v) \div 1
           up == 2 * (Abs(v) % 1) > 1 \/ (2 * (Abs(v) % 1) = 1 /\ down % 2 = 1)
<1>4. Rounded(t, v) = Sign(v) * 1 * (IF up THEN down + 1 ELSE down)
  BY <1>3 DEF Rounded
<1>5. Abs(v) % 1 = 0 /\ down = Abs(v)
  BY <1>1
<1>6. ~up
  BY <1>5
<1> HIDE DEF down, up
<1>7. Rounded(t, v) = Sign(v) * 1 * Abs(v)
  BY <1>4, <1>5, <1>6
<1> QED BY <1>1, <1>7

\* \div and % on natural numbers.
LEMMA Division ==
    ASSUME NEW x \in Nat, NEW y \in Nat \ {0}
    PROVE  /\ x \div y \in 0..x /\ x % y \in 0..(y - 1)
           /\ x = y * (x \div y) + (x % y)
           /\ y > 1 /\ x > 0 => x \div y < x
<1>1. x \div y \in Nat /\ x % y \in 0..(y - 1)
  OBVIOUS
<1>2. x = y * (x \div y) + (x % y)
  OBVIOUS
<1> DEFINE q == x \div y
           r == x % y
<1>3. q \in Nat /\ r \in Nat /\ x = y * q + r
  BY <1>1, <1>2
<1> HIDE DEF q, r
<1>4. y * q >= q
  BY <1>3
<1>5. q <= x
  BY <1>3, <1>4
<1>6. ASSUME y > 1, x > 0 PROVE q < x
  <2>1. CASE q = 0
    BY <2>1, <1>6
  <2>2. CASE q # 0
    <3>1. y * q >= 2 * q
      BY <1>6, <1>3
    <3> QED BY <3>1, <2>2, <1>3
  <2> QED BY <2>1, <2>2
<1> USE DEF q, r
<1> QED BY <1>1, <1>2, <1>5, <1>6

\* Quotient has the sign and the size of a quotient.
LEMMA Quotients ==
    ASSUME NEW a \in Int, NEW b \in Int, b # 0
    PROVE  /\ Quotient(a, b) \in Int
           /\ Quotient(a, b) \in (-Abs(a))..Abs(a)
           /\ Quotient(a, b) = Abs(a) => a = 0 \/ Abs(b) = 1
<1> DEFINE q == Abs(a) \div Abs(b)
           s == Sign(a) * Sign(b)
<1>1. /\ Abs(a) \in Nat /\ Abs(b) \in Nat \ {0}
      /\ (Abs(a) = 0 <=> a = 0)
      /\ Sign(a) \in {-1, 0, 1} /\ Sign(b) \in {-1, 0, 1}
  BY Magnitudes
<1>2. q \in 0..Abs(a) /\ (Abs(b) > 1 /\ Abs(a) > 0 => q < Abs(a))
  BY <1>1, Division
<1>3. s \in {-1, 0, 1}
  BY <1>1
<1>4. Quotient(a, b) = s * q
  BY DEF Quotient
<1> HIDE DEF q, s
<1>5. s * q \in {-q, 0, q}
  BY <1>2, <1>3
<1> QED BY <1>1, <1>2, <1>4, <1>5

\* A quotient that does not trap is a number of the type.
LEMMA QuotientFits ==
    ASSUME NEW t \in DOMAIN Width, NEW a \in Between(t), NEW b \in Int, b # 0,
           ~(a = Least(t) /\ b = -1)
    PROVE  Quotient(a, b) \in Between(t)
<1> DEFINE h == PowerOf2(Width[t] - 1)
           q == Quotient(a, b)
<1>1. h \in Nat \ {0} /\ Between(t) = (-h)..(h - 1) /\ Least(t) = -h
  BY Widths DEF Between, Least, Greatest
<1>2. a \in Int /\ Abs(a) <= h
  BY <1>1 DEF Abs
<1>3. q \in (-Abs(a))..Abs(a) /\ (q = Abs(a) => a = 0 \/ Abs(b) = 1)
  BY <1>2, Quotients
<1>4. CASE q < h
  <2>1. Abs(a) \in Nat
    BY <1>2, Magnitudes
  <2> HIDE DEF q, h
  <2>2. q \in (-h)..(h - 1)
    BY <1>1, <1>2, <1>3, <1>4, <2>1
  <2> USE DEF q
  <2> QED BY <2>2, <1>1
<1>5. CASE q = h
  <2>1. Abs(a) = h /\ a = -h
    BY <1>1, <1>2, <1>3, <1>5 DEF Abs
  <2>2. Abs(b) = 1
    BY <2>1, <1>3, <1>5, <1>1
  <2>3. b = 1
    BY <2>1, <2>2, <1>1 DEF Abs
  <2>4. q = -1 * (h \div 1)
    BY <2>1, <2>3, <1>1 DEF Quotient, Sign, Abs
  <2> QED BY <2>4, <1>1, <1>5
<1> HIDE DEF h, q
<1>6. q < h \/ q = h
  BY <1>1, <1>2, <1>3, Magnitudes
<1> QED BY <1>4, <1>5, <1>6 DEF q

\* A remainder has the sign of the dividend and is no greater.
LEMMA RemainderFits ==
    ASSUME NEW a \in Int, NEW b \in Int, b # 0
    PROVE  /\ Remainder(a, b) \in Int
           /\ a >= 0 => Remainder(a, b) \in 0..a
           /\ a < 0 => Remainder(a, b) \in a..0
<1> DEFINE x == Abs(a)
           y == Abs(b)
           q == x \div y
           r == x % y
<1>a. x \in Nat /\ y \in Nat \ {0}
  BY Magnitudes
<1>1. x \in Nat /\ y \in Nat \ {0} /\ q \in Nat /\ r \in Nat /\ x = y * q + r
  <2> HIDE DEF x, y
  <2> QED BY <1>a, Division
<1>2. y * q \in Nat
  BY <1>1
<1>3. b * Quotient(a, b) = Sign(a) * (y * q)
  <2>1. Sign(b) * b = y
    BY DEF Sign, Abs
  <2>2. Quotient(a, b) = Sign(a) * Sign(b) * q
    BY DEF Quotient
  <2>3. Sign(a) \in {-1, 0, 1} /\ Sign(b) \in {-1, 1}
    BY DEF Sign
  <2> HIDE DEF y, q
  <2>4. CASE Sign(b) = 1
    BY <2>1, <2>2, <2>3, <2>4, <1>1
  <2>5. CASE Sign(b) = -1
    BY <2>1, <2>2, <2>3, <2>5, <1>1
  <2> QED BY <2>3, <2>4, <2>5
<1> DEFINE p == y * q
<1>4. Remainder(a, b) = a - Sign(a) * p
  BY <1>3 DEF Remainder
<1>5. p \in 0..x
  BY <1>1, <1>2
<1> HIDE DEF p
<1>6. CASE a < 0
  <2>1. Sign(a) = -1 /\ x = -a
    BY <1>6 DEF Sign, Abs
  <2> QED BY <2>1, <1>4, <1>5, <1>6
<1>7. CASE a >= 0
  <2>1. Sign(a) \in {0, 1} /\ x = a
    BY <1>7 DEF Sign, Abs
  <2>2. p \in Int /\ Sign(a) * p \in {0, p}
    BY <2>1, <1>5
  <2> QED BY <2>1, <2>2, <1>4, <1>5, <1>7
<1> QED BY <1>6, <1>7

\* Division by a positive number that rounds down.
LEMMA FloorDivision ==
    ASSUME NEW a \in Int, NEW k \in Nat \ {0}
    PROVE  /\ a \div k \in Int
           /\ a >= 0 => a \div k \in 0..a
           /\ a < 0 => a \div k \in a..0
<1> DEFINE q == a \div k
           r == a % k
<1>1. q \in Int /\ r \in 0..(k - 1) /\ a = k * q + r
  OBVIOUS
<1> HIDE DEF q, r
<1>2. ASSUME a >= 0 PROVE q \in 0..a
  <2>1. q >= 0
    <3>1. SUFFICES ASSUME q <= -1 PROVE FALSE
      BY <1>1
    <3>2. k * q <= -k
      BY <3>1, <1>1
    <3> QED BY <3>2, <1>1, <1>2
  <2>2. k * q >= q
    BY <2>1, <1>1
  <2> QED BY <2>1, <2>2, <1>1
<1>3. ASSUME a < 0 PROVE q \in a..0
  <2>1. q <= 0
    <3>1. SUFFICES ASSUME q >= 1 PROVE FALSE
      BY <1>1
    <3>2. k * q >= k
      BY <3>1, <1>1
    <3> QED BY <3>2, <1>1, <1>3
  <2>2. q >= a
    <3>1. SUFFICES ASSUME q <= a - 1 PROVE FALSE
      BY <1>1
    <3> DEFINE d == -q
    <3>2. d \in Nat /\ d >= 1 - a /\ k * q = -(k * d)
      BY <3>1, <1>1, <1>3
    <3> HIDE DEF d
    <3>3. (k - 1) * (d - 1) >= 0
      BY <3>2, <1>3
    <3>4. (k - 1) * (d - 1) = k * d - k - d + 1
      BY <3>2
    <3> QED BY <3>2, <3>3, <3>4, <1>1, <1>3
  <2> QED BY <2>1, <2>2, <1>1
<1> USE DEF q
<1> QED BY <1>1, <1>2, <1>3

\* What OfBits adds up, bit by bit.
LEMMA BitSums ==
    ASSUME NEW n \in Nat, NEW B
    PROVE  \E p \in [0..n -> Nat] :
             /\ p[0] = 0
             /\ \A i \in 1..n : p[i] = p[i - 1] + (IF i - 1 \in B THEN PowerOf2(i - 1) ELSE 0)
             /\ OfBits(n, B) = p[n]
<1> DEFINE bit(i) == IF i - 1 \in B THEN PowerOf2(i - 1) ELSE 0
           g == [i \in 1..n |-> [v \in Nat |-> v + bit(i)]]
<1>1. \A i \in 1..n : bit(i) \in Nat
  BY PowersDouble
<1>2. g \in [1..n -> [Nat -> Nat]] /\ 0 \in Nat
  BY <1>1
<1>3. \A i \in 1..n, v \in Nat : g[i][v] = v + bit(i)
  OBVIOUS
<1> HIDE DEF g
<1>4. PICK p : Steps(p, g, 0, n, Nat)
  BY <1>2, Recursion
<1>5. p \in [0..n -> Nat] /\ p[0] = 0
  BY <1>4 DEF Steps
<1> HIDE DEF bit
<1>6. ASSUME NEW i \in 1..n PROVE p[i] = p[i - 1] + bit(i)
  <2>1. i - 1 \in 0..n /\ p[i - 1] \in Nat
    BY <1>5
  <2> QED BY <1>4, <1>3, <2>1 DEF Steps
<1>7. p = [i \in 0..n |-> IF i = 0 THEN 0 ELSE p[i - 1] + bit(i)]
  BY <1>5, <1>6
<1> DEFINE low == CHOOSE low : low = [i \in 0..n |-> IF i = 0 THEN 0 ELSE low[i - 1] + bit(i)]
<1>8. low = [i \in 0..n |-> IF i = 0 THEN 0 ELSE low[i - 1] + bit(i)]
  BY <1>7
<1>9. OfBits(n, B) = low[n]
  BY DEF OfBits, bit
<1> HIDE DEF low
<1>10. low[0] = 0 /\ \A i \in 1..n : low[i] = low[i - 1] + bit(i)
  BY <1>8
<1>11. low[n] = p[n]
  <2> DEFINE T == {i \in Nat : i <= n => low[i] = p[i]}
  <2>1. 0 \in T
    BY <1>5, <1>10
  <2>2. ASSUME NEW i \in Nat, i \in T PROVE i + 1 \in T
    <3>1. SUFFICES ASSUME i + 1 <= n PROVE low[i + 1] = p[i + 1]
      OBVIOUS
    <3>2. i + 1 \in 1..n /\ low[i + 1] = low[i] + bit(i + 1) /\ p[i + 1] = p[i] + bit(i + 1)
      BY <1>6, <1>10, <3>1
    <3> QED BY <3>1, <3>2, <2>2
  <2> HIDE DEF T
  <2>3. \A i \in Nat : i \in T
    BY <2>1, <2>2, Induction
  <2> USE DEF T
  <2> QED BY <2>3
<1> QED
  <2>1. \A i \in 1..n : p[i] = p[i - 1] + (IF i - 1 \in B THEN PowerOf2(i - 1) ELSE 0)
    BY <1>6 DEF bit
  <2> QED BY <1>5, <1>9, <1>11, <2>1

\* OfBits gives a natural number.
LEMMA BitsMakeNumbers ==
    ASSUME NEW n \in Nat, NEW B
    PROVE  OfBits(n, B) \in Nat
BY BitSums

\* Shift distances are less than the width of the type.
LEMMA Distances ==
    ASSUME NEW t \in DOMAIN Width, NEW b \in Int
    PROVE  /\ Distance(t, b) \in 0..(Width[t] - 1)
           /\ PowerOf2(Distance(t, b)) \in Nat \ {0}
           /\ PowerOf2(Width[t] - Distance(t, b)) \in Nat \ {0}
<1>1. Width[t] \in Nat \ {0}
  BY ValuesAssumption
<1> DEFINE w == Width[t]
<1> HIDE DEF w
<1>2. w \in Nat \ {0}
  BY <1>1 DEF w
<1>3. b % w \in 0..(w - 1)
  BY <1>2
<1>4. Distance(t, b) \in 0..(Width[t] - 1)
  BY <1>3 DEF Distance, w
<1>5. Distance(t, b) \in Nat /\ Width[t] - Distance(t, b) \in Nat
  BY <1>1, <1>4
<1> QED BY <1>4, <1>5, PowersDouble

\* iushr and lushr give numbers of their type.
LEMMA LogicalShiftFits ==
    ASSUME NEW t \in IntTypes, NEW a \in Between(t), NEW b \in Int
    PROVE  LogicalShift(t, a, b) \in Between(t)
<1>1. t \in DOMAIN Width /\ "int" \in DOMAIN Width
  BY ValuesAssumption DEF IntTypes
<1> DEFINE s == PowerOf2(Distance(t, b))
           i == PowerOf2(Distance("int", b))
           u == PowerOf2(Width[t] - Distance(t, b))
<1>2. s \in Nat \ {0} /\ i \in Nat \ {0} /\ u \in Nat \ {0}
  BY <1>1, Distances
<1>3. a \in Int /\ a <= Greatest(t) /\ Least(t) <= 0 /\ Least(t) \in Int /\ Greatest(t) \in Int
  BY <1>1, Widths DEF Between
<1>4. LogicalShift(t, a, b) = IF a > 0 THEN a \div s ELSE Wrap(t, (a \div i) + u)
  BY DEF LogicalShift
<1> HIDE DEF s, i, u
<1>5. a \div i \in Int /\ a \div s \in Int /\ (a > 0 => a \div s \in 0..a)
  BY <1>2, <1>3, FloorDivision
<1>6. (a \div i) + u \in Int
  BY <1>5, <1>2
<1>7. Wrap(t, (a \div i) + u) \in Between(t)
  BY <1>1, <1>6, WrapFits
<1>8. CASE a > 0
  BY <1>8, <1>3, <1>4, <1>5 DEF Between
<1>9. CASE ~(a > 0)
  BY <1>9, <1>4, <1>7
<1> QED BY <1>8, <1>9

\* Arithmetic on ints and longs gives ints and longs.
LEMMA IntCalcFits ==
    ASSUME NEW t \in IntTypes, NEW f \in IntOps, NEW a \in Between(t), NEW b \in Between(t),
           ~Traps(f, t, a, b)
    PROVE  IntCalc(f, t, a, b) \in Between(t)
<1>1. t \in DOMAIN Width
  BY ValuesAssumption DEF IntTypes
<1>2. a \in Int /\ b \in Int /\ Least(t) \in Int /\ Greatest(t) \in Int
      /\ Least(t) <= 0 /\ 0 <= Greatest(t)
      /\ Least(t) <= a /\ a <= Greatest(t)
  BY <1>1, Widths DEF Between
<1>3. CASE f \in {"add", "sub", "mul"}
  <2>1. a + b \in Int /\ a - b \in Int /\ a * b \in Int
    BY <1>2
  <2>2. /\ Wrap(t, a + b) \in Between(t) /\ Wrap(t, a - b) \in Between(t)
        /\ Wrap(t, a * b) \in Between(t)
    BY <2>1, <1>1, WrapFits
  <2> QED BY <2>2, <1>3 DEF IntCalc
<1>4. CASE f \in {"div", "rem"}
  <2>1. b # 0 /\ ~(a = Least(t) /\ b = -1)
    BY <1>4 DEF Traps
  <2>2. Quotient(a, b) \in Between(t)
    BY <1>1, <1>2, <2>1, QuotientFits
  <2>3. Remainder(a, b) \in Between(t)
    <3>1. /\ Remainder(a, b) \in Int
          /\ a >= 0 => Remainder(a, b) \in 0..a
          /\ a < 0 => Remainder(a, b) \in a..0
      BY <1>2, <2>1, RemainderFits
    <3> QED BY <3>1, <1>2 DEF Between
  <2> QED BY <2>2, <2>3, <1>4 DEF IntCalc
<1>5. CASE f \in {"shl", "shr"}
  <2> DEFINE p == PowerOf2(Distance(t, b))
  <2>1. p \in Nat \ {0}
    BY <1>1, <1>2, Distances
  <2> DEFINE r == AsDouble(a)
  <2>2. IntCalc(f, t, a, b) = IF f = "shl" THEN FromDouble(t, r * p) ELSE FromDouble(t, r \div p)
    BY <1>5 DEF IntCalc
  <2>3. r \in Int
    BY <1>2, RoundedWhole, ValuesAssumption DEF AsDouble
  <2> HIDE DEF p, r
  <2>4. r * p \in Int /\ r \div p \in Int
    BY <2>1, <2>3
  <2>5. FromDouble(t, r * p) \in Between(t) /\ FromDouble(t, r \div p) \in Between(t)
    BY <1>1, <2>4, FromDoubleFits
  <2> QED BY <2>2, <2>5
<1>6. CASE f = "ushr"
  <2>1. LogicalShift(t, a, b) \in Between(t)
    BY <1>2, LogicalShiftFits
  <2> QED BY <2>1, <1>6 DEF IntCalc
<1>7. CASE f \in {"and", "or", "xor"}
  <2>1. \A B : WithBits(t, B) \in Between(t)
    <3> TAKE B
    <3>1. Width[t] \in Nat
      BY <1>1, ValuesAssumption
    <3>2. OfBits(Width[t], B) \in Int
      BY <3>1, BitsMakeNumbers
    <3> QED BY <1>1, <3>2, WrapFits DEF WithBits
  <2> QED BY <2>1, <1>7 DEF IntCalc
<1> QED BY <1>3, <1>4, <1>5, <1>6, <1>7 DEF IntOps, FloatOps

\* Arithmetic on floats and doubles gives whole numbers (Other is one).
LEMMA FloatCalcWhole ==
    ASSUME NEW f \in FloatOps, NEW a \in Int, NEW b \in Int
    PROVE  FloatCalc(f, a, b) \in Int
<1>1. Other \in Int
  BY DEF Other
<1>2. a + b \in Int /\ a - b \in Int /\ a * b \in Int
  OBVIOUS
<1>3. b # 0 => Quotient(a, b) \in Int
  BY Quotients
<1>4. b # 0 => Remainder(a, b) \in Int
  BY RemainderFits
<1>5. CASE Other \in {a, b} \/ (f \in {"div", "rem"} /\ b = 0)
  BY <1>1, <1>5 DEF FloatCalc
<1>6. CASE ~(Other \in {a, b} \/ (f \in {"div", "rem"} /\ b = 0))
  <2>1. CASE f = "add"
    BY <2>1, <1>2, <1>6 DEF FloatCalc
  <2>2. CASE f = "sub"
    BY <2>2, <1>2, <1>6 DEF FloatCalc
  <2>3. CASE f = "mul"
    BY <2>3, <1>2, <1>6 DEF FloatCalc
  <2>4. CASE f = "div"
    BY <2>4, <1>1, <1>3, <1>6 DEF FloatCalc
  <2>5. CASE f = "rem"
    BY <2>5, <1>1, <1>4, <1>6 DEF FloatCalc
  <2> QED BY <2>1, <2>2, <2>3, <2>4, <2>5 DEF FloatOps
<1> QED BY <1>5, <1>6

\* The values of a type are integers, and 0 is one.
LEMMA ValuesAreInt ==
    ASSUME NEW t \in NumTypes
    PROVE  /\ ValuesOf(t) \subseteq Int /\ 0 \in ValuesOf(t)
           /\ t \in IntTypes => t \in DOMAIN Width /\ ValuesOf(t) = Between(t)
<1>1. CASE t \in IntTypes
  <2>1. t \in DOMAIN Width
    BY <1>1, ValuesAssumption
  <2>2. ValuesOf(t) = Between(t)
    BY <1>1 DEF ValuesOf, Between
  <2> QED BY <2>1, <2>2, Widths DEF Between
<1>2. CASE t \notin IntTypes
  BY <1>2 DEF ValuesOf
<1> QED BY <1>1, <1>2

\* What an arithmetic instruction computes is a number of its type.
LEMMA CalcFits ==
    ASSUME NEW t \in NumTypes, NEW f, f \in IF t \in IntTypes THEN IntOps ELSE FloatOps,
           NEW a \in ValuesOf(t), NEW b \in ValuesOf(t), ~Traps(f, t, a, b)
    PROVE  Calc(f, t, a, b) \in ValuesOf(t)
<1>1. CASE t \in IntTypes
  <2>1. a \in Between(t) /\ b \in Between(t) /\ f \in IntOps /\ ValuesOf(t) = Between(t)
    BY <1>1, ValuesAreInt
  <2> QED BY <1>1, <2>1, IntCalcFits DEF Calc
<1>2. CASE t \notin IntTypes
  <2>1. a \in Int /\ b \in Int /\ f \in FloatOps /\ ValuesOf(t) = Int
    BY <1>2 DEF ValuesOf
  <2> QED BY <1>2, <2>1, FloatCalcWhole DEF Calc
<1> QED BY <1>1, <1>2

\* So is what a negation computes.
LEMMA NegatedFits ==
    ASSUME NEW t \in NumTypes, NEW a \in ValuesOf(t)
    PROVE  Negated(t, a) \in ValuesOf(t)
<1>1. a \in Int /\ -a \in Int
  BY ValuesAreInt
<1>2. CASE t \in IntTypes
  BY <1>1, <1>2, ValuesAreInt, WrapFits DEF Negated
<1>3. CASE t \notin IntTypes
  <2>1. "mul" \in FloatOps /\ -1 \in Int
    BY DEF FloatOps
  <2>2. FloatCalc("mul", -1, a) \in Int
    BY <2>1, <1>1, FloatCalcWhole
  <2> QED BY <1>3, <2>2 DEF Negated, ValuesOf
<1> QED BY <1>2, <1>3

\* What fits a narrower type fits the wider one.
LEMMA Narrower ==
    ASSUME NEW s \in {"byte", "short"}, NEW t \in {"short", "int"}, Width[s] < Width[t]
    PROVE  /\ Between(s) \subseteq Between(t)
           /\ 0..(PowerOf2(Width[s]) - 1) \subseteq Between(t)
<1>1. s \in DOMAIN Width /\ t \in DOMAIN Width /\ Width[s] \in Nat \ {0} /\ Width[t] \in Nat \ {0}
  BY ValuesAssumption DEF IntTypes
<1>2. Width[s] <= Width[t] - 1 /\ Width[s] - 1 \in Nat /\ Width[t] - 1 \in Nat
  BY <1>1
<1>3. PowerOf2(Width[s]) <= PowerOf2(Width[t] - 1) /\ PowerOf2(Width[s] - 1) <= PowerOf2(Width[t] - 1)
  BY <1>1, <1>2, PowersGrow
<1>4. PowerOf2(Width[s]) \in Nat /\ PowerOf2(Width[t] - 1) \in Nat /\ PowerOf2(Width[s] - 1) \in Nat
  BY <1>1, Widths
<1> QED BY <1>3, <1>4 DEF Between, Least, Greatest

\* Bytes and shorts are ints, and so are they as unsigned numbers.
LEMMA SmallFits ==
    /\ Between("byte") \subseteq Between("int") /\ Between("short") \subseteq Between("int")
    /\ \A s \in {"byte", "short"}, v \in Int : Unsigned(s, v) \in ValuesOf("int")
<1>1. Width["byte"] < Width["int"] /\ Width["short"] < Width["int"]
  BY ValuesAssumption DEF IntTypes
<1>2. /\ Between("byte") \subseteq Between("int") /\ Between("short") \subseteq Between("int")
      /\ 0..(PowerOf2(Width["byte"]) - 1) \subseteq Between("int")
      /\ 0..(PowerOf2(Width["short"]) - 1) \subseteq Between("int")
  BY <1>1, Narrower
<1>3. ASSUME NEW s \in {"byte", "short"}, NEW v \in Int PROVE Unsigned(s, v) \in Between("int")
  <2>1. s \in DOMAIN Width
    BY ValuesAssumption
  <2> QED BY <1>2, <2>1, UnsignedFits
<1>4. ValuesOf("int") = Between("int")
  BY DEF ValuesOf, Between, IntTypes
<1> QED BY <1>2, <1>3, <1>4

CastTypes == NumTypes \cup {"byte", "char", "short"}
CastMakes(t) == IF t \in {"byte", "char", "short"} THEN "int" ELSE t

\* A conversion gives a number of the type it leaves on the stack.
LEMMA CastFits ==
    ASSUME NEW from \in NumTypes, NEW to \in CastTypes, NEW a \in ValuesOf(from)
    PROVE  Cast(from, to, a) \in ValuesOf(CastMakes(to))
<1>1. a \in Int
  BY ValuesAreInt
<1>2. "byte" \in DOMAIN Width /\ "short" \in DOMAIN Width /\ IntTypes \subseteq DOMAIN Width
      /\ ValuesOf("int") = Between("int")
  BY ValuesAssumption DEF ValuesOf, Between, IntTypes
<1>3. CASE to \in {"byte", "char"}
  <2>1. Wrap("byte", a) \in Between("byte")
    BY <1>1, <1>2, WrapFits
  <2>2. Cast(from, to, a) = Wrap("byte", a)
    BY <1>3 DEF Cast, IntTypes
  <2> QED BY <2>1, <2>2, <1>2, <1>3, SmallFits DEF CastMakes
<1>4. CASE to = "short"
  <2>1. Wrap("short", a) \in Between("short")
    BY <1>1, <1>2, WrapFits
  <2>2. Cast(from, to, a) = Wrap("short", a)
    BY <1>4 DEF Cast, IntTypes
  <2> QED BY <2>1, <2>2, <1>2, <1>4, SmallFits DEF CastMakes
<1>5. CASE to \in IntTypes
  <2>1. Wrap(to, a) \in Between(to) /\ FromDouble(to, a) \in Between(to) /\ to \in NumTypes
    BY <1>1, <1>2, <1>5, WrapFits, FromDoubleFits DEF NumTypes
  <2>2. Cast(from, to, a) \in {Wrap(to, a), FromDouble(to, a)}
    BY <1>5 DEF Cast, IntTypes
  <2>3. CastMakes(to) = to
    BY <1>5 DEF CastMakes, IntTypes
  <2> QED BY <1>5, <2>1, <2>2, <2>3, ValuesAreInt
<1>6. CASE to \in {"float", "double"}
  <2>1. ValuesOf(CastMakes(to)) = Int
    BY <1>6 DEF ValuesOf, CastMakes, IntTypes
  <2>2. to \in DOMAIN Mantissa
    BY <1>6, ValuesAssumption
  <2>3. Cast(from, to, a) \in {a, Rounded(to, a)}
    BY <1>6, <2>2 DEF Cast, IntTypes
  <2>4. Rounded(to, a) \in Int
    BY <1>1, <2>2, RoundedWhole
  <2> QED BY <1>1, <2>1, <2>3, <2>4
<1> QED BY <1>3, <1>4, <1>5, <1>6 DEF CastTypes, NumTypes

(* Arithmetic modulo powers of two.                                        *)

\* Multiples keep the order of what they are multiples of.
LEMMA Multiples ==
    ASSUME NEW m \in Nat \ {0}, NEW i \in Int, NEW j \in Int
    PROVE  /\ i * m \in Int
           /\ i < j <=> i * m < j * m
           /\ i * m = j * m <=> i = j
           /\ i < j => i * m + m <= j * m
<1>1. ASSUME NEW a \in Int, NEW b \in Int, a < b PROVE a * m + m <= b * m
  <2> DEFINE d == b - a - 1
  <2>1. d \in Nat /\ b = a + 1 + d
    BY <1>1
  <2> HIDE DEF d
  <2>2. b * m = a * m + m + d * m
    BY <2>1
  <2>3. d * m >= 0
    BY <2>1
  <2> QED BY <2>2, <2>3, <2>1
<1>2. i * m \in Int /\ j * m \in Int
  OBVIOUS
<1>3. /\ i < j => i * m + m <= j * m
      /\ j < i => j * m + m <= i * m
  BY <1>1
<1> DEFINE x == i * m
           y == j * m
<1>4. x \in Int /\ y \in Int /\ (i = j => x = y)
  BY <1>2
<1>5. /\ i < j => x + m <= y
      /\ j < i => y + m <= x
  BY <1>3
<1> HIDE DEF x, y
<1>6. /\ i < j <=> x < y
      /\ x = y <=> i = j
      /\ i < j => x + m <= y
  BY <1>4, <1>5
<1> USE DEF x, y
<1> QED BY <1>2, <1>6

\* Quotient and remainder are unique.
LEMMA DivisionUnique ==
    ASSUME NEW m \in Nat \ {0}, NEW x \in Int, NEW k \in Int, NEW r \in 0..(m - 1), x = k * m + r
    PROVE  x \div m = k /\ x % m = r
<1> DEFINE q == x \div m
           s == x % m
<1>1. q \in Int /\ s \in 0..(m - 1) /\ x = q * m + s
  OBVIOUS
<1> HIDE DEF q, s
<1> DEFINE a == k * m
           b == q * m
<1>2. a \in Int /\ b \in Int /\ a + r = b + s
  BY <1>1
<1>3. /\ k < q => a + m <= b
      /\ q < k => b + m <= a
      /\ k = q => a = b
  BY <1>1, Multiples
<1> HIDE DEF a, b
<1>4. k = q /\ r = s
  BY <1>1, <1>2, <1>3
<1> USE DEF q, s
<1> QED BY <1>4

\* A multiple of m more makes no difference modulo m.
LEMMA MoreMultiples ==
    ASSUME NEW m \in Nat \ {0}, NEW x \in Int, NEW k \in Int
    PROVE  (x + k * m) % m = x % m /\ (x + k * m) \div m = x \div m + k
<1> DEFINE q == x \div m
           s == x % m
<1>1. q \in Int /\ s \in 0..(m - 1) /\ x = q * m + s
  OBVIOUS
<1> HIDE DEF q, s
<1>2. x + k * m = (q + k) * m + s /\ q + k \in Int /\ x + k * m \in Int
  BY <1>1
<1>3. (x + k * m) \div m = q + k /\ (x + k * m) % m = s
  BY <1>1, <1>2, DivisionUnique
<1> USE DEF q, s
<1> QED BY <1>3

\* PowerOf2 turns sums into products.
LEMMA PowersAdd ==
    ASSUME NEW i \in Nat, NEW j \in Nat
    PROVE  PowerOf2(i + j) = PowerOf2(i) * PowerOf2(j)
<1> DEFINE T == {n \in Nat : PowerOf2(i + n) = PowerOf2(i) * PowerOf2(n)}
<1>1. 0 \in T
  <2>1. PowerOf2(i) \in Nat /\ PowerOf2(0) = 1 /\ i + 0 = i
    BY PowersDouble
  <2> QED BY <2>1
<1>2. ASSUME NEW n \in Nat, n \in T PROVE n + 1 \in T
  <2>1. i + n \in Nat /\ i + (n + 1) = (i + n) + 1
    OBVIOUS
  <2>2. PowerOf2((i + n) + 1) = 2 * PowerOf2(i + n)
    BY <2>1, PowersDouble
  <2>3. PowerOf2(n + 1) = 2 * PowerOf2(n)
    BY PowersDouble
  <2>4. PowerOf2(i + n) = PowerOf2(i) * PowerOf2(n)
    BY <1>2
  <2> DEFINE a == PowerOf2(i)
             b == PowerOf2(n)
  <2>5. a \in Nat /\ b \in Nat
    BY PowersDouble
  <2> HIDE DEF a, b
  <2>6. 2 * (a * b) = a * (2 * b)
    BY <2>5
  <2> USE DEF a, b
  <2>7. PowerOf2(i + (n + 1)) = PowerOf2(i) * PowerOf2(n + 1)
    BY <2>1, <2>2, <2>3, <2>4, <2>6
  <2> QED BY <2>7
<1> HIDE DEF T
<1>3. j \in T
  BY <1>1, <1>2, Induction
<1> USE DEF T
<1> QED BY <1>3

-----------------------------------------------------------------------------
(* Two's complement.                                                       *)

\* Numbers that differ by a multiple of PowerOf2(Width[t]) wrap to the same.
LEMMA WrapMore ==
    ASSUME NEW t \in DOMAIN Width, NEW x \in Int, NEW k \in Int
    PROVE  Wrap(t, x + k * PowerOf2(Width[t])) = Wrap(t, x)
<1>1. PowerOf2(Width[t]) \in Nat \ {0}
  BY Widths
<1>2. Unsigned(t, x + k * PowerOf2(Width[t])) = Unsigned(t, x)
  BY <1>1, MoreMultiples DEF Unsigned
<1> QED BY <1>2 DEF Wrap

\* A number of the type wraps to itself; without its sign it may be one turn more.
LEMMA UnsignedOf ==
    ASSUME NEW t \in DOMAIN Width, NEW a \in Between(t)
    PROVE  /\ Unsigned(t, a) = a + (IF a < 0 THEN 1 ELSE 0) * PowerOf2(Width[t])
           /\ Wrap(t, a) = a
<1> DEFINE m == PowerOf2(Width[t])
           h == PowerOf2(Width[t] - 1)
<1>1. m \in Nat \ {0} /\ h \in Nat \ {0} /\ m = 2 * h
  BY Widths
<1>2. a \in Int /\ -h <= a /\ a <= h - 1
  <2>1. Least(t) = -h /\ Greatest(t) = h - 1 /\ a \in Least(t)..Greatest(t)
    BY Widths DEF Between
  <2> HIDE DEF h
  <2> QED BY <2>1, <1>1
<1>3. Greatest(t) = h - 1
  BY Widths
<1> HIDE DEF h
<1>4. CASE a >= 0
  <2>1. a \in 0..(m - 1) /\ 0 * m = 0
    BY <1>1, <1>2, <1>4
  <2>2. a = 0 * m + a
    BY <2>1
  <2>3. a % m = a
    BY <1>1, <2>1, <2>2, DivisionUnique
  <2>4. Unsigned(t, a) = a
    BY <2>3 DEF Unsigned
  <2>5. Wrap(t, a) = IF a > h - 1 THEN a - m ELSE a
    BY <2>4, <1>3 DEF Wrap
  <2> HIDE DEF m
  <2>6. Wrap(t, a) = a
    BY <2>5, <1>1, <1>2
  <2>7. Unsigned(t, a) = a + 0 * m
    BY <2>4, <2>1, <1>2
  <2> USE DEF m
  <2>8. (IF a < 0 THEN 1 ELSE 0) = 0
    BY <1>2, <1>4
  <2> QED BY <2>6, <2>7, <2>8
<1>5. CASE a < 0
  <2>1. a + m \in 0..(m - 1) /\ a = (-1) * m + (a + m) /\ a + 1 * m = a + m
    BY <1>1, <1>2, <1>5
  <2>2. a % m = a + m
    <3> DEFINE r == a + m
    <3>1. r \in 0..(m - 1) /\ a = (-1) * m + r
      BY <2>1
    <3> HIDE DEF r
    <3>2. a % m = r
      BY <1>1, <1>2, <3>1, DivisionUnique
    <3> QED BY <3>2 DEF r
  <2>3. Unsigned(t, a) = a + m
    BY <2>2 DEF Unsigned
  <2>4. Wrap(t, a) = IF a + m > h - 1 THEN (a + m) - m ELSE a + m
    BY <2>3, <1>3 DEF Wrap
  <2> HIDE DEF m
  <2>5. Wrap(t, a) = a
    BY <2>4, <1>1, <1>2
  <2>6. Unsigned(t, a) = a + 1 * m
    BY <2>3, <2>1
  <2> QED BY <2>5, <2>6, <1>5 DEF m
<1> QED BY <1>2, <1>4, <1>5

\* What JavaCalc does with a result is what Wrap does.
LEMMA Signed ==
    ASSUME NEW t \in DOMAIN Width, NEW x \in Int
    PROVE  (IF x % PowerOf2(Width[t]) >= PowerOf2(Width[t]) \div 2
            THEN (x % PowerOf2(Width[t])) - PowerOf2(Width[t])
            ELSE x % PowerOf2(Width[t])) = Wrap(t, x)
<1> DEFINE m == PowerOf2(Width[t])
           h == PowerOf2(Width[t] - 1)
           r == x % m
<1>1. m \in Nat \ {0} /\ h \in Nat \ {0} /\ m = 2 * h /\ Greatest(t) = h - 1
  BY Widths
<1>2. Wrap(t, x) = IF r > h - 1 THEN r - m ELSE r
  BY <1>1 DEF Wrap, Unsigned
<1> HIDE DEF m, h
<1>3. r \in Int
  BY <1>1
<1>4. m = h * 2 + 0 /\ 0 \in 0..(2 - 1)
  BY <1>1
<1>5. m \div 2 = h
  BY <1>1, <1>4, DivisionUnique
<1> HIDE DEF r
<1>6. (IF r >= m \div 2 THEN r - m ELSE r) = Wrap(t, x)
  BY <1>1, <1>2, <1>3, <1>5
<1> USE DEF r, m
<1> QED BY <1>6

\* What the arithmetic lemmas below need of a type and of numbers of it.
LEMMA IntFacts ==
    ASSUME NEW t \in IntTypes
    PROVE  /\ t \in DOMAIN Width /\ Width[t] \in Nat \ {0}
           /\ PowerOf2(Width[t]) \in Nat \ {0}
           /\ Between(t) \subseteq Int
           /\ \A v \in Int : Unsigned(t, v) \in Nat
<1>1. t \in DOMAIN Width /\ Width[t] \in Nat \ {0}
  BY ValuesAssumption DEF IntTypes
<1>2. PowerOf2(Width[t]) \in Nat \ {0}
  BY <1>1, Widths
<1>3. Between(t) \subseteq Int
  BY <1>1, Widths DEF Between
<1>4. ASSUME NEW v \in Int PROVE Unsigned(t, v) \in Nat
  BY <1>1, <1>2, <1>4, UnsignedFits
<1> QED BY <1>1, <1>2, <1>3, <1>4

\* Without the sign a number is itself or one turn more.
LEMMA OneTurn ==
    ASSUME NEW t \in IntTypes, NEW a \in Between(t)
    PROVE  \E i \in {0, 1} : Unsigned(t, a) = a + i * PowerOf2(Width[t])
<1>1. Unsigned(t, a) = a + (IF a < 0 THEN 1 ELSE 0) * PowerOf2(Width[t])
  BY IntFacts, UnsignedOf
<1>2. (IF a < 0 THEN 1 ELSE 0) \in {0, 1}
  OBVIOUS
<1> QED BY <1>1, <1>2

\* The machine adds, subtracts and multiplies as Java does.
LEMMA SumAgrees ==
    ASSUME NEW t \in IntTypes, NEW a \in Between(t), NEW b \in Between(t)
    PROVE  IntCalc("add", t, a, b) = JavaCalc("add", t, a, b)
<1> DEFINE m == PowerOf2(Width[t])
           u == Unsigned(t, a)
           v == Unsigned(t, b)
<1>1. t \in DOMAIN Width /\ m \in Nat \ {0} /\ a \in Int /\ b \in Int
  BY IntFacts
<1>2. PICK i \in {0, 1} : u = a + i * m
  BY OneTurn
<1>3. PICK j \in {0, 1} : v = b + j * m
  BY OneTurn
<1>4. JavaCalc("add", t, a, b) =
        IF (u + v) % m >= m \div 2 THEN ((u + v) % m) - m ELSE (u + v) % m
  BY DEF JavaCalc
<1>5. u + v \in Int /\ u + v = (a + b) + (i + j) * m /\ a + b \in Int /\ i + j \in Int
  <2> HIDE DEF m, u, v
  <2> QED BY <1>1, <1>2, <1>3
<1>6. JavaCalc("add", t, a, b) = Wrap(t, u + v)
  <2> HIDE DEF u, v
  <2> QED BY <1>1, <1>4, <1>5, Signed
<1>7. Wrap(t, u + v) = Wrap(t, a + b)
  <2> HIDE DEF u, v
  <2> QED BY <1>1, <1>5, WrapMore
<1>8. IntCalc("add", t, a, b) = Wrap(t, a + b)
  BY DEF IntCalc
<1> QED BY <1>6, <1>7, <1>8

\* A difference is the one modulo the width, as a sum is,
LEMMA DifferenceAgrees ==
    ASSUME NEW t \in IntTypes, NEW a \in Between(t), NEW b \in Between(t)
    PROVE  IntCalc("sub", t, a, b) = JavaCalc("sub", t, a, b)
<1> DEFINE m == PowerOf2(Width[t])
           u == Unsigned(t, a)
           v == Unsigned(t, b)
           d == m + u - v
<1>1. t \in DOMAIN Width /\ m \in Nat \ {0} /\ a \in Int /\ b \in Int
  BY IntFacts
<1>2. PICK i \in {0, 1} : u = a + i * m
  BY OneTurn
<1>3. PICK j \in {0, 1} : v = b + j * m
  BY OneTurn
<1>4. JavaCalc("sub", t, a, b) = IF d % m >= m \div 2 THEN (d % m) - m ELSE d % m
  BY DEF JavaCalc
<1>5. d \in Int /\ d = (a - b) + (1 + i - j) * m /\ a - b \in Int /\ 1 + i - j \in Int
  <2> HIDE DEF m, u, v
  <2> QED BY <1>1, <1>2, <1>3
<1> HIDE DEF d
<1>6. JavaCalc("sub", t, a, b) = Wrap(t, d)
  BY <1>1, <1>4, <1>5, Signed
<1>7. Wrap(t, d) = Wrap(t, a - b)
  BY <1>1, <1>5, WrapMore
<1>8. IntCalc("sub", t, a, b) = Wrap(t, a - b)
  BY DEF IntCalc
<1> QED BY <1>6, <1>7, <1>8

\* and so is a product.
LEMMA ProductAgrees ==
    ASSUME NEW t \in IntTypes, NEW a \in Between(t), NEW b \in Between(t)
    PROVE  IntCalc("mul", t, a, b) = JavaCalc("mul", t, a, b)
<1> DEFINE m == PowerOf2(Width[t])
           u == Unsigned(t, a)
           v == Unsigned(t, b)
           p == u * v
<1>1. t \in DOMAIN Width /\ m \in Nat \ {0} /\ a \in Int /\ b \in Int
  BY IntFacts
<1>2. PICK i \in {0, 1} : u = a + i * m
  BY OneTurn
<1>3. PICK j \in {0, 1} : v = b + j * m
  BY OneTurn
<1>4. JavaCalc("mul", t, a, b) = IF p % m >= m \div 2 THEN (p % m) - m ELSE p % m
  BY DEF JavaCalc
<1>5. p \in Int /\ a * b \in Int /\ \E k \in Int : p = a * b + k * m
  <2> HIDE DEF m, u, v
  <2>1. p = (a + i * m) * (b + j * m)
    BY <1>2, <1>3
  <2> HIDE DEF p
  <2>2. CASE i = 0 /\ j = 0
    <3>1. p = a * b + 0 * m /\ p \in Int /\ a * b \in Int
      BY <1>1, <2>1, <2>2
    <3> QED BY <3>1
  <2>3. CASE i = 1 /\ j = 0
    <3>1. p = a * b + b * m /\ p \in Int /\ a * b \in Int
      BY <1>1, <2>1, <2>3
    <3> QED BY <3>1, <1>1
  <2>4. CASE i = 0 /\ j = 1
    <3>1. p = a * b + a * m /\ p \in Int /\ a * b \in Int
      BY <1>1, <2>1, <2>4
    <3> QED BY <3>1, <1>1
  <2>5. CASE i = 1 /\ j = 1
    <3>1. p = a * b + (a + b + m) * m /\ p \in Int /\ a * b \in Int /\ a + b + m \in Int
      BY <1>1, <2>1, <2>5
    <3> QED BY <3>1
  <2> QED BY <2>2, <2>3, <2>4, <2>5
<1> HIDE DEF p
<1>6. JavaCalc("mul", t, a, b) = Wrap(t, p)
  BY <1>1, <1>4, <1>5, Signed
<1>7. Wrap(t, p) = Wrap(t, a * b)
  BY <1>1, <1>5, WrapMore
<1>8. IntCalc("mul", t, a, b) = Wrap(t, a * b)
  BY DEF IntCalc
<1> QED BY <1>6, <1>7, <1>8

-----------------------------------------------------------------------------
(* Shifts.                                                                 *)

\* The width divides PowerOf2 of it, so the distance is that of the number
\* without its sign.
LEMMA DistanceAgrees ==
    ASSUME NEW t \in IntTypes, NEW b \in Int
    PROVE  Unsigned(t, b) % Width[t] = Distance(t, b)
<1> DEFINE w == Width[t]
           m == PowerOf2(w)
<1>1. w \in Nat \ {0} /\ m \in Nat \ {0}
  BY IntFacts
<1>2. PICK k \in 0..w : w = PowerOf2(k)
  BY ValuesAssumption
<1>3. PICK c \in Nat : m = c * w
  <2>1. k \in Nat /\ w - k \in Nat /\ k + (w - k) = w
    BY <1>1
  <2>2. PowerOf2(k + (w - k)) = PowerOf2(k) * PowerOf2(w - k)
    BY <2>1, PowersAdd
  <2>3. PowerOf2(w - k) \in Nat
    BY <2>1, PowersDouble
  <2> DEFINE e == PowerOf2(w - k)
  <2>4. m = w * e /\ e \in Nat
    BY <2>1, <2>2, <2>3, <1>2
  <2> HIDE DEF e, m, w
  <2>5. m = e * w
    BY <2>4, <1>1
  <2> QED BY <2>4, <2>5
<1> DEFINE q == b \div m
           r == b % m
<1> HIDE DEF w, m
<1>4. q \in Int /\ r \in Int /\ b = q * m + r
  BY <1>1
<1> HIDE DEF q, r
<1> DEFINE z == q * c
<1>5. b = r + z * w /\ z \in Int
  BY <1>1, <1>3, <1>4
<1> HIDE DEF z
<1>6. b % w = r % w
  <2>1. (r + z * w) % w = r % w
    BY <1>1, <1>4, <1>5, MoreMultiples
  <2> QED BY <2>1, <1>5
<1> USE DEF w, m, r
<1> QED BY <1>6 DEF Unsigned, Distance

\* A left shift multiplies by a power of two, modulo the width.
LEMMA LeftShiftAgrees ==
    ASSUME NEW t \in IntTypes, NEW a \in Between(t), NEW b \in Between(t),
           a * PowerOf2(Distance(t, b)) \in Between(t), AsDouble(a) = a
    PROVE  IntCalc("shl", t, a, b) = JavaCalc("shl", t, a, b)
<1> DEFINE m == PowerOf2(Width[t])
           u == Unsigned(t, a)
           d == PowerOf2(Distance(t, b))
           p == u * d
<1>1. t \in DOMAIN Width /\ m \in Nat \ {0} /\ a \in Int /\ b \in Int
  BY IntFacts
<1>2. PICK i \in {0, 1} : u = a + i * m
  BY OneTurn
<1>3. d \in Nat \ {0}
  BY <1>1, Distances
<1>4. JavaCalc("shl", t, a, b) = IF p % m >= m \div 2 THEN (p % m) - m ELSE p % m
  <2>1. Unsigned(t, b) % Width[t] = Distance(t, b)
    BY <1>1, DistanceAgrees
  <2> QED BY <2>1 DEF JavaCalc
<1>5. p \in Int /\ a * d \in Int /\ i * d \in Int /\ p = a * d + (i * d) * m
  <2> HIDE DEF m, u, d
  <2> QED BY <1>1, <1>2, <1>3
<1> HIDE DEF p
<1>6. JavaCalc("shl", t, a, b) = Wrap(t, p)
  BY <1>1, <1>4, <1>5, Signed
<1>7. Wrap(t, p) = Wrap(t, a * d)
  <2> HIDE DEF d
  <2> QED BY <1>1, <1>5, WrapMore
<1>8. Wrap(t, a * d) = a * d
  BY <1>1, UnsignedOf
<1>9. IntCalc("shl", t, a, b) = a * d
  <2>1. IntCalc("shl", t, a, b) = FromDouble(t, a * d)
    BY DEF IntCalc
  <2>2. a * d \in Least(t)..Greatest(t)
    BY DEF Between
  <2> QED BY <2>1, <2>2 DEF FromDouble
<1> QED BY <1>6, <1>7, <1>8, <1>9

\* A right shift divides by one and rounds down.
LEMMA RightShiftAgrees ==
    ASSUME NEW t \in IntTypes, NEW a \in Between(t), NEW b \in Between(t), AsDouble(a) = a
    PROVE  IntCalc("shr", t, a, b) = JavaCalc("shr", t, a, b)
<1> DEFINE m == PowerOf2(Width[t])
           s == Unsigned(t, b) % Width[t]
           d == PowerOf2(s)
           Floor(q) == q * d <= a /\ a < (q + 1) * d
           c == CHOOSE q \in -m..m : Floor(q)
           e == a \div d
           x == a % d
<1>1. t \in DOMAIN Width /\ m \in Nat \ {0} /\ a \in Int /\ b \in Int
  BY IntFacts
<1>a. s = Distance(t, b)
  BY <1>1, DistanceAgrees
<1>2. d \in Nat \ {0}
  <2> HIDE DEF s
  <2> QED BY <1>1, <1>a, Distances
<1>3. JavaCalc("shr", t, a, b) = IF c % m >= m \div 2 THEN (c % m) - m ELSE c % m
  BY DEF JavaCalc
<1>b. IntCalc("shr", t, a, b) = FromDouble(t, e)
  <2>1. IntCalc("shr", t, a, b) = FromDouble(t, a \div PowerOf2(Distance(t, b)))
    BY DEF IntCalc
  <2> HIDE DEF s
  <2> QED BY <2>1, <1>a
<1> HIDE DEF s
<1>4. e \in Int /\ x \in 0..(d - 1) /\ a = e * d + x
  <2> HIDE DEF d
  <2> QED BY <1>1, <1>2
<1>5. e \in Between(t) /\ e \in -m..m
  <2>1. (a >= 0 => e \in 0..a) /\ (a < 0 => e \in a..0)
    BY <1>1, <1>2, FloorDivision
  <2>2. /\ Least(t) \in Int /\ Greatest(t) \in Int /\ 0 \in Between(t)
        /\ Least(t) >= -m /\ Greatest(t) <= m
    BY <1>1, Widths
  <2> HIDE DEF e, m
  <2> QED BY <2>1, <2>2, <1>1, <1>4 DEF Between
<1>6. Floor(e)
  <2> HIDE DEF e, x, d
  <2>1. (e + 1) * d = e * d + d
    BY <1>2, <1>4
  <2> QED BY <2>1, <1>1, <1>2, <1>4
<1>7. ASSUME NEW q \in -m..m, Floor(q) PROVE q = e
  <2> HIDE DEF e, x, d
  <2>1. q \in Int /\ q + 1 \in Int /\ e + 1 \in Int
    BY <1>1, <1>4
  <2> DEFINE qd == q * d
             ed == e * d
             qd1 == (q + 1) * d
             ed1 == (e + 1) * d
  <2>2. qd \in Int /\ ed \in Int /\ qd1 \in Int /\ ed1 \in Int
    BY <2>1, <1>2, <1>4
  <2>3. qd < ed1 /\ ed < qd1
    BY <1>1, <1>6, <1>7, <2>2
  <2>4. q < e + 1 /\ e < q + 1
    BY <2>1, <2>3, <1>2, <1>4, Multiples
  <2> QED BY <2>1, <2>4, <1>4
<1>8. c = e
  <2> HIDE DEF e, Floor
  <2>1. \E q \in -m..m : Floor(q)
    BY <1>5, <1>6
  <2>2. c \in -m..m /\ Floor(c)
    BY <2>1
  <2> HIDE DEF c
  <2> QED BY <2>2, <1>7
<1> HIDE DEF c
<1>9. JavaCalc("shr", t, a, b) = Wrap(t, e)
  BY <1>1, <1>3, <1>4, <1>8, Signed
<1>10. Wrap(t, e) = e
  BY <1>1, <1>5, UnsignedOf
<1>11. FromDouble(t, e) = e
  BY <1>5 DEF FromDouble, Between
<1> QED BY <1>9, <1>10, <1>11, <1>b

\* A positive number is shifted as it is; a negative one gets PowerOf2(w - s) added
\* for the sign it loses.
LEMMA LogicalShiftAgrees ==
    ASSUME NEW t \in IntTypes, NEW a \in Between(t), NEW b \in Between(t), a # 0,
           a < 0 => Distance("int", b) = Distance(t, b)
    PROVE  IntCalc("ushr", t, a, b) = JavaCalc("ushr", t, a, b)
<1> DEFINE w == Width[t]
           m == PowerOf2(w)
           u == Unsigned(t, a)
           s == Distance(t, b)
           d == PowerOf2(s)
           e == PowerOf2(w - s)
           q == u \div d
<1>1. t \in DOMAIN Width /\ m \in Nat \ {0} /\ a \in Int /\ b \in Int /\ w \in Nat \ {0}
      /\ u \in Nat
  BY IntFacts
<1>2. d \in Nat \ {0} /\ e \in Nat \ {0} /\ s \in 0..(w - 1)
  BY <1>1, Distances
<1>3. m = e * d
  <2>1. s \in Nat /\ w - s \in Nat /\ (w - s) + s = w
    BY <1>1, <1>2
  <2>2. PowerOf2((w - s) + s) = PowerOf2(w - s) * PowerOf2(s)
    BY <2>1, PowersAdd
  <2> QED BY <2>1, <2>2
<1>4. JavaCalc("ushr", t, a, b) = IF q % m >= m \div 2 THEN (q % m) - m ELSE q % m
  <2>1. Unsigned(t, b) % Width[t] = Distance(t, b)
    BY <1>1, DistanceAgrees
  <2> QED BY <2>1 DEF JavaCalc
<1>5. q \in Int
  <2> HIDE DEF u, d
  <2> QED BY <1>1, <1>2
<1> HIDE DEF q
<1>6. JavaCalc("ushr", t, a, b) = Wrap(t, q)
  BY <1>1, <1>4, <1>5, Signed
<1>7. IntCalc("ushr", t, a, b) = LogicalShift(t, a, b)
  BY DEF IntCalc
<1>8. u = a + (IF a < 0 THEN 1 ELSE 0) * m
  BY <1>1, UnsignedOf
<1>9. CASE a > 0
  <2>1. u = a
    <3>1. (IF a < 0 THEN 1 ELSE 0) = 0
      BY <1>1, <1>9
    <3> HIDE DEF u, m
    <3> QED BY <3>1, <1>1, <1>8
  <2>2. LogicalShift(t, a, b) = a \div d
    BY <1>9 DEF LogicalShift
  <2>3. q = a \div d
    BY <2>1 DEF q
  <2>4. q \in Between(t)
    BY <1>7, <1>1, <2>2, <2>3, LogicalShiftFits
  <2>5. Wrap(t, q) = q
    BY <1>1, <2>4, UnsignedOf
  <2> QED BY <2>2, <2>3, <2>5, <1>6, <1>7
<1>10. CASE a < 0
  <2>1. u = a + e * d
    <3>1. (IF a < 0 THEN 1 ELSE 0) = 1
      BY <1>1, <1>10
    <3> HIDE DEF u, m, e, d
    <3> QED BY <3>1, <1>1, <1>3, <1>8
  <2>2. LogicalShift(t, a, b) = Wrap(t, (a \div d) + e)
    <3>1. ~(a > 0)
      BY <1>1, <1>10
    <3> QED BY <3>1, <1>10 DEF LogicalShift
  <2>3. q = (a \div d) + e
    <3>1. (a + e * d) \div d = (a \div d) + e
      <4> HIDE DEF e, d
      <4> QED BY <1>1, <1>2, MoreMultiples
    <3> QED BY <2>1, <3>1 DEF q
  <2> QED BY <2>2, <2>3, <1>6, <1>7
<1>11. a > 0 \/ a < 0
  BY <1>1
<1> QED BY <1>9, <1>10, <1>11

-----------------------------------------------------------------------------
(* Division.                                                               *)

\* Sizes and signs of products.
LEMMA Products ==
    ASSUME NEW q \in Int, NEW b \in Int
    PROVE  /\ Abs(q * b) = Abs(q) * Abs(b)
           /\ q * b \in Int
           /\ Abs(q) \in Nat /\ Abs(b) \in Nat /\ Abs(q) * Abs(b) \in Nat
<1>1. Abs(q) \in Nat /\ Abs(b) \in Nat /\ q * b \in Int
  BY Magnitudes
<1>2. CASE q >= 0 /\ b >= 0
  <2>1. q * b >= 0
    BY <1>2
  <2> QED BY <2>1, <1>1, <1>2 DEF Abs
<1>3. CASE q >= 0 /\ b < 0
  <2> DEFINE c == -b
  <2>1. c \in Nat /\ c > 0 /\ b = -c
    BY <1>3
  <2> HIDE DEF c
  <2>2. q * b = -(q * c) /\ q * c >= 0
    BY <2>1, <1>3
  <2>3. Abs(b) = c /\ Abs(q) = q
    BY <2>1, <1>3 DEF Abs
  <2>4. Abs(q * b) = q * c
    BY <2>2, <2>1, <1>1 DEF Abs
  <2> QED BY <2>3, <2>4, <2>2, <1>1
<1>4. CASE q < 0 /\ b >= 0
  <2> DEFINE c == -q
  <2>1. c \in Nat /\ c > 0 /\ q = -c
    BY <1>4
  <2> HIDE DEF c
  <2>2. q * b = -(c * b) /\ c * b >= 0
    BY <2>1, <1>4
  <2>3. Abs(q) = c /\ Abs(b) = b
    BY <2>1, <1>4 DEF Abs
  <2>4. Abs(q * b) = c * b
    BY <2>2, <2>1, <1>1 DEF Abs
  <2> QED BY <2>3, <2>4, <2>2, <1>1
<1>5. CASE q < 0 /\ b < 0
  <2> DEFINE c == -q
             e == -b
  <2>1. c \in Nat /\ c > 0 /\ q = -c /\ e \in Nat /\ e > 0 /\ b = -e
    BY <1>5
  <2> HIDE DEF c, e
  <2>2. q * b = c * e /\ c * e >= 0
    BY <2>1
  <2>3. Abs(q) = c /\ Abs(b) = e
    BY <2>1 DEF Abs
  <2>4. Abs(q * b) = c * e
    BY <2>2, <2>1, <1>1 DEF Abs
  <2> QED BY <2>3, <2>4, <2>2, <1>1
<1> QED BY <1>2, <1>3, <1>4, <1>5, <1>1

\* The quotient that is rounded toward zero is the only one of its size and sign.
LEMMA QuotientUnique ==
    ASSUME NEW a \in Int, NEW b \in Int, b # 0, NEW q \in Int
    PROVE  /\ Abs(q * b) <= Abs(a)
           /\ Abs(a) < Abs(q * b) + Abs(b)
           /\ q = 0 \/ Sign(q) = Sign(a) * Sign(b)
           <=> q = Quotient(a, b)
<1> DEFINE x == Abs(a)
           y == Abs(b)
           n == x \div y
           s == Sign(a) * Sign(b)
           z == Abs(q)
<1>1. /\ x \in Nat /\ y \in Nat \ {0} /\ (x = 0 <=> a = 0) /\ s \in {-1, 0, 1} /\ (s = 0 <=> a = 0)
      /\ z \in Nat /\ (z = 0 <=> q = 0) /\ q = Sign(q) * z /\ Sign(q) \in {-1, 0, 1}
  <2>1. /\ x \in Nat /\ y \in Nat \ {0} /\ (x = 0 <=> a = 0)
        /\ z \in Nat /\ (z = 0 <=> q = 0) /\ q = Sign(q) * z /\ Sign(q) \in {-1, 0, 1}
    BY Magnitudes
  <2>2. Sign(a) \in {-1, 0, 1} /\ Sign(b) \in {-1, 1} /\ (Sign(a) = 0 <=> a = 0)
    BY Magnitudes
  <2>3. s \in {-1, 0, 1} /\ (s = 0 <=> a = 0)
    <3> DEFINE g == Sign(a)
               h == Sign(b)
    <3>1. g \in {-1, 0, 1} /\ h \in {-1, 1} /\ (g = 0 <=> a = 0)
      BY <2>2
    <3> HIDE DEF g, h
    <3>2. g * h \in {-1, 0, 1} /\ (g * h = 0 <=> a = 0)
      BY <3>1
    <3> USE DEF g, h
    <3> QED BY <3>2
  <2> HIDE DEF x, y, s, z
  <2> QED BY <2>1, <2>3
<1>2. Quotient(a, b) = s * n
  BY DEF Quotient
<1>3. Abs(q * b) = z * y
  BY Products
<1>4. n \in Nat /\ n * y <= x /\ x < n * y + y
  <2> HIDE DEF x, y
  <2>1. n \in 0..x /\ x % y \in 0..(y - 1) /\ x = y * n + (x % y)
    BY <1>1, Division
  <2> HIDE DEF n
  <2>2. y * n = n * y /\ n * y \in Nat
    BY <2>1, <1>1
  <2> QED BY <2>1, <2>2, <1>1
<1>5. z * y <= x /\ x < z * y + y <=> z = n
  <2> HIDE DEF x, y, n, z
  <2> DEFINE zy == z * y
             ny == n * y
  <2>1. /\ z < n => zy + y <= ny
        /\ n < z => ny + y <= zy
        /\ z = n => zy = ny
        /\ zy \in Int /\ ny \in Int
    BY <1>1, <1>4, Multiples
  <2>2. ny <= x /\ x < ny + y
    BY <1>4
  <2> HIDE DEF zy, ny
  <2>3. zy <= x /\ x < zy + y <=> z = n
    BY <2>1, <2>2, <1>1, <1>4
  <2> USE DEF zy
  <2> QED BY <2>3
<1>6. n > 0 => s # 0
  <2>1. CASE s = 0
    <3>1. x = 0
      BY <2>1, <1>1
    <3> HIDE DEF x, n, y
    <3>2. n * y <= 0
      BY <3>1, <1>4
    <3>3. ~(n > 0)
      BY <3>2, <1>1, <1>4
    <3> QED BY <3>3
  <2> QED BY <2>1
<1>7. (q = 0 \/ Sign(q) = s) /\ z = n <=> q = s * n
  <2> HIDE DEF x, y, n, z, s
  <2>1. CASE n = 0
    <3>1. s * n = 0
      BY <2>1, <1>1
    <3> QED BY <2>1, <3>1, <1>1
  <2>2. CASE n # 0
    <3>1. s \in {-1, 1} /\ n > 0
      BY <2>2, <1>1, <1>4, <1>6
    <3>2. CASE Sign(q) = s /\ z = n
      BY <3>2, <1>1
    <3>3. CASE q = s * n
      <4>1. CASE s = 1
        <5>1. q = n
          BY <4>1, <3>3, <1>4
        <5> QED BY <5>1, <3>1, <4>1, <1>4 DEF z, Abs, Sign
      <4>2. CASE s = -1
        <5>1. q = -n
          BY <4>2, <3>3, <1>4
        <5> QED BY <5>1, <3>1, <4>2, <1>4 DEF z, Abs, Sign
      <4> QED BY <4>1, <4>2, <3>1
    <3> QED BY <3>2, <3>3, <2>2, <1>1
  <2> QED BY <2>1, <2>2
<1> HIDE DEF x, y, n, s, z
<1>8. /\ Abs(q * b) <= x
      /\ x < Abs(q * b) + y
      /\ q = 0 \/ Sign(q) = s
      <=> q = Quotient(a, b)
  BY <1>2, <1>3, <1>5, <1>7
<1> USE DEF x, y, s
<1> QED BY <1>8

\* Numbers of the type are of no more than PowerOf2 of its width.
LEMMA Bounds ==
    ASSUME NEW t \in IntTypes, NEW a \in Between(t)
    PROVE  a \in -PowerOf2(Width[t])..PowerOf2(Width[t]) /\ Abs(a) <= PowerOf2(Width[t])
<1> DEFINE m == PowerOf2(Width[t])
           h == PowerOf2(Width[t] - 1)
<1>1. m \in Nat \ {0} /\ h \in Nat \ {0} /\ m = 2 * h /\ Least(t) = -h /\ Greatest(t) = h - 1
  BY IntFacts, Widths
<1>2. a \in Int /\ -h <= a /\ a <= h - 1
  BY <1>1 DEF Between
<1> HIDE DEF m, h
<1>3. a \in -m..m /\ Abs(a) <= m
  BY <1>1, <1>2 DEF Abs
<1> USE DEF m
<1> QED BY <1>3

\* A quotient that does not trap is the one rounded toward zero, modulo the width,
LEMMA QuotientAgrees ==
    ASSUME NEW t \in IntTypes, NEW a \in Between(t), NEW b \in Between(t),
           ~Traps("div", t, a, b)
    PROVE  IntCalc("div", t, a, b) = JavaCalc("div", t, a, b)
<1> DEFINE m == PowerOf2(Width[t])
           Good(q) == /\ Abs(q * b) <= Abs(a)
                      /\ Abs(a) < Abs(q * b) + Abs(b)
                      /\ q = 0 \/ Sign(q) = Sign(a) * Sign(b)
           c == CHOOSE q \in -m..m : Good(q)
           e == Quotient(a, b)
<1>1. /\ t \in DOMAIN Width /\ m \in Nat \ {0} /\ a \in Int /\ b \in Int
      /\ b # 0 /\ ~(a = Least(t) /\ b = -1)
  BY IntFacts DEF Traps
<1>2. JavaCalc("div", t, a, b) = IF c % m >= m \div 2 THEN (c % m) - m ELSE c % m
  BY DEF JavaCalc
<1>3. e \in Between(t)
  BY <1>1, QuotientFits
<1>4. e \in -m..m /\ e \in Int
  BY <1>3, Bounds, IntFacts
<1>5. \A q \in -m..m : Good(q) <=> q = e
  <2>1. \A q \in Int : Good(q) <=> q = e
    BY <1>1, QuotientUnique
  <2>2. -m..m \subseteq Int
    BY <1>1
  <2> HIDE DEF Good, e, m
  <2> QED BY <2>1, <2>2
<1>6. c = e
  <2> HIDE DEF Good, e, m
  <2> QED BY <1>4, <1>5
<1> HIDE DEF c, e
<1>7. JavaCalc("div", t, a, b) = Wrap(t, e)
  BY <1>1, <1>2, <1>4, <1>6, Signed
<1>8. Wrap(t, e) = e
  BY <1>1, <1>3, UnsignedOf
<1>9. IntCalc("div", t, a, b) = e
  BY DEF IntCalc, e
<1> QED BY <1>7, <1>8, <1>9

\* A number of the sign of a that is smaller than b and is a but for a multiple of b,
\* is the remainder of their sizes with the sign of a.
LEMMA RemainderUnique ==
    ASSUME NEW a \in Int, NEW b \in Int, b # 0, NEW r \in Int, NEW q \in Int,
           Abs(r) < Abs(b), r * a >= 0, a = q * b + r
    PROVE  r = Sign(a) * (Abs(a) % Abs(b))
<1> DEFINE y == Abs(b)
           k == q * Sign(b)
           g == Sign(b)
<1>1. y \in Nat \ {0} /\ g \in {-1, 1} /\ b = g * y /\ k \in Int
  BY DEF Abs, Sign
<1>2. q * b = k * y /\ k * y \in Int
  <2> HIDE DEF y, g
  <2>1. q * b = q * (g * y) /\ q * (g * y) = (q * g) * y
    BY <1>1
  <2> QED BY <2>1, <1>1 DEF g
<1> HIDE DEF y, k, g
<1>3. CASE a = 0
  <2> DEFINE z == Abs(k)
  <2>1. z \in Nat /\ r = -(k * y)
    <3>1. z \in Nat
      BY <1>1, Magnitudes
    <3> DEFINE p == k * y
    <3>2. p \in Int /\ 0 = p + r
      BY <1>2, <1>3
    <3> HIDE DEF p, z
    <3>3. r = -p
      BY <3>2
    <3> USE DEF p
    <3> QED BY <3>1, <3>3
  <2>2. Abs(r) = z * y
    <3>1. Abs(k * y) = z * Abs(y) /\ Abs(y) = y
      BY <1>1, Products DEF Abs
    <3>2. Abs(-(k * y)) = Abs(k * y)
      BY <1>2 DEF Abs
    <3> QED BY <2>1, <3>1, <3>2
  <2>3. z = 0
    <3>1. SUFFICES ASSUME z >= 1 PROVE FALSE
      BY <2>1
    <3>2. z * y >= y
      BY <3>1, <2>1, <1>1
    <3>3. Abs(r) < y
      BY DEF y
    <3> QED BY <3>2, <3>3, <2>1, <2>2, <1>1
  <2>4. k = 0
    BY <2>3, <1>1, Magnitudes
  <2>5. r = 0
    BY <2>1, <2>4, <1>1
  <2> QED
    <3>1. Sign(a) = 0 /\ Abs(a) = 0
      BY <1>3 DEF Sign, Abs
    <3>2. 0 % y \in Int
      BY <1>1
    <3>3. 0 * (0 % y) = 0
      BY <3>2
    <3> QED BY <3>1, <3>3, <2>5 DEF y
<1>4. CASE a > 0
  <2>1. r >= 0
    <3>1. SUFFICES ASSUME r < 0 PROVE FALSE
      OBVIOUS
    <3> DEFINE n == -r
    <3>2. n \in Nat /\ n >= 1 /\ r = -n
      BY <3>1
    <3> HIDE DEF n
    <3>3. n * a >= 1 /\ r * a = -(n * a)
      BY <3>2, <1>4
    <3> QED BY <3>2, <3>3
  <2>2. r \in 0..(y - 1) /\ a = k * y + r
    BY <2>1, <1>1, <1>2 DEF Abs, y
  <2>3. a % y = r
    BY <2>2, <1>1, DivisionUnique
  <2>4. Sign(a) = 1 /\ Abs(a) = a
    BY <1>4 DEF Sign, Abs
  <2> QED BY <2>3, <2>4 DEF y
<1>5. CASE a < 0
  <2>1. r <= 0
    <3>1. SUFFICES ASSUME r > 0 PROVE FALSE
      OBVIOUS
    <3> DEFINE n == -a
    <3>2. n \in Nat /\ n >= 1 /\ a = -n
      BY <1>5
    <3> HIDE DEF n
    <3>3. r * n >= 1 /\ r * a = -(r * n)
      BY <3>1, <3>2
    <3> QED BY <3>2, <3>3
  <2> DEFINE x == -a
             s == -r
             j == -k
  <2>2. s \in 0..(y - 1) /\ x = j * y + s /\ x \in Int /\ j \in Int
    <3>1. Abs(r) = -r /\ Abs(r) < y
      BY <2>1 DEF Abs, y
    <3>2. (-k) * y = -(k * y)
      BY <1>1
    <3> QED BY <2>1, <3>1, <3>2, <1>1, <1>2
  <2> HIDE DEF x, s, j
  <2>3. x % y = s
    BY <2>2, <1>1, DivisionUnique
  <2>4. Sign(a) = -1 /\ Abs(a) = x
    BY <1>5 DEF Sign, Abs, x
  <2>5. r = (-1) * s
    BY DEF s
  <2> QED BY <2>3, <2>4, <2>5 DEF y
<1> QED BY <1>3, <1>4, <1>5

\* The machine's remainder is such a number.
LEMMA RemainderIs ==
    ASSUME NEW a \in Int, NEW b \in Int, b # 0
    PROVE  /\ Remainder(a, b) \in Int /\ Quotient(a, b) \in Int
           /\ Abs(Remainder(a, b)) < Abs(b)
           /\ Remainder(a, b) * a >= 0
           /\ a = Quotient(a, b) * b + Remainder(a, b)
<1> DEFINE e == Remainder(a, b)
           q == Quotient(a, b)
<1>1. /\ q \in Int /\ e \in Int
      /\ a >= 0 => e \in 0..a
      /\ a < 0 => e \in a..0
  BY Quotients, RemainderFits
<1>2. a = q * b + e
  <2>1. e = a - b * q
    BY DEF Remainder
  <2> HIDE DEF e, q
  <2> QED BY <2>1, <1>1
<1>3. /\ Abs(q * b) <= Abs(a)
      /\ Abs(a) < Abs(q * b) + Abs(b)
      /\ q = 0 \/ Sign(q) = Sign(a) * Sign(b)
  BY <1>1, QuotientUnique
<1> HIDE DEF e, q
<1>4. e * a >= 0
  <2>1. CASE a >= 0
    BY <2>1, <1>1
  <2>2. CASE a < 0
    <3> DEFINE x == -a
               s == -e
    <3>1. x \in Nat /\ s \in Nat /\ a = -x /\ e = -s
      BY <2>2, <1>1
    <3> HIDE DEF x, s
    <3>2. e * a = s * x /\ s * x >= 0
      BY <3>1
    <3> QED BY <3>2
  <2> QED BY <2>1, <2>2
<1>5. Abs(e) < Abs(b)
  <2> DEFINE p == q * b
  <2>1. p \in Int /\ a = p + e
    BY <1>1, <1>2
  <2>2. a >= 0 => p >= 0
    BY <2>1, <1>1
  <2>3. a < 0 => p <= 0
    BY <2>1, <1>1
  <2>4. Abs(p) <= Abs(a) /\ Abs(a) < Abs(p) + Abs(b)
    BY <1>3
  <2> HIDE DEF p
  <2> QED BY <2>1, <2>2, <2>3, <2>4, <1>1 DEF Abs
<1> USE DEF e, q
<1> QED BY <1>1, <1>2, <1>4, <1>5

\* and its remainder has the sign of the dividend.
LEMMA RemainderAgrees ==
    ASSUME NEW t \in IntTypes, NEW a \in Between(t), NEW b \in Between(t), b # 0
    PROVE  IntCalc("rem", t, a, b) = JavaCalc("rem", t, a, b)
<1> DEFINE m == PowerOf2(Width[t])
           Good(r) == /\ Abs(r) < Abs(b) /\ r * a >= 0
                      /\ \E q \in -m..m : a = q * b + r
           c == CHOOSE r \in -m..m : Good(r)
           e == Remainder(a, b)
<1>1. t \in DOMAIN Width /\ m \in Nat \ {0} /\ a \in Int /\ b \in Int
  BY IntFacts
<1>2. JavaCalc("rem", t, a, b) = IF c % m >= m \div 2 THEN (c % m) - m ELSE c % m
  BY DEF JavaCalc
<1>3. /\ e \in Int /\ Quotient(a, b) \in Int
      /\ Abs(e) < Abs(b)
      /\ e * a >= 0
      /\ a = Quotient(a, b) * b + e
  BY <1>1, RemainderIs
<1>4. e \in Between(t)
  <2>1. /\ a >= 0 => e \in 0..a
        /\ a < 0 => e \in a..0
    BY <1>1, RemainderFits
  <2>2. Least(t) \in Int /\ Greatest(t) \in Int /\ 0 \in Between(t)
    BY <1>1, Widths
  <2> HIDE DEF e
  <2> QED BY <2>1, <2>2, <1>1, <1>3 DEF Between
<1>5. e \in -m..m
  BY <1>4, Bounds
<1>6. Good(e)
  <2>1. Quotient(a, b) \in -m..m
    <3>1. Quotient(a, b) \in (-Abs(a))..Abs(a)
      BY <1>1, Quotients
    <3>2. Abs(a) <= m /\ Abs(a) \in Nat
      BY <1>1, Bounds, Magnitudes
    <3> DEFINE q == Quotient(a, b)
    <3> HIDE DEF m, q
    <3>3. q \in -m..m
      BY <3>1, <3>2, <1>1, <1>3 DEF q
    <3> USE DEF q
    <3> QED BY <3>3
  <2> HIDE DEF e, m
  <2> QED BY <2>1, <1>3
<1>7. ASSUME NEW r \in -m..m, Good(r) PROVE r = e
  <2>1. r \in Int
    BY <1>1
  <2>2. PICK q \in -m..m : a = q * b + r
    BY <1>7
  <2>3. q \in Int
    BY <1>1
  <2>4. r = Sign(a) * (Abs(a) % Abs(b))
    BY <1>1, <1>7, <2>1, <2>2, <2>3, RemainderUnique
  <2>5. e = Sign(a) * (Abs(a) % Abs(b))
    BY <1>1, <1>3, RemainderUnique
  <2> QED BY <2>4, <2>5
<1>8. c = e
  <2> HIDE DEF Good, e, m
  <2>1. c \in -m..m /\ Good(c)
    BY <1>5, <1>6
  <2> QED BY <2>1, <1>7
<1> HIDE DEF c, e
<1>9. JavaCalc("rem", t, a, b) = Wrap(t, e)
  BY <1>1, <1>2, <1>3, <1>8, Signed
<1>10. Wrap(t, e) = e
  BY <1>1, <1>4, UnsignedOf
<1>11. IntCalc("rem", t, a, b) = e
  BY DEF IntCalc, e
<1> QED BY <1>9, <1>10, <1>11

-----------------------------------------------------------------------------
(* Bits.                                                                   *)

BitOf(x, i) == (x \div PowerOf2(i)) % 2

\* Bits below n do not see multiples of PowerOf2(n).
LEMMA LowBits ==
    ASSUME NEW n \in Nat, NEW i \in 0..(n - 1), NEW x \in Int, NEW c \in Int
    PROVE  BitOf(x + c * PowerOf2(n), i) = BitOf(x, i)
<1> DEFINE p == PowerOf2(i)
           e == PowerOf2(n - 1 - i)
           y == x \div p
           k == c * e
<1>1. i \in Nat /\ n - 1 - i \in Nat /\ p \in Nat \ {0} /\ e \in Nat
  <2>1. i \in Nat /\ n - 1 - i \in Nat
    OBVIOUS
  <2> QED BY <2>1, PowersDouble
<1>2. PowerOf2(n) = (2 * e) * p
  <2>1. n - i \in Nat /\ (n - i) + i = n /\ (n - 1 - i) + 1 = n - i
    BY <1>1
  <2>2. PowerOf2((n - i) + i) = PowerOf2(n - i) * PowerOf2(i)
    BY <1>1, <2>1, PowersAdd
  <2>3. PowerOf2((n - 1 - i) + 1) = 2 * PowerOf2(n - 1 - i)
    BY <1>1, PowersDouble
  <2> QED BY <2>1, <2>2, <2>3
<1>3. y \in Int /\ k \in Int
  <2> HIDE DEF p, e
  <2> QED BY <1>1
<1>4. c * PowerOf2(n) = (k * 2) * p
  <2> HIDE DEF p, e
  <2> QED BY <1>1, <1>2
<1>5. (x + c * PowerOf2(n)) \div p = y + k * 2
  <2> DEFINE z == k * 2
  <2>1. z \in Int
    BY <1>3
  <2> HIDE DEF p, k, z
  <2>2. (x + z * p) \div p = y + z
    BY <1>1, <2>1, MoreMultiples
  <2> USE DEF z
  <2> QED BY <2>2, <1>4
<1>6. (y + k * 2) % 2 = y % 2
  <2> HIDE DEF y, k
  <2> QED BY <1>3, MoreMultiples
<1> QED BY <1>5, <1>6 DEF BitOf

\* The top bit of a number of n + 1 bits, and the number without it.
LEMMA TopBit ==
    ASSUME NEW n \in Nat, NEW x \in 0..(PowerOf2(n + 1) - 1)
    PROVE  \E c \in {0, 1}, r \in 0..(PowerOf2(n) - 1) :
             /\ x = r + c * PowerOf2(n)
             /\ BitOf(x, n) = c
             /\ \A i \in 0..(n - 1) : BitOf(x, i) = BitOf(r, i)
<1> DEFINE p == PowerOf2(n)
           c == x \div p
           r == x % p
<1>1. p \in Nat \ {0} /\ PowerOf2(n + 1) = 2 * p
  BY PowersDouble
<1>2. c \in Int /\ r \in 0..(p - 1) /\ x = r + c * p /\ x \in 0..(2 * p - 1)
  <2> HIDE DEF p
  <2> QED BY <1>1
<1>3. c \in {0, 1}
  <2> HIDE DEF c, r, p
  <2> DEFINE cp == c * p
  <2>1. cp \in Int /\ cp > -p /\ cp < 2 * p
    BY <1>1, <1>2
  <2>2. cp > (-1) * p
    BY <2>1, <1>1
  <2>3. -1 < c /\ c < 2
    BY <2>1, <2>2, <1>1, <1>2, Multiples
  <2> QED BY <2>3, <1>2
<1>4. BitOf(x, n) = c
  <2>1. c % 2 = c
    <3> HIDE DEF c
    <3> QED BY <1>3
  <2> QED BY <2>1 DEF BitOf
<1>5. ASSUME NEW i \in 0..(n - 1) PROVE BitOf(x, i) = BitOf(r, i)
  <2>1. r \in Int /\ c \in Int
    BY <1>1, <1>2
  <2> HIDE DEF r, c
  <2>2. BitOf(r + c * PowerOf2(n), i) = BitOf(r, i)
    BY <2>1, LowBits
  <2> QED BY <2>2, <1>2
<1> HIDE DEF c, r
<1> QED BY <1>2, <1>3, <1>4, <1>5

\* A number is what its bits are.
LEMMA SameBits ==
    ASSUME NEW n \in Nat
    PROVE  \A x, y \in 0..(PowerOf2(n) - 1) :
             (\A i \in 0..(n - 1) : BitOf(x, i) = BitOf(y, i)) => x = y
<1> DEFINE Same(k) == \A x, y \in 0..(PowerOf2(k) - 1) :
                        (\A i \in 0..(k - 1) : BitOf(x, i) = BitOf(y, i)) => x = y
           T == {k \in Nat : Same(k)}
<1>1. 0 \in T
  <2>1. PowerOf2(0) = 1
    BY PowersDouble
  <2> QED BY <2>1
<1>2. ASSUME NEW k \in Nat, k \in T PROVE k + 1 \in T
  <2>1. SUFFICES ASSUME NEW x \in 0..(PowerOf2(k + 1) - 1), NEW y \in 0..(PowerOf2(k + 1) - 1),
                        \A i \in 0..((k + 1) - 1) : BitOf(x, i) = BitOf(y, i)
                 PROVE  x = y
    OBVIOUS
  <2>2. PICK c \in {0, 1}, r \in 0..(PowerOf2(k) - 1) :
               /\ x = r + c * PowerOf2(k)
               /\ BitOf(x, k) = c
               /\ \A i \in 0..(k - 1) : BitOf(x, i) = BitOf(r, i)
    BY TopBit
  <2>3. PICK d \in {0, 1}, s \in 0..(PowerOf2(k) - 1) :
               /\ y = s + d * PowerOf2(k)
               /\ BitOf(y, k) = d
               /\ \A i \in 0..(k - 1) : BitOf(y, i) = BitOf(s, i)
    BY TopBit
  <2>4. c = d
    <3>1. k \in 0..((k + 1) - 1)
      OBVIOUS
    <3> QED BY <3>1, <2>1, <2>2, <2>3
  <2>5. \A i \in 0..(k - 1) : BitOf(r, i) = BitOf(s, i)
    <3>1. 0..(k - 1) \subseteq 0..((k + 1) - 1)
      OBVIOUS
    <3> QED BY <3>1, <2>1, <2>2, <2>3
  <2>6. r = s
    BY <1>2, <2>5
  <2> QED BY <2>2, <2>3, <2>4, <2>6
<1> HIDE DEF T
<1>3. n \in T
  BY <1>1, <1>2, Induction
<1> USE DEF T
<1> QED BY <1>3

\* OfBits makes the number that has the bits.
LEMMA BitsOfBits ==
    ASSUME NEW n \in Nat, NEW B
    PROVE  /\ OfBits(n, B) \in 0..(PowerOf2(n) - 1)
           /\ \A i \in 0..(n - 1) : BitOf(OfBits(n, B), i) = IF i \in B THEN 1 ELSE 0
<1> DEFINE bit(i) == IF i \in B THEN 1 ELSE 0
<1>1. PICK p \in [0..n -> Nat] :
             /\ p[0] = 0
             /\ \A i \in 1..n : p[i] = p[i - 1] + (IF i - 1 \in B THEN PowerOf2(i - 1) ELSE 0)
             /\ OfBits(n, B) = p[n]
  BY BitSums
<1> DEFINE Good(k) == /\ p[k] \in 0..(PowerOf2(k) - 1)
                      /\ \A i \in 0..(k - 1) : BitOf(p[k], i) = bit(i)
           T == {k \in Nat : k <= n => Good(k)}
<1>2. 0 \in T
  <2>1. PowerOf2(0) = 1
    BY PowersDouble
  <2> QED BY <2>1, <1>1
<1>3. ASSUME NEW k \in Nat, k \in T PROVE k + 1 \in T
  <2>1. SUFFICES ASSUME k + 1 <= n PROVE Good(k + 1)
    OBVIOUS
  <2> DEFINE c == bit(k)
             q == PowerOf2(k)
  <2>2. p[k + 1] = p[k] + c * q
    <3>1. k + 1 \in 1..n /\ (k + 1) - 1 = k
      BY <2>1
    <3>2. p[k + 1] = p[k] + (IF k \in B THEN PowerOf2(k) ELSE 0)
      BY <3>1, <1>1
    <3>3. q \in Nat
      BY <1>3, PowersDouble
    <3>4. c * q = IF k \in B THEN q ELSE 0
      <4> HIDE DEF q
      <4> QED BY <3>3
    <3> QED BY <3>2, <3>4
  <2>3. /\ q \in Nat \ {0} /\ PowerOf2(k + 1) = 2 * q /\ c \in {0, 1}
        /\ p[k] \in 0..(q - 1) /\ \A i \in 0..(k - 1) : BitOf(p[k], i) = bit(i)
    <3>1. Good(k)
      BY <1>3, <2>1
    <3>2. q \in Nat \ {0} /\ PowerOf2(k + 1) = 2 * q
      BY <1>3, PowersDouble
    <3>3. c \in {0, 1}
      OBVIOUS
    <3> QED BY <3>1, <3>2, <3>3
  <2> HIDE DEF c, q
  <2>4. p[k + 1] \in 0..(PowerOf2(k + 1) - 1)
    <3>1. c * q \in {0, q}
      BY <2>3
    <3> QED BY <3>1, <2>2, <2>3
  <2>5. ASSUME NEW i \in 0..((k + 1) - 1) PROVE BitOf(p[k + 1], i) = bit(i)
    <3>1. CASE i = k
      <4>1. p[k + 1] = c * q + p[k]
        BY <2>2, <2>3
      <4>2. p[k + 1] \in Int /\ c \in Int
        BY <2>4, <2>3
      <4>3. p[k + 1] \div q = c
        BY <4>1, <4>2, <2>3, DivisionUnique
      <4>4. c % 2 = c
        BY <2>3
      <4> QED BY <4>3, <4>4, <3>1 DEF BitOf, c, q
    <3>2. CASE i # k
      <4>1. i \in 0..(k - 1)
        BY <3>2
      <4>2. BitOf(p[k] + c * PowerOf2(k), i) = BitOf(p[k], i)
        <5> DEFINE x == p[k]
        <5>1. x \in Int /\ c \in Int
          BY <2>3
        <5> HIDE DEF x
        <5>2. BitOf(x + c * PowerOf2(k), i) = BitOf(x, i)
          BY <4>1, <5>1, LowBits
        <5> USE DEF x
        <5> QED BY <5>2
      <4> QED BY <4>1, <4>2, <2>2, <2>3 DEF q
    <3> QED BY <3>1, <3>2
  <2> QED BY <2>4, <2>5
<1> HIDE DEF T
<1>4. n \in T
  BY <1>2, <1>3, Induction
<1> USE DEF T
<1> QED BY <1>1, <1>4

\* A number and its unsigned representation have the same bits.
LEMMA BitsAgree ==
    ASSUME NEW t \in IntTypes, NEW a \in Between(t)
    PROVE  Bits(t, a) = {i \in 0..(Width[t] - 1) : (Unsigned(t, a) \div PowerOf2(i)) % 2 = 1}
<1> DEFINE w == Width[t]
           u == Unsigned(t, a)
<1>1. w \in Nat /\ a \in Int
  BY IntFacts
<1>2. PICK c \in {0, 1} : u = a + c * PowerOf2(w)
  BY OneTurn
<1>3. ASSUME NEW i \in 0..(w - 1) PROVE BitOf(u, i) = BitOf(a, i)
  <2>1. c \in Int
    OBVIOUS
  <2> HIDE DEF u, w
  <2> QED BY <1>1, <1>2, <2>1, LowBits
<1> HIDE DEF u
<1>4. \A i \in 0..(w - 1) : (a \div PowerOf2(i)) % 2 = (u \div PowerOf2(i)) % 2
  BY <1>3 DEF BitOf
<1> USE DEF u
<1> QED BY <1>4 DEF Bits

\* WithBits is what JavaCalc makes of the number with the bits.
LEMMA WithBitsAgrees ==
    ASSUME NEW t \in IntTypes, NEW S \in SUBSET (0..(Width[t] - 1))
    PROVE  LET m == PowerOf2(Width[t])
               c == CHOOSE n \in 0..(m - 1) :
                      {i \in 0..(Width[t] - 1) : (Unsigned(t, n) \div PowerOf2(i)) % 2 = 1} = S
           IN WithBits(t, S) = IF c % m >= m \div 2 THEN (c % m) - m ELSE c % m
<1> DEFINE w == Width[t]
           m == PowerOf2(w)
           BitsIn(n) == {i \in 0..(w - 1) : (Unsigned(t, n) \div PowerOf2(i)) % 2 = 1}
           c == CHOOSE n \in 0..(m - 1) : BitsIn(n) = S
           o == OfBits(w, S)
<1>1. t \in DOMAIN Width /\ w \in Nat \ {0} /\ m \in Nat \ {0}
  BY IntFacts
<1>2. /\ o \in 0..(m - 1)
      /\ \A i \in 0..(w - 1) : BitOf(o, i) = IF i \in S THEN 1 ELSE 0
  BY <1>1, BitsOfBits
<1>3. ASSUME NEW n \in 0..(m - 1) PROVE BitsIn(n) = {i \in 0..(w - 1) : BitOf(n, i) = 1}
  <2>1. Unsigned(t, n) = n
    <3>1. n \in Int /\ n = 0 * m + n
      BY <1>1
    <3> HIDE DEF m
    <3>2. n % m = n
      BY <1>1, <3>1, DivisionUnique
    <3> USE DEF m
    <3> QED BY <3>2 DEF Unsigned
  <2> QED BY <2>1 DEF BitOf
<1>4. BitsIn(o) = S
  <2>1. {i \in 0..(w - 1) : BitOf(o, i) = 1} = S
    <3> HIDE DEF o
    <3>1. ASSUME NEW i \in 0..(w - 1) PROVE BitOf(o, i) = 1 <=> i \in S
      <4>1. BitOf(o, i) = IF i \in S THEN 1 ELSE 0
        BY <1>2
      <4>2. CASE i \in S
        BY <4>1, <4>2
      <4>3. CASE i \notin S
        <5>1. BitOf(o, i) = 0
          BY <4>1, <4>3
        <5> QED BY <5>1, <4>3
      <4> QED BY <4>2, <4>3
    <3>2. {i \in 0..(w - 1) : BitOf(o, i) = 1} = {i \in 0..(w - 1) : i \in S}
      BY <3>1
    <3>3. {i \in 0..(w - 1) : i \in S} = S
      OBVIOUS
    <3> QED BY <3>2, <3>3
  <2>2. BitsIn(o) = {i \in 0..(w - 1) : BitOf(o, i) = 1}
    <3> HIDE DEF o, BitsIn, m, w
    <3> QED BY <1>2, <1>3
  <2> QED BY <2>1, <2>2
<1>5. ASSUME NEW n \in 0..(m - 1), BitsIn(n) = S PROVE n = o
  <2>1. {i \in 0..(w - 1) : BitOf(n, i) = 1} = S
    BY <1>3, <1>5
  <2>2. \A i \in 0..(w - 1) : BitOf(n, i) \in {0, 1}
    <3>1. n \in Int
      BY <1>1
    <3> SUFFICES ASSUME NEW i \in 0..(w - 1) PROVE BitOf(n, i) \in {0, 1}
      OBVIOUS
    <3>2. i \in Nat
      BY <1>1
    <3> DEFINE p == PowerOf2(i)
    <3>3. p \in Nat \ {0}
      BY <3>2, PowersDouble
    <3> HIDE DEF p
    <3>4. (n \div p) % 2 \in {0, 1}
      BY <3>1, <3>3
    <3> USE DEF p
    <3> QED BY <3>4 DEF BitOf
  <2>3. \A i \in 0..(w - 1) : BitOf(n, i) = BitOf(o, i)
    <3> HIDE DEF o, w
    <3> QED BY <2>1, <2>2, <1>2
  <2> HIDE DEF o, BitsIn
  <2> QED BY <2>3, <1>1, <1>2, SameBits
<1>6. c = o
  <2> HIDE DEF o, BitsIn, m
  <2>1. c \in 0..(m - 1) /\ BitsIn(c) = S
    BY <1>2, <1>4
  <2> HIDE DEF c
  <2> QED BY <2>1, <1>5
<1>7. o \in Int
  <2> HIDE DEF o, m
  <2> QED BY <1>1, <1>2
<1>8. WithBits(t, S) = Wrap(t, o)
  BY DEF WithBits
<1> HIDE DEF o, c
<1>9. WithBits(t, S) = IF c % m >= m \div 2 THEN (c % m) - m ELSE c % m
  BY <1>1, <1>6, <1>7, <1>8, Signed
<1> USE DEF c
<1> QED BY <1>9

\* and, or and xor work bit by bit.
LEMMA BitwiseAgrees ==
    ASSUME NEW t \in IntTypes, NEW a \in Between(t), NEW b \in Between(t),
           NEW f \in {"and", "or", "xor"}
    PROVE  IntCalc(f, t, a, b) = JavaCalc(f, t, a, b)
<1> DEFINE w == Width[t]
           m == PowerOf2(w)
           bits(v) == {i \in 0..(w - 1) : (Unsigned(t, v) \div PowerOf2(i)) % 2 = 1}
           number(S) == CHOOSE n \in 0..(m - 1) : bits(n) = S
           signed(c) == IF c % m >= m \div 2 THEN (c % m) - m ELSE c % m
<1>1. Bits(t, a) = bits(a) /\ Bits(t, b) = bits(b)
  BY BitsAgree
<1>2. \A S \in SUBSET (0..(w - 1)) : WithBits(t, S) = signed(number(S))
  BY WithBitsAgrees
<1>3. CASE f = "and"
  <2>1. JavaCalc("and", t, a, b) = signed(number(bits(a) \cap bits(b)))
    BY DEF JavaCalc
  <2>2. IntCalc("and", t, a, b) = WithBits(t, bits(a) \cap bits(b))
    BY <1>1 DEF IntCalc
  <2>3. bits(a) \cap bits(b) \in SUBSET (0..(w - 1))
    OBVIOUS
  <2> HIDE DEF bits, number, signed
  <2> QED BY <2>1, <2>2, <2>3, <1>2, <1>3
<1>4. CASE f = "or"
  <2>1. JavaCalc("or", t, a, b) = signed(number(bits(a) \cup bits(b)))
    BY DEF JavaCalc
  <2>2. IntCalc("or", t, a, b) = WithBits(t, bits(a) \cup bits(b))
    BY <1>1 DEF IntCalc
  <2>3. bits(a) \cup bits(b) \in SUBSET (0..(w - 1))
    OBVIOUS
  <2> HIDE DEF bits, number, signed
  <2> QED BY <2>1, <2>2, <2>3, <1>2, <1>4
<1>5. CASE f = "xor"
  <2> DEFINE S == (bits(a) \cup bits(b)) \ (bits(a) \cap bits(b))
  <2>1. JavaCalc("xor", t, a, b) = signed(number(S))
    BY DEF JavaCalc
  <2>2. IntCalc("xor", t, a, b) = WithBits(t, SymDiff(bits(a), bits(b)))
    BY <1>1 DEF IntCalc
  <2>3. SymDiff(bits(a), bits(b)) = S
    <3> HIDE DEF bits
    <3> QED BY DEF SymDiff
  <2>4. S \in SUBSET (0..(w - 1))
    OBVIOUS
  <2> HIDE DEF bits, number, signed, S
  <2> QED BY <2>1, <2>2, <2>3, <2>4, <1>2, <1>5
<1> QED BY <1>3, <1>4, <1>5

(* Everywhere else the machine computes what Java says, for ints and longs *)
(* of every width that is a power of two (Interpreter.cpp:664-796).         *)
THEOREM MachineIsJava ==
    ASSUME NEW t \in IntTypes, NEW f \in IntOps, NEW a \in Between(t), NEW b \in Between(t),
           ~Traps(f, t, a, b), ~Refuses(f, a), ~KnownToDiffer(f, t, a, b)
    PROVE  IntCalc(f, t, a, b) = JavaCalc(f, t, a, b)
<1>1. CASE f \in {"add", "sub", "mul"}
  BY <1>1, SumAgrees, DifferenceAgrees, ProductAgrees
<1>2. CASE f = "div"
  BY <1>2, QuotientAgrees
<1>3. CASE f = "rem"
  <2>1. b # 0
    BY <1>3 DEF Traps
  <2> QED BY <1>3, <2>1, RemainderAgrees
<1>4. CASE f = "shl"
  <2>1. a * PowerOf2(Distance(t, b)) \in Between(t) /\ AsDouble(a) = a
    BY <1>4 DEF KnownToDiffer, Between
  <2> QED BY <1>4, <2>1, LeftShiftAgrees
<1>5. CASE f = "shr"
  <2>1. AsDouble(a) = a
    BY <1>5 DEF KnownToDiffer
  <2> QED BY <1>5, <2>1, RightShiftAgrees
<1>6. CASE f = "ushr"
  <2>1. a # 0 /\ (a < 0 => Distance("int", b) = Distance(t, b))
    BY <1>6 DEF Refuses, KnownToDiffer
  <2> QED BY <1>6, <2>1, LogicalShiftAgrees
<1>7. CASE f \in {"and", "or", "xor"}
  BY <1>7, BitwiseAgrees
<1> QED BY <1>1, <1>2, <1>3, <1>4, <1>5, <1>6, <1>7 DEF IntOps, FloatOps

(* Of int operations only left shifts that do not fit are among those      *)
(* known to differ: every int is a double, and an int's shift masks its    *)
(* distance as an int's (Interpreter.cpp:737-796).                         *)
THEOREM IntsDifferInLeftShifts ==
    ASSUME NEW f \in IntOps, NEW a \in Between("int"), NEW b \in Between("int"),
           KnownToDiffer(f, "int", a, b)
    PROVE  f = "shl" /\ a * PowerOf2(Distance("int", b)) \notin Between("int")
<1>1. "int" \in DOMAIN Width /\ "double" \in DOMAIN Mantissa
  BY ValuesAssumption DEF IntTypes
<1> DEFINE w == Width["int"]
           m == Mantissa["double"]
<1>2. w \in Nat \ {0} /\ m \in Nat /\ w - 1 \in Nat /\ w <= m
  BY <1>1, ValuesAssumption
<1>3. PowerOf2(w) <= PowerOf2(m)
  BY <1>2, PowersGrow
<1>4. /\ PowerOf2(w) = 2 * PowerOf2(w - 1) /\ PowerOf2(w - 1) \in Nat \ {0}
      /\ Least("int") = -PowerOf2(w - 1) /\ Greatest("int") = PowerOf2(w - 1) - 1
  BY <1>1, Widths
<1>5. PowerOf2(m) \in Nat
  BY <1>2, PowersDouble
<1> HIDE DEF w, m
<1>6. a \in Int /\ Abs(a) < PowerOf2(m)
  BY <1>3, <1>4, <1>5 DEF Abs, Between
<1>7. AsDouble(a) = a
  BY <1>1, <1>6, ShortNotRounded DEF AsDouble, m
<1> QED BY <1>7 DEF KnownToDiffer, Between

-----------------------------------------------------------------------------
(* Sequences and sets.                                                     *)

\* A sequence of elements of S is one of elements of any larger set.
LEMMA SeqGrows ==
    ASSUME NEW S, NEW T, S \subseteq T, NEW s \in Seq(S)
    PROVE  s \in Seq(T)
BY SeqMonotonic

\* The last element of a sequence is replaced, the others stay.
LEMMA SetLast ==
    ASSUME NEW S, NEW s \in Seq(S), s # <<>>, NEW x \in S
    PROVE  /\ [s EXCEPT ![Len(s)] = x] \in Seq(S)
           /\ Len([s EXCEPT ![Len(s)] = x]) = Len(s)
           /\ [s EXCEPT ![Len(s)] = x][Len(s)] = x
           /\ \A i \in 1..(Len(s) - 1) : [s EXCEPT ![Len(s)] = x][i] = s[i]
OBVIOUS

\* Drop takes elements off the end.
LEMMA Dropped ==
    ASSUME NEW S, NEW s \in Seq(S), NEW k \in Nat
    PROVE  /\ Drop(s, k) \in Seq(S)
           /\ Len(Drop(s, k)) = IF k <= Len(s) THEN Len(s) - k ELSE 0
           /\ \A i \in 1..Len(Drop(s, k)) : Drop(s, k)[i] = s[i] /\ i \in 1..Len(s)
BY DEF Drop

\* What a concatenation has, and where.
LEMMA Concatenated ==
    ASSUME NEW S, NEW s \in Seq(S), NEW t \in Seq(S)
    PROVE  /\ s \o t \in Seq(S)
           /\ Len(s \o t) = Len(s) + Len(t)
           /\ \A i \in 1..Len(s) : (s \o t)[i] = s[i]
           /\ \A i \in (Len(s) + 1)..(Len(s) + Len(t)) : (s \o t)[i] = t[i - Len(s)]
OBVIOUS

(* Of a set of positions that is not empty, the first.                     *)
LEMMA FirstPosition ==
    ASSUME NEW I \in SUBSET Nat, I # {}
    PROVE  Min(I) \in I /\ \A i \in I : Min(I) <= i
<1>1. \E m \in I : \A i \in I : m <= i
  BY Smallest
<1> QED BY <1>1 DEF Min

\* SetToSeq lists a finite set.
LEMMA Listed ==
    ASSUME NEW S, IsFiniteSet(S)
    PROVE  /\ SetToSeq(S) \in Seq(S) /\ ToSet(SetToSeq(S)) = S
           /\ \A x \in S : \E i \in DOMAIN SetToSeq(S) : SetToSeq(S)[i] = x
<1> DEFINE n == Cardinality(S)
<1>1. n \in Nat /\ ExistsBijection(1..n, S)
  BY FS_CardinalityType
<1>2. PICK f \in [1..n -> S] : f \in Bijection(1..n, S)
  BY <1>1 DEF ExistsBijection, Bijection, Injection
<1>3. IsInjective(f)
  BY <1>2 DEF Bijection, Injection, IsInjective
<1> DEFINE s == SetToSeq(S)
<1>4. s \in [1..n -> S] /\ IsInjective(s)
  BY <1>3 DEF SetToSeq
<1> HIDE DEF s
<1>5. s \in Injection(1..n, S)
  BY <1>4 DEF Injection, IsInjective
<1>6. s \in Surjection(1..n, S)
  <2>1. IsFiniteSet(1..n) /\ Cardinality(1..n) = n
    BY <1>1, FS_Interval
  <2> QED BY <1>5, <2>1, FS_Injection
<1>7. \A x \in S : \E i \in 1..n : s[i] = x
  BY <1>6 DEF Surjection
<1>8. s \in Seq(S) /\ DOMAIN s = 1..n
  BY <1>4, <1>1
<1>9. ToSet(s) = S
  BY <1>4, <1>7, <1>8 DEF ToSet
<1> USE DEF s
<1> QED BY <1>7, <1>8, <1>9

\* A sequence has finitely many different elements.
LEMMA FiniteEntries ==
    ASSUME NEW S, NEW s \in Seq(S)
    PROVE  IsFiniteSet(ToSet(s))
<1>1. s \in Surjection(1..Len(s), ToSet(s))
  BY DEF Surjection, ToSet
<1>2. IsFiniteSet(1..Len(s))
  BY FS_Interval
<1> QED BY <1>1, <1>2, FS_Surjection

-----------------------------------------------------------------------------
(* Super-classes.                                                          *)

\* The lineage of a class begins with the class and stays in the program.
LEMMA Lines ==
    ASSUME NEW p, IsFiniteSet(DOMAIN p), NEW c \in DOMAIN p,
           \A d \in DOMAIN p : p[d].super \in DOMAIN p \cup {NoClass}
    PROVE  /\ LineageIn(p, c) \in Seq(DOMAIN p)
           /\ c \in ToSet(LineageIn(p, c))
           /\ ToSet(LineageIn(p, c)) \subseteq DOMAIN p
           /\ IsFiniteSet(ToSet(LineageIn(p, c)))
<1> DEFINE n == Cardinality(DOMAIN p)
           S == {s \in Seq(DOMAIN p) : s # <<>> /\ s[1] = c}
           next(s) == IF p[Last(s)].super = NoClass THEN s ELSE Append(s, p[Last(s)].super)
           g == [i \in 1..n |-> [s \in S |-> next(s)]]
<1>1. n \in Nat
  BY FS_CardinalityType
<1>2. ASSUME NEW s \in S PROVE next(s) \in S
  <2>1. Last(s) \in DOMAIN p
    BY DEF Last
  <2>2. CASE p[Last(s)].super = NoClass
    BY <2>2
  <2>3. CASE p[Last(s)].super # NoClass
    <3>1. p[Last(s)].super \in DOMAIN p
      BY <2>1, <2>3
    <3>2. Append(s, p[Last(s)].super) \in S
      <4> DEFINE x == p[Last(s)].super
      <4> HIDE DEF x
      <4>1. /\ s \in Seq(DOMAIN p) /\ s # <<>> /\ s[1] = c /\ x \in DOMAIN p
        BY <3>1 DEF x
      <4>2. Append(s, x) \in Seq(DOMAIN p) /\ Append(s, x) # <<>> /\ Append(s, x)[1] = c
        BY <4>1
      <4> QED BY <4>2 DEF x
    <3> QED BY <2>3, <3>2
  <2> QED BY <2>2, <2>3
<1>3. g \in [1..n -> [S -> S]] /\ <<c>> \in S
  BY <1>2
<1>4. \A i \in 1..n, s \in S : g[i][s] = next(s)
  OBVIOUS
<1> HIDE DEF g, n
<1>5. PICK q : Steps(q, g, <<c>>, n, S)
  <2> HIDE DEF S
  <2> QED BY <1>1, <1>3, Recursion
<1>6. q \in [0..n -> S] /\ q[0] = <<c>>
  BY <1>5 DEF Steps
<1>7. ASSUME NEW i \in 1..n PROVE q[i] = next(q[i - 1])
  <2>1. i - 1 \in 0..n /\ q[i - 1] \in S
    BY <1>6, <1>1
  <2> HIDE DEF S, next
  <2> QED BY <1>5, <1>4, <2>1 DEF Steps
<1> HIDE DEF S, next
<1>8. q = [i \in 0..n |-> IF i = 0 THEN <<c>> ELSE next(q[i - 1])]
  <2>1. \A i \in 0..n : q[i] = IF i = 0 THEN <<c>> ELSE next(q[i - 1])
    <3> SUFFICES ASSUME NEW i \in 0..n PROVE q[i] = IF i = 0 THEN <<c>> ELSE next(q[i - 1])
      OBVIOUS
    <3>1. CASE i = 0
      BY <3>1, <1>6
    <3>2. CASE i # 0
      <4>1. i \in 1..n
        BY <3>2, <1>1
      <4> QED BY <4>1, <3>2, <1>7
    <3> QED BY <3>1, <3>2
  <2>2. q = [i \in 0..n |-> q[i]]
    BY <1>6
  <2> QED BY <2>1, <2>2
<1> DEFINE up == CHOOSE up : up = [i \in 0..n |-> IF i = 0 THEN <<c>> ELSE next(up[i - 1])]
<1>9. up = [i \in 0..n |-> IF i = 0 THEN <<c>> ELSE next(up[i - 1])]
  BY <1>8
<1>10. LineageIn(p, c) = up[n]
  BY DEF LineageIn, next, n
<1> HIDE DEF up
<1>11. up[0] = <<c>> /\ \A i \in 1..n : up[i] = next(up[i - 1])
  BY <1>9, <1>1
<1>12. up[n] \in S
  <2> DEFINE T == {i \in Nat : i <= n => up[i] \in S}
  <2>1. 0 \in T
    BY <1>11, <1>3
  <2>2. ASSUME NEW i \in Nat, i \in T PROVE i + 1 \in T
    <3>1. SUFFICES ASSUME i + 1 <= n PROVE up[i + 1] \in S
      OBVIOUS
    <3>2. up[i + 1] = next(up[i]) /\ up[i] \in S
      BY <1>11, <1>1, <3>1, <2>2
    <3> QED BY <3>2, <1>2
  <2> HIDE DEF T
  <2>3. \A i \in Nat : i \in T
    BY <2>1, <2>2, Induction
  <2> USE DEF T
  <2> QED BY <2>3, <1>1
<1> DEFINE s == LineageIn(p, c)
<1>13. s \in Seq(DOMAIN p) /\ s # <<>> /\ s[1] = c
  BY <1>10, <1>12 DEF S
<1> HIDE DEF s
<1>14. 1 \in DOMAIN s /\ \A i \in DOMAIN s : s[i] \in DOMAIN p
  BY <1>13
<1>15. c \in ToSet(s) /\ ToSet(s) \subseteq DOMAIN p
  BY <1>13, <1>14 DEF ToSet
<1>16. IsFiniteSet(ToSet(s))
  BY <1>13, FiniteEntries
<1> USE DEF s
<1> QED BY <1>13, <1>15, <1>16

-----------------------------------------------------------------------------
(* Descriptors.                                                            *)

\* Next1In finds the first position there is.
LEMMA FoundIn ==
    ASSUME NEW d \in Seq(STRING), NEW i \in Nat, NEW S, NEW m \in i..Len(d), d[m] \in S
    PROVE  /\ Next1In(d, i, S) \in i..m /\ d[Next1In(d, i, S)] \in S
           /\ \A k \in i..(Next1In(d, i, S) - 1) : d[k] \notin S
<1> DEFINE I == {k \in i..m : d[k] \in S}
<1>1. I \in SUBSET Nat /\ I # {}
  OBVIOUS
<1>2. PICK j \in I : \A k \in I : j <= k
  BY <1>1, Smallest
<1>3. j \in i..Len(d) /\ d[j] \in S /\ \A k \in i..(j - 1) : d[k] \notin S
  BY <1>2
<1> DEFINE f == Next1In(d, i, S)
<1>4. f \in i..Len(d) /\ d[f] \in S /\ \A k \in i..(f - 1) : d[k] \notin S
  BY <1>3 DEF Next1In
<1> HIDE DEF f
<1>5. f <= m
  BY <1>4
<1> USE DEF f
<1> QED BY <1>4, <1>5

\* So does Next1Not.
LEMMA FoundNot ==
    ASSUME NEW d \in Seq(STRING), NEW i \in Nat, NEW c, NEW m \in i..Len(d), d[m] # c
    PROVE  /\ Next1Not(d, i, c) \in i..m /\ d[Next1Not(d, i, c)] # c
           /\ \A k \in i..(Next1Not(d, i, c) - 1) : d[k] = c
<1> DEFINE I == {k \in i..m : d[k] # c}
<1>1. I \in SUBSET Nat /\ I # {}
  OBVIOUS
<1>2. PICK j \in I : \A k \in I : j <= k
  BY <1>1, Smallest
<1>3. j \in i..Len(d) /\ d[j] # c /\ \A k \in i..(j - 1) : d[k] = c
  BY <1>2
<1> DEFINE f == Next1Not(d, i, c)
<1>4. f \in i..Len(d) /\ d[f] # c /\ \A k \in i..(f - 1) : d[k] = c
  BY <1>3 DEF Next1Not
<1> HIDE DEF f
<1>5. f <= m
  BY <1>4
<1> USE DEF f
<1> QED BY <1>4, <1>5

Begins(l) == l \in DOMAIN TypeOfLetter \cup {"[", "L"}

\* The closing parenthesis of a descriptor is the first.
LEMMA Closed ==
    ASSUME NEW d, IsDescriptor(d)
    PROVE  /\ d \in Seq(STRING) /\ Close(d) \in 2..(Len(d) - 1)
           /\ d[1] = "(" /\ d[Close(d)] = ")" /\ \A i \in 1..(Close(d) - 1) : d[i] # ")"
           /\ \A i \in 2..(Close(d) - 1) :
                /\ Begins(d[i]) \/ Inside(d, i)
                /\ d[i] = "[" => ~Inside(d, i) /\ Begins(d[i + 1])
                /\ d[i] = "L" => \E j \in i..(Close(d) - 1) : d[j] = ";"
<1>1. PICK close \in 2..(Len(d) - 1) :
        /\ d[1] = "(" /\ d[close] = ")" /\ \A i \in 1..(close - 1) : d[i] # ")"
        /\ \A i \in 2..(close - 1) :
             /\ Begins(d[i]) \/ Inside(d, i)
             /\ d[i] = "[" => ~Inside(d, i) /\ Begins(d[i + 1])
             /\ d[i] = "L" => \E j \in i..(close - 1) : d[j] = ";"
  BY DEF IsDescriptor, Begins
<1>2. d \in Seq(STRING)
  BY DEF IsDescriptor
<1>a. close \in 2..(Len(d) - 1) /\ Len(d) \in Nat
  BY <1>2
<1>b. d[close] = ")" /\ \A i \in 1..(close - 1) : d[i] # ")"
  BY <1>1
<1> DEFINE c == Close(d)
<1>3. c \in 1..close /\ d[c] = ")"
  <2>1. close \in 1..Len(d) /\ d[close] \in {")"} /\ 1 \in Nat
    BY <1>a, <1>b
  <2> QED BY <2>1, <1>2, FoundIn DEF Close
<1> HIDE DEF c
<1>4. c = close
  BY <1>a, <1>b, <1>3
<1> USE DEF c
<1> QED BY <1>1, <1>2, <1>4

Chained(p, n, S, step, out) ==
  /\ p \in [1..n -> Seq(S)] /\ p[n] = <<>>
  /\ \A i \in 1..(n - 1) : p[i] = out[i] \o p[step[i]]

(* A sequence for each position up to n: what there is at the position,    *)
(* before what there is where to go on.                                    *)
LEMMA Backwards ==
    ASSUME NEW n \in Nat \ {0}, NEW S, NEW step \in [1..(n - 1) -> 1..n],
           \A i \in 1..(n - 1) : i < step[i], NEW out \in [1..(n - 1) -> Seq(S)]
    PROVE  \E p : Chained(p, n, S, step, out)
<1> DEFINE Good(k, p) == /\ p \in [(n - k)..n -> Seq(S)] /\ p[n] = <<>>
                         /\ \A i \in (n - k)..(n - 1) : p[i] = out[i] \o p[step[i]]
           T == {k \in Nat : k < n => \E p : Good(k, p)}
<1>1. 0 \in T
  <2> DEFINE p == [i \in (n - 0)..n |-> <<>>]
  <2>1. p \in [(n - 0)..n -> Seq(S)] /\ p[n] = <<>>
    OBVIOUS
  <2>2. (n - 0)..(n - 1) = {}
    OBVIOUS
  <2> HIDE DEF p
  <2> QED BY <2>1, <2>2
<1>2. ASSUME NEW k \in Nat, k \in T PROVE k + 1 \in T
  <2>1. SUFFICES ASSUME k + 1 < n PROVE \E p : Good(k + 1, p)
    <3> HIDE DEF Good
    <3> QED BY DEF T
  <2>2. PICK p : Good(k, p)
    <3> HIDE DEF Good
    <3> QED BY <1>2, <2>1
  <2> DEFINE m == n - (k + 1)
             q == [i \in m..n |-> IF i = m THEN out[m] \o p[step[m]] ELSE p[i]]
  <2>3. m \in 1..(n - 1) /\ step[m] \in (n - k)..n /\ m + 1 = n - k
    BY <2>1
  <2>4. out[m] \in Seq(S) /\ p[step[m]] \in Seq(S)
    BY <2>2, <2>3
  <2>5. out[m] \o p[step[m]] \in Seq(S)
    BY <2>4, ConcatProperties
  <2>6. q \in [m..n -> Seq(S)]
    BY <2>2, <2>3, <2>5
  <2>7. q[n] = <<>>
    BY <2>2, <2>3
  <2>8. ASSUME NEW i \in m..(n - 1) PROVE q[i] = out[i] \o q[step[i]]
    <3>1. i \in 1..(n - 1) /\ step[i] \in m..n /\ step[i] # m
      BY <2>3
    <3>2. q[step[i]] = p[step[i]]
      BY <3>1
    <3>3. CASE i = m
      <4>1. q[m] = out[m] \o p[step[m]]
        <5>1. m \in m..n
          BY <2>3
        <5> HIDE DEF m
        <5> QED BY <5>1
      <4> HIDE DEF q, m
      <4> QED BY <4>1, <3>2, <3>3
    <3>4. CASE i # m
      <4>1. i \in (n - k)..(n - 1) /\ q[i] = p[i]
        BY <3>4, <2>3
      <4> QED BY <4>1, <3>2, <2>2
    <3> QED BY <3>3, <3>4
  <2> HIDE DEF q
  <2>9. Good(k + 1, q)
    BY <2>6, <2>7, <2>8
  <2> QED BY <2>9
<1> HIDE DEF T
<1>3. n - 1 \in T
  <2>1. \A k \in Nat : k \in T
    BY <1>1, <1>2, Induction
  <2> QED BY <2>1
<1>4. PICK p : Good(n - 1, p)
  <2>1. n - 1 < n
    OBVIOUS
  <2> HIDE DEF Good
  <2> QED BY <1>3, <2>1 DEF T
<1>5. n - (n - 1) = 1
  OBVIOUS
<1> QED BY <1>4, <1>5 DEF Chained

(* What position i gives, and where to go on after it.                     *)
GivenAt(d, i) == CASE d[i] \in DOMAIN TypeOfLetter -> <<TypeOfLetter[d[i]]>>
                   [] d[i] = "["                   -> <<"array">>
                   [] d[i] = "L"                   -> <<"object">>
                   [] OTHER                        -> <<>>

GoOnAt(d, i) == CASE d[i] = "[" -> Next1Not(d, i, "[") + 1
                  [] d[i] = "L" -> Next1In(d, i, {";"}) + 1
                  [] OTHER      -> i + 1

ParamTypes == {"int", "long", "float", "double", "array", "object"}

\* The letters that are types by themselves, and their types.
LEMMA Letters ==
    /\ DOMAIN TypeOfLetter = {"B", "C", "D", "F", "I", "J", "S", "Z"}
    /\ \A l \in DOMAIN TypeOfLetter : TypeOfLetter[l] \in ParamTypes
    /\ {"(", ")", "[", "L", ";"} \cap DOMAIN TypeOfLetter = {}
<1>1. DOMAIN TypeOfLetter = {"B", "C", "D", "F", "I", "J", "S", "Z"}
  BY DEF TypeOfLetter
<1>2. \A l \in {"B", "C", "D", "F", "I", "J", "S", "Z"} :
         TypeOfLetter[l] \in {"int", "long", "float", "double"}
  BY DEF TypeOfLetter
<1>3. {"(", ")", "[", "L", ";"} \cap {"B", "C", "D", "F", "I", "J", "S", "Z"} = {}
  OBVIOUS
<1>5. \A l \in DOMAIN TypeOfLetter : TypeOfLetter[l] \in ParamTypes
  BY <1>1, <1>2 DEF ParamTypes
<1> QED BY <1>1, <1>3, <1>5

\* Before the closing parenthesis there is always a position to go on at.
LEMMA GoesOnBefore ==
    ASSUME NEW d, IsDescriptor(d), NEW i \in 1..(Close(d) - 1)
    PROVE  /\ GivenAt(d, i) \in Seq(ParamTypes)
           /\ GoOnAt(d, i) \in (i + 1)..Close(d)
           /\ d[i] = "[" => /\ Next1Not(d, i, "[") \in i..(Close(d) - 1)
                            /\ d[Next1Not(d, i, "[")] # "["
                            /\ Begins(d[Next1Not(d, i, "[")])
                            /\ \A k \in i..(Next1Not(d, i, "[") - 1) : d[k] = "["
           /\ d[i] = "L" => /\ Next1In(d, i, {";"}) \in i..(Close(d) - 1)
                            /\ d[Next1In(d, i, {";"})] = ";"
                            /\ \A k \in i..(Next1In(d, i, {";"}) - 1) : d[k] # ";"
<1> DEFINE c == Close(d)
<1>1. /\ d \in Seq(STRING) /\ c \in 2..(Len(d) - 1) /\ d[1] = "(" /\ d[c] = ")"
      /\ \A k \in 2..(c - 1) : /\ d[k] = "[" => Begins(d[k + 1])
                               /\ d[k] = "L" => \E j \in k..(c - 1) : d[j] = ";"
  BY Closed
<1>a. d \in Seq(STRING) /\ c \in 2..(Len(d) - 1)
  BY Closed
<1>b. i \in 1..(c - 1)
  OBVIOUS
<1> HIDE DEF c
<1>2. c \in 2..(Len(d) - 1) /\ c \in Nat /\ Len(d) \in Nat /\ i \in 1..(c - 1) /\ i \in Nat
  <2>1. Len(d) \in Nat
    BY <1>a
  <2> QED BY <1>a, <1>b, <2>1
<1>3. GivenAt(d, i) \in Seq(ParamTypes)
  <2>1. CASE d[i] \in DOMAIN TypeOfLetter
    <3>1. TypeOfLetter[d[i]] \in ParamTypes
      BY <2>1, Letters
    <3> DEFINE t == TypeOfLetter[d[i]]
    <3>2. GivenAt(d, i) = <<t>>
      BY <2>1, Letters DEF GivenAt
    <3> HIDE DEF t
    <3> QED BY <3>1, <3>2 DEF t
  <2>2. CASE d[i] \notin DOMAIN TypeOfLetter
    <3>1. GivenAt(d, i) \in {<<"array">>, <<"object">>, <<>>}
      BY <2>2 DEF GivenAt
    <3>2. "array" \in ParamTypes /\ "object" \in ParamTypes
      BY DEF ParamTypes
    <3>3. <<"array">> \in Seq(ParamTypes) /\ <<"object">> \in Seq(ParamTypes)
          /\ <<>> \in Seq(ParamTypes)
      BY <3>2
    <3> QED BY <3>1, <3>3
  <2> QED BY <2>1, <2>2
<1>c. d[1] = "(" /\ d[c] = ")"
  BY <1>1
<1>d. c \in i..Len(d) /\ (i = 1 \/ i \in 2..(c - 1))
  BY <1>2
<1>e. d[i] \in {"[", "L"} => i \in 2..(c - 1)
  BY <1>c, <1>d
<1>4. ASSUME d[i] = "["
      PROVE  LET j == Next1Not(d, i, "[")
             IN /\ j \in i..(c - 1) /\ d[j] # "[" /\ Begins(d[j])
                /\ \A k \in i..(j - 1) : d[k] = "["
  <2> DEFINE j == Next1Not(d, i, "[")
  <2>1. c \in i..Len(d) /\ d[c] # "["
    BY <1>c, <1>d
  <2>2. j \in i..c /\ d[j] # "[" /\ \A k \in i..(j - 1) : d[k] = "["
    BY <1>1, <1>2, <2>1, FoundNot
  <2> HIDE DEF j
  <2>a. j # i /\ i \in 2..(c - 1)
    BY <1>4, <1>e, <2>2
  <2>b. j \in i..c
    BY <2>2
  <2>3. j - 1 \in i..(j - 1) /\ j - 1 \in 2..(c - 1) /\ (j - 1) + 1 = j
    BY <1>2, <2>a, <2>b
  <2>4. Begins(d[j])
    BY <1>1, <2>2, <2>3
  <2>5. j # c
    BY <1>c, <2>4, Letters DEF Begins
  <2>6. j \in i..(c - 1)
    BY <1>2, <2>b, <2>5
  <2> USE DEF j
  <2> QED BY <2>2, <2>4, <2>6
<1>5. ASSUME d[i] = "L"
      PROVE  LET j == Next1In(d, i, {";"})
             IN j \in i..(c - 1) /\ d[j] = ";" /\ \A k \in i..(j - 1) : d[k] # ";"
  <2> DEFINE j == Next1In(d, i, {";"})
  <2>1. i \in 2..(c - 1)
    BY <1>5, <1>e
  <2>2. PICK m \in i..(c - 1) : d[m] = ";"
    BY <1>1, <1>5, <2>1
  <2>3. m \in i..Len(d)
    BY <1>2
  <2>a. d[m] \in {";"}
    BY <2>2
  <2>4. j \in i..m /\ d[j] \in {";"} /\ \A k \in i..(j - 1) : d[k] \notin {";"}
    BY <1>1, <1>2, <2>3, <2>a, FoundIn
  <2> HIDE DEF j
  <2>b. j \in i..m
    BY <2>4
  <2>5. j \in i..(c - 1)
    BY <1>2, <2>b
  <2> USE DEF j
  <2> QED BY <2>4, <2>5
<1>6. GoOnAt(d, i) \in (i + 1)..c
  <2>1. CASE d[i] = "["
    BY <2>1, <1>2, <1>4 DEF GoOnAt
  <2>2. CASE d[i] = "L"
    <3> DEFINE j == Next1In(d, i, {";"})
    <3>1. j \in i..(c - 1)
      BY <2>2, <1>5
    <3>2. GoOnAt(d, i) = j + 1
      BY <2>2 DEF GoOnAt
    <3> HIDE DEF j
    <3> QED BY <1>2, <3>1, <3>2
  <2>3. CASE d[i] # "[" /\ d[i] # "L"
    BY <2>3, <1>2 DEF GoOnAt
  <2> QED BY <2>1, <2>2, <2>3
<1> USE DEF c
<1> QED BY <1>3, <1>4, <1>5, <1>6

\* What peelMethodParameters gives from each position on.
LEMMA PeeledSteps ==
    ASSUME NEW d, IsDescriptor(d)
    PROVE  \E p \in [1..Close(d) -> Seq(ParamTypes)] :
             /\ peelMethodParameters(d) = p[1] /\ p[Close(d)] = <<>>
             /\ \A i \in 1..(Close(d) - 1) : p[i] = GivenAt(d, i) \o p[GoOnAt(d, i)]
<1> DEFINE c == Close(d)
           body(p, i) == CASE d[i] = ")" -> <<>>
                           [] d[i] \in DOMAIN TypeOfLetter -> <<TypeOfLetter[d[i]]>> \o p[i + 1]
                           [] d[i] = "[" -> <<"array">> \o p[Next1Not(d, i, "[") + 1]
                           [] d[i] = "L" -> <<"object">> \o p[Next1In(d, i, {";"}) + 1]
                           [] OTHER -> p[i + 1]
           Meets(p) == /\ p \in [1..c -> Seq(ParamTypes)] /\ p[c] = <<>>
                       /\ \A i \in 1..(c - 1) : p[i] = GivenAt(d, i) \o p[GoOnAt(d, i)]
           step == [i \in 1..(c - 1) |-> GoOnAt(d, i)]
           out == [i \in 1..(c - 1) |-> GivenAt(d, i)]
<1>a. /\ d \in Seq(STRING) /\ c \in 2..(Len(d) - 1)
      /\ d[c] = ")" /\ \A i \in 1..(c - 1) : d[i] # ")"
  BY Closed
<1>b. c \in 2..(Len(d) - 1) /\ Len(d) \in Nat
  BY <1>a
<1> HIDE DEF c
<1>c. c \in Nat \ {0} /\ c \in 1..c /\ 1 \in 1..c
  BY <1>b
<1>1. c \in Nat \ {0} /\ c \in 1..c /\ 1 \in 1..c /\ d[c] = ")" /\ \A i \in 1..(c - 1) : d[i] # ")"
  BY <1>a, <1>c
<1> USE DEF c
<1>2. \A i \in 1..(c - 1) : GivenAt(d, i) \in Seq(ParamTypes) /\ GoOnAt(d, i) \in (i + 1)..c
  BY GoesOnBefore
<1> HIDE DEF c
<1>3. step \in [1..(c - 1) -> 1..c] /\ out \in [1..(c - 1) -> Seq(ParamTypes)]
      /\ \A i \in 1..(c - 1) : i < step[i]
  BY <1>1, <1>2
<1>4. \A i \in 1..(c - 1) : step[i] = GoOnAt(d, i) /\ out[i] = GivenAt(d, i)
  OBVIOUS
<1> HIDE DEF step, out
<1>5. \E p : Meets(p)
  <2>1. PICK p \in [1..c -> Seq(ParamTypes)] :
          p[c] = <<>> /\ \A i \in 1..(c - 1) : p[i] = out[i] \o p[step[i]]
    <3> DEFINE S == ParamTypes
    <3>1. step \in [1..(c - 1) -> 1..c]
      BY <1>3
    <3>a. out \in [1..(c - 1) -> Seq(S)]
      BY <1>3
    <3>b. \A i \in 1..(c - 1) : i < step[i]
      BY <1>3
    <3>2. c \in Nat \ {0}
      BY <1>c
    <3> HIDE DEF S, c
    <3>3. \E p : Chained(p, c, S, step, out)
      BY <3>1, <3>2, <3>a, <3>b, Backwards
    <3> QED BY <3>3 DEF S, Chained
  <2>2. Meets(p)
    BY <2>1, <1>4
  <2> QED BY <2>2
<1>6. ASSUME NEW p, NEW i \in 1..(c - 1), GivenAt(d, i) = <<>> => p[i + 1] \in Seq(ParamTypes)
      PROVE  body(p, i) = GivenAt(d, i) \o p[GoOnAt(d, i)]
  <2>0. d[i] # ")"
    BY <1>1
  <2>1. CASE d[i] \in DOMAIN TypeOfLetter
    BY <2>0, <2>1, Letters DEF GivenAt, GoOnAt
  <2>2. CASE d[i] = "["
    BY <2>0, <2>2, Letters DEF GivenAt, GoOnAt
  <2>3. CASE d[i] = "L"
    BY <2>0, <2>3, Letters DEF GivenAt, GoOnAt
  <2>4. CASE d[i] \notin DOMAIN TypeOfLetter /\ d[i] # "[" /\ d[i] # "L"
    <3>1. GivenAt(d, i) = <<>> /\ GoOnAt(d, i) = i + 1
      BY <2>4 DEF GivenAt, GoOnAt
    <3>2. body(p, i) = p[i + 1]
      BY <2>0, <2>4
    <3>3. p[i + 1] \in Seq(ParamTypes)
      BY <3>1, <1>6
    <3> DEFINE s == p[i + 1]
    <3>4. <<>> \o s = s
      BY <3>3
    <3> QED BY <3>1, <3>2, <3>4
  <2> QED BY <2>1, <2>2, <2>3, <2>4
<1>7. ASSUME NEW p PROVE body(p, c) = <<>>
  <2>1. d[c] = ")" /\ ")" \notin DOMAIN TypeOfLetter
    BY <1>1, Letters
  <2> QED BY <2>1
<1> DEFINE q == CHOOSE q : q = [i \in 1..c |-> body(q, i)]
<1>8. PICK p : Meets(p)
  BY <1>5
<1>9. ASSUME NEW i \in 1..(c - 1)
      PROVE  body(p, i) = p[i]
  <2>1. GivenAt(d, i) = <<>> => p[i + 1] \in Seq(ParamTypes)
    BY <1>1, <1>8
  <2>2. body(p, i) = GivenAt(d, i) \o p[GoOnAt(d, i)]
    BY <1>6, <2>1
  <2> HIDE DEF body
  <2> QED BY <2>2, <1>8
<1>10. p = [i \in 1..c |-> body(p, i)]
  <2>1. \A i \in 1..c : i = c \/ i \in 1..(c - 1)
    BY <1>1
  <2>2. body(p, c) = p[c]
    BY <1>7, <1>8
  <2> HIDE DEF body
  <2>3. \A i \in 1..c : body(p, i) = p[i]
    BY <1>9, <2>1, <2>2
  <2> QED BY <1>8, <2>3
<1>11. q = [i \in 1..c |-> body(q, i)]
  <2> HIDE DEF body
  <2> QED BY <1>10
<1>12. peelMethodParameters(d) = q[1]
  BY DEF peelMethodParameters, PeeledFrom, c
<1> HIDE DEF q
<1>13. q[c] = p[c]
  <2>1. q[c] = body(q, c)
    <3> HIDE DEF body
    <3> QED BY <1>1, <1>11
  <2> HIDE DEF body
  <2> QED BY <2>1, <1>7, <1>8
<1> DEFINE T == {k \in Nat : k < c => \A j \in (c - k)..c : q[j] = p[j]}
<1>14. 0 \in T
  BY <1>1, <1>13
<1>15. ASSUME NEW k \in Nat, k \in T PROVE k + 1 \in T
  <2> SUFFICES ASSUME k + 1 < c PROVE \A j \in (c - (k + 1))..c : q[j] = p[j]
    OBVIOUS
  <2>1. \A j \in (c - k)..c : q[j] = p[j]
    BY <1>1, <1>15
  <2> DEFINE i == c - (k + 1)
  <2>2. i \in 1..(c - 1) /\ i \in 1..c /\ i + 1 \in (c - k)..c /\ i + 1 \in 1..c
        /\ \A j \in i..c : j = i \/ j \in (c - k)..c
    BY <1>1
  <2>3. GoOnAt(d, i) \in (c - k)..c
    BY <1>1, <1>2, <2>2
  <2> HIDE DEF i
  <2>4. q[i] = body(q, i)
    <3> HIDE DEF body
    <3> QED BY <1>11, <2>2
  <2>5. q[i + 1] \in Seq(ParamTypes)
    BY <1>8, <2>1, <2>2
  <2>6. body(q, i) = GivenAt(d, i) \o q[GoOnAt(d, i)]
    <3> HIDE DEF body
    <3> QED BY <1>6, <2>2, <2>5
  <2>7. q[i] = p[i]
    <3> HIDE DEF body
    <3> QED BY <1>8, <2>1, <2>2, <2>3, <2>4, <2>6
  <2> QED BY <2>1, <2>2, <2>7 DEF i
<1> HIDE DEF T
<1>16. c - 1 \in T
  <2>1. \A k \in Nat : k \in T
    BY <1>14, <1>15, Induction
  <2> QED BY <2>1, <1>1
<1>17. q[1] = p[1]
  BY <1>1, <1>16 DEF T
<1> HIDE DEF body
<1> USE DEF c
<1> QED BY <1>8, <1>12, <1>17

\* They are types of parameters, whatever the descriptor.
LEMMA PeeledTypes ==
    ASSUME NEW d, IsDescriptor(d)
    PROVE  peelMethodParameters(d) \in Seq(ParamTypes)
<1>1. PICK p \in [1..Close(d) -> Seq(ParamTypes)] : peelMethodParameters(d) = p[1]
  BY PeeledSteps
<1>2. Close(d) \in 2..(Len(d) - 1) /\ d \in Seq(STRING)
  BY Closed
<1>3. Close(d) \in 2..(Len(d) - 1) /\ Len(d) \in Nat
  BY <1>2
<1>4. 1 \in 1..Close(d)
  BY <1>3
<1> QED BY <1>1, <1>4

\* Inside a name ends at the semicolon, and begins at its L.
LEMMA InsideOn ==
    ASSUME NEW d, NEW i \in Nat \ {0}
    PROVE  /\ d[i] = ";" => ~Inside(d, i + 1)
           /\ d[i] \notin {"L", ";"} => (Inside(d, i + 1) <=> Inside(d, i))
           /\ d[i] = "L" => Inside(d, i + 1)
<1>1. ASSUME d[i] = ";", Inside(d, i + 1) PROVE FALSE
  <2>1. PICK k \in 1..((i + 1) - 1) : d[k] = "L" /\ \A j \in k..((i + 1) - 1) : d[j] # ";"
    BY <1>1 DEF Inside
  <2>2. i \in k..((i + 1) - 1)
    OBVIOUS
  <2> QED BY <1>1, <2>1, <2>2
<1>2. ASSUME d[i] \notin {"L", ";"} PROVE Inside(d, i + 1) <=> Inside(d, i)
  <2>1. ASSUME Inside(d, i + 1) PROVE Inside(d, i)
    <3>1. PICK k \in 1..((i + 1) - 1) : d[k] = "L" /\ \A j \in k..((i + 1) - 1) : d[j] # ";"
      BY <2>1 DEF Inside
    <3>2. k # i
      BY <3>1, <1>2
    <3>3. k \in 1..(i - 1) /\ \A j \in k..(i - 1) : j \in k..((i + 1) - 1)
      BY <3>2
    <3> QED BY <3>1, <3>3 DEF Inside
  <2>2. ASSUME Inside(d, i) PROVE Inside(d, i + 1)
    <3>1. PICK k \in 1..(i - 1) : d[k] = "L" /\ \A j \in k..(i - 1) : d[j] # ";"
      BY <2>2 DEF Inside
    <3>2. k \in 1..((i + 1) - 1) /\ \A j \in k..((i + 1) - 1) : j = i \/ j \in k..(i - 1)
      OBVIOUS
    <3> QED BY <3>1, <3>2, <1>2 DEF Inside
  <2> QED BY <2>1, <2>2
<1>3. ASSUME d[i] = "L" PROVE Inside(d, i + 1)
  <2>1. i \in 1..((i + 1) - 1) /\ \A j \in i..((i + 1) - 1) : j = i
    OBVIOUS
  <2> QED BY <2>1, <1>3 DEF Inside
<1> QED BY <1>1, <1>2, <1>3

\* A position outside names has something a type begins with, or the parenthesis.
LEMMA BeginsThere ==
    ASSUME NEW d, IsDescriptor(d), NEW i \in 2..Close(d), ~Inside(d, i), d[i - 1] # "["
    PROVE  i \in Beginnings(d) \cup {Close(d)}
<1> DEFINE c == Close(d)
<1>1. d \in Seq(STRING) /\ c \in 2..(Len(d) - 1)
  BY Closed
<1>2. \A k \in 2..(c - 1) : Begins(d[k]) \/ Inside(d, k)
  BY Closed
<1> HIDE DEF c
<1>3. c \in Nat /\ i \in 2..c
  <2>1. Len(d) \in Nat
    BY <1>1
  <2> QED BY <1>1, <2>1 DEF c
<1>4. ASSUME i # c PROVE i \in Beginnings(d)
  <2>1. i \in 2..(c - 1)
    BY <1>3, <1>4
  <2>2. d[i] # ";"
    BY <1>2, <2>1, Letters DEF Begins
  <2> QED BY <2>1, <2>2 DEF Beginnings, c
<1> QED BY <1>4 DEF c

(* From where a type begins, parsing gives the type and goes on where the  *)
(* next begins, or at the parenthesis.                                     *)
LEMMA NextBegins ==
    ASSUME NEW d, IsDescriptor(d), ~HasArrayOfClass(d), NEW i \in Beginnings(d)
    PROVE  /\ GivenAt(d, i) = <<TypeAt(d, i)>>
           /\ GoOnAt(d, i) \in Beginnings(d) \cup {Close(d)}
           /\ GoOnAt(d, i) \in (i + 1)..Close(d)
           /\ \A j \in (i + 1)..(GoOnAt(d, i) - 1) : j \notin Beginnings(d)
<1> DEFINE c == Close(d)
           n == GoOnAt(d, i)
<1>1. d \in Seq(STRING) /\ c \in 2..(Len(d) - 1)
  BY Closed
<1>2. i \in 2..(c - 1) /\ ~Inside(d, i) /\ d[i] # ";"
  BY DEF Beginnings
<1>3. Begins(d[i])
  BY <1>2, Closed
<1>4. c \in Nat /\ i \in Nat \ {0} /\ i \in 1..(c - 1) /\ Len(d) \in Nat
  <2>1. Len(d) \in Nat
    BY <1>1
  <2>2. c \in 2..(Len(d) - 1) /\ i \in 2..(c - 1)
    BY <1>1, <1>2
  <2> HIDE DEF c
  <2> QED BY <2>1, <2>2
<1>5. n \in (i + 1)..c
  BY <1>4, GoesOnBefore
<1>6. GivenAt(d, i) = <<TypeAt(d, i)>>
  BY <1>3, Letters DEF GivenAt, TypeAt, Begins
<1>7. n \in 2..c
  <2> HIDE DEF n, c
  <2> QED BY <1>4, <1>5
<1>8. CASE d[i] \in DOMAIN TypeOfLetter
  <2>1. n = i + 1
    BY <1>8, Letters DEF GoOnAt
  <2>2. ~Inside(d, i + 1)
    BY <1>2, <1>4, <1>8, InsideOn, Letters
  <2>3. d[(i + 1) - 1] # "["
    BY <1>4, <1>8, Letters
  <2>4. n \in Beginnings(d) \cup {c}
    <3> HIDE DEF n
    <3> QED BY <1>7, <2>1, <2>2, <2>3, BeginsThere
  <2>5. (i + 1)..(n - 1) = {}
    BY <2>1, <1>4
  <2> QED BY <1>5, <1>6, <2>4, <2>5
<1>9. CASE d[i] = "["
  <2> DEFINE j == Next1Not(d, i, "[")
  <2>1. /\ j \in i..(c - 1) /\ d[j] # "[" /\ Begins(d[j]) /\ \A k \in i..(j - 1) : d[k] = "["
    BY <1>4, <1>9, GoesOnBefore
  <2>2. n = j + 1
    BY <1>9 DEF GoOnAt
  <2> HIDE DEF j, n, c
  <2>3. j \in Nat /\ j # i /\ j \in (i + 1)..(c - 1) /\ j - 1 \in i..(j - 1) /\ j \in 2..Len(d)
    BY <1>1, <1>4, <1>9, <2>1
  <2>4. d[j] # "L"
    BY <2>1, <2>3 DEF HasArrayOfClass
  <2>5. d[j] \in DOMAIN TypeOfLetter
    BY <2>1, <2>4 DEF Begins
  <2> DEFINE T == {k \in Nat : i + k <= j => ~Inside(d, i + k)}
  <2>6. 0 \in T
    <3>1. i + 0 = i
      BY <1>4
    <3> QED BY <1>2, <3>1
  <2>7. ASSUME NEW k \in Nat, k \in T PROVE k + 1 \in T
    <3> SUFFICES ASSUME i + (k + 1) <= j PROVE ~Inside(d, i + (k + 1))
      OBVIOUS
    <3>1. i + k \in i..(j - 1) /\ i + (k + 1) = (i + k) + 1 /\ i + k \in Nat \ {0}
      BY <1>4, <2>3
    <3>2. ~Inside(d, i + k) /\ d[i + k] = "["
      BY <2>1, <2>7, <3>1
    <3> QED BY <3>1, <3>2, InsideOn
  <2> HIDE DEF T
  <2>8. j - i \in T
    <3>1. \A k \in Nat : k \in T
      BY <2>6, <2>7, Induction
    <3> QED BY <3>1, <1>4, <2>3
  <2>9. ~Inside(d, j)
    BY <1>4, <2>3, <2>8 DEF T
  <2>10. ~Inside(d, j + 1)
    <3>1. d[j] \notin {"L", ";"}
      BY <2>5, Letters
    <3>2. j \in Nat \ {0}
      BY <2>3, <1>4
    <3> QED BY <2>9, <3>1, <3>2, InsideOn
  <2>11. n - 1 = j
    BY <2>2, <2>3
  <2>12. n \in Beginnings(d) \cup {c}
    BY <1>7, <2>1, <2>2, <2>10, <2>11, BeginsThere DEF c
  <2>13. ASSUME NEW k \in (i + 1)..(n - 1) PROVE k \notin Beginnings(d)
    <3>1. k - 1 \in i..(j - 1)
      BY <1>4, <2>3, <2>11
    <3> QED BY <2>1, <3>1 DEF Beginnings
  <2> QED BY <1>5, <1>6, <2>12, <2>13 DEF n, c
<1>10. CASE d[i] = "L"
  <2> DEFINE j == Next1In(d, i, {";"})
  <2>1. /\ j \in i..(c - 1) /\ d[j] = ";" /\ \A k \in i..(j - 1) : d[k] # ";"
    BY <1>4, <1>10, GoesOnBefore
  <2>2. n = j + 1
    BY <1>10 DEF GoOnAt
  <2> HIDE DEF j, n, c
  <2>3. j \in Nat \ {0} /\ n - 1 = j
    <3>1. j \in i..(c - 1)
      BY <2>1
    <3> QED BY <1>4, <2>2, <3>1
  <2>4. ~Inside(d, j + 1)
    BY <2>1, <2>3, InsideOn
  <2>5. n \in Beginnings(d) \cup {c}
    BY <1>7, <2>1, <2>2, <2>3, <2>4, BeginsThere DEF c
  <2>6. ASSUME NEW k \in (i + 1)..(n - 1) PROVE Inside(d, k)
    <3>1. i \in 1..(k - 1) /\ \A m \in i..(k - 1) : m \in i..(j - 1)
      BY <1>4, <2>3
    <3> QED BY <1>10, <2>1, <3>1 DEF Inside
  <2>7. \A k \in (i + 1)..(n - 1) : k \notin Beginnings(d)
    BY <2>6 DEF Beginnings
  <2> QED BY <1>5, <1>6, <2>5, <2>7 DEF n, c
<1> QED BY <1>3, <1>8, <1>9, <1>10 DEF Begins

\* The first type begins after the opening parenthesis.
LEMMA FirstBegins ==
    ASSUME NEW d, IsDescriptor(d)
    PROVE  /\ GivenAt(d, 1) = <<>> /\ GoOnAt(d, 1) = 2
           /\ 2 \in Beginnings(d) \cup {Close(d)} /\ 2 <= Close(d)
<1>1. d \in Seq(STRING) /\ Close(d) \in 2..(Len(d) - 1) /\ d[1] = "("
  BY Closed
<1>2. Close(d) \in Nat /\ 2 \in 2..Close(d) /\ 2 <= Close(d)
  <2>1. Len(d) \in Nat
    BY <1>1
  <2> QED BY <1>1, <2>1
<1>3. GivenAt(d, 1) = <<>> /\ GoOnAt(d, 1) = 2
  BY <1>1, Letters DEF GivenAt, GoOnAt
<1>4. ~Inside(d, 2)
  <2>1. \A k \in 1..(2 - 1) : k = 1
    OBVIOUS
  <2> QED BY <1>1, <2>1 DEF Inside
<1>5. d[2 - 1] # "["
  <2>1. 2 - 1 = 1
    OBVIOUS
  <2> QED BY <1>1, <2>1
<1> QED BY <1>2, <1>3, <1>4, <1>5, BeginsThere

(* How many types have begun at position i.                                *)
Begun(d, i) == Cardinality({j \in Beginnings(d) : j <= i})

\* No more types have begun anywhere than begin at all.
LEMMA BegunCounts ==
    ASSUME NEW d, IsDescriptor(d)
    PROVE  /\ IsFiniteSet(Beginnings(d)) /\ Cardinality(Beginnings(d)) \in Nat
           /\ Beginnings(d) \subseteq 2..(Close(d) - 1) /\ Close(d) \in Nat
           /\ \A i \in Nat : Begun(d, i) \in 0..Cardinality(Beginnings(d))
<1> DEFINE B == Beginnings(d)
           c == Close(d)
<1>1. c \in 2..(Len(d) - 1) /\ d \in Seq(STRING)
  BY Closed
<1>2. c \in Nat
  <2>1. Len(d) \in Nat
    BY <1>1
  <2> HIDE DEF c
  <2> QED BY <1>1, <2>1
<1>3. B \subseteq 2..(c - 1)
  BY DEF Beginnings
<1> HIDE DEF B, c
<1>4. IsFiniteSet(2..(c - 1))
  BY <1>2, FS_Interval
<1>5. IsFiniteSet(B)
  BY <1>3, <1>4, FS_Subset
<1>6. Cardinality(B) \in Nat
  BY <1>5, FS_CardinalityType
<1>7. ASSUME NEW i \in Nat PROVE Cardinality({j \in B : j <= i}) \in 0..Cardinality(B)
  <2> DEFINE S == {j \in B : j <= i}
  <2>1. S \subseteq B
    OBVIOUS
  <2> HIDE DEF S
  <2>2. IsFiniteSet(S) /\ Cardinality(S) <= Cardinality(B)
    BY <1>5, <2>1, FS_Subset
  <2>3. Cardinality(S) \in Nat
    BY <2>2, FS_CardinalityType
  <2>4. Cardinality(S) \in 0..Cardinality(B)
    BY <1>6, <2>2, <2>3
  <2> QED BY <2>4 DEF S
<1> QED BY <1>2, <1>3, <1>5, <1>6, <1>7 DEF B, c, Begun

\* One more has begun where the next one begins.
LEMMA BegunNext ==
    ASSUME NEW d, IsDescriptor(d), NEW i \in Nat, NEW n \in Beginnings(d), i < n,
           \A j \in (i + 1)..(n - 1) : j \notin Beginnings(d)
    PROVE  Begun(d, n) = Begun(d, i) + 1
<1> DEFINE B == Beginnings(d)
           S == {j \in B : j <= i}
<1>1. IsFiniteSet(B) /\ B \subseteq 2..(Close(d) - 1) /\ Close(d) \in Nat
  BY BegunCounts
<1>2. \A j \in B : j \in Nat
  BY <1>1
<1> HIDE DEF B
<1>3. n \in B /\ \A j \in (i + 1)..(n - 1) : j \notin B
  BY DEF B
<1>4. {j \in B : j <= n} = S \cup {n} /\ n \notin S
  BY <1>2, <1>3
<1>5. IsFiniteSet(S)
  <2>1. S \subseteq B
    OBVIOUS
  <2> HIDE DEF S
  <2> QED BY <1>1, <2>1, FS_Subset DEF B
<1> HIDE DEF S
<1>6. Cardinality(S \cup {n}) = Cardinality(S) + 1
  BY <1>4, <1>5, FS_AddElement
<1> QED BY <1>4, <1>6 DEF Begun, B, S

\* No two types begin as the k-th.
LEMMA BegunOnce ==
    ASSUME NEW d, IsDescriptor(d), NEW i \in Beginnings(d), NEW j \in Beginnings(d),
           Begun(d, i) = Begun(d, j)
    PROVE  i = j
<1> DEFINE B == Beginnings(d)
<1>1. IsFiniteSet(B) /\ B \subseteq 2..(Close(d) - 1) /\ Close(d) \in Nat
  BY BegunCounts
<1>2. \A k \in B : k \in Nat
  BY <1>1
<1> HIDE DEF B
<1>3. ASSUME NEW x \in B, NEW y \in B, x < y
      PROVE  Begun(d, x) # Begun(d, y)
  <2> DEFINE S == {k \in B : k <= x}
             T == {k \in B : k <= y}
  <2>1. S \subseteq T /\ y \in T /\ y \notin S /\ T \subseteq B
    BY <1>2, <1>3
  <2> HIDE DEF S, T
  <2>2. IsFiniteSet(T)
    BY <1>1, <2>1, FS_Subset DEF B
  <2>3. IsFiniteSet(S) /\ (Cardinality(S) = Cardinality(T) => S = T)
    BY <2>1, <2>2, FS_Subset
  <2>4. Cardinality(S) # Cardinality(T)
    BY <2>1, <2>3
  <2> QED BY <2>4 DEF S, T, Begun, B
<1>4. i \in Nat /\ j \in Nat /\ i \in B /\ j \in B
  BY <1>2 DEF B
<1>5. i < j \/ j < i \/ i = j
  BY <1>4
<1> QED BY <1>3, <1>4, <1>5

\* The type that Declared has for a position.
LEMMA DeclaredAt ==
    ASSUME NEW d, IsDescriptor(d)
    PROVE  /\ DOMAIN Declared(d) = 1..Cardinality(Beginnings(d))
           /\ \A i \in Beginnings(d) :
                Begun(d, i) \in DOMAIN Declared(d) => Declared(d)[Begun(d, i)] = TypeAt(d, i)
<1>1. DOMAIN Declared(d) = 1..Cardinality(Beginnings(d))
  BY DEF Declared
<1>2. ASSUME NEW i \in Beginnings(d), Begun(d, i) \in DOMAIN Declared(d)
      PROVE  Declared(d)[Begun(d, i)] = TypeAt(d, i)
  <2> DEFINE k == Begun(d, i)
             at == CHOOSE j \in Beginnings(d) : Begun(d, j) = k
  <2>1. Declared(d)[k] = TypeAt(d, at)
    BY <1>1, <1>2 DEF Declared, Begun
  <2>2. at \in Beginnings(d) /\ Begun(d, at) = k
    OBVIOUS
  <2> HIDE DEF at
  <2>3. at = i
    BY <2>2, BegunOnce
  <2> QED BY <2>1, <2>3
<1> QED BY <1>1, <1>2

From(D, b, N) == [k \in 1..(N - b) |-> D[k + b]]

\* One value before the rest of a sequence.
LEMMA BeforeRest ==
    ASSUME NEW S, NEW D, NEW N \in Nat, NEW b \in Nat, b < N, \A k \in 1..N : D[k] \in S
    PROVE  <<D[b + 1]>> \o From(D, b + 1, N) = From(D, b, N)
<1> DEFINE s == <<D[b + 1]>>
           t == [k \in 1..(N - (b + 1)) |-> D[k + (b + 1)]]
           u == [k \in 1..(N - b) |-> D[k + b]]
<1>1. N - (b + 1) \in Nat /\ N - b \in Nat
  OBVIOUS
<1>2. \A k \in 1..(N - (b + 1)) : k + (b + 1) \in 1..N
  OBVIOUS
<1>3. \A k \in 1..(N - b) : k + b \in 1..N
  OBVIOUS
<1>4. s \in Seq(S) /\ t \in Seq(S) /\ u \in Seq(S)
  <2>1. D[b + 1] \in S
    OBVIOUS
  <2>2. s \in Seq(S)
    BY <2>1
  <2>3. t \in Seq(S)
    BY <1>1, <1>2, IsASeq
  <2>4. u \in Seq(S)
    BY <1>1, <1>3, IsASeq
  <2> QED BY <2>2, <2>3, <2>4
<1>5. Len(s) = 1 /\ s[1] = D[b + 1]
  OBVIOUS
<1>6. Len(t) = N - (b + 1) /\ \A k \in 1..(N - (b + 1)) : t[k] = D[k + (b + 1)]
  BY <1>1, <1>4
<1>7. Len(u) = N - b /\ \A k \in 1..(N - b) : u[k] = D[k + b]
  BY <1>1, <1>4
<1> HIDE DEF s, t, u
<1> DEFINE w == s \o t
<1>8. /\ w \in Seq(S) /\ Len(w) = Len(s) + Len(t)
      /\ \A i \in 1..Len(s) : w[i] = s[i]
      /\ \A i \in (Len(s) + 1)..(Len(s) + Len(t)) : w[i] = t[i - Len(s)]
  BY <1>4, Concatenated
<1> HIDE DEF w
<1>9. Len(w) = N - b
  BY <1>5, <1>6, <1>8
<1>10. ASSUME NEW i \in 1..(N - b) PROVE w[i] = u[i]
  <2>1. CASE i = 1
    <3>1. w[1] = D[b + 1] /\ u[1] = D[1 + b] /\ 1 + b = b + 1
      BY <1>5, <1>7, <1>8
    <3> QED BY <2>1, <3>1
  <2>2. CASE i # 1
    <3>1. i \in (Len(s) + 1)..(Len(s) + Len(t)) /\ i - Len(s) = i - 1
          /\ i - 1 \in 1..(N - (b + 1)) /\ (i - 1) + (b + 1) = i + b
      BY <1>5, <1>6, <2>2
    <3>2. w[i] = t[i - 1] /\ t[i - 1] = D[(i - 1) + (b + 1)]
      BY <1>6, <1>8, <3>1
    <3> QED BY <1>7, <3>1, <3>2
  <2> QED BY <2>1, <2>2
<1>11. w = u
  BY <1>4, <1>7, <1>8, <1>9, <1>10, SeqEqual
<1> QED BY <1>11 DEF w, s, t, u, From

(* Parsing a descriptor gives the types that it declares for parameters,   *)
(* in their order, if none is an array of a class (Utils.cpp:140-191).     *)
THEOREM PeeledAsDeclared ==
    ASSUME NEW d, IsDescriptor(d), ~HasArrayOfClass(d)
    PROVE  peelMethodParameters(d) = Declared(d)
<1> DEFINE c == Close(d)
           B == Beginnings(d)
           N == Cardinality(B)
           D == Declared(d)
           Meets(p) == /\ p \in [1..c -> Seq(ParamTypes)]
                       /\ peelMethodParameters(d) = p[1] /\ p[c] = <<>>
                       /\ \A i \in 1..(c - 1) : p[i] = GivenAt(d, i) \o p[GoOnAt(d, i)]
<1>1. PICK p : Meets(p)
  BY PeeledSteps
<1>2. N \in Nat /\ B \subseteq 2..(c - 1) /\ c \in Nat /\ \A i \in Nat : Begun(d, i) \in 0..N
  BY BegunCounts
<1>3. DOMAIN D = 1..N /\ \A i \in B : Begun(d, i) \in DOMAIN D => D[Begun(d, i)] = TypeAt(d, i)
  BY DeclaredAt
\* From a beginning on, the types that have not begun before it.
<1> DEFINE Rest(i) == From(D, Begun(d, i - 1), N)
           T == {k \in Nat : \A i \in (c - k)..c : i \in B \cup {c} => p[i] = Rest(i)}
<1>4. Begun(d, 1) = 0
  <2>1. {j \in B : j <= 1} = {}
    BY <1>2
  <2> QED BY <2>1, FS_EmptySet DEF Begun
<1>5. Begun(d, c - 1) = N
  <2>1. {j \in B : j <= c - 1} = B
    BY <1>2
  <2> QED BY <2>1 DEF Begun
<1>a. \A i \in 1..(c - 1) : GivenAt(d, i) \in Seq(ParamTypes)
  BY GoesOnBefore
<1>b. ASSUME NEW i \in B
      PROVE  /\ GivenAt(d, i) = <<TypeAt(d, i)>>
             /\ GoOnAt(d, i) \in B \cup {c} /\ GoOnAt(d, i) \in (i + 1)..c
             /\ \A j \in (i + 1)..(GoOnAt(d, i) - 1) : j \notin B
  BY NextBegins
<1>c. GivenAt(d, 1) = <<>> /\ GoOnAt(d, 1) = 2 /\ 2 \in B \cup {c} /\ 2 <= c
  BY FirstBegins
<1>d. \A i \in Nat, n \in B :
        i < n /\ (\A j \in (i + 1)..(n - 1) : j \notin B) => Begun(d, n) = Begun(d, i) + 1
  BY BegunNext
<1>e. \A i : Begun(d, i) = Cardinality({j \in B : j <= i})
  BY DEF Begun
<1> HIDE DEF B, N, D, c
<1>7. Rest(c) = <<>>
  BY <1>2, <1>5 DEF From
<1>8. ASSUME NEW i \in B, p[GoOnAt(d, i)] = Rest(GoOnAt(d, i))
      PROVE  p[i] = Rest(i)
  <2> DEFINE m == GoOnAt(d, i)
             b == Begun(d, i - 1)
  <2>1. m \in (i + 1)..c /\ \A j \in (i + 1)..(m - 1) : j \notin B
    BY <1>b
  <2>2. i \in 2..(c - 1) /\ i \in 1..(c - 1) /\ i - 1 \in Nat /\ i \in Nat
    BY <1>2
  <2>3. p[i] = <<TypeAt(d, i)>> \o p[m]
    BY <1>1, <1>b, <2>2
  <2>4. Begun(d, i) = b + 1
    <3>1. i - 1 < i /\ ((i - 1) + 1)..(i - 1) = {}
      BY <2>2
    <3> QED BY <1>d, <2>2, <3>1
  <2> HIDE DEF m
  <2>5. Begun(d, m - 1) = b + 1
    <3>1. ASSUME NEW j \in B PROVE j <= m - 1 <=> j <= i
      <4>1. j \in Nat /\ m \in Nat /\ i < m
        BY <1>2, <2>1, <2>2
      <4>2. ~(i < j /\ j <= m - 1)
        BY <2>1, <2>2, <4>1
      <4> QED BY <2>2, <4>1, <4>2
    <3>2. {j \in B : j <= m - 1} = {j \in B : j <= i}
      BY <3>1
    <3> QED BY <1>e, <2>4, <3>2
  <2>6. b \in Nat /\ b + 1 \in 1..N
    BY <1>2, <2>2, <2>4
  <2>7. D[b + 1] = TypeAt(d, i)
    BY <1>3, <2>4, <2>6
  <2>8. p[m] = From(D, b + 1, N)
    BY <1>8, <2>5 DEF m
  <2> DEFINE S == {D[k] : k \in 1..N}
  <2>9. p[i] = From(D, b, N)
    <3>1. \A k \in 1..N : D[k] \in S
      OBVIOUS
    <3>2. b < N /\ N \in Nat /\ b \in Nat
      BY <1>2, <2>6
    <3> HIDE DEF S, b
    <3>3. <<D[b + 1]>> \o From(D, b + 1, N) = From(D, b, N)
      BY <3>1, <3>2, BeforeRest
    <3> QED BY <2>3, <2>7, <2>8, <3>3
  <2> QED BY <2>9
<1>9. 0 \in T
  <2>1. \A i \in (c - 0)..c : i = c
    BY <1>2
  <2>2. p[c] = <<>>
    BY <1>1
  <2> HIDE DEF Rest
  <2> QED BY <1>7, <2>1, <2>2
<1>10. ASSUME NEW k \in Nat, k \in T PROVE k + 1 \in T
  <2> HIDE DEF Rest
  <2> SUFFICES ASSUME NEW i \in (c - (k + 1))..c, i \in B \cup {c} PROVE p[i] = Rest(i)
    OBVIOUS
  <2>1. CASE i \in (c - k)..c
    BY <1>10, <2>1
  <2>2. CASE i \notin (c - k)..c
    <3>1. i # c /\ i \in B /\ i + 1 \in (c - k)..c
      BY <1>2, <2>2
    <3>2. GoOnAt(d, i) \in B \cup {c} /\ GoOnAt(d, i) \in (i + 1)..c
      BY <1>b, <3>1
    <3>3. GoOnAt(d, i) \in (c - k)..c
      BY <1>2, <3>1, <3>2
    <3>4. p[GoOnAt(d, i)] = Rest(GoOnAt(d, i))
      BY <1>10, <3>2, <3>3
    <3> QED BY <1>8, <3>1, <3>4
  <2> QED BY <2>1, <2>2
<1> HIDE DEF T
<1>11. c \in T
  <2>1. \A k \in Nat : k \in T
    BY <1>9, <1>10, Induction
  <2> QED BY <1>2, <2>1
<1>12. p[2] = Rest(2)
  <2>1. 2 \in (c - c)..c
    BY <1>2, <1>c
  <2> HIDE DEF Rest
  <2> QED BY <1>11, <1>c, <2>1 DEF T
<1>13. p[1] = p[2]
  <2>1. 1 \in 1..(c - 1) /\ 2 \in 1..c
    BY <1>2, <1>c
  <2>2. p[1] = <<>> \o p[2] /\ p[2] \in Seq(ParamTypes)
    BY <1>1, <1>c, <2>1
  <2> DEFINE s == p[2]
  <2>3. <<>> \o s = s
    BY <2>2
  <2> QED BY <2>2, <2>3
<1>14. Rest(2) = D
  <2>1. Begun(d, 2 - 1) = 0
    BY <1>4
  <2>2. Rest(2) = [k \in 1..(N - 0) |-> D[k + 0]]
    BY <2>1 DEF From
  <2>3. N - 0 = N /\ \A k \in 1..(N - 0) : k + 0 = k
    BY <1>2
  <2>4. Rest(2) = [k \in 1..N |-> D[k]]
    BY <2>2, <2>3
  <2>5. D = [k \in DOMAIN D |-> D[k]]
    BY <1>3 DEF D, Declared
  <2> QED BY <1>3, <2>4, <2>5
<1>15. peelMethodParameters(d) = p[1]
  BY <1>1
<1> HIDE DEF Rest
<1> QED BY <1>12, <1>13, <1>14, <1>15 DEF D

-----------------------------------------------------------------------------
(* What the variables hold, in a program p with so many boxes, objects and *)
(* arrays, and with these classes loaded.                                  *)

MethodNames(p) == UNION {DOMAIN p[c].methods : c \in DOMAIN p}
FieldNames(p)  == UNION {DOMAIN p[c].fields : c \in DOMAIN p}

BoxSet(p, no, na, ld) ==
  {b \in [type : NumTypes \cup References \cup {"none"}, val : Int, cls : DOMAIN p \cup {NoClass}] :
     /\ b.type \in NumTypes => b.val \in ValuesOf(b.type)
     /\ b.type = "object" => /\ b.val \in 1..no /\ b.cls \in DOMAIN p
                             /\ ToSet(LineageIn(p, b.cls)) \subseteq ld
     /\ b.type = "array" => b.val \in 1..na}

LocalsOf(nb) == UNION {[0..(n - 1) -> 0..nb] : n \in Nat}

FrameSet(p, nb, cs) ==
  {f \in [cls : cs, method : MethodNames(p), pc : Int, locals : LocalsOf(nb),
          stack : Seq(0..nb), maxStack : Nat, via : {"name", "invoke"}, resumed : BOOLEAN] :
     /\ f.method \in DOMAIN p[f.cls].methods
     /\ DOMAIN f.locals = 0..(p[f.cls].methods[f.method].maxLocals - 1)}

ObjectSet(p, nb) == UNION {[D -> 0..nb] : D \in SUBSET ((DOMAIN p) \X FieldNames(p))}

(* The length of an array is an int.                                       *)
ArraySet(nb) == {a \in Seq(0..nb) : Len(a) \in ValuesOf("int")}

ExcSet(bs, ms) == [pending : BOOLEAN, thrown : bs, trace : Seq(ms), byName : BOOLEAN]

Ids      == 0..Len(boxes)
TheBoxes == BoxSet(classes, Len(objects), Len(arrays), loaded)

Typed ==
  /\ classes \in Programs
  /\ loaded \subseteq DOMAIN classes /\ inited \subseteq DOMAIN classes
  /\ frames \in Seq(FrameSet(classes, Len(boxes), loaded \cup inited))
  /\ boxes \in Seq(TheBoxes)
  /\ statics \in [DOMAIN statics -> Ids]
  /\ objects \in Seq(ObjectSet(classes, Len(boxes)))
  /\ arrays \in Seq(ArraySet(Len(boxes)))
  /\ exc \in ExcSet(TheBoxes, MethodNames(classes))
  /\ status \in {"runs", "done", "throws", "exits", "undefined"}
  /\ exposed \subseteq Ids

(* main's frame is the one that is left last; the frames below the top are *)
(* at an instruction.                                                      *)
Nested ==
  /\ Running => frames # <<>>
  /\ frames # <<>> => frames[1].via = "name"
  /\ \A k \in 1..(Len(frames) - 1) :
       frames[k].pc \in DOMAIN classes[frames[k].cls].methods[frames[k].method].code

-----------------------------------------------------------------------------
\* What ProgramsAssumption says, part by part.
LEMMA Classes ==
    ASSUME NEW p \in Programs
    PROVE  /\ IsFiniteSet(DOMAIN p) /\ NoClass \notin DOMAIN p
           /\ Main \in DOMAIN p /\ "String" \in DOMAIN p /\ "main" \in DOMAIN p[Main].methods
           /\ 0 \in DOMAIN p[Main].methods["main"].code
           /\ \A c \in DOMAIN p : IsClass(p[c], DOMAIN p)
           /\ \A d \in DOMAIN p : p[d].super \in DOMAIN p \cup {NoClass}
           /\ \A c \in DOMAIN p : \A m \in DOMAIN p[c].methods :
                IsMethod(p[c].methods[m], DOMAIN p) /\ m \in MethodNames(p)
           /\ \A c \in DOMAIN p :
                /\ IsFiniteSet(DOMAIN p[c].statics)
                /\ \A v \in DOMAIN p[c].statics : p[c].statics[v] \in NumTypes \cup References
                /\ IsFiniteSet(DOMAIN p[c].fields)
                /\ \A v \in DOMAIN p[c].fields : /\ p[c].fields[v] \in NumTypes \cup References
                                                 /\ v \in FieldNames(p)
<1>1. /\ IsFiniteSet(DOMAIN p) /\ NoClass \notin DOMAIN p
      /\ Main \in DOMAIN p /\ "String" \in DOMAIN p /\ "main" \in DOMAIN p[Main].methods
      /\ 0 \in DOMAIN p[Main].methods["main"].code
      /\ \A c \in DOMAIN p : IsClass(p[c], DOMAIN p)
  BY ProgramsAssumption
<1>2. ASSUME NEW c \in DOMAIN p
      PROVE  /\ p[c].super \in DOMAIN p \cup {NoClass}
             /\ \A m \in DOMAIN p[c].methods : IsMethod(p[c].methods[m], DOMAIN p)
             /\ IsFiniteSet(DOMAIN p[c].statics) /\ IsFiniteSet(DOMAIN p[c].fields)
             /\ Range(p[c].statics) \subseteq NumTypes \cup References
             /\ Range(p[c].fields) \subseteq NumTypes \cup References
  BY <1>1 DEF IsClass
<1>3. ASSUME NEW c \in DOMAIN p
      PROVE  /\ \A v \in DOMAIN p[c].statics : p[c].statics[v] \in NumTypes \cup References
             /\ \A v \in DOMAIN p[c].fields : p[c].fields[v] \in NumTypes \cup References
  <2>1. ASSUME NEW v \in DOMAIN p[c].statics PROVE p[c].statics[v] \in Range(p[c].statics)
    BY DEF Range
  <2>2. ASSUME NEW v \in DOMAIN p[c].fields PROVE p[c].fields[v] \in Range(p[c].fields)
    BY DEF Range
  <2> QED BY <2>1, <2>2, <1>2
<1>4. \A c \in DOMAIN p : /\ \A m \in DOMAIN p[c].methods : m \in MethodNames(p)
                          /\ \A v \in DOMAIN p[c].fields : v \in FieldNames(p)
  BY DEF MethodNames, FieldNames
<1> QED BY <1>1, <1>2, <1>3, <1>4

\* A box keeps its type when there are more objects, arrays and classes.
LEMMA BoxesMore ==
    ASSUME NEW p, NEW no \in Nat, NEW na \in Nat, NEW ld,
           NEW no2 \in Nat, NEW na2 \in Nat, NEW ld2, no <= no2, na <= na2, ld \subseteq ld2
    PROVE  BoxSet(p, no, na, ld) \subseteq BoxSet(p, no2, na2, ld2)
BY DEF BoxSet

\* What a box holds.
LEMMA BoxFacts ==
    ASSUME NEW p, NEW no \in Nat, NEW na \in Nat, NEW ld, NEW b \in BoxSet(p, no, na, ld)
    PROVE  /\ b.type \in NumTypes \cup References \cup {"none"}
           /\ b.val \in Int
           /\ b = [type |-> b.type, val |-> b.val, cls |-> b.cls]
           /\ b.type \in NumTypes => b.val \in ValuesOf(b.type)
           /\ b.type = "object" => /\ b.val \in 1..no /\ b.cls \in DOMAIN p
                                   /\ ToSet(LineageIn(p, b.cls)) \subseteq ld
           /\ b.type = "array" => b.val \in 1..na
BY DEF BoxSet

\* A box with a number of a type is a box.
LEMMA NumberBox ==
    ASSUME NEW p, NEW no \in Nat, NEW na \in Nat, NEW ld, NEW t \in NumTypes, NEW v \in ValuesOf(t)
    PROVE  Box(t, v) \in BoxSet(p, no, na, ld)
<1>1. v \in Int
  BY ValuesAreInt
<1>2. t # "object" /\ t # "array"
  BY DEF NumTypes, IntTypes
<1> QED BY <1>1, <1>2 DEF Box, BoxSet

\* So is one for a variable that nothing has been stored to,
LEMMA ZeroBox ==
    ASSUME NEW p, NEW no \in Nat, NEW na \in Nat, NEW ld, NEW t \in NumTypes \cup References
    PROVE  Zero(t) \in BoxSet(p, no, na, ld)
<1>1. CASE t \in References
  <2>1. "none" \notin NumTypes
    BY DEF NumTypes, IntTypes
  <2> QED BY <1>1, <2>1 DEF Zero, Box, BoxSet
<1>2. CASE t \notin References
  <2>1. t \in NumTypes /\ 0 \in ValuesOf(t)
    BY <1>2, ValuesAreInt
  <2>2. Zero(t) = Box(t, 0)
    BY <1>2 DEF Zero
  <2> QED BY <2>1, <2>2, NumberBox
<1> QED BY <1>1, <1>2

\* one for what is not there,
LEMMA NoBox ==
    ASSUME NEW p, NEW no \in Nat, NEW na \in Nat, NEW ld
    PROVE  Box("none", 0) \in BoxSet(p, no, na, ld)
<1>1. "none" \notin NumTypes
  BY DEF NumTypes, IntTypes
<1> QED BY <1>1 DEF Box, BoxSet

\* one for an object of a class that is loaded,
LEMMA ObjectBox ==
    ASSUME NEW p, NEW no \in Nat, NEW na \in Nat, NEW ld, NEW c \in DOMAIN p, NEW o \in 1..no,
           ToSet(LineageIn(p, c)) \subseteq ld
    PROVE  Object(c, o) \in BoxSet(p, no, na, ld)
<1>1. "object" \notin NumTypes
  BY DEF NumTypes, IntTypes
<1> QED BY <1>1 DEF Object, BoxSet, References

\* and one for an array.
LEMMA ArrayBox ==
    ASSUME NEW p, NEW no \in Nat, NEW na \in Nat, NEW ld, NEW a \in 1..na
    PROVE  Array(a) \in BoxSet(p, no, na, ld)
<1>1. "array" \notin NumTypes
  BY DEF NumTypes, IntTypes
<1> QED BY <1>1 DEF Array, BoxSet, References

\* A box whose number is replaced by one of the same type is a box.
LEMMA BoxChanged ==
    ASSUME NEW p, NEW no \in Nat, NEW na \in Nat, NEW ld, NEW b \in BoxSet(p, no, na, ld),
           b.type \notin References, NEW v \in ValuesOf(b.type)
    PROVE  [b EXCEPT !.val = v] \in BoxSet(p, no, na, ld)
<1>1. v \in Int
  BY ValuesAreInt DEF ValuesOf, NumTypes
<1> QED BY <1>1 DEF BoxSet, References

-----------------------------------------------------------------------------
\* What a frame has.
LEMMA FrameFacts ==
    ASSUME NEW p, NEW nb \in Nat, NEW cs, NEW f \in FrameSet(p, nb, cs)
    PROVE  /\ f.cls \in cs /\ f.method \in DOMAIN p[f.cls].methods /\ f.method \in MethodNames(p)
           /\ f.pc \in Int /\ f.stack \in Seq(0..nb) /\ f.maxStack \in Nat
           /\ f.via \in {"name", "invoke"} /\ f.resumed \in BOOLEAN
           /\ f.locals \in [0..(p[f.cls].methods[f.method].maxLocals - 1) -> 0..nb]
<1>1. /\ f.cls \in cs /\ f.method \in DOMAIN p[f.cls].methods /\ f.method \in MethodNames(p)
      /\ f.pc \in Int /\ f.stack \in Seq(0..nb) /\ f.maxStack \in Nat
      /\ f.via \in {"name", "invoke"} /\ f.resumed \in BOOLEAN
      /\ f.locals \in LocalsOf(nb)
      /\ DOMAIN f.locals = 0..(p[f.cls].methods[f.method].maxLocals - 1)
  BY DEF FrameSet
<1>2. PICK n \in Nat : f.locals \in [0..(n - 1) -> 0..nb]
  BY <1>1 DEF LocalsOf
<1>3. f.locals \in [DOMAIN f.locals -> 0..nb]
  BY <1>2
<1> QED BY <1>1, <1>3

\* A new frame is a frame.
LEMMA FrameMade ==
    ASSUME NEW p, NEW nb \in Nat, NEW cs, NEW c \in cs, NEW m \in DOMAIN p[c].methods,
           m \in MethodNames(p), p[c].methods[m].maxLocals \in Nat,
           NEW pc \in Int, NEW locals \in [0..(p[c].methods[m].maxLocals - 1) -> 0..nb],
           NEW stack \in Seq(0..nb), NEW max \in Nat, NEW via \in {"name", "invoke"},
           NEW resumed \in BOOLEAN
    PROVE  [cls |-> c, method |-> m, pc |-> pc, locals |-> locals, stack |-> stack,
            maxStack |-> max, via |-> via, resumed |-> resumed] \in FrameSet(p, nb, cs)
<1>1. locals \in LocalsOf(nb)
  BY DEF LocalsOf
<1>2. DOMAIN locals = 0..(p[c].methods[m].maxLocals - 1)
  OBVIOUS
<1> QED BY <1>1, <1>2 DEF FrameSet

\* A frame is one when there are more boxes and classes.
LEMMA FramesMore ==
    ASSUME NEW p, NEW nb \in Nat, NEW nb2 \in Nat, NEW cs, NEW cs2, nb <= nb2, cs \subseteq cs2
    PROVE  FrameSet(p, nb, cs) \subseteq FrameSet(p, nb2, cs2)
<1>1. LocalsOf(nb) \subseteq LocalsOf(nb2)
  <2>1. 0..nb \subseteq 0..nb2
    OBVIOUS
  <2>2. ASSUME NEW n \in Nat, NEW f \in [0..(n - 1) -> 0..nb]
        PROVE  f \in [0..(n - 1) -> 0..nb2]
    BY <2>1
  <2> QED BY <2>2 DEF LocalsOf
<1>2. \A s \in Seq(0..nb) : s \in Seq(0..nb2)
  <2>1. 0..nb \subseteq 0..nb2
    OBVIOUS
  <2> QED BY <2>1, SeqGrows
<1> QED BY <1>1, <1>2 DEF FrameSet

(* A frame with some of its parts replaced.                                *)
LEMMA FrameChanged ==
    ASSUME NEW p, NEW nb \in Nat, NEW cs, NEW f \in FrameSet(p, nb, cs),
           NEW nb2 \in Nat, NEW cs2, nb <= nb2, cs \subseteq cs2
    PROVE  /\ \A s \in Seq(0..nb2), pc \in Int, r \in BOOLEAN :
                [f EXCEPT !.stack = s, !.pc = pc, !.resumed = r] \in FrameSet(p, nb2, cs2)
           /\ \A s \in Seq(0..nb2), r \in BOOLEAN :
                [f EXCEPT !.stack = s, !.resumed = r] \in FrameSet(p, nb2, cs2)
           /\ \A pc \in Int, r \in BOOLEAN : [f EXCEPT !.pc = pc, !.resumed = r] \in FrameSet(p, nb2, cs2)
           /\ \A r \in BOOLEAN : [f EXCEPT !.resumed = r] \in FrameSet(p, nb2, cs2)
           /\ \A s \in Seq(0..nb2), m \in Nat, pc \in Int, r \in BOOLEAN :
                [f EXCEPT !.stack = s, !.maxStack = m, !.pc = pc, !.resumed = r]
                  \in FrameSet(p, nb2, cs2)
           /\ \A s \in Seq(0..nb2), pc \in Int, r \in BOOLEAN, n \in DOMAIN f.locals, b \in 0..nb2 :
                [f EXCEPT !.stack = s, !.pc = pc, !.resumed = r, !.locals[n] = b]
                  \in FrameSet(p, nb2, cs2)
<1>1. f \in FrameSet(p, nb2, cs2)
  BY FramesMore
<1>2. \A n \in DOMAIN f.locals, b \in 0..nb2 :
        /\ [f.locals EXCEPT ![n] = b] \in LocalsOf(nb2)
        /\ DOMAIN [f.locals EXCEPT ![n] = b] = DOMAIN f.locals
  <2>1. f.locals \in LocalsOf(nb2)
    BY <1>1 DEF FrameSet
  <2>2. PICK k \in Nat : f.locals \in [0..(k - 1) -> 0..nb2]
    BY <2>1 DEF LocalsOf
  <2>3. \A n \in DOMAIN f.locals, b \in 0..nb2 :
          [f.locals EXCEPT ![n] = b] \in [0..(k - 1) -> 0..nb2]
    BY <2>2
  <2> QED BY <2>3, <2>2 DEF LocalsOf
<1>3. \A s \in Seq(0..nb2), pc \in Int, r \in BOOLEAN :
        [f EXCEPT !.stack = s, !.pc = pc, !.resumed = r] \in FrameSet(p, nb2, cs2)
  BY <1>1 DEF FrameSet
<1>4. \A s \in Seq(0..nb2), r \in BOOLEAN :
        [f EXCEPT !.stack = s, !.resumed = r] \in FrameSet(p, nb2, cs2)
  BY <1>1 DEF FrameSet
<1>5. \A pc \in Int, r \in BOOLEAN : [f EXCEPT !.pc = pc, !.resumed = r] \in FrameSet(p, nb2, cs2)
  BY <1>1 DEF FrameSet
<1>6. \A r \in BOOLEAN : [f EXCEPT !.resumed = r] \in FrameSet(p, nb2, cs2)
  BY <1>1 DEF FrameSet
<1>7. \A s \in Seq(0..nb2), m \in Nat, pc \in Int, r \in BOOLEAN :
        [f EXCEPT !.stack = s, !.maxStack = m, !.pc = pc, !.resumed = r] \in FrameSet(p, nb2, cs2)
  BY <1>1 DEF FrameSet
<1>8. \A s \in Seq(0..nb2), pc \in Int, r \in BOOLEAN, n \in DOMAIN f.locals, b \in 0..nb2 :
        [f EXCEPT !.stack = s, !.pc = pc, !.resumed = r, !.locals[n] = b] \in FrameSet(p, nb2, cs2)
  BY <1>1, <1>2 DEF FrameSet
<1> QED BY <1>3, <1>4, <1>5, <1>6, <1>7, <1>8

-----------------------------------------------------------------------------
(* What a step does, in four kinds.                                        *)

Held(f) == ToSet(f.stack) \cup Range(f.locals)
Shared  == exposed \cup {Null}

(* No box is on the stack and in a local variable of f, and none is twice  *)
(* on the stack, but for those in S.                                       *)
Apart(f, S)    == \A i \in DOMAIN f.stack, n \in DOMAIN f.locals :
                    f.stack[i] = f.locals[n] => f.stack[i] \in S
Distinct(f, S) == \A i, j \in DOMAIN f.stack :
                    i # j /\ f.stack[i] = f.stack[j] => f.stack[i] \in S

DataGrows ==
  /\ classes' = classes
  /\ loaded \subseteq loaded' /\ loaded' \subseteq DOMAIN classes
  /\ inited \subseteq inited' /\ inited' \subseteq DOMAIN classes
  /\ statics' \in [DOMAIN statics' -> Ids']
  /\ objects' \in Seq(ObjectSet(classes, Len(boxes'))) /\ Len(objects) <= Len(objects')
  /\ arrays' \in Seq(ArraySet(Len(boxes'))) /\ Len(arrays) <= Len(arrays')
  /\ exposed \subseteq exposed' /\ exposed' \subseteq Ids'

BoxesGrow ==
  /\ boxes' \in Seq(BoxSet(classes, Len(objects'), Len(arrays'), loaded'))
  /\ Len(boxes) <= Len(boxes')
  /\ \A b \in DOMAIN boxes : boxes'[b] = boxes[b] \/ b \in Held(Top)

Halts ==
  /\ Running /\ UNCHANGED <<data, frames, boxes, exc>>
  /\ status' \in {"throws", "exits", "undefined"}

(* The top frame goes on as f.                                             *)
GoesOn(f) ==
  /\ frames' = SetTop(f)
  /\ f \in FrameSet(classes, Len(boxes'), loaded' \cup inited')
  /\ f.via = Top.via
  /\ \A b \in Held(f) : b \in Shared' \/ b > Len(boxes) \/ b \in Held(Top)
  /\ Apart(Top, Shared) /\ (~Interrupted => Distinct(Top, Shared)) =>
       Apart(f, Shared') /\ (Distinct(f, Shared') \/ (exc'.pending /\ ~f.resumed))

Works ==
  /\ Running /\ frames # <<>>
  /\ DataGrows /\ BoxesGrow /\ status' = status
  /\ exc' \in ExcSet(TheBoxes, MethodNames(classes))
  /\ exc'.pending => exc.pending /\ ~Interrupted /\ exc'.byName = exc.byName
  /\ \E f : GoesOn(f)

(* The top frame waits as f for a frame g.                                 *)
WaitsFor(f, g) ==
  /\ frames' = Append(SetTop(f), g)
  /\ f \in FrameSet(classes, Len(boxes), loaded' \cup inited')
  /\ g \in FrameSet(classes, Len(boxes), loaded' \cup inited')
  /\ f.via = Top.via /\ f.pc = Top.pc /\ f.cls = Top.cls /\ f.method = Top.method
  /\ g.via = "invoke" => Instr.op = "invoke"
  /\ f.locals = Top.locals /\ Held(f) \subseteq Held(Top)
  /\ Apart(Top, Shared) /\ Distinct(Top, Shared) => Apart(f, Shared) /\ Distinct(f, Shared)
  /\ g.stack = <<>> /\ Range(g.locals) \subseteq ToSet(Top.stack) \cup {Null}

Enters ==
  /\ Running /\ ~Interrupted /\ frames # <<>> /\ Top.pc \in DOMAIN Method.code
  /\ DataGrows /\ exposed' = exposed /\ UNCHANGED <<boxes, exc, status>>
  /\ \E f, g : WaitsFor(f, g)

Returns(b, e) ==
  /\ ReturnWith(b, e)
  /\ b \in Ids /\ e \in ExcSet(TheBoxes, MethodNames(classes))
  /\ \/ e = exc /\ ~Interrupted
     \/ e = exc /\ b = Popped("object", 0) /\ b # Null
     \/ e = [exc EXCEPT !.pending = TRUE, !.thrown = boxes[b]] /\ b # Null /\ boxes[b].type = "object"

Leaves == Running /\ frames # <<>> /\ \E b, e : Returns(b, e)

Outcome == Halts \/ Works \/ Enters \/ Leaves

-----------------------------------------------------------------------------
Ready(op) ==
  /\ Running /\ ~Interrupted /\ frames # <<>>
  /\ Len(frames) \in Nat \ {0} /\ Top = frames[Len(frames)]
  /\ Top \in FrameSet(classes, Len(boxes), loaded \cup inited)
  /\ Top.cls \in loaded \cup inited /\ Top.cls \in DOMAIN classes
  /\ Top.method \in DOMAIN classes[Top.cls].methods
  /\ Method.maxLocals \in Nat /\ Method.maxStack \in Nat
  /\ Top.pc \in DOMAIN Method.code /\ Top.pc \in Int
  /\ Top.stack \in Seq(Ids) /\ Top.locals \in [0..(Method.maxLocals - 1) -> Ids]
  /\ Top.resumed \in BOOLEAN /\ Top.maxStack \in Nat
  /\ IsInstr(Instr, Method.maxLocals, DOMAIN classes) /\ Instr.op = op /\ After \in Int

\* Numbers of boxes, objects, arrays and frames are natural numbers.
LEMMA TypedFacts ==
    ASSUME Typed
    PROVE  /\ Len(boxes) \in Nat /\ Len(objects) \in Nat /\ Len(arrays) \in Nat /\ Len(frames) \in Nat
           /\ classes \in Programs
           /\ \A b \in 1..Len(boxes) : boxes[b] \in TheBoxes
BY DEF Typed

\* At an instruction, the frame and the instruction are what they should be.
LEMMA AtReady ==
    ASSUME Typed, Nested, NEW op, At(op)
    PROVE  Ready(op)
<1> DEFINE F == FrameSet(classes, Len(boxes), loaded \cup inited)
<1>1. frames # <<>> /\ frames \in Seq(F) /\ Running /\ ~Interrupted
  BY DEF At, Nested, Typed
<1> HIDE DEF F
<1>2. Len(frames) \in Nat \ {0} /\ Top = frames[Len(frames)] /\ Top \in F
  BY <1>1 DEF Top, Last
<1>3. Len(boxes) \in Nat
  BY TypedFacts
<1>4. /\ Top.cls \in loaded \cup inited /\ Top.method \in DOMAIN classes[Top.cls].methods
      /\ Top.pc \in Int /\ Top.stack \in Seq(Ids) /\ Top.maxStack \in Nat
      /\ Top.resumed \in BOOLEAN
      /\ Top.locals \in [0..(Method.maxLocals - 1) -> Ids]
  BY <1>2, <1>3, FrameFacts DEF F, Ids, Method
<1>5. Top.cls \in DOMAIN classes
  BY <1>4 DEF Typed
<1>6. classes \in Programs
  BY DEF Typed
<1>7. IsMethod(Method, DOMAIN classes)
  BY <1>4, <1>5, <1>6, Classes DEF Method
<1>8. Top.pc \in DOMAIN Method.code /\ Instr.op = op
  BY DEF At
<1>9. /\ Method.maxLocals \in Nat /\ Method.maxStack \in Nat
      /\ IsInstr(Instr, Method.maxLocals, DOMAIN classes)
  BY <1>7, <1>8 DEF IsMethod, Instr
<1>10. Instr.len \in Nat
  BY <1>9 DEF IsInstr
<1>11. After \in Int
  BY <1>10, <1>4 DEF After
<1> QED BY <1>1, <1>2, <1>4, <1>5, <1>8, <1>9, <1>11 DEF Ready, F

(* What is on the stack is null or a box there is.                         *)
LEMMA Taken ==
    ASSUME Typed, Top.stack \in Seq(Ids)
    PROVE  /\ \A k \in Nat : /\ Below(Top.stack, k) \in Ids
                             /\ Below(Top.stack, k) # Null =>
                                  /\ k < Len(Top.stack) /\ Below(Top.stack, k) \in ToSet(Top.stack)
                                  /\ Below(Top.stack, k) = Top.stack[Len(Top.stack) - k]
                                  /\ Below(Top.stack, k) \in DOMAIN boxes
                                  /\ boxes[Below(Top.stack, k)] \in TheBoxes
           /\ \A t, k : Popped(t, k) # Null =>
                          /\ Popped(t, k) = Below(Top.stack, k)
                          /\ t # "ref" => boxes[Popped(t, k)].type = t
           /\ \A t, k : Popped(t, k) \in {Null, Below(Top.stack, k)}
           /\ \A t, k : k \in Nat => Popped(t, k) \in Ids
<1>1. boxes \in Seq(TheBoxes) /\ Len(boxes) \in Nat
  BY DEF Typed
<1>2. ASSUME NEW k \in Nat
      PROVE  /\ Below(Top.stack, k) \in Ids
             /\ Below(Top.stack, k) # Null =>
                  /\ k < Len(Top.stack) /\ Below(Top.stack, k) \in ToSet(Top.stack)
                  /\ Below(Top.stack, k) = Top.stack[Len(Top.stack) - k]
                  /\ Below(Top.stack, k) \in DOMAIN boxes
                  /\ boxes[Below(Top.stack, k)] \in TheBoxes
  <2>1. CASE k < Len(Top.stack)
    <3>1. Len(Top.stack) - k \in DOMAIN Top.stack
      BY <2>1
    <3>2. /\ Below(Top.stack, k) = Top.stack[Len(Top.stack) - k]
          /\ Top.stack[Len(Top.stack) - k] \in Ids
          /\ Top.stack[Len(Top.stack) - k] \in ToSet(Top.stack)
      BY <2>1, <3>1 DEF Below, ToSet
    <3> QED BY <2>1, <3>2, <1>1 DEF Ids, Null
  <2>2. CASE ~(k < Len(Top.stack))
    BY <2>2, <1>1 DEF Below, Ids, Null
  <2> QED BY <2>1, <2>2
<1>3. \A t, k : Popped(t, k) # Null => /\ Popped(t, k) = Below(Top.stack, k)
                                       /\ t # "ref" => boxes[Popped(t, k)].type = t
  BY DEF Popped, As
<1>4. \A t, k : Popped(t, k) \in {Null, Below(Top.stack, k)}
  BY DEF Popped, As
<1>5. ASSUME NEW t, NEW k \in Nat PROVE Popped(t, k) \in Ids
  <2>1. Null \in Ids
    BY <1>1 DEF Ids, Null
  <2>2. Popped(t, k) = Null \/ Popped(t, k) = Below(Top.stack, k)
    BY <1>4
  <2>3. Below(Top.stack, k) \in Ids
    BY <1>2
  <2> QED BY <2>1, <2>2, <2>3
<1> QED BY <1>2, <1>3, <1>4, <1>5

\* Objects are objects when there are more boxes,
LEMMA ObjectsMore ==
    ASSUME NEW p, NEW nb \in Nat, NEW nb2 \in Nat, nb <= nb2
    PROVE  ObjectSet(p, nb) \subseteq ObjectSet(p, nb2)
<1>1. 0..nb \subseteq 0..nb2
  OBVIOUS
<1>2. ASSUME NEW D, NEW f \in [D -> 0..nb] PROVE f \in [D -> 0..nb2]
  BY <1>1
<1> QED BY <1>2 DEF ObjectSet

\* and arrays are arrays.
LEMMA ArraysMore ==
    ASSUME NEW nb \in Nat, NEW nb2 \in Nat, nb <= nb2
    PROVE  ArraySet(nb) \subseteq ArraySet(nb2)
<1>1. 0..nb \subseteq 0..nb2
  OBVIOUS
<1>2. \A s \in Seq(0..nb) : s \in Seq(0..nb2)
  BY <1>1, SeqGrows
<1> QED BY <1>2 DEF ArraySet

\* Data that stays the same keeps its types.
LEMMA DataSame ==
    ASSUME Typed, UNCHANGED data, Len(boxes') \in Nat, Len(boxes) <= Len(boxes')
    PROVE  DataGrows
<1>1. /\ classes' = classes /\ loaded' = loaded /\ inited' = inited /\ statics' = statics
      /\ objects' = objects /\ arrays' = arrays /\ exposed' = exposed
  BY DEF data
<1>2. Len(boxes) \in Nat /\ Ids \subseteq Ids'
  BY DEF Typed, Ids
<1>3. statics \in [DOMAIN statics -> Ids']
  BY <1>2 DEF Typed
<1>4. objects \in Seq(ObjectSet(classes, Len(boxes')))
  <2>1. ObjectSet(classes, Len(boxes)) \subseteq ObjectSet(classes, Len(boxes'))
    BY <1>2, ObjectsMore
  <2> QED BY <2>1, SeqGrows DEF Typed
<1>5. arrays \in Seq(ArraySet(Len(boxes')))
  <2>1. ArraySet(Len(boxes)) \subseteq ArraySet(Len(boxes'))
    BY <1>2, ArraysMore
  <2> QED BY <2>1, SeqGrows DEF Typed
<1>6. exposed \subseteq Ids'
  BY <1>2 DEF Typed
<1> QED BY <1>1, <1>3, <1>4, <1>5, <1>6 DEF DataGrows, Typed

(* What comes onto the stack was not there, is shared, or is one of the    *)
(* top k entries.                                                          *)
FromTop(k, ids) ==
  \A i \in DOMAIN ids :
       \/ ids[i] \in Shared' \/ ids[i] > Len(boxes)
       \/ \E j \in DOMAIN Top.stack : j > Len(Top.stack) - k /\ ids[i] = Top.stack[j]

(* It comes there once, unless it was there twice.                         *)
Unlike(ids) ==
  \A i, j \in DOMAIN ids : i # j /\ ids[i] = ids[j] =>
       \/ ids[i] \in Shared'
       \/ \E a, b \in DOMAIN Top.stack : a # b /\ Top.stack[a] = ids[i] /\ Top.stack[b] = ids[i]

\* New boxes leave the others as they are.
LEMMA BoxesAppended ==
    ASSUME Typed, DataGrows,
           NEW fresh \in Seq(BoxSet(classes, Len(objects'), Len(arrays'), loaded')),
           boxes' = boxes \o fresh
    PROVE  /\ BoxesGrow /\ Len(boxes') \in Nat /\ Len(boxes) \in Nat
           /\ Len(boxes') = Len(boxes) + Len(fresh)
           /\ \A b \in DOMAIN boxes : boxes'[b] = boxes[b]
<1> DEFINE B == BoxSet(classes, Len(objects'), Len(arrays'), loaded')
<1>1. boxes \in Seq(B)
  <2>1. /\ Len(objects) \in Nat /\ Len(arrays) \in Nat /\ Len(objects') \in Nat /\ Len(arrays') \in Nat
        /\ Len(objects) <= Len(objects') /\ Len(arrays) <= Len(arrays') /\ loaded \subseteq loaded'
    BY DEF Typed, DataGrows
  <2>2. TheBoxes \subseteq B
    BY <2>1, BoxesMore DEF TheBoxes
  <2>3. boxes \in Seq(TheBoxes)
    BY DEF Typed
  <2> QED BY <2>2, <2>3, SeqGrows
<1> HIDE DEF B
<1>2. fresh \in Seq(B)
  BY DEF B
<1>3. /\ boxes' \in Seq(B) /\ Len(boxes') = Len(boxes) + Len(fresh)
      /\ \A b \in 1..Len(boxes) : boxes'[b] = boxes[b]
  BY <1>1, <1>2, Concatenated
<1>4. DOMAIN boxes = 1..Len(boxes) /\ Len(boxes) \in Nat /\ Len(fresh) \in Nat
  BY <1>1, <1>2
<1> QED BY <1>3, <1>4 DEF BoxesGrow, B

\* An exception that stays the same keeps its type.
LEMMA ExcSame ==
    ASSUME Typed, exc' = exc, ~Interrupted
    PROVE  /\ exc' \in ExcSet(TheBoxes, MethodNames(classes))
           /\ exc'.pending => exc.pending /\ ~Interrupted /\ exc'.byName = exc.byName
BY DEF Typed

(* Entries are replaced on the stack.                                      *)
LEMMA Replacing ==
    ASSUME Typed, NEW op, Ready(op), DataGrows, NEW k \in Nat,
           Len(boxes') \in Nat, Len(boxes) <= Len(boxes'), NEW ids \in Seq(0..Len(boxes')),
           NEW f \in FrameSet(classes, Len(boxes'), loaded' \cup inited'),
           f.stack = Drop(Top.stack, k) \o ids, f.locals = Top.locals, f.via = Top.via,
           frames' = SetTop(f),
           FromTop(k, ids), Unlike(ids) \/ (exc'.pending /\ ~f.resumed)
    PROVE  GoesOn(f)
<1> DEFINE s == Top.stack
           d == Drop(s, k)
<1>2. Len(boxes') \in Nat /\ Len(boxes) \in Nat /\ Len(boxes) <= Len(boxes')
  BY DEF Typed
<1>3. /\ Running /\ frames # <<>> /\ ~Interrupted
      /\ Top \in FrameSet(classes, Len(boxes), loaded \cup inited)
      /\ s \in Seq(Ids)
      /\ Top.locals \in [0..(Method.maxLocals - 1) -> Ids]
  BY DEF Ready
<1>4. Ids \subseteq 0..Len(boxes') /\ ids \in Seq(0..Len(boxes'))
  BY <1>2 DEF Ids
<1>5. /\ d \in Seq(Ids)
      /\ Len(d) = IF k <= Len(s) THEN Len(s) - k ELSE 0
      /\ \A i \in 1..Len(d) : d[i] = s[i] /\ i \in 1..Len(s)
  BY <1>3, Dropped
<1> HIDE DEF d
<1>6. d \in Seq(0..Len(boxes'))
  BY <1>4, <1>5, SeqGrows
<1>7. /\ d \o ids \in Seq(0..Len(boxes')) /\ Len(d \o ids) = Len(d) + Len(ids)
      /\ \A i \in 1..Len(d) : (d \o ids)[i] = d[i]
      /\ \A i \in (Len(d) + 1)..(Len(d) + Len(ids)) : (d \o ids)[i] = ids[i - Len(d)]
  BY <1>4, <1>6, Concatenated
<1> DEFINE t == d \o ids
<1> HIDE DEF t
<1>11. f.stack = t
  BY DEF t, d
<1>12. /\ DOMAIN t = 1..(Len(d) + Len(ids)) /\ Len(d) \in Nat /\ Len(ids) \in Nat /\ Len(s) \in Nat
       /\ DOMAIN s = 1..Len(s) /\ DOMAIN ids = 1..Len(ids)
  BY <1>3, <1>5, <1>7 DEF t
<1>13. ASSUME NEW i \in DOMAIN t
       PROVE  \/ i \in 1..Len(d) /\ t[i] = s[i] /\ i \in DOMAIN s /\ i <= Len(s) - k /\ s[i] \in Ids
              \/ i - Len(d) \in DOMAIN ids /\ t[i] = ids[i - Len(d)]
  <2>1. CASE i <= Len(d)
    <3>1. i \in 1..Len(d)
      BY <2>1, <1>12
    <3>2. t[i] = d[i] /\ d[i] = s[i] /\ i \in DOMAIN s
      BY <3>1, <1>5, <1>7, <1>12 DEF t
    <3>3. i <= Len(s) - k
      BY <3>1, <1>5, <1>12
    <3>4. s[i] \in Ids
      BY <3>2, <1>3
    <3> QED BY <3>1, <3>2, <3>3, <3>4
  <2>2. CASE i > Len(d)
    <3>1. i \in (Len(d) + 1)..(Len(d) + Len(ids)) /\ i - Len(d) \in DOMAIN ids
      BY <2>2, <1>12
    <3> QED BY <3>1, <1>7 DEF t
  <2> QED BY <2>1, <2>2, <1>12
<1>14. ASSUME NEW b \in Held(f)
       PROVE  b \in Shared' \/ b > Len(boxes) \/ b \in Held(Top)
  <2>1. CASE b \in Range(f.locals)
    BY <2>1 DEF Held
  <2>2. CASE b \in ToSet(f.stack)
    <3>1. PICK i \in DOMAIN t : b = t[i]
      BY <2>2, <1>11 DEF ToSet
    <3>2. \A j \in DOMAIN s : s[j] \in Held(Top)
      BY DEF Held, ToSet
    <3>3. CASE t[i] = s[i] /\ i \in DOMAIN s
      BY <3>1, <3>2, <3>3
    <3>4. CASE i - Len(d) \in DOMAIN ids /\ t[i] = ids[i - Len(d)]
      <4>1. \/ t[i] \in Shared' \/ t[i] > Len(boxes)
            \/ \E j \in DOMAIN s : t[i] = s[j]
        BY <3>4 DEF FromTop
      <4> QED BY <4>1, <3>1, <3>2
    <3> QED BY <3>3, <3>4, <1>13
  <2> QED BY <2>1, <2>2 DEF Held
<1>15. Shared \subseteq Shared'
  BY DEF Shared, DataGrows
<1>16. ASSUME Apart(Top, Shared) PROVE Apart(f, Shared')
  <2>1. SUFFICES ASSUME NEW i \in DOMAIN t, NEW n \in DOMAIN Top.locals, t[i] = Top.locals[n]
                 PROVE  t[i] \in Shared'
    BY <1>11 DEF Apart
  <2>2. Top.locals[n] \in Ids /\ Len(boxes) \in Nat
    BY <1>3, <1>2
  <2>3. \A j \in DOMAIN s : s[j] = Top.locals[n] => s[j] \in Shared
    BY <1>16 DEF Apart
  <2>4. CASE t[i] = s[i] /\ i \in DOMAIN s
    BY <2>1, <2>3, <2>4, <1>15
  <2>5. CASE i - Len(d) \in DOMAIN ids /\ t[i] = ids[i - Len(d)]
    <3>1. \/ t[i] \in Shared' \/ t[i] > Len(boxes)
          \/ \E j \in DOMAIN s : t[i] = s[j]
      BY <2>5 DEF FromTop
    <3>2. ~(t[i] > Len(boxes))
      BY <2>1, <2>2 DEF Ids
    <3> QED BY <3>1, <3>2, <2>1, <2>3, <1>15
  <2> QED BY <2>4, <2>5, <1>13
<1>17. ASSUME Distinct(Top, Shared), Unlike(ids) PROVE Distinct(f, Shared')
  <2>1. SUFFICES ASSUME NEW i \in DOMAIN t, NEW j \in DOMAIN t, i # j, t[i] = t[j]
                 PROVE  t[i] \in Shared'
    BY <1>11 DEF Distinct
  <2>2. \A a, b \in DOMAIN s : a # b /\ s[a] = s[b] => s[a] \in Shared'
    BY <1>17, <1>15 DEF Distinct
  <2> DEFINE low(x)  == t[x] = s[x] /\ x \in DOMAIN s /\ x <= Len(s) - k /\ s[x] \in Ids
             high(x) == x - Len(d) \in DOMAIN ids /\ t[x] = ids[x - Len(d)]
  <2>3. ASSUME NEW x \in DOMAIN t, NEW y \in DOMAIN t, t[x] = t[y], low(x), high(y)
        PROVE  t[x] \in Shared'
    <3>1. \/ t[y] \in Shared' \/ t[y] > Len(boxes)
          \/ \E a \in DOMAIN s : a > Len(s) - k /\ t[y] = s[a]
      BY <2>3 DEF FromTop
    <3>2. ~(t[y] > Len(boxes))
      BY <2>3, <1>2 DEF Ids
    <3>3. ASSUME NEW a \in DOMAIN s, a > Len(s) - k, t[y] = s[a] PROVE t[x] \in Shared'
      <4>1. /\ x \in 1..Len(s) /\ a \in 1..Len(s) /\ Len(s) \in Nat
            /\ x <= Len(s) - k /\ a > Len(s) - k
        BY <3>3, <2>3, <1>12
      <4>2. a # x
        BY <4>1
      <4> QED BY <4>2, <3>3, <2>3, <2>2
    <3> QED BY <3>1, <3>2, <3>3, <2>3
  <2>4. CASE low(i) /\ low(j)
    BY <2>4, <2>1, <2>2
  <2>5. CASE high(i) /\ high(j)
    <3>1. i - Len(d) # j - Len(d)
      BY <2>1, <1>12
    <3>2. ids[i - Len(d)] = ids[j - Len(d)]
      BY <2>5, <2>1
    <3>3. \/ t[i] \in Shared'
          \/ \E a, b \in DOMAIN s : a # b /\ s[a] = t[i] /\ s[b] = t[i]
      <4> DEFINE x == i - Len(d)
                 y == j - Len(d)
      <4>1. x \in DOMAIN ids /\ y \in DOMAIN ids /\ x # y /\ ids[x] = ids[y] /\ t[i] = ids[x]
        BY <2>5, <3>1, <3>2
      <4> HIDE DEF x, y
      <4> QED BY <4>1, <1>17 DEF Unlike
    <3> QED BY <3>3, <2>2
  <2>6. (low(i) \/ high(i)) /\ (low(j) \/ high(j))
    BY <1>13
  <2> QED BY <2>1, <2>3, <2>4, <2>5, <2>6
<1> QED BY <1>3, <1>14, <1>16, <1>17 DEF GoesOn

TopWith(s, pc) == [Top EXCEPT !.stack = s, !.pc = pc, !.resumed = FALSE]
TopWithMore(s, m, pc) == [Top EXCEPT !.stack = s, !.maxStack = m, !.pc = pc, !.resumed = FALSE]

(* The top frame with another stack.                                       *)
Stands(f, s) ==
  /\ f \in FrameSet(classes, Len(boxes'), loaded' \cup inited')
  /\ f.stack = s /\ f.locals = Top.locals /\ f.via = Top.via /\ f.resumed = FALSE

\* A frame with another stack and address, among more boxes.
LEMMA Widened ==
    ASSUME Typed, NEW op, Ready(op), DataGrows, Len(boxes') \in Nat, Len(boxes) <= Len(boxes'),
           NEW s \in Seq(0..Len(boxes')), NEW pc \in Int, NEW m \in Nat
    PROVE  Stands(TopWith(s, pc), s) /\ Stands(TopWithMore(s, m, pc), s)
<1> DEFINE nb == Len(boxes)
           nb2 == Len(boxes')
           cs == loaded \cup inited
           cs2 == loaded' \cup inited'
           g == TopWith(s, pc)
           h == TopWithMore(s, m, pc)
<1>1. nb \in Nat /\ nb2 \in Nat /\ nb <= nb2 /\ cs \subseteq cs2
  BY DEF Typed, DataGrows
<1>2. Top \in FrameSet(classes, nb, cs) /\ s \in Seq(0..nb2)
  BY DEF Ready
<1> HIDE DEF nb, nb2, cs, cs2
<1>3. g \in FrameSet(classes, nb2, cs2) /\ h \in FrameSet(classes, nb2, cs2)
  BY <1>1, <1>2, FrameChanged DEF TopWith, TopWithMore
<1>4. /\ g.stack = s /\ g.locals = Top.locals /\ g.via = Top.via /\ g.resumed = FALSE
      /\ h.stack = s /\ h.locals = Top.locals /\ h.via = Top.via /\ h.resumed = FALSE
  BY <1>2 DEF FrameSet, TopWith, TopWithMore
<1> QED BY <1>3, <1>4 DEF nb2, cs2, Stands

\* An instruction that replaces the top k entries of the stack is at work ...
LEMMA Putting ==
    ASSUME Typed, NEW op, Ready(op), DataGrows, BoxesGrow, NEW k \in Nat,
           NEW ids \in Seq(0..Len(boxes')), NEW pc \in Int,
           frames' = SetTop([Top EXCEPT !.stack = Drop(Top.stack, k) \o ids, !.pc = pc, !.resumed = FALSE]),
           exc' = exc, status' = status, FromTop(k, ids), Unlike(ids)
    PROVE  Works
<1> DEFINE s == Drop(Top.stack, k) \o ids
           f == TopWith(s, pc)
<1>1. Len(boxes') \in Nat /\ Len(boxes) <= Len(boxes') /\ Len(boxes) \in Nat
  BY DEF BoxesGrow, Typed
<1>2. s \in Seq(0..Len(boxes'))
  <2>1. Top.stack \in Seq(Ids) /\ Ids \subseteq 0..Len(boxes')
    BY <1>1 DEF Ready, Ids
  <2>2. Top.stack \in Seq(0..Len(boxes'))
    BY <2>1, SeqGrows
  <2>3. Drop(Top.stack, k) \in Seq(0..Len(boxes'))
    BY <2>2, Dropped
  <2> QED BY <2>3, Concatenated
<1>3. 0 \in Nat /\ frames' = SetTop(f)
  BY DEF TopWith
<1> HIDE DEF s
<1>4. /\ f \in FrameSet(classes, Len(boxes'), loaded' \cup inited')
      /\ f.stack = s /\ f.locals = Top.locals /\ f.via = Top.via
  BY <1>1, <1>2, <1>3, Widened DEF Stands
<1> HIDE DEF f
<1>5. f.stack = Drop(Top.stack, k) \o ids
  BY <1>4 DEF s
<1>6. GoesOn(f)
  BY <1>1, <1>3, <1>4, <1>5, Replacing
<1>7. /\ exc' \in ExcSet(TheBoxes, MethodNames(classes))
      /\ exc'.pending => exc.pending /\ ~Interrupted /\ exc'.byName = exc.byName
  BY ExcSame DEF Ready
<1> QED BY <1>6, <1>7 DEF Works, Ready

\* ... with new boxes for them, ...
LEMMA Becoming ==
    ASSUME Typed, NEW op, Ready(op), DataGrows, NEW k \in Nat,
           NEW fresh \in Seq(BoxSet(classes, Len(objects'), Len(arrays'), loaded')),
           NEW ids \in Seq(0..(Len(boxes) + Len(fresh))), NEW pc \in Int,
           StackBecomes(k, ids, fresh, pc), FromTop(k, ids), Unlike(ids)
    PROVE  Works
<1>1. /\ frames' = SetTop([Top EXCEPT !.stack = Drop(Top.stack, k) \o ids, !.pc = pc, !.resumed = FALSE])
      /\ boxes' = boxes \o fresh /\ exc' = exc /\ status' = status
  BY DEF StackBecomes
<1>2. BoxesGrow /\ Len(boxes') = Len(boxes) + Len(fresh)
  BY <1>1, BoxesAppended
<1>3. ids \in Seq(0..Len(boxes'))
  BY <1>2
<1> QED BY <1>1, <1>2, <1>3, Putting

(* The usual cases.                                                        *)
LEMMA Dropping ==
    ASSUME Typed, NEW op, Ready(op), DataGrows, NEW k \in Nat, NEW pc \in Int,
           StackBecomes(k, <<>>, <<>>, pc)
    PROVE  Works
<1>1. /\ <<>> \in Seq(BoxSet(classes, Len(objects'), Len(arrays'), loaded'))
      /\ <<>> \in Seq(0..(Len(boxes) + Len(<<>>)))
  OBVIOUS
<1>2. FromTop(k, <<>>) /\ Unlike(<<>>)
  BY DEF FromTop, Unlike
<1> QED BY <1>1, <1>2, Becoming

\* ... with boxes that were at the top, ...
LEMMA PuttingOld ==
    ASSUME Typed, NEW op, Ready(op), DataGrows, NEW k \in Nat, NEW pc \in Int,
           NEW b \in Ids, b \in Shared', StackBecomes(k, <<b>>, <<>>, pc)
    PROVE  Works
<1>0. Len(boxes) \in Nat
  BY DEF Typed
<1>1. /\ <<>> \in Seq(BoxSet(classes, Len(objects'), Len(arrays'), loaded'))
      /\ <<b>> \in Seq(0..(Len(boxes) + Len(<<>>)))
  BY <1>0 DEF Ids
<1>2. FromTop(k, <<b>>) /\ Unlike(<<b>>)
  BY DEF FromTop, Unlike
<1> QED BY <1>1, <1>2, Becoming

\* ... with one new box, ...
LEMMA PuttingNew ==
    ASSUME Typed, NEW op, Ready(op), DataGrows, NEW k \in Nat, NEW pc \in Int,
           NEW fresh \in Seq(BoxSet(classes, Len(objects'), Len(arrays'), loaded')),
           fresh # <<>>, StackBecomes(k, <<New(1)>>, fresh, pc)
    PROVE  Works
<1>0. Len(boxes) \in Nat /\ Len(fresh) \in Nat \ {0}
  BY DEF Typed
<1>1. <<New(1)>> \in Seq(0..(Len(boxes) + Len(fresh))) /\ New(1) > Len(boxes)
  BY <1>0 DEF New
<1>2. FromTop(k, <<New(1)>>) /\ Unlike(<<New(1)>>)
  BY <1>1 DEF FromTop, Unlike
<1> QED BY <1>1, <1>2, Becoming

\* An instruction that ends the process halts it.
LEMMA Ending ==
    ASSUME NEW op, At(op), NEW how \in {"throws", "exits", "undefined"}, Ends(how)
    PROVE  Outcome
BY DEF At, Ends, Outcome, Halts

\* An instruction that pushes a new box is at work, ...
LEMMA Pushing ==
    ASSUME Typed, NEW op, Ready(op), NEW k \in Nat, NEW box \in TheBoxes,
           Pushes(k, box), UNCHANGED data
    PROVE  Works
<1>1. StackBecomes(k, <<New(1)>>, <<box>>, After) /\ boxes' = boxes \o <<box>>
  BY DEF Pushes, StackBecomes
<1>2. boxes \in Seq(TheBoxes)
  BY DEF Typed
<1>3. Len(boxes') \in Nat /\ Len(boxes) <= Len(boxes')
  BY <1>1, <1>2
<1>4. DataGrows
  BY <1>3, DataSame
<1>5. objects' = objects /\ arrays' = arrays /\ loaded' = loaded
  BY DEF data
<1>6. <<box>> \in Seq(BoxSet(classes, Len(objects'), Len(arrays'), loaded')) /\ <<box>> # <<>>
  BY <1>5 DEF TheBoxes
<1>7. After \in Int
  BY DEF Ready
<1> QED BY <1>1, <1>4, <1>6, <1>7, PuttingNew

\* ... as is one that pushes a number, ...
LEMMA PushingNumber ==
    ASSUME Typed, NEW op, Ready(op), NEW k \in Nat, NEW t \in NumTypes, NEW v \in ValuesOf(t),
           Pushes(k, Box(t, v)), UNCHANGED data
    PROVE  Works
<1>1. Len(objects) \in Nat /\ Len(arrays) \in Nat
  BY TypedFacts
<1>2. Box(t, v) \in TheBoxes
  BY <1>1, NumberBox DEF TheBoxes
<1> QED BY <1>2, Pushing

\* Without new boxes the data stays the same.
LEMMA SameSize ==
    ASSUME Typed, UNCHANGED data, NEW k, NEW ids, NEW pc, StackBecomes(k, ids, <<>>, pc)
    PROVE  DataGrows
<1>1. boxes' = boxes \o <<>> /\ boxes \in Seq(TheBoxes)
  BY DEF Typed, StackBecomes
<1>2. Len(boxes') \in Nat /\ Len(boxes) <= Len(boxes')
  BY <1>1
<1> QED BY <1>2, DataSame

\* ... one that pushes null, ...
LEMMA PuttingNull ==
    ASSUME Typed, NEW op, Ready(op), NEW k \in Nat, NEW pc \in Int,
           StackBecomes(k, <<Null>>, <<>>, pc), UNCHANGED data
    PROVE  Works
<1>1. DataGrows
  BY SameSize
<1>2. Null \in Ids /\ Null \in Shared'
  BY TypedFacts DEF Ids, Null, Shared
<1> QED BY <1>1, <1>2, PuttingOld

\* ... and one that only takes entries off the stack.
LEMMA PlainDropping ==
    ASSUME Typed, NEW op, Ready(op), NEW k \in Nat, NEW pc \in Int,
           StackBecomes(k, <<>>, <<>>, pc), UNCHANGED data
    PROVE  Works
<1>1. DataGrows
  BY SameSize
<1> QED BY <1>1, Dropping

-----------------------------------------------------------------------------
\* Constants are pushed: the top frame goes on, or the process halts.
LEMMA ConstantSteps ==
    ASSUME Typed, Nested, Constants
    PROVE  Outcome
<1>1. CASE Unknown
  BY <1>1, Ending DEF Unknown
<1>2. CASE Unsupported
  BY <1>2, Ending DEF Unsupported
<1>3. CASE Nop
  <2>1. Ready("nop") /\ After \in Int
    BY <1>3, AtReady DEF Nop, Ready
  <2>2. StackBecomes(0, <<>>, <<>>, After) /\ UNCHANGED data /\ 0 \in Nat
    BY <1>3 DEF Nop
  <2> QED BY <2>1, <2>2, PlainDropping DEF Outcome
<1>4. CASE ConstNull
  <2>1. Ready("aconst_null") /\ After \in Int
    BY <1>4, AtReady DEF ConstNull, Ready
  <2>2. StackBecomes(0, <<Null>>, <<>>, After) /\ UNCHANGED data /\ 0 \in Nat
    BY <1>4 DEF ConstNull
  <2> QED BY <2>1, <2>2, PuttingNull DEF Outcome
<1>5. CASE Const
  <2>1. Ready("const")
    BY <1>5, AtReady DEF Const
  <2>2. Instr.t \in NumTypes /\ Instr.n \in ValuesOf(Instr.t)
    BY <2>1 DEF Ready, IsInstr
  <2>3. Pushes(0, Box(Instr.t, Instr.n)) /\ UNCHANGED data /\ 0 \in Nat
    BY <1>5 DEF Const
  <2> QED BY <2>1, <2>2, <2>3, PushingNumber DEF Outcome
<1>6. CASE PushImmediate
  <2>1. Ready("push")
    BY <1>6, AtReady DEF PushImmediate
  <2>2. Instr.t \in {"byte", "short"} /\ Instr.n \in Int
    BY <2>1 DEF Ready, IsInstr
  <2>3. Unsigned(Instr.t, Instr.n) \in ValuesOf("int") /\ "int" \in NumTypes
    BY <2>2, SmallFits DEF NumTypes, IntTypes
  <2>4. Pushes(0, Box("int", Unsigned(Instr.t, Instr.n))) /\ UNCHANGED data /\ 0 \in Nat
    BY <1>6 DEF PushImmediate
  <2> QED BY <2>1, <2>3, <2>4, PushingNumber DEF Outcome
<1> QED BY <1>1, <1>2, <1>3, <1>4, <1>5, <1>6 DEF Constants

-----------------------------------------------------------------------------
\* A local variable is loaded.
LEMMA LoadSteps ==
    ASSUME Typed, Nested, Load
    PROVE  Outcome
<1> DEFINE l == Top.locals[Instr.n]
           b == As(Instr.t, l)
<1>1. At("load") /\ Ready("load")
  BY AtReady DEF Load
<1>2. Instr.n \in 0..(Method.maxLocals - 1) /\ After \in Int
  BY <1>1 DEF Ready, IsInstr
<1>3. l \in Ids
  BY <1>1, <1>2 DEF Ready
<1>4. b = Null \/ b = l
  BY DEF As
<1>5. b # Null => boxes[b] \in TheBoxes
  <2>1. boxes \in Seq(TheBoxes) /\ Len(boxes) \in Nat
    BY DEF Typed
  <2> QED BY <2>1, <1>3, <1>4 DEF Ids, Null
<1> HIDE DEF b
<1>6. CASE b = Null
  <2>1. Ends(IF Instr.t = "ref" THEN "throws" ELSE "undefined")
    BY <1>6 DEF Load, b
  <2> QED BY <2>1, <1>1, Ending
<1>7. CASE b # Null /\ (Instr.t # "ref" \/ boxes[b].type \in References)
  <2>1. StackBecomes(0, LoadedBox(b).ids, LoadedBox(b).fresh, After) /\ UNCHANGED data
    BY <1>7 DEF Load, b
  <2>2. Pushes(0, boxes[b]) /\ 0 \in Nat
    BY <2>1 DEF LoadedBox, Pushes
  <2> QED BY <2>1, <2>2, <1>1, <1>5, <1>7, Pushing DEF Outcome
<1>8. CASE b # Null /\ ~(Instr.t # "ref" \/ boxes[b].type \in References)
  <2>1. StackBecomes(0, <<Null>>, <<>>, After) /\ UNCHANGED data /\ 0 \in Nat
    BY <1>8 DEF Load, b
  <2> QED BY <2>1, <1>1, <1>2, PuttingNull DEF Outcome
<1> QED BY <1>6, <1>7, <1>8

(* Boxes are written to.                                                   *)
LEMMA Writing ==
    ASSUME Typed, NEW op, Ready(op), NEW k \in Nat, DataGrows,
           frames' = SetTop(TopWith(Drop(Top.stack, k), After)), exc' = exc, status' = status,
           loaded' = loaded, Len(objects') = Len(objects), Len(arrays') = Len(arrays),
           boxes' \in Seq(TheBoxes), Len(boxes') = Len(boxes),
           \A b \in DOMAIN boxes : boxes'[b] = boxes[b] \/ b \in Held(Top)
    PROVE  Works
<1>1. BoxesGrow
  BY DEF BoxesGrow, TheBoxes, Typed
<1>2. Top.stack \in Seq(Ids) /\ After \in Int
  BY DEF Ready
<1>3. Drop(Top.stack, k) \o <<>> = Drop(Top.stack, k)
  <2>1. Drop(Top.stack, k) \in Seq(Ids)
    BY <1>2, Dropped
  <2> QED BY <2>1
<1>4. frames' = SetTop([Top EXCEPT !.stack = Drop(Top.stack, k) \o <<>>, !.pc = After, !.resumed = FALSE])
  BY <1>3 DEF TopWith
<1>5. FromTop(k, <<>>) /\ Unlike(<<>>) /\ <<>> \in Seq(0..Len(boxes'))
  BY DEF FromTop, Unlike
<1> QED BY <1>1, <1>2, <1>4, <1>5, Putting

\* Nothing is dropped from the stack.
LEMMA DropNone ==
    ASSUME Typed, NEW op, Ready(op)
    PROVE  [Top EXCEPT !.pc = After, !.resumed = FALSE] = TopWith(Drop(Top.stack, 0), After)
<1>1. Top.stack \in Seq(Ids) /\ Top \in FrameSet(classes, Len(boxes), loaded \cup inited)
  BY DEF Ready
<1>2. Drop(Top.stack, 0) = Top.stack
  BY <1>1 DEF Drop
<1> QED BY <1>1, <1>2 DEF TopWith, FrameSet

\* A frame has the boxes on its stack and in its local variables.
LEMMA OnStackOrLocal ==
    /\ \A i \in DOMAIN Top.stack : Top.stack[i] \in Held(Top)
    /\ \A n \in DOMAIN Top.locals : Top.locals[n] \in Held(Top)
    /\ \A b \in ToSet(Top.stack) : b \in Held(Top)
BY DEF Held, ToSet, Range

\* A box of the top frame is written to.
LEMMA OneWritten ==
    ASSUME Typed, NEW b \in DOMAIN boxes, NEW v, boxes[b].type \notin References,
           v \in ValuesOf(boxes[b].type)
    PROVE  /\ [boxes EXCEPT ![b].val = v] \in Seq(TheBoxes)
           /\ Len([boxes EXCEPT ![b].val = v]) = Len(boxes)
           /\ \A c \in DOMAIN boxes : [boxes EXCEPT ![b].val = v][c] = boxes[c] \/ c = b
           /\ DOMAIN [boxes EXCEPT ![b].val = v] = DOMAIN boxes
           /\ [boxes EXCEPT ![b].val = v][b].type = boxes[b].type
<1>1. boxes \in Seq(TheBoxes) /\ boxes[b] \in TheBoxes /\ DOMAIN boxes = 1..Len(boxes)
  BY DEF Typed
<1>2. Len(objects) \in Nat /\ Len(arrays) \in Nat
  BY TypedFacts
<1>3. [boxes[b] EXCEPT !.val = v] \in TheBoxes
  BY <1>1, <1>2, BoxChanged DEF TheBoxes
<1>4. [boxes[b] EXCEPT !.val = v].type = boxes[b].type
  BY <1>1 DEF TheBoxes, BoxSet
<1> DEFINE x == [boxes[b] EXCEPT !.val = v]
<1>5. [boxes EXCEPT ![b].val = v] = [boxes EXCEPT ![b] = x]
  OBVIOUS
<1> HIDE DEF x
<1>6. /\ [boxes EXCEPT ![b] = x] \in Seq(TheBoxes)
      /\ Len([boxes EXCEPT ![b] = x]) = Len(boxes)
      /\ DOMAIN [boxes EXCEPT ![b] = x] = DOMAIN boxes
      /\ [boxes EXCEPT ![b] = x][b] = x
      /\ \A c \in DOMAIN boxes : [boxes EXCEPT ![b] = x][c] = boxes[c] \/ c = b
  BY <1>1, <1>3 DEF x
<1> QED BY <1>4, <1>5, <1>6 DEF x

\* What iinc makes of a number fits its type.
LEMMA AddFits ==
    ASSUME NEW t, t \in NumTypes \cup {"none"}, NEW a \in ValuesOf(t), NEW b \in Int
    PROVE  Calc("add", t, a, b) \in ValuesOf(t)
<1>1. CASE t \in IntTypes
  <2>1. a \in Int /\ t \in DOMAIN Width /\ ValuesOf(t) = Between(t)
    BY <1>1, ValuesAreInt DEF NumTypes
  <2>2. a + b \in Int
    BY <2>1
  <2>3. Wrap(t, a + b) \in Between(t)
    BY <2>1, <2>2, WrapFits
  <2> QED BY <1>1, <2>1, <2>3 DEF Calc, IntCalc
<1>2. CASE t \notin IntTypes
  <2>1. ValuesOf(t) = Int
    BY <1>2 DEF ValuesOf
  <2>2. FloatCalc("add", a, b) \in Int /\ "add" \in FloatOps
    BY <2>1, FloatCalcWhole DEF FloatOps
  <2> QED BY <1>2, <2>1, <2>2 DEF Calc
<1> QED BY <1>1, <1>2

\* What is popped as a number is a number of the type.
LEMMA ValuesOnStack ==
    ASSUME Typed, NEW op, Ready(op), NEW t, NEW k \in Nat, Popped(t, k) # Null
    PROVE  /\ Popped(t, k) \in DOMAIN boxes /\ boxes[Popped(t, k)] \in TheBoxes
           /\ Popped(t, k) \in Held(Top) /\ Popped(t, k) \in ToSet(Top.stack)
           /\ k < Len(Top.stack) /\ Popped(t, k) = Top.stack[Len(Top.stack) - k]
           /\ t # "ref" => boxes[Popped(t, k)].type = t
           /\ t \in NumTypes => Val(Popped(t, k)) \in ValuesOf(t) /\ Val(Popped(t, k)) \in Int
<1>1. Top.stack \in Seq(Ids)
  BY DEF Ready
<1>2. /\ Popped(t, k) = Below(Top.stack, k) /\ (t # "ref" => boxes[Popped(t, k)].type = t)
      /\ k < Len(Top.stack) /\ Below(Top.stack, k) \in ToSet(Top.stack)
      /\ Below(Top.stack, k) = Top.stack[Len(Top.stack) - k]
      /\ Below(Top.stack, k) \in DOMAIN boxes /\ boxes[Below(Top.stack, k)] \in TheBoxes
  BY <1>1, Taken
<1>3. Popped(t, k) \in Held(Top)
  BY <1>2, OnStackOrLocal
<1>4. ASSUME t \in NumTypes PROVE Val(Popped(t, k)) \in ValuesOf(t) /\ Val(Popped(t, k)) \in Int
  <2>1. t # "ref"
    BY <1>4 DEF NumTypes, IntTypes
  <2>2. boxes[Popped(t, k)].type = t /\ boxes[Popped(t, k)] \in TheBoxes
    BY <2>1, <1>2
  <2>3. Len(objects) \in Nat /\ Len(arrays) \in Nat
    BY TypedFacts
  <2> DEFINE x == boxes[Popped(t, k)]
  <2>4. x.type = t /\ x \in BoxSet(classes, Len(objects), Len(arrays), loaded)
    BY <2>2 DEF TheBoxes
  <2> HIDE DEF x
  <2>5. x.val \in ValuesOf(t)
    BY <1>4, <2>3, <2>4, BoxFacts
  <2> USE DEF x
  <2> QED BY <2>5, <1>4, ValuesAreInt DEF Val
<1> QED BY <1>2, <1>3, <1>4

\* A local variable is stored to,
LEMMA StoreSteps ==
    ASSUME Typed, Nested, Store
    PROVE  Outcome
<1> DEFINE b == Popped(Instr.t, 0)
           x == IF boxes[b].type \in Wide THEN Null ELSE b
           n == Instr.n
           f == [Top EXCEPT !.stack = Drop(Top.stack, 1), !.pc = After, !.resumed = FALSE,
                            !.locals[n] = x]
<1>1. At("store") /\ Ready("store")
  BY AtReady DEF Store
<1>2. CASE b = Null
  BY <1>1, <1>2, Ending DEF Store
<1>3. CASE b # Null
  <2>1. frames' = SetTop(f) /\ UNCHANGED <<data, boxes, exc, status>>
    BY <1>3 DEF Store
  <2> DEFINE s == Top.stack
             d == Drop(s, 1)
             F == FrameSet(classes, Len(boxes), loaded \cup inited)
  <2>2. /\ s \in Seq(Ids) /\ After \in Int /\ Top \in F /\ Len(boxes) \in Nat
        /\ Top.locals \in [0..(Method.maxLocals - 1) -> Ids]
        /\ Running /\ frames # <<>> /\ ~Interrupted
    BY <1>1, TypedFacts DEF Ready
  <2>3. n \in DOMAIN Top.locals
    BY <1>1, <2>2 DEF Ready, IsInstr
  <2>4. /\ b \in DOMAIN boxes /\ b \in Held(Top) /\ Len(s) > 0 /\ b = s[Len(s)]
    BY <1>1, <1>3, ValuesOnStack
  <2>5. x \in {Null, b} /\ x \in Ids
    BY <2>2, <2>4, TypedFacts DEF Ids, Null, Typed
  <2>6. /\ d \in Seq(Ids) /\ Len(d) = Len(s) - 1 /\ Len(s) \in Nat
        /\ \A i \in 1..Len(d) : d[i] = s[i] /\ i \in 1..Len(s)
    <3>1. 1 \in Nat /\ Len(s) \in Nat /\ 1 <= Len(s)
      BY <2>2, <2>4
    <3> QED BY <2>2, <3>1, Dropped
  <2>7. f \in F
    <3> HIDE DEF x, d
    <3>1. d \in Seq(0..Len(boxes)) /\ x \in 0..Len(boxes)
      BY <2>5, <2>6 DEF Ids
    <3> DEFINE cs == loaded \cup inited
               nb == Len(boxes)
    <3>2. Top \in FrameSet(classes, nb, cs) /\ d \in Seq(0..nb) /\ x \in 0..nb /\ nb \in Nat
          /\ nb <= nb /\ cs \subseteq cs /\ FALSE \in BOOLEAN
      BY <2>2, <3>1
    <3> HIDE DEF cs, nb, n
    <3>3. [Top EXCEPT !.stack = d, !.pc = After, !.resumed = FALSE, !.locals[n] = x]
            \in FrameSet(classes, nb, cs)
      BY <2>2, <2>3, <3>2, FrameChanged
    <3> QED BY <3>3 DEF cs, nb, d
  <2>8. /\ f.stack = d /\ f.locals = [Top.locals EXCEPT ![n] = x] /\ f.via = Top.via
    BY <2>2 DEF FrameSet
  <2> HIDE DEF f, d, x
  <2>9. /\ DOMAIN f.locals = DOMAIN Top.locals /\ f.locals[n] = x
        /\ \A m \in DOMAIN Top.locals : m # n => f.locals[m] = Top.locals[m]
    BY <2>2, <2>3, <2>8
  <2>10. /\ DOMAIN d = 1..Len(d) /\ DOMAIN s = 1..Len(s)
    BY <2>2, <2>6
  <2>11. Shared' = Shared
    BY <2>1 DEF Shared, data
  <2>12. ASSUME NEW c \in Held(f) PROVE c \in Shared' \/ c \in Held(Top)
    <3>1. CASE c \in ToSet(f.stack)
      <4>1. PICK i \in 1..Len(d) : c = d[i]
        BY <3>1, <2>8, <2>10 DEF ToSet
      <4>2. c = s[i] /\ i \in DOMAIN s
        BY <4>1, <2>6, <2>10
      <4> QED BY <4>2, OnStackOrLocal
    <3>2. CASE c \in Range(f.locals)
      <4>1. PICK m \in DOMAIN Top.locals : c = f.locals[m]
        BY <3>2, <2>9 DEF Range
      <4>2. CASE m = n
        BY <4>1, <4>2, <2>4, <2>5, <2>9 DEF Shared
      <4>3. CASE m # n
        BY <4>1, <4>3, <2>9, OnStackOrLocal
      <4> QED BY <4>2, <4>3
    <3> QED BY <3>1, <3>2 DEF Held
  <2>13. ASSUME Apart(Top, Shared), Distinct(Top, Shared)
         PROVE  Apart(f, Shared') /\ Distinct(f, Shared')
    <3>1. ASSUME NEW i \in DOMAIN d, NEW m \in DOMAIN Top.locals, d[i] = f.locals[m]
          PROVE  d[i] \in Shared
      <4>1. d[i] = s[i] /\ i \in DOMAIN s /\ i <= Len(s) - 1
        BY <2>6, <2>10
      <4>2. CASE m # n
        BY <4>1, <4>2, <3>1, <2>9, <2>13 DEF Apart
      <4>3. CASE m = n /\ x = Null
        BY <4>3, <3>1, <2>9 DEF Shared
      <4>4. CASE m = n /\ x = b
        <5>1. s[i] = s[Len(s)] /\ i # Len(s) /\ Len(s) \in DOMAIN s
          BY <4>1, <4>4, <3>1, <2>4, <2>6, <2>9, <2>10
        <5> QED BY <5>1, <4>1, <2>13 DEF Distinct
      <4> QED BY <4>2, <4>3, <4>4, <2>5
    <3>2. ASSUME NEW i \in DOMAIN d, NEW j \in DOMAIN d, i # j, d[i] = d[j]
          PROVE  d[i] \in Shared
      <4>1. d[i] = s[i] /\ d[j] = s[j] /\ i \in DOMAIN s /\ j \in DOMAIN s
        BY <2>6, <2>10
      <4> QED BY <4>1, <3>2, <2>13 DEF Distinct
    <3> QED BY <3>1, <3>2, <2>8, <2>9, <2>11 DEF Apart, Distinct
  <2>14. DataGrows
    <3>1. Len(boxes') \in Nat /\ Len(boxes) <= Len(boxes')
      BY <2>1, <2>2
    <3> QED BY <3>1, <2>1, DataSame
  <2>15. BoxesGrow
    BY <2>1, <2>2 DEF BoxesGrow, Typed, TheBoxes, data
  <2>16. f \in FrameSet(classes, Len(boxes'), loaded' \cup inited')
    BY <2>1, <2>7 DEF data
  <2>17. GoesOn(f)
    BY <2>1, <2>2, <2>8, <2>12, <2>13, <2>16 DEF GoesOn
  <2>18. /\ exc' \in ExcSet(TheBoxes, MethodNames(classes))
         /\ exc'.pending => exc.pending /\ ~Interrupted /\ exc'.byName = exc.byName
    BY <2>1, <2>2, ExcSame
  <2> QED BY <2>1, <2>2, <2>14, <2>15, <2>17, <2>18 DEF Works, Outcome
<1> QED BY <1>2, <1>3

\* or incremented in place.
LEMMA IincSteps ==
    ASSUME Typed, Nested, Iinc
    PROVE  Outcome
<1> DEFINE b == Top.locals[Instr.n]
           t == boxes[b].type
           v == Calc("add", t, boxes[b].val, Instr.by)
<1>1. At("iinc") /\ Ready("iinc")
  BY AtReady DEF Iinc
<1>2. Instr.n \in 0..(Method.maxLocals - 1) /\ Instr.by \in Int
  BY <1>1 DEF Ready, IsInstr
<1>3. b \in Ids /\ b \in Held(Top)
  BY <1>1, <1>2, OnStackOrLocal DEF Ready
<1>4. CASE b = Null
  BY <1>1, <1>4, Ending DEF Iinc
<1>5. CASE b # Null
  <2>1. b \in DOMAIN boxes /\ boxes[b] \in TheBoxes /\ boxes \in Seq(TheBoxes)
    BY <1>3, <1>5 DEF Typed, Ids, Null
  <2>2. /\ boxes' = IF t \in References THEN boxes ELSE [boxes EXCEPT ![b].val = v]
        /\ frames' = SetTop([Top EXCEPT !.pc = After, !.resumed = FALSE])
        /\ UNCHANGED <<data, exc, status>>
    BY <1>5 DEF Iinc
  <2>3. /\ boxes' \in Seq(TheBoxes) /\ Len(boxes') = Len(boxes)
        /\ \A c \in DOMAIN boxes : boxes'[c] = boxes[c] \/ c = b
    <3>1. CASE t \in References
      BY <3>1, <2>1, <2>2
    <3>2. CASE t \notin References
      <4>1. Len(objects) \in Nat /\ Len(arrays) \in Nat
        BY TypedFacts
      <4>2. t \in NumTypes \cup {"none"} /\ boxes[b].val \in ValuesOf(t)
        <5>1. t \in NumTypes \cup References \cup {"none"} /\ boxes[b].val \in Int
              /\ (t \in NumTypes => boxes[b].val \in ValuesOf(t))
          BY <4>1, <2>1, BoxFacts DEF TheBoxes
        <5>2. ValuesOf("none") = Int
          BY DEF ValuesOf, IntTypes
        <5> QED BY <5>1, <5>2, <3>2
      <4>3. v \in ValuesOf(t)
        BY <4>2, <1>2, AddFits
      <4> HIDE DEF v
      <4>4. /\ [boxes EXCEPT ![b].val = v] \in Seq(TheBoxes)
            /\ Len([boxes EXCEPT ![b].val = v]) = Len(boxes)
            /\ \A c \in DOMAIN boxes : [boxes EXCEPT ![b].val = v][c] = boxes[c] \/ c = b
        BY <2>1, <3>2, <4>3, OneWritten
      <4> QED BY <3>2, <4>4, <2>2
    <3> QED BY <3>1, <3>2
  <2>4. DataGrows /\ loaded' = loaded /\ Len(objects') = Len(objects) /\ Len(arrays') = Len(arrays)
    <3>1. Len(boxes') \in Nat /\ Len(boxes) <= Len(boxes')
      BY <2>1, <2>3
    <3> QED BY <3>1, <2>2, DataSame DEF data
  <2>5. frames' = SetTop(TopWith(Drop(Top.stack, 0), After))
    BY <1>1, <2>2, DropNone
  <2>6. \A c \in DOMAIN boxes : boxes'[c] = boxes[c] \/ c \in Held(Top)
    BY <2>3, <1>3
  <2>7. 0 \in Nat /\ exc' = exc /\ status' = status
    BY <2>2
  <2> QED BY <1>1, <2>3, <2>4, <2>5, <2>6, <2>7, Writing DEF Outcome
<1> QED BY <1>4, <1>5

\* pop and pop2.
LEMMA PopSteps ==
    ASSUME Typed, Nested, Pop
    PROVE  Outcome
<1>1. Ready("pop")
  BY AtReady DEF Pop
<1>2. Instr.n \in Nat /\ After \in Int
  BY <1>1 DEF Ready, IsInstr
<1>3. StackBecomes(Instr.n, <<>>, <<>>, After) /\ UNCHANGED data
  BY DEF Pop
<1> QED BY <1>1, <1>2, <1>3, PlainDropping DEF Outcome

DupNames == {"dup", "dup_x1", "dup_x2", "dup2", "dup2_x1", "dup2_x2"}

IsForm(f) ==
  /\ f.takes \in 1..4
  /\ f.widths \in Seq({1, 2})
  /\ f.copied \in Seq(1..Len(f.widths)) /\ f.copied # <<>>
  /\ f.back \in Seq((-Len(f.copied))..f.takes)
  /\ \A k \in DOMAIN f.back : f.back[k] # 0
  /\ \A i, j \in DOMAIN f.back : i # j /\ f.back[i] = f.back[j] => f.back[i] > 0

\* The forms of a dup are forms, and take as many values as each other.
LEMMA Forms ==
    ASSUME NEW name \in DupNames
    PROVE  /\ \A f \in DupForms(name) : IsForm(f)
           /\ \A f, g \in DupForms(name) : f.takes = g.takes
           /\ DupForms(name) # {}
<1>1. /\ IsForm(DupForm(1, <<1>>, <<1>>, <<1, -1>>))
      /\ IsForm(DupForm(2, <<1, 1>>, <<1>>, <<-1, 2, 1>>))
  BY DEF IsForm, DupForm
<1>2. /\ IsForm(DupForm(3, <<1, 1, 1>>, <<1>>, <<-1, 3, 2, 1>>))
      /\ IsForm(DupForm(3, <<1, 2>>, <<1>>, <<3, -1, 2, 1>>))
  BY DEF IsForm, DupForm
<1>3. /\ IsForm(DupForm(2, <<1, 1>>, <<2, 1>>, <<-1, -2, 2, 1>>))
      /\ IsForm(DupForm(2, <<2>>, <<1>>, <<2, -1, 1>>))
  BY DEF IsForm, DupForm
<1>4. /\ IsForm(DupForm(3, <<1, 1, 1>>, <<2, 1>>, <<-1, -2, 3, 2, 1>>))
      /\ IsForm(DupForm(3, <<2, 1>>, <<1>>, <<3, -1, 2, 1>>))
  BY DEF IsForm, DupForm
<1>5. /\ IsForm(DupForm(4, <<1, 1, 1, 1>>, <<2, 1>>, <<-1, -2, 4, 3, 2, 1>>))
      /\ IsForm(DupForm(4, <<2, 1, 1>>, <<1>>, <<4, -1, 4, 2, 1>>))
  BY DEF IsForm, DupForm
<1> DEFINE Good(S) == /\ S # {} /\ \A f \in S : IsForm(f)
                      /\ \A f, g \in S : f.takes = g.takes
<1>6. \A n, w, c, b : DupForm(n, w, c, b).takes = n
  BY DEF DupForm
<1>7. Good(DupForms("dup"))
  BY <1>1, <1>6 DEF DupForms
<1>8. Good(DupForms("dup_x1"))
  BY <1>1, <1>6 DEF DupForms
<1>9. Good(DupForms("dup_x2"))
  BY <1>2, <1>6 DEF DupForms
<1>10. Good(DupForms("dup2"))
  BY <1>3, <1>6 DEF DupForms
<1>11. Good(DupForms("dup2_x1"))
  BY <1>4, <1>6 DEF DupForms
<1>12. Good(DupForms("dup2_x2"))
  BY <1>5, <1>6 DEF DupForms
<1> QED BY <1>7, <1>8, <1>9, <1>10, <1>11, <1>12 DEF DupNames

(* What a form of dup that fits leaves on the stack.                       *)
LEMMA DupPuts ==
    ASSUME Typed, NEW op, Ready(op), NEW form, IsForm(form), Fits(form),
           exposed' = exposed \cup PutTwice(form)
    PROVE  LET fresh == [k \in DOMAIN form.copied |-> boxes[Nth(form.copied[k])]]
           IN /\ fresh \in Seq(TheBoxes) /\ Len(fresh) = Len(form.copied)
              /\ PutBack(form) \in Seq(0..(Len(boxes) + Len(form.copied)))
              /\ FromTop(form.takes, PutBack(form)) /\ Unlike(PutBack(form))
              /\ PutTwice(form) \subseteq Ids
<1> DEFINE s == Top.stack
           back == form.back
           ids == PutBack(form)
           fresh == [k \in DOMAIN form.copied |-> boxes[Nth(form.copied[k])]]
<1>1. /\ s \in Seq(Ids) /\ Len(boxes) \in Nat /\ Len(s) \in Nat /\ DOMAIN s = 1..Len(s)
  BY TypedFacts DEF Ready
<1>2. /\ form.takes \in 1..4 /\ form.widths \in Seq({1, 2})
      /\ form.copied \in Seq(1..Len(form.widths))
      /\ back \in Seq((-Len(form.copied))..form.takes)
      /\ \A k \in DOMAIN back : back[k] # 0
      /\ \A i, j \in DOMAIN back : i # j /\ back[i] = back[j] => back[i] > 0
  BY DEF IsForm
<1>3. \A k \in Nat : /\ Below(s, k) \in Ids
                     /\ Below(s, k) # Null =>
                          /\ k < Len(s) /\ Below(s, k) = s[Len(s) - k]
                          /\ boxes[Below(s, k)] \in TheBoxes
  BY <1>1, Taken
<1>4. ASSUME NEW k \in 1..4
      PROVE  /\ Nth(k) \in Ids
             /\ Nth(k) # Null => /\ Len(s) - (k - 1) \in DOMAIN s /\ Nth(k) = s[Len(s) - (k - 1)]
  <2>1. k - 1 \in Nat /\ Nth(k) = Below(s, k - 1)
    BY DEF Nth
  <2>2. k - 1 < Len(s) => Len(s) - (k - 1) \in DOMAIN s
    BY <1>1
  <2> QED BY <2>1, <2>2, <1>3
<1>5. fresh \in Seq(TheBoxes) /\ Len(fresh) = Len(form.copied)
  <2>1. ASSUME NEW k \in DOMAIN form.copied PROVE boxes[Nth(form.copied[k])] \in TheBoxes
    <3>1. form.copied[k] \in 1..Len(form.widths)
      BY <1>2
    <3>2. Nth(form.copied[k]) # Null
      BY <3>1 DEF Fits, FitsUpTo
    <3>3. form.copied[k] - 1 \in Nat
      BY <3>1, <1>2
    <3> QED BY <3>2, <3>3, <1>3 DEF Nth
  <2>2. DOMAIN form.copied = 1..Len(form.copied) /\ Len(form.copied) \in Nat
    BY <1>2
  <2> QED BY <2>1, <2>2
<1> DEFINE nc == Len(form.copied)
<1>6. /\ nc \in Nat /\ DOMAIN back = 1..Len(back) /\ Len(back) \in Nat
      /\ \A k \in DOMAIN back : /\ back[k] \in Int /\ -nc <= back[k] /\ back[k] <= form.takes
                                /\ back[k] # 0
  BY <1>2
<1>7. ASSUME NEW k \in DOMAIN back
      PROVE  \/ /\ back[k] < 0 /\ back[k] \in Int /\ ids[k] = Len(boxes) - back[k]
                /\ ids[k] \in (Len(boxes) + 1)..(Len(boxes) + nc)
             \/ /\ back[k] > 0 /\ back[k] \in 1..4 /\ back[k] <= form.takes
                /\ ids[k] = Nth(back[k]) /\ ids[k] \in 0..Len(boxes)
  <2> DEFINE m == back[k]
             t == form.takes
             nb == Len(boxes)
  <2>1. m \in Int /\ -nc <= m /\ m <= t /\ m # 0 /\ nb \in Nat /\ nc \in Nat /\ t \in 1..4
    BY <1>1, <1>2, <1>6
  <2>2. ids[k] = IF m < 0 THEN nb + (-m) ELSE Nth(m)
    BY DEF PutBack, New
  <2> HIDE DEF m, t, nb, nc, ids
  <2>3. CASE m < 0
    BY <2>1, <2>2, <2>3 DEF m, nb
  <2>4. CASE m > 0
    <3>1. m \in 1..4 /\ ids[k] = Nth(m)
      BY <2>1, <2>2, <2>4
    <3>2. Nth(m) \in 0..nb
      BY <3>1, <1>4 DEF Ids, nb
    <3> QED BY <2>1, <2>4, <3>1, <3>2 DEF m, t, nb
  <2> QED BY <2>1, <2>3, <2>4
<1>8. DOMAIN ids = DOMAIN back
  BY DEF PutBack
<1>9. ids \in Seq(0..(Len(boxes) + nc))
  <2>1. ASSUME NEW k \in DOMAIN back PROVE ids[k] \in 0..(Len(boxes) + nc)
    <3> HIDE DEF ids, back, nc
    <3> QED BY <1>7, <1>6, <1>1
  <2>2. ids = [k \in 1..Len(back) |-> ids[k]]
    BY <1>6 DEF PutBack
  <2> HIDE DEF ids, back
  <2> QED BY <2>1, <2>2, <1>6
<1>10. PutTwice(form) \subseteq Ids
  <2>1. SUFFICES ASSUME NEW k \in DOMAIN back, NEW j \in DOMAIN back, j # k, back[j] = back[k]
                 PROVE  Nth(back[k]) \in Ids
    BY DEF PutTwice
  <2>2. back[k] > 0
    BY <2>1, <1>2
  <2>3. back[k] \in 1..4
    BY <2>2, <1>6, <1>7
  <2> QED BY <2>3, <1>4
<1>11. FromTop(form.takes, ids)
  <2>1. SUFFICES ASSUME NEW k \in DOMAIN back
                 PROVE  \/ ids[k] \in Shared' \/ ids[k] > Len(boxes)
                        \/ \E j \in DOMAIN s : j > Len(s) - form.takes /\ ids[k] = s[j]
    BY <1>8 DEF FromTop
  <2>2. CASE back[k] < 0
    <3>1. ids[k] = Len(boxes) - back[k] /\ back[k] \in Int
      BY <2>2, <1>6, <1>7
    <3>2. ids[k] > Len(boxes)
      BY <3>1, <2>2, <1>1
    <3> QED BY <3>2
  <2>3. CASE back[k] > 0
    <3>1. back[k] \in 1..4 /\ back[k] <= form.takes /\ ids[k] = Nth(back[k])
      BY <2>3, <1>6, <1>7
    <3>2. CASE Nth(back[k]) = Null
      BY <3>1, <3>2 DEF Shared
    <3>3. CASE Nth(back[k]) # Null
      <4>1. /\ Len(s) - (back[k] - 1) \in DOMAIN s /\ ids[k] = s[Len(s) - (back[k] - 1)]
        BY <3>1, <3>3, <1>4
      <4>2. Len(s) - (back[k] - 1) > Len(s) - form.takes
        <5> DEFINE m == back[k]
                   t == form.takes
                   l == Len(s)
        <5>1. m \in 1..4 /\ m <= t /\ l \in Nat /\ t \in 1..4
          BY <3>1, <1>1, <1>2
        <5> HIDE DEF m, t, l
        <5>2. l - (m - 1) > l - t
          BY <5>1
        <5> QED BY <5>2 DEF m, t, l
      <4> QED BY <4>1, <4>2
    <3> QED BY <3>2, <3>3
  <2> QED BY <2>2, <2>3, <1>6
<1>12. Unlike(ids)
  <2>1. SUFFICES ASSUME NEW i \in DOMAIN back, NEW j \in DOMAIN back, i # j, ids[i] = ids[j]
                 PROVE  \/ ids[i] \in Shared'
                        \/ \E a, b \in DOMAIN s : a # b /\ s[a] = ids[i] /\ s[b] = ids[i]
    BY <1>8 DEF Unlike
  <2>2. \A k \in 1..4 : Nth(k) \in Int /\ Nth(k) <= Len(boxes)
    BY <1>4, <1>1 DEF Ids
  <2>3. CASE back[i] < 0 /\ back[j] < 0
    <3>1. back[i] = back[j]
      BY <2>1, <2>3, <1>6, <1>7, <1>1
    <3> QED BY <3>1, <2>1, <2>3, <1>2, <1>6
  <2>4. CASE back[i] < 0 /\ back[j] > 0
    <3>1. ids[i] > Len(boxes) /\ ids[j] <= Len(boxes) /\ ids[j] \in Int
      <4> HIDE DEF ids, back, nc
      <4> QED BY <2>4, <1>6, <1>7, <1>1
    <3> QED BY <3>1, <2>1, <1>1
  <2>5. CASE back[i] > 0 /\ back[j] < 0
    <3>1. ids[j] > Len(boxes) /\ ids[i] <= Len(boxes) /\ ids[i] \in Int
      <4> HIDE DEF ids, back, nc
      <4> QED BY <2>5, <1>6, <1>7, <1>1
    <3> QED BY <3>1, <2>1, <1>1
  <2>6. CASE back[i] > 0 /\ back[j] > 0
    <3>1. /\ back[i] \in 1..4 /\ ids[i] = Nth(back[i])
          /\ back[j] \in 1..4 /\ ids[j] = Nth(back[j])
      BY <2>6, <1>6, <1>7
    <3>2. CASE back[i] = back[j]
      <4>1. Nth(back[i]) \in PutTwice(form)
        BY <2>1, <3>2 DEF PutTwice
      <4> QED BY <4>1, <3>1 DEF Shared
    <3>3. CASE back[i] # back[j] /\ ids[i] = Null
      BY <3>3 DEF Shared
    <3>4. CASE back[i] # back[j] /\ ids[i] # Null
      <4> DEFINE a == Len(s) - (back[i] - 1)
                 b == Len(s) - (back[j] - 1)
      <4>1. a \in DOMAIN s /\ b \in DOMAIN s /\ s[a] = ids[i] /\ s[b] = ids[i]
        BY <3>1, <3>4, <1>4, <2>1
      <4>2. a # b
        BY <3>1, <3>4, <1>1
      <4> QED BY <4>1, <4>2
    <3> QED BY <3>2, <3>3, <3>4
  <2> QED BY <2>3, <2>4, <2>5, <2>6, <1>6
<1> QED BY <1>5, <1>9, <1>10, <1>11, <1>12

\* Data of which only the sets of classes and of exposed boxes grow.
LEMMA Growing ==
    ASSUME Typed, Len(boxes') \in Nat, Len(boxes) <= Len(boxes'), classes' = classes,
           loaded \subseteq loaded', loaded' \subseteq DOMAIN classes,
           inited \subseteq inited', inited' \subseteq DOMAIN classes,
           statics' = statics \/ statics' \in [DOMAIN statics' -> Ids'],
           \/ objects' = objects
           \/ objects' \in Seq(ObjectSet(classes, Len(boxes'))) /\ Len(objects) <= Len(objects'),
           arrays' = arrays \/ (arrays' \in Seq(ArraySet(Len(boxes'))) /\ Len(arrays) <= Len(arrays')),
           exposed \subseteq exposed', exposed' \subseteq Ids'
    PROVE  DataGrows
<1>2. Len(boxes) \in Nat /\ Ids \subseteq Ids'
  BY DEF Typed, Ids
<1>3. statics' \in [DOMAIN statics' -> Ids']
  BY <1>2 DEF Typed
<1>4. objects' \in Seq(ObjectSet(classes, Len(boxes'))) /\ Len(objects) <= Len(objects')
  <2>1. ObjectSet(classes, Len(boxes)) \subseteq ObjectSet(classes, Len(boxes'))
    BY <1>2, ObjectsMore
  <2>2. objects \in Seq(ObjectSet(classes, Len(boxes')))
    BY <2>1, SeqGrows DEF Typed
  <2> QED BY <2>2
<1>5. arrays' \in Seq(ArraySet(Len(boxes'))) /\ Len(arrays) <= Len(arrays')
  <2>1. ArraySet(Len(boxes)) \subseteq ArraySet(Len(boxes'))
    BY <1>2, ArraysMore
  <2>2. arrays \in Seq(ArraySet(Len(boxes')))
    BY <2>1, SeqGrows DEF Typed
  <2> QED BY <2>2
<1> QED BY <1>3, <1>4, <1>5 DEF DataGrows

\* Loading a class loads its superclasses, which are classes, too.
LEMMA LineLoaded ==
    ASSUME Typed, NEW c \in DOMAIN classes
    PROVE  /\ loaded \cup ToSet(Lineage(c)) \subseteq DOMAIN classes
           /\ ToSet(LineageIn(classes, c)) \subseteq loaded \cup ToSet(Lineage(c))
           /\ Lineage(c) \in Seq(DOMAIN classes) /\ c \in ToSet(Lineage(c))
           /\ IsFiniteSet(ToSet(Lineage(c))) /\ ToSet(Lineage(c)) \subseteq DOMAIN classes
<1>1. /\ IsFiniteSet(DOMAIN classes)
      /\ \A d \in DOMAIN classes : classes[d].super \in DOMAIN classes \cup {NoClass}
  BY Classes DEF Typed
<1>2. /\ Lineage(c) \in Seq(DOMAIN classes) /\ c \in ToSet(Lineage(c))
      /\ IsFiniteSet(ToSet(Lineage(c))) /\ ToSet(Lineage(c)) \subseteq DOMAIN classes
  <2> DEFINE p == classes
  <2>1. IsFiniteSet(DOMAIN p) /\ c \in DOMAIN p
        /\ \A d \in DOMAIN p : p[d].super \in DOMAIN p \cup {NoClass}
    BY <1>1
  <2> HIDE DEF p
  <2>2. /\ LineageIn(p, c) \in Seq(DOMAIN p)
        /\ c \in ToSet(LineageIn(p, c))
        /\ ToSet(LineageIn(p, c)) \subseteq DOMAIN p
        /\ IsFiniteSet(ToSet(LineageIn(p, c)))
    BY <2>1, Lines
  <2> QED BY <2>2 DEF p, Lineage
<1> QED BY <1>2 DEF Typed, Lineage

\* dup and its kin, in whatever form fits.
LEMMA DupSteps ==
    ASSUME Typed, Nested, Dup
    PROVE  Outcome
<1> DEFINE forms == {f \in DupForms(Instr.f) : Fits(f)}
           takes == (CHOOSE f \in DupForms(Instr.f) : TRUE).takes
           form == CHOOSE f \in forms : TRUE
           fresh == [k \in DOMAIN form.copied |-> boxes[Nth(form.copied[k])]]
           breaks == \E k \in DOMAIN form.copied : ClonesLong(Nth(form.copied[k]))
<1>1. At("dup") /\ Ready("dup")
  BY AtReady DEF Dup
<1>2. Instr.f \in DupNames /\ After \in Int
  BY <1>1 DEF Ready, IsInstr, DupNames
<1>3. /\ \A f \in DupForms(Instr.f) : IsForm(f)
      /\ \A f, g \in DupForms(Instr.f) : f.takes = g.takes
      /\ DupForms(Instr.f) # {}
  BY <1>2, Forms
<1>4. takes \in Nat
  <2> DEFINE any == CHOOSE f \in DupForms(Instr.f) : TRUE
  <2>1. any \in DupForms(Instr.f)
    BY <1>3
  <2> HIDE DEF any
  <2>2. any.takes \in 1..4
    BY <2>1, <1>3 DEF IsForm
  <2> QED BY <2>2 DEF any
<1>5. CASE forms # {}
  <2>1. form \in forms
    BY <1>5
  <2>2. IsForm(form) /\ Fits(form) /\ form.takes = takes
    BY <2>1, <1>3
  <2>3. CASE breaks
    <3>1. Ends("undefined")
      BY <1>5, <2>3 DEF Dup
    <3> QED BY <3>1, <1>1, Ending
  <2>4. CASE ~breaks
    <3>1. /\ StackBecomes(takes, PutBack(form), fresh, After)
          /\ exposed' = exposed \cup PutTwice(form)
          /\ UNCHANGED <<classes, statics, objects, arrays, loaded, inited>>
      BY <1>5, <2>4 DEF Dup
    <3>2. boxes' = boxes \o fresh
      BY <3>1 DEF StackBecomes
    <3>3. /\ fresh \in Seq(TheBoxes) /\ Len(fresh) = Len(form.copied)
          /\ PutBack(form) \in Seq(0..(Len(boxes) + Len(form.copied)))
          /\ FromTop(form.takes, PutBack(form)) /\ Unlike(PutBack(form))
          /\ PutTwice(form) \subseteq Ids
      <4> HIDE DEF form
      <4> QED BY <1>1, <2>2, <3>1, DupPuts
    <3> HIDE DEF form, fresh, takes
    <3>4. boxes \in Seq(TheBoxes)
      BY DEF Typed
    <3>5. Len(boxes') \in Nat /\ Len(boxes) <= Len(boxes') /\ Len(boxes) \in Nat
      BY <3>2, <3>3, <3>4
    <3>6. exposed \subseteq exposed' /\ exposed' \subseteq Ids'
      BY <3>1, <3>3, <3>5 DEF Typed, Ids
    <3>7. DataGrows
      BY <3>1, <3>5, <3>6, Growing DEF Typed
    <3>8. fresh \in Seq(BoxSet(classes, Len(objects'), Len(arrays'), loaded'))
      BY <3>1, <3>3 DEF TheBoxes
    <3>9. /\ PutBack(form) \in Seq(0..(Len(boxes) + Len(fresh)))
          /\ FromTop(takes, PutBack(form)) /\ Unlike(PutBack(form))
      BY <2>2, <3>3
    <3>10. Works
      BY <1>1, <1>2, <1>4, <3>1, <3>7, <3>8, <3>9, Becoming
    <3> QED BY <3>10 DEF Outcome
  <2> QED BY <2>3, <2>4
<1>6. CASE forms = {}
  <2>1. CASE \E f \in DupForms(Instr.f) : MeetsNull(f)
    <3>1. Ends("throws")
      BY <1>6, <2>1 DEF Dup
    <3> QED BY <3>1, <1>1, Ending
  <2>2. CASE ~(\E f \in DupForms(Instr.f) : MeetsNull(f)) /\ Instr.f \in {"dup", "dup_x1"}
    <3>1. Ends("exits")
      BY <1>6, <2>2 DEF Dup
    <3> QED BY <3>1, <1>1, Ending
  <2>3. CASE ~(\E f \in DupForms(Instr.f) : MeetsNull(f)) /\ Instr.f \notin {"dup", "dup_x1"}
    <3>1. StackBecomes(takes, <<>>, <<>>, After) /\ UNCHANGED data
      BY <1>6, <2>3 DEF Dup
    <3> HIDE DEF takes
    <3> QED BY <3>1, <1>1, <1>2, <1>4, PlainDropping DEF Outcome
  <2> QED BY <2>1, <2>2, <2>3
<1> QED BY <1>5, <1>6

\* An int made from a float, or a float made from an int.
LEMMA CastIsNumber ==
    ASSUME NEW s \in {"int", "float"}, NEW t \in {"int", "float"}, NEW v \in ValuesOf(s)
    PROVE  Cast(s, t, v) \in ValuesOf(t)
<1>1. s \in NumTypes /\ t \in CastTypes /\ CastMakes(t) = t
  BY DEF NumTypes, IntTypes, CastTypes, CastMakes
<1> QED BY <1>1, CastFits

\* swap.
LEMMA SwapSteps ==
    ASSUME Typed, Nested, Swap
    PROVE  Outcome
<1> DEFINE a == Below(Top.stack, 0)
           b == Below(Top.stack, 1)
           va == Cast(boxes[b].type, boxes[a].type, Val(b))
           vb == Cast(boxes[a].type, boxes[b].type, Val(a))
           mixed == {boxes[a].type, boxes[b].type} = {"int", "float"}
<1>1. At("swap") /\ Ready("swap")
  BY AtReady DEF Swap
<1>2. CASE Null \in {a, b}
  <2>1. Ends("throws")
    BY <1>2 DEF Swap
  <2> QED BY <2>1, <1>1, Ending
<1>3. CASE Null \notin {a, b} /\ 2 \in {WidthOf(a), WidthOf(b)}
  <2>1. Ends("exits")
    BY <1>3 DEF Swap
  <2> QED BY <2>1, <1>1, Ending
<1>4. CASE Null \notin {a, b} /\ 2 \notin {WidthOf(a), WidthOf(b)}
  <2>1. /\ frames' = SetTop([Top EXCEPT !.stack = Drop(Top.stack, 2), !.pc = After, !.resumed = FALSE])
        /\ boxes' = IF mixed THEN [boxes EXCEPT ![a].val = va, ![b].val = vb] ELSE boxes
        /\ UNCHANGED <<data, exc, status>>
    BY <1>4 DEF Swap
  <2>2. /\ a \in DOMAIN boxes /\ b \in DOMAIN boxes
        /\ boxes[a] \in TheBoxes /\ boxes[b] \in TheBoxes
        /\ a \in Held(Top) /\ b \in Held(Top)
    <3>1. Top.stack \in Seq(Ids) /\ 0 \in Nat /\ 1 \in Nat
      BY <1>1 DEF Ready
    <3>2. a \in ToSet(Top.stack) /\ b \in ToSet(Top.stack)
          /\ a \in DOMAIN boxes /\ b \in DOMAIN boxes
          /\ boxes[a] \in TheBoxes /\ boxes[b] \in TheBoxes
      BY <1>4, <3>1, Taken
    <3> QED BY <3>2, OnStackOrLocal
  <2>3. Len(objects) \in Nat /\ Len(arrays) \in Nat /\ boxes \in Seq(TheBoxes)
    BY DEF Typed
  <2> HIDE DEF a, b
  <2>4. /\ boxes' \in Seq(TheBoxes) /\ Len(boxes') = Len(boxes)
        /\ \A c \in DOMAIN boxes : boxes'[c] = boxes[c] \/ c \in {a, b}
    <3>1. CASE ~mixed
      BY <3>1, <2>1, <2>3
    <3>2. CASE mixed
      <4>1. /\ boxes[a].type \in {"int", "float"} /\ boxes[b].type \in {"int", "float"}
            /\ boxes[a].type # boxes[b].type
        BY <3>2
      <4> DEFINE ba == boxes[a]
                 bb == boxes[b]
      <4>2. ba \in BoxSet(classes, Len(objects), Len(arrays), loaded)
            /\ bb \in BoxSet(classes, Len(objects), Len(arrays), loaded)
        BY <2>2 DEF TheBoxes
      <4>3. ba.type \in NumTypes /\ bb.type \in NumTypes
            /\ ba.type \notin References /\ bb.type \notin References
        BY <4>1 DEF NumTypes, IntTypes, References
      <4> HIDE DEF ba, bb
      <4>4. ba.val \in ValuesOf(ba.type) /\ bb.val \in ValuesOf(bb.type)
        BY <4>2, <4>3, <2>3, BoxFacts
      <4>5. va \in ValuesOf(boxes[a].type) /\ vb \in ValuesOf(boxes[b].type)
        BY <4>1, <4>4, CastIsNumber DEF ba, bb, Val
      <4>6. a # b
        BY <4>1
      <4> HIDE DEF va, vb
      <4> DEFINE x == [boxes[a] EXCEPT !.val = va]
                 y == [boxes[b] EXCEPT !.val = vb]
      <4>7. x \in TheBoxes /\ y \in TheBoxes
        <5>1. [ba EXCEPT !.val = va] \in BoxSet(classes, Len(objects), Len(arrays), loaded)
          BY <4>2, <4>3, <4>5, <2>3, BoxChanged DEF ba
        <5>2. [bb EXCEPT !.val = vb] \in BoxSet(classes, Len(objects), Len(arrays), loaded)
          BY <4>2, <4>3, <4>5, <2>3, BoxChanged DEF bb
        <5> QED BY <5>1, <5>2 DEF ba, bb, TheBoxes
      <4>8. boxes' = [[boxes EXCEPT ![a] = x] EXCEPT ![b] = y]
        BY <2>1, <3>2, <4>6
      <4> HIDE DEF x, y
      <4> QED BY <4>7, <4>8, <2>2, <2>3
    <3> QED BY <3>1, <3>2
  <2>5. DataGrows /\ loaded' = loaded /\ Len(objects') = Len(objects) /\ Len(arrays') = Len(arrays)
    <3>1. Len(boxes') \in Nat /\ Len(boxes) <= Len(boxes')
      BY <2>3, <2>4
    <3> QED BY <3>1, <2>1, DataSame DEF data
  <2>6. frames' = SetTop(TopWith(Drop(Top.stack, 2), After))
    BY <2>1 DEF TopWith
  <2>7. \A c \in DOMAIN boxes : boxes'[c] = boxes[c] \/ c \in Held(Top)
    BY <2>4, <2>2
  <2>8. 2 \in Nat /\ exc' = exc /\ status' = status
    BY <2>1
  <2> QED BY <1>1, <2>4, <2>5, <2>6, <2>7, <2>8, Writing DEF Outcome
<1> QED BY <1>2, <1>3, <1>4

\* The negations, which write to the box on the stack.
LEMMA NegateSteps ==
    ASSUME Typed, Nested, Negate
    PROVE  Outcome
<1> DEFINE a == Popped(Instr.t, 0)
           v == Negated(Instr.t, boxes[a].val)
<1>1. At("neg") /\ Ready("neg") /\ 0 \in Nat
  BY AtReady DEF Negate
<1>2. Instr.t \in NumTypes /\ Instr.t # "ref" /\ Instr.t \notin References
  BY <1>1 DEF Ready, IsInstr, NumTypes, IntTypes, References
<1>3. CASE a = Null
  <2>1. Ends("undefined")
    BY <1>3 DEF Negate
  <2> QED BY <2>1, <1>1, Ending
<1>4. CASE a # Null
  <2>1. /\ boxes' = [boxes EXCEPT ![a].val = v]
        /\ frames' = SetTop([Top EXCEPT !.pc = After, !.resumed = FALSE])
        /\ UNCHANGED <<data, exc, status>>
    BY <1>4 DEF Negate
  <2>2. /\ a \in DOMAIN boxes /\ a \in Held(Top) /\ boxes[a].type = Instr.t
        /\ boxes[a].val \in ValuesOf(Instr.t)
    BY <1>1, <1>2, <1>4, ValuesOnStack DEF Val
  <2>3. v \in ValuesOf(boxes[a].type)
    BY <1>2, <2>2, NegatedFits
  <2> HIDE DEF a, v
  <2>4. /\ boxes' \in Seq(TheBoxes) /\ Len(boxes') = Len(boxes)
        /\ \A c \in DOMAIN boxes : boxes'[c] = boxes[c] \/ c = a
    BY <1>2, <2>1, <2>2, <2>3, OneWritten
  <2>5. DataGrows /\ loaded' = loaded /\ Len(objects') = Len(objects) /\ Len(arrays') = Len(arrays)
    <3>1. Len(boxes') \in Nat /\ Len(boxes) <= Len(boxes')
      BY <2>4, TypedFacts
    <3> QED BY <3>1, <2>1, DataSame DEF data
  <2>6. frames' = SetTop(TopWith(Drop(Top.stack, 0), After))
    BY <1>1, <2>1, DropNone
  <2>7. \A c \in DOMAIN boxes : boxes'[c] = boxes[c] \/ c \in Held(Top)
    BY <2>4, <2>2
  <2>8. exc' = exc /\ status' = status
    BY <2>1
  <2> QED BY <1>1, <2>4, <2>5, <2>6, <2>7, <2>8, Writing DEF Outcome
<1> QED BY <1>3, <1>4

\* The arithmetic instructions.
LEMMA BinarySteps ==
    ASSUME Typed, Nested, Binary
    PROVE  Outcome
<1> DEFINE a == Popped(OperandType, 1)
           b == Popped(OperandType, 0)
           t == Instr.t
           f == Instr.f
<1>1. At("binary") /\ Ready("binary") /\ 0 \in Nat /\ 1 \in Nat /\ 2 \in Nat
  BY AtReady DEF Binary
<1>2. t \in NumTypes /\ f \in IF t \in IntTypes THEN IntOps ELSE FloatOps
  BY <1>1 DEF Ready, IsInstr
<1>3. /\ OperandType \in NumTypes /\ (OperandType = t \/ (OperandType = "float" /\ t = "double"))
  BY <1>2 DEF OperandType, NumTypes, IntTypes
<1>4. CASE Null \in {a, b}
  <2>1. Ends("undefined")
    BY <1>4 DEF Binary
  <2> QED BY <2>1, <1>1, Ending
<1>5. CASE Null \notin {a, b} /\ Traps(f, t, Val(a), Val(b))
  <2>0. ~Refuses(f, Val(a))
    BY <1>5 DEF Traps, Refuses
  <2>1. Ends("undefined")
    BY <1>5, <2>0 DEF Binary
  <2> QED BY <2>1, <1>1, Ending
<1>6. CASE Null \notin {a, b} /\ Refuses(f, Val(a)) /\ ~Traps(f, t, Val(a), Val(b))
  <2>1. Ends("throws") \/ Ends("undefined")
    BY <1>6 DEF Binary
  <2> QED BY <2>1, <1>1, Ending
<1>7. CASE Null \notin {a, b} /\ ~Refuses(f, Val(a)) /\ ~Traps(f, t, Val(a), Val(b))
  <2>1. Pushes(2, Box(t, Calc(f, t, Val(a), Val(b)))) /\ UNCHANGED data
    BY <1>7 DEF Binary
  <2>2. Val(a) \in ValuesOf(OperandType) /\ Val(b) \in ValuesOf(OperandType)
    BY <1>1, <1>3, <1>7, ValuesOnStack
  <2>3. Val(a) \in ValuesOf(t) /\ Val(b) \in ValuesOf(t)
    BY <2>2, <1>3 DEF ValuesOf, IntTypes
  <2>4. Calc(f, t, Val(a), Val(b)) \in ValuesOf(t)
    <3> DEFINE va == Val(a)
               vb == Val(b)
    <3>1. va \in ValuesOf(t) /\ vb \in ValuesOf(t) /\ ~Traps(f, t, va, vb)
      BY <1>7, <2>3
    <3> HIDE DEF va, vb, t, f
    <3>2. Calc(f, t, va, vb) \in ValuesOf(t)
      BY <3>1, <1>2, CalcFits
    <3> QED BY <3>2 DEF va, vb
  <2> HIDE DEF a, b, t, f
  <2> QED BY <2>1, <2>4, <1>1, <1>2, PushingNumber DEF Outcome
<1> QED BY <1>4, <1>5, <1>6, <1>7

\* The conversions.
LEMMA ConvertSteps ==
    ASSUME Typed, Nested, Convert
    PROVE  Outcome
<1> DEFINE a == Popped(Instr.from, 0)
           t == IF Instr.t \in {"byte", "char", "short"} THEN "int" ELSE Instr.t
<1>1. At("cast") /\ Ready("cast") /\ 0 \in Nat /\ 1 \in Nat
  BY AtReady DEF Convert
<1>2. Instr.from \in NumTypes /\ Instr.t \in CastTypes
  BY <1>1 DEF Ready, IsInstr, CastTypes
<1>3. CASE a = Null
  <2>1. Ends("undefined")
    BY <1>3 DEF Convert
  <2> QED BY <2>1, <1>1, Ending
<1>4. CASE a # Null
  <2>1. Pushes(1, Box(t, Cast(Instr.from, Instr.t, Val(a)))) /\ UNCHANGED data
    BY <1>4 DEF Convert
  <2>2. Val(a) \in ValuesOf(Instr.from)
    BY <1>1, <1>2, <1>4, ValuesOnStack
  <2>3. Cast(Instr.from, Instr.t, Val(a)) \in ValuesOf(CastMakes(Instr.t))
    BY <1>2, <2>2, CastFits
  <2>4. CastMakes(Instr.t) = t /\ t \in NumTypes
    BY <1>2 DEF CastMakes, CastTypes, NumTypes, IntTypes
  <2> HIDE DEF a, t
  <2> QED BY <2>1, <2>3, <2>4, <1>1, PushingNumber DEF Outcome
<1> QED BY <1>3, <1>4

\* 0, 1 and -1 are ints.
LEMMA SmallNumbers ==
    /\ "int" \in NumTypes /\ 0 \in ValuesOf("int")
    /\ -1..1 \subseteq ValuesOf("int")
<1>1. "int" \in NumTypes /\ "int" \in IntTypes /\ "int" \in DOMAIN Width
  BY ValuesAssumption DEF NumTypes, IntTypes
<1> DEFINE w == Width["int"]
<1>2. w \in Nat /\ w >= 2
  BY ValuesAssumption, <1>1
<1>3. Least("int") = -PowerOf2(w - 1) /\ Greatest("int") = PowerOf2(w - 1) - 1
  BY DEF Least, Greatest
<1> HIDE DEF w
<1>4. PowerOf2(1) = 2
  <2>1. 0 \in Nat /\ 1 = 0 + 1
    OBVIOUS
  <2> QED BY <2>1, PowersDouble
<1>5. w - 1 \in Nat /\ 1 \in Nat /\ 1 <= w - 1
  BY <1>2
<1>6. PowerOf2(w - 1) \in Nat /\ 2 <= PowerOf2(w - 1)
  BY <1>4, <1>5, PowersGrow, PowersDouble
<1> QED BY <1>1, <1>3, <1>6 DEF ValuesOf

\* The comparisons.
LEMMA CompareSteps ==
    ASSUME Typed, Nested, Compare
    PROVE  Outcome
<1> DEFINE a == Popped(Instr.t, 1)
           b == Popped(Instr.t, 0)
<1>1. At("cmp") /\ Ready("cmp") /\ 0 \in Nat /\ 1 \in Nat /\ 2 \in Nat
  BY AtReady DEF Compare
<1>2. Instr.t \in NumTypes
  BY <1>1 DEF Ready, IsInstr
<1>3. CASE Null \in {a, b}
  <2>1. Ends("undefined")
    BY <1>3 DEF Compare
  <2> QED BY <2>1, <1>1, Ending
<1>4. CASE Null \notin {a, b}
  <2>1. UNCHANGED data /\ \E r \in Comparisons(Val(a), Val(b)) : Pushes(2, Box("int", r))
    BY <1>4 DEF Compare
  <2>2. Val(a) \in Int /\ Val(b) \in Int
    BY <1>1, <1>2, <1>4, ValuesOnStack
  <2>3. Comparisons(Val(a), Val(b)) \subseteq -1..1
    <3> DEFINE d == Val(a) - Val(b)
    <3>1. d \in Int
      BY <2>2
    <3> HIDE DEF d
    <3>2. Sign(d) \in -1..1
      BY <3>1 DEF Sign
    <3> QED BY <3>2 DEF Comparisons, d
  <2> HIDE DEF a, b
  <2>4. PICK r \in -1..1 : Pushes(2, Box("int", r))
    BY <2>1, <2>3
  <2>5. r \in ValuesOf("int") /\ "int" \in NumTypes
    BY SmallNumbers
  <2> QED BY <2>1, <2>4, <2>5, <1>1, PushingNumber DEF Outcome
<1> QED BY <1>3, <1>4

-----------------------------------------------------------------------------
\* A branch, taken or not.
LEMMA Branching ==
    ASSUME Typed, NEW op, Ready(op), NEW k \in Nat, NEW taken, Instr.n \in Int, Branch(k, taken)
    PROVE  Outcome
<1> DEFINE pc == IF taken THEN Top.pc + Instr.n ELSE After
<1>1. Top.pc \in Int /\ After \in Int
  BY DEF Ready
<1>2. pc \in Int
  BY <1>1
<1>3. StackBecomes(k, <<>>, <<>>, pc) /\ UNCHANGED data
  BY DEF Branch
<1> HIDE DEF pc
<1> QED BY <1>2, <1>3, PlainDropping DEF Outcome

\* goto, and the branches on a condition.
LEMMA BranchSteps ==
    ASSUME Typed, Nested, Goto \/ If \/ IfCompare \/ IfSame \/ IfNull
    PROVE  Outcome
<1>1. \A op \in {"goto", "if", "if_icmp", "if_acmp", "ifnull"} :
        At(op) => Ready(op) /\ Instr.n \in Int
  <2> SUFFICES ASSUME NEW op \in {"goto", "if", "if_icmp", "if_acmp", "ifnull"}, At(op)
               PROVE  Ready(op) /\ Instr.n \in Int
    OBVIOUS
  <2>1. Ready(op)
    BY AtReady
  <2>2. Instr.op = op /\ IsInstr(Instr, Method.maxLocals, DOMAIN classes)
    BY <2>1 DEF Ready
  <2>3. Instr.n \in Int
    BY <2>2 DEF IsInstr
  <2> QED BY <2>1, <2>3
<1>2. 0 \in Nat /\ 1 \in Nat /\ 2 \in Nat
  OBVIOUS
<1>3. CASE Goto
  <2>1. Ready("goto") /\ Instr.n \in Int /\ Branch(0, TRUE)
    BY <1>3, <1>1 DEF Goto
  <2> QED BY <2>1, <1>2, Branching
<1>4. CASE If
  <2> DEFINE a == Popped("int", 0)
             taken == Condition(Instr.f, Val(a))
  <2>1. At("if") /\ Ready("if") /\ Instr.n \in Int
    BY <1>4, <1>1 DEF If
  <2>2. Ends("undefined") \/ Branch(1, taken)
    BY <1>4 DEF If
  <2> HIDE DEF taken
  <2> QED BY <2>1, <2>2, <1>2, Branching, Ending
<1>5. CASE IfCompare
  <2> DEFINE a == Popped("int", 1)
             b == Popped("int", 0)
             taken == Condition(Instr.f, Val(a) - Val(b))
  <2>1. At("if_icmp") /\ Ready("if_icmp") /\ Instr.n \in Int
    BY <1>5, <1>1 DEF IfCompare
  <2>2. Ends("undefined") \/ Branch(2, taken)
    BY <1>5 DEF IfCompare
  <2> HIDE DEF taken
  <2> QED BY <2>1, <2>2, <1>2, Branching, Ending
<1>6. CASE IfSame
  <2> DEFINE a == Popped("object", 1)
             b == Popped("object", 0)
             taken == (boxes[a] = boxes[b]) = (Instr.f = "eq")
  <2>1. At("if_acmp") /\ Ready("if_acmp") /\ Instr.n \in Int
    BY <1>6, <1>1 DEF IfSame
  <2>2. Ends("undefined") \/ Branch(2, taken)
    BY <1>6 DEF IfSame
  <2> HIDE DEF taken
  <2> QED BY <2>1, <2>2, <1>2, Branching, Ending
<1>7. CASE IfNull
  <2> DEFINE taken == (Popped("object", 0) = Null) = (Instr.f = "eq")
  <2>1. At("ifnull") /\ Ready("ifnull") /\ Instr.n \in Int
    BY <1>7, <1>1 DEF IfNull
  <2>2. Branch(1, taken)
    BY <1>7 DEF IfNull
  <2> HIDE DEF taken
  <2> QED BY <2>1, <2>2, <1>2, Branching
<1> QED BY <1>3, <1>4, <1>5, <1>6, <1>7

(* What a switch goes by.                                                  *)
LEMMA Switching ==
    ASSUME Typed, NEW op, Ready(op), NEW targets, NEW a, Instr.default \in Int,
           \A v \in DOMAIN targets : targets[v] \in Int, SwitchTo(targets, a)
    PROVE  Outcome
<1> DEFINE pc == Top.pc + IF Val(a) \in DOMAIN targets THEN targets[Val(a)] ELSE Instr.default
<1>1. Top.pc \in Int
  BY DEF Ready
<1>2. pc \in Int
  BY <1>1
<1>3. StackBecomes(1, <<>>, <<>>, pc) /\ UNCHANGED data /\ 1 \in Nat
  BY DEF SwitchTo
<1> HIDE DEF pc
<1> QED BY <1>2, <1>3, PlainDropping DEF Outcome

(* Of the keys of one target, which are ints, the least.                   *)
LEMMA LeastKey ==
    ASSUME NEW S \in SUBSET ValuesOf("int"), S # {}
    PROVE  Min(S) \in S
<1> DEFINE l == Least("int")
           T == {k - l : k \in S}
<1>1. l \in Int /\ \A k \in S : k \in Int /\ l <= k
  BY ValuesAssumption, Widths DEF ValuesOf, IntTypes
<1> HIDE DEF l
<1>2. T \in SUBSET Nat /\ T # {}
  BY <1>1
<1>3. PICK m \in T : \A n \in T : m <= n
  BY <1>2, Smallest
<1>4. PICK x \in S : m = x - l
  BY <1>3
<1>5. \A k \in S : x <= k
  <2> SUFFICES ASSUME NEW k \in S PROVE x <= k
    OBVIOUS
  <2>1. m <= k - l
    BY <1>3
  <2> QED BY <2>1, <1>1, <1>4
<1>6. x \in S
  BY <1>4
<1> QED BY <1>5, <1>6 DEF Min

\* tableswitch and lookupswitch.
LEMMA SwitchSteps ==
    ASSUME Typed, Nested, Switch
    PROVE  Outcome
<1> DEFINE a == Popped("int", 0)
           ts == Instr.targets
           least == [t \in Range(ts) |-> Min({k \in DOMAIN ts : ts[k] = t})]
<1>1. PICK op \in {"tableswitch", "lookupswitch"} : At(op) /\ Ready(op)
  BY AtReady DEF Switch
<1>2. /\ DOMAIN ts \subseteq ValuesOf("int") /\ Range(ts) \subseteq Int /\ Instr.default \in Int
  BY <1>1 DEF Ready, IsInstr
<1>3. Ends("undefined") \/ SwitchTo(ts, a) \/ SwitchTo(least, a)
  BY DEF Switch
<1>4. \A v \in DOMAIN ts : ts[v] \in Int
  BY <1>2 DEF Range
<1>5. \A v \in DOMAIN least : least[v] \in Int
  <2> SUFFICES ASSUME NEW t \in Range(ts) PROVE Min({k \in DOMAIN ts : ts[k] = t}) \in Int
    OBVIOUS
  <2> DEFINE S == {k \in DOMAIN ts : ts[k] = t}
  <2>1. S \in SUBSET ValuesOf("int") /\ S # {}
    BY <1>2 DEF Range
  <2> HIDE DEF S
  <2>2. Min(S) \in S
    BY <2>1, LeastKey
  <2>3. Min(S) \in Int
    BY <2>1, <2>2, ValuesAreInt DEF NumTypes, IntTypes
  <2> QED BY <2>3 DEF S
<1> HIDE DEF ts, least, a
<1> QED BY <1>1, <1>2, <1>3, <1>4, <1>5, Switching, Ending DEF ts

(* An array that is on the stack.                                          *)
LEMMA ArrayOnStack ==
    ASSUME Typed, NEW op, Ready(op), NEW k \in Nat, Popped("array", k) # Null
    PROVE  /\ Val(Popped("array", k)) \in DOMAIN arrays
           /\ Elements(Popped("array", k)) \in Seq(Ids)
           /\ Len(Elements(Popped("array", k))) \in ValuesOf("int")
           /\ Len(Elements(Popped("array", k))) \in Nat
<1> DEFINE b == Popped("array", k)
<1>1. boxes[b] \in TheBoxes /\ boxes[b].type = "array"
  BY ValuesOnStack
<1> DEFINE x == boxes[b]
<1>2. x \in BoxSet(classes, Len(objects), Len(arrays), loaded) /\ x.type = "array"
      /\ Len(objects) \in Nat /\ Len(arrays) \in Nat
  BY <1>1, TypedFacts DEF TheBoxes
<1> HIDE DEF x
<1>3. x.val \in 1..Len(arrays)
  BY <1>2, BoxFacts
<1>4. arrays \in Seq(ArraySet(Len(boxes)))
  BY DEF Typed
<1>5. arrays[x.val] \in ArraySet(Len(boxes)) /\ x.val \in DOMAIN arrays
  BY <1>3, <1>4
<1> DEFINE y == arrays[x.val]
<1>6. Elements(b) = y /\ Val(b) = x.val
  BY DEF Elements, Val, x
<1> HIDE DEF y, b
<1>7. y \in Seq(0..Len(boxes)) /\ Len(y) \in ValuesOf("int")
  BY <1>5 DEF ArraySet, y
<1>8. Len(y) \in Nat
  BY <1>7
<1> QED BY <1>5, <1>6, <1>7, <1>8 DEF Ids, b

\* An element of an array is loaded, as the box it is,
LEMMA ArrayLoadSteps ==
    ASSUME Typed, Nested, ArrayLoad
    PROVE  Outcome
<1> DEFINE i == Popped("int", 0)
           a == Popped("array", 1)
           bad == i = Null \/ Val(i) + 1 \notin DOMAIN Elements(a)
           e == As(Instr.t, Elements(a)[Val(i) + 1])
<1>1. At("xaload") /\ Ready("xaload") /\ 0 \in Nat /\ 1 \in Nat /\ 2 \in Nat
  BY AtReady DEF ArrayLoad
<1>2. CASE a = Null
  <2>1. Ends("throws")
    BY <1>2 DEF ArrayLoad
  <2> QED BY <2>1, <1>1, Ending
<1>3. CASE a # Null /\ bad
  <2>1. Ends("undefined")
    BY <1>3 DEF ArrayLoad
  <2> QED BY <2>1, <1>1, Ending
<1>4. CASE a # Null /\ ~bad
  <2>1. /\ StackBecomes(2, <<e>>, <<>>, After)
        /\ exposed' = exposed \cup {e}
        /\ UNCHANGED <<classes, statics, objects, arrays, loaded, inited>>
    BY <1>4 DEF ArrayLoad
  <2>2. Elements(a) \in Seq(Ids)
    BY <1>1, <1>4, ArrayOnStack
  <2>3. Elements(a)[Val(i) + 1] \in Ids
    BY <2>2, <1>4
  <2>4. e \in Ids
    BY <2>3, TypedFacts DEF As, Ids, Null
  <2> HIDE DEF e, a, i
  <2>5. boxes' = boxes
    <3>1. boxes' = boxes \o <<>> /\ boxes \in Seq(TheBoxes)
      BY <2>1 DEF StackBecomes, Typed
    <3> QED BY <3>1
  <2>6. Len(boxes') \in Nat /\ Len(boxes) <= Len(boxes') /\ Ids' = Ids
    BY <2>5, TypedFacts DEF Ids
  <2>7. exposed \subseteq exposed' /\ exposed' \subseteq Ids' /\ e \in Shared'
    BY <2>1, <2>4, <2>6 DEF Typed, Shared
  <2>8. DataGrows
    BY <2>1, <2>6, <2>7, Growing DEF Typed
  <2>9. After \in Int
    BY <1>1 DEF Ready
  <2> QED BY <2>1, <2>4, <2>7, <2>8, <2>9, <1>1, PuttingOld DEF Outcome
<1> QED BY <1>2, <1>3, <1>4

\* and stored to.
LEMMA ArrayStoreSteps ==
    ASSUME Typed, Nested, ArrayStore
    PROVE  Outcome
<1> DEFINE cut == Instr.t \in {"byte", "short"}
           t == IF cut THEN "int" ELSE Instr.t
           v == Popped(t, 0)
           i == Popped("int", 1)
           a == Popped("array", 2)
           none == cut /\ v = Null
           n == Len(Elements(a))
<1>1. At("xastore") /\ Ready("xastore") /\ 0 \in Nat /\ 1 \in Nat /\ 2 \in Nat /\ 3 \in Nat
  BY AtReady DEF ArrayStore
<1>2. CASE none
  <2>1. Ends("undefined")
    BY <1>2 DEF ArrayStore
  <2> QED BY <2>1, <1>1, Ending
<1>3. CASE ~none /\ a = Null
  <2>1. Ends("throws")
    BY <1>3 DEF ArrayStore
  <2> QED BY <2>1, <1>1, Ending
<1>4. CASE ~none /\ a # Null /\ i = Null
  <2>1. Ends("undefined")
    BY <1>4 DEF ArrayStore
  <2> QED BY <2>1, <1>1, Ending
<1>5. CASE ~none /\ a # Null /\ i # Null /\ Val(i) \notin 0..n
  <2>1. n \in Nat
    BY <1>1, <1>5, ArrayOnStack
  <2>2. Val(i) # n
    BY <2>1, <1>5
  <2>3. Ends("throws")
    BY <1>5, <2>2 DEF ArrayStore
  <2> QED BY <2>3, <1>1, Ending
<1>6. CASE ~none /\ a # Null /\ i # Null /\ Val(i) \in 0..n /\ Val(i) = n
  <2>1. Ends("undefined")
    BY <1>6 DEF ArrayStore
  <2> QED BY <2>1, <1>1, Ending
<1>7. CASE ~none /\ a # Null /\ i # Null /\ Val(i) \in 0..n /\ Val(i) # n
  <2>1. /\ arrays' = [arrays EXCEPT ![Val(a)][Val(i) + 1] = v]
        /\ frames' = SetTop([Top EXCEPT !.stack = Drop(Top.stack, 3), !.pc = After,
                                        !.resumed = FALSE])
        /\ boxes' = IF cut THEN [boxes EXCEPT ![v].val = Wrap(Instr.t, boxes[v].val)] ELSE boxes
        /\ UNCHANGED <<classes, statics, objects, loaded, inited, exposed, exc, status>>
    BY <1>7 DEF ArrayStore
  <2>2. /\ Val(a) \in DOMAIN arrays /\ Elements(a) \in Seq(Ids) /\ n \in ValuesOf("int") /\ n \in Nat
    BY <1>1, <1>7, ArrayOnStack
  <2>3. v \in Ids
    BY <1>1, Taken DEF Ready
  <2>4. /\ boxes' \in Seq(TheBoxes) /\ Len(boxes') = Len(boxes)
        /\ \A c \in DOMAIN boxes : boxes'[c] = boxes[c] \/ c \in Held(Top)
    <3>1. CASE ~cut
      BY <3>1, <2>1 DEF Typed
    <3>2. CASE cut
      <4>1. v # Null /\ t = "int"
        BY <3>2, <1>7
      <4>2. v \in DOMAIN boxes /\ v \in Held(Top) /\ boxes[v].type = "int"
            /\ Val(v) \in ValuesOf("int") /\ Val(v) \in Int
        BY <4>1, <1>1, ValuesOnStack DEF NumTypes, IntTypes
      <4>3. Wrap(Instr.t, boxes[v].val) \in ValuesOf("int")
        <5>1. Instr.t \in DOMAIN Width /\ ValuesOf("int") = Between("int")
          BY <3>2, ValuesAssumption DEF ValuesOf, Between, IntTypes
        <5>2. Wrap(Instr.t, Val(v)) \in Between(Instr.t)
          BY <4>2, <5>1, WrapFits
        <5> QED BY <3>2, <5>1, <5>2, SmallFits DEF Val
      <4> DEFINE x == Wrap(Instr.t, boxes[v].val)
      <4>4. "int" \notin References
        BY DEF References
      <4>5. boxes' = [boxes EXCEPT ![v].val = x]
        BY <2>1, <3>2
      <4> HIDE DEF x, v
      <4>6. /\ [boxes EXCEPT ![v].val = x] \in Seq(TheBoxes)
            /\ Len([boxes EXCEPT ![v].val = x]) = Len(boxes)
            /\ \A c \in DOMAIN boxes : [boxes EXCEPT ![v].val = x][c] = boxes[c] \/ c = v
        BY <4>2, <4>3, <4>4, OneWritten DEF x
      <4> QED BY <4>2, <4>5, <4>6
    <3> QED BY <3>1, <3>2
  <2> HIDE DEF v, a, cut, t, none
  <2>5. arrays' \in Seq(ArraySet(Len(boxes))) /\ Len(arrays') = Len(arrays)
    <3> DEFINE x == [Elements(a) EXCEPT ![Val(i) + 1] = v]
    <3>1. x \in Seq(0..Len(boxes)) /\ Len(x) = n
      <4> DEFINE y == Elements(a)
                 j == Val(i) + 1
                 l == Len(y)
                 S == 0..Len(boxes)
      <4>1. y \in Seq(S) /\ l \in Nat /\ v \in S
        BY <2>2, <2>3 DEF Ids
      <4>2. j \in 1..l
        BY <1>7, <2>2
      <4> HIDE DEF y, j, S
      <4>3. [y EXCEPT ![j] = v] \in Seq(S) /\ Len([y EXCEPT ![j] = v]) = Len(y)
        BY <4>1, <4>2
      <4> QED BY <4>3 DEF y, j, S
    <3>2. x \in ArraySet(Len(boxes))
      BY <3>1, <2>2 DEF ArraySet
    <3>3. arrays' = [arrays EXCEPT ![Val(a)] = x]
      BY <2>1, <2>2 DEF Elements
    <3>4. arrays \in Seq(ArraySet(Len(boxes)))
      BY DEF Typed
    <3> HIDE DEF x
    <3> QED BY <3>2, <3>3, <3>4, <2>2
  <2>6. Len(boxes') \in Nat /\ Len(boxes) <= Len(boxes') /\ Len(arrays) <= Len(arrays')
        /\ exposed' \subseteq Ids'
    BY <2>1, <2>4, <2>5, TypedFacts DEF Typed, Ids
  <2>7. arrays' \in Seq(ArraySet(Len(boxes')))
    BY <2>4, <2>5
  <2>8. DataGrows
    BY <2>1, <2>6, <2>7, Growing DEF Typed
  <2>9. frames' = SetTop(TopWith(Drop(Top.stack, 3), After)) /\ exc' = exc /\ status' = status
        /\ loaded' = loaded /\ Len(objects') = Len(objects)
    BY <2>1 DEF TopWith
  <2> QED BY <1>1, <2>4, <2>5, <2>8, <2>9, Writing DEF Outcome
<1> QED BY <1>2, <1>3, <1>4, <1>5, <1>6, <1>7

\* arraylength.
LEMMA ArrayLengthSteps ==
    ASSUME Typed, Nested, ArrayLength
    PROVE  Outcome
<1> DEFINE a == Popped("array", 0)
<1>1. At("arraylength") /\ Ready("arraylength") /\ 0 \in Nat /\ 1 \in Nat
  BY AtReady DEF ArrayLength
<1>2. CASE a = Null
  <2>1. Ends("throws")
    BY <1>2 DEF ArrayLength
  <2> QED BY <2>1, <1>1, Ending
<1>3. CASE a # Null
  <2>1. Pushes(1, Box("int", Len(Elements(a)))) /\ UNCHANGED data
    BY <1>3 DEF ArrayLength
  <2>2. Len(Elements(a)) \in ValuesOf("int") /\ "int" \in NumTypes
    BY <1>1, <1>3, ArrayOnStack DEF NumTypes, IntTypes
  <2> HIDE DEF a
  <2> QED BY <2>1, <2>2, <1>1, PushingNumber DEF Outcome
<1> QED BY <1>2, <1>3

\* newarray makes boxes for the elements.
LEMMA NewArraySteps ==
    ASSUME Typed, Nested, NewArray
    PROVE  Outcome
<1> DEFINE n == Popped("int", 0)
           m == Val(n)
           new == [i \in 1..m |-> New(1 + i)]
           zeros == [i \in 1..m |-> Box(Instr.t, 0)]
           fresh == <<Array(Len(arrays) + 1)>> \o zeros
<1>1. At("newarray") /\ Ready("newarray") /\ 0 \in Nat /\ 1 \in Nat
  BY AtReady DEF NewArray
<1>2. CASE n = Null
  <2>1. Ends("undefined")
    BY <1>2 DEF NewArray
  <2> QED BY <2>1, <1>1, Ending
<1>3. CASE n # Null /\ m < 0
  <2>1. Ends("throws")
    BY <1>3 DEF NewArray
  <2> QED BY <2>1, <1>1, Ending
<1>4. CASE n # Null /\ ~(m < 0)
  <2>1. /\ arrays' = Append(arrays, new)
        /\ StackBecomes(1, <<New(1)>>, fresh, After)
        /\ UNCHANGED <<classes, statics, objects, loaded, inited, exposed>>
    BY <1>4 DEF NewArray
  <2>2. m \in ValuesOf("int") /\ m \in Nat
    BY <1>1, <1>4, ValuesOnStack DEF NumTypes, IntTypes
  <2>3. Instr.t \in NumTypes /\ 0 \in ValuesOf(Instr.t) /\ After \in Int
    BY <1>1, ValuesAreInt DEF Ready, IsInstr
  <2>4. Len(boxes) \in Nat /\ Len(objects) \in Nat /\ Len(arrays) \in Nat /\ boxes \in Seq(TheBoxes)
        /\ arrays \in Seq(ArraySet(Len(boxes)))
    BY DEF Typed
  <2> DEFINE B == BoxSet(classes, Len(objects), Len(arrays) + 1, loaded)
  <2>5. Box(Instr.t, 0) \in B /\ Array(Len(arrays) + 1) \in B
    <3> DEFINE na == Len(arrays) + 1
    <3>1. na \in Nat /\ na \in 1..na
      BY <2>4
    <3> HIDE DEF na
    <3>2. /\ Box(Instr.t, 0) \in BoxSet(classes, Len(objects), na, loaded)
          /\ Array(na) \in BoxSet(classes, Len(objects), na, loaded)
      BY <3>1, <2>3, <2>4, NumberBox, ArrayBox
    <3> QED BY <3>2 DEF na
  <2> HIDE DEF B, m, n
  <2>6. zeros \in Seq(B) /\ Len(zeros) = m
    BY <2>2, <2>5
  <2>7. fresh \in Seq(B) /\ Len(fresh) = m + 1 /\ fresh # <<>>
    <3> HIDE DEF zeros
    <3> QED BY <2>2, <2>5, <2>6
  <2> HIDE DEF fresh, zeros
  <2>8. boxes' = boxes \o fresh
    BY <2>1 DEF StackBecomes
  <2>9. Len(boxes') = Len(boxes) + m + 1
    <3> DEFINE S == TheBoxes \cup B
    <3>1. boxes \in Seq(S) /\ fresh \in Seq(S)
      BY <2>4, <2>7, SeqGrows
    <3>2. Len(boxes') = Len(boxes) + Len(fresh)
      BY <3>1, <2>8, Concatenated
    <3> QED BY <3>2, <2>7, <2>2, <2>4
  <2>10. Len(boxes') \in Nat /\ Len(boxes) <= Len(boxes')
    BY <2>2, <2>4, <2>9
  <2>11. new \in ArraySet(Len(boxes'))
    <3>1. \A i \in 1..m : New(1 + i) \in 0..Len(boxes')
      BY <2>2, <2>4, <2>9 DEF New
    <3>2. new \in Seq(0..Len(boxes')) /\ Len(new) = m
      BY <3>1, <2>2
    <3> QED BY <3>2, <2>2 DEF ArraySet
  <2> HIDE DEF new
  <2>12. arrays' \in Seq(ArraySet(Len(boxes'))) /\ Len(arrays') = Len(arrays) + 1
    <3>1. ArraySet(Len(boxes)) \subseteq ArraySet(Len(boxes'))
      BY <2>4, <2>10, ArraysMore
    <3>2. arrays \in Seq(ArraySet(Len(boxes')))
      BY <2>4, <3>1, SeqGrows
    <3> QED BY <3>2, <2>1, <2>11
  <2>13. exposed' \subseteq Ids' /\ Len(arrays) <= Len(arrays')
    BY <2>1, <2>4, <2>10, <2>12 DEF Typed, Ids
  <2>14. DataGrows
    BY <2>1, <2>10, <2>12, <2>13, Growing DEF Typed
  <2>15. fresh \in Seq(BoxSet(classes, Len(objects'), Len(arrays'), loaded'))
    BY <2>1, <2>7, <2>12 DEF B
  <2> QED BY <1>1, <2>1, <2>3, <2>7, <2>14, <2>15, PuttingNew DEF Outcome
<1> QED BY <1>2, <1>3, <1>4

-----------------------------------------------------------------------------
\* The classes that are loaded stay so.
LEMMA LoadingMore ==
    ASSUME Typed, NEW c \in DOMAIN classes, loaded' = loaded \cup ToSet(Lineage(c))
    PROVE  loaded \subseteq loaded' /\ loaded' \subseteq DOMAIN classes
BY LineLoaded

(* The instruction waits for the initializer of class c.                   *)
LEMMA Initializing ==
    ASSUME Typed, NEW op, Ready(op), NEW c \in DOMAIN classes, ~Initialized(c), Initialize(c)
    PROVE  Enters
<1> DEFINE m  == classes[c].methods["<clinit>"]
           f  == [Top EXCEPT !.resumed = TRUE]
           g  == Frame(c, "<clinit>", Empty(m.maxLocals), m.maxStack, "name")
           nb == Len(boxes)
           cs == loaded' \cup inited'
<1>1. /\ frames' = Append(SetTop(f), g)
      /\ inited' = inited \cup {c} /\ loaded' = loaded \cup ToSet(Lineage(c))
      /\ UNCHANGED <<classes, statics, objects, arrays, exposed, boxes, exc, status>>
  BY DEF Initialize
<1>2. "<clinit>" \in DOMAIN classes[c].methods
  BY DEF Initialized
<1>3. m.maxLocals \in Nat /\ m.maxStack \in Nat /\ "<clinit>" \in MethodNames(classes)
  <2>1. IsMethod(m, DOMAIN classes) /\ "<clinit>" \in MethodNames(classes)
    BY <1>2, Classes DEF Typed
  <2> QED BY <2>1 DEF IsMethod
<1>4. nb \in Nat /\ loaded \cup inited \subseteq cs /\ c \in cs
  BY <1>1 DEF Typed
<1>5. /\ g \in FrameSet(classes, nb, cs) /\ g.stack = <<>> /\ Range(g.locals) \subseteq {Null}
      /\ g.via = "name"
  <2> DEFINE l == Empty(m.maxLocals)
  <2>1. l \in [0..(m.maxLocals - 1) -> 0..nb] /\ Range(l) \subseteq {Null}
    BY <1>3, <1>4 DEF Empty, Null, Range
  <2>2. <<>> \in Seq(0..nb) /\ 0 \in Int /\ "name" \in {"name", "invoke"} /\ FALSE \in BOOLEAN
    OBVIOUS
  <2> HIDE DEF l, nb, cs
  <2> DEFINE x == [cls |-> c, method |-> "<clinit>", pc |-> 0, locals |-> l, stack |-> <<>>,
                   maxStack |-> m.maxStack, via |-> "name", resumed |-> FALSE]
  <2>3. x \in FrameSet(classes, nb, cs)
    BY <2>1, <2>2, <1>2, <1>3, <1>4, FrameMade
  <2>4. g = x
    BY DEF Frame, l
  <2> QED BY <2>1, <2>3, <2>4
<1>6. f \in FrameSet(classes, nb, cs)
  <2>1. Top \in FrameSet(classes, nb, loaded \cup inited) /\ nb <= nb /\ TRUE \in BOOLEAN
    BY <1>4 DEF Ready
  <2> HIDE DEF nb, cs
  <2> DEFINE t == Top
  <2> HIDE DEF t
  <2>2. \A r \in BOOLEAN : [t EXCEPT !.resumed = r] \in FrameSet(classes, nb, cs)
    BY <2>1, <1>4, FrameChanged DEF t
  <2> QED BY <2>1, <2>2 DEF t
<1>7. /\ f.via = Top.via /\ f.pc = Top.pc /\ f.cls = Top.cls /\ f.method = Top.method
      /\ f.locals = Top.locals /\ f.stack = Top.stack
  <2>1. Top \in FrameSet(classes, nb, loaded \cup inited)
    BY DEF Ready
  <2> QED BY <2>1 DEF FrameSet
<1> HIDE DEF f, g, m
<1>8. Held(f) = Held(Top)
  BY <1>7 DEF Held
<1>9. Apart(Top, Shared) /\ Distinct(Top, Shared) => Apart(f, Shared) /\ Distinct(f, Shared)
  BY <1>7 DEF Apart, Distinct
<1>10. WaitsFor(f, g)
  BY <1>1, <1>5, <1>6, <1>7, <1>8, <1>9 DEF WaitsFor
<1>11. DataGrows
  <2>1. loaded \subseteq loaded' /\ loaded' \subseteq DOMAIN classes
    BY <1>1, LoadingMore
  <2>2. inited \subseteq inited' /\ inited' \subseteq DOMAIN classes
    BY <1>1 DEF Typed
  <2>3. Len(boxes') \in Nat /\ Len(boxes) <= Len(boxes') /\ exposed' \subseteq Ids'
    BY <1>1, <1>4 DEF Typed, Ids
  <2> QED BY <1>1, <2>1, <2>2, <2>3, Growing
<1> QED BY <1>1, <1>10, <1>11 DEF Enters, Ready

-----------------------------------------------------------------------------
\* instanceof.
LEMMA InstanceOfSteps ==
    ASSUME Typed, Nested, InstanceOf
    PROVE  Outcome
<1>1. At("instanceof") /\ Ready("instanceof") /\ 1 \in Nat
  BY AtReady DEF InstanceOf
<1>2. CASE Instr.c \notin loaded
  <2>1. Ends("undefined")
    BY <1>2 DEF InstanceOf
  <2> QED BY <2>1, <1>1, Ending
<1>3. CASE Instr.c \in loaded
  <2>1. UNCHANGED data
    BY <1>3 DEF InstanceOf
  <2>2. PICK r \in {0, 1} :
          IF Popped("object", 0) = Null
          THEN StackBecomes(1, <<New(1), New(2)>>, <<Box("int", 0), Box("int", r)>>, After)
          ELSE Pushes(1, Box("int", r))
    BY <1>3 DEF InstanceOf
  <2>3. "int" \in NumTypes /\ 0 \in ValuesOf("int") /\ r \in ValuesOf("int")
    BY SmallNumbers
  <2>4. CASE Popped("object", 0) # Null
    BY <2>1, <2>2, <2>3, <2>4, <1>1, PushingNumber DEF Outcome
  <2>5. CASE Popped("object", 0) = Null
    <3> DEFINE ids   == <<New(1), New(2)>>
               fresh == <<Box("int", 0), Box("int", r)>>
    <3>1. StackBecomes(1, ids, fresh, After) /\ After \in Int
      BY <2>2, <2>5, <1>1 DEF Ready
    <3>2. Len(boxes) \in Nat /\ Len(objects) \in Nat /\ Len(arrays) \in Nat
      BY TypedFacts
    <3>3. Box("int", 0) \in TheBoxes /\ Box("int", r) \in TheBoxes
      BY <2>3, <3>2, NumberBox DEF TheBoxes
    <3>4. fresh \in Seq(TheBoxes) /\ Len(fresh) = 2
      BY <3>3
    <3>5. ids \in Seq(0..(Len(boxes) + 2))
      BY <3>2 DEF New
    <3>6. FromTop(1, ids) /\ Unlike(ids)
      BY <3>2 DEF FromTop, Unlike, New
    <3> HIDE DEF ids, fresh
    <3>7. boxes' = boxes \o fresh /\ boxes \in Seq(TheBoxes)
      BY <3>1 DEF StackBecomes, Typed
    <3>8. Len(boxes') \in Nat /\ Len(boxes) <= Len(boxes')
      <4>1. Len(boxes') = Len(boxes) + Len(fresh)
        BY <3>4, <3>7, Concatenated
      <4> QED BY <4>1, <3>2, <3>4
    <3>9. DataGrows
      BY <3>8, <2>1, DataSame
    <3>10. fresh \in Seq(BoxSet(classes, Len(objects'), Len(arrays'), loaded'))
      BY <3>4, <2>1 DEF TheBoxes, data
    <3>11. ids \in Seq(0..(Len(boxes) + Len(fresh)))
      BY <3>4, <3>5
    <3> QED BY <3>1, <3>6, <3>9, <3>10, <3>11, <1>1, Becoming DEF Outcome
  <2> QED BY <2>4, <2>5
<1> QED BY <1>2, <1>3

\* A static variable's box is pushed, after the initializer of its class,
LEMMA GetStaticSteps ==
    ASSUME Typed, Nested, GetStatic
    PROVE  Outcome
<1>1. At("getstatic") /\ Ready("getstatic") /\ 0 \in Nat
  BY AtReady DEF GetStatic
<1>2. Instr.c \in DOMAIN classes /\ After \in Int
  BY <1>1 DEF Ready, IsInstr
<1>3. CASE ~Initialized(Instr.c) /\ Initialize(Instr.c)
  BY <1>1, <1>2, <1>3, Initializing DEF Outcome
<1>4. CASE ~(~Initialized(Instr.c) /\ Initialize(Instr.c))
  <2> DEFINE v == StaticHome(Instr.c, Instr.name)
             b == IF v \in DOMAIN statics THEN statics[v] ELSE Null
  <2>1. /\ StackBecomes(0, <<b>>, <<>>, After) /\ exposed' = exposed \cup {b}
        /\ loaded' = loaded \cup ToSet(Lineage(Instr.c))
        /\ UNCHANGED <<classes, statics, objects, arrays, inited>>
    BY <1>4 DEF GetStatic
  <2>2. b \in Ids
    <3> HIDE DEF v
    <3> QED BY TypedFacts DEF Typed, Ids, Null
  <2> HIDE DEF b
  <2>3. boxes' = boxes
    <3>1. boxes' = boxes \o <<>> /\ boxes \in Seq(TheBoxes)
      BY <2>1 DEF StackBecomes, Typed
    <3> QED BY <3>1
  <2>4. Len(boxes') \in Nat /\ Len(boxes) <= Len(boxes') /\ Ids' = Ids
    BY <2>3, TypedFacts DEF Ids
  <2>5. exposed \subseteq exposed' /\ exposed' \subseteq Ids' /\ b \in Shared'
    BY <2>1, <2>2, <2>4 DEF Typed, Shared
  <2>6. loaded \subseteq loaded' /\ loaded' \subseteq DOMAIN classes
        /\ inited \subseteq inited' /\ inited' \subseteq DOMAIN classes
    BY <2>1, <1>2, LoadingMore DEF Typed
  <2>7. DataGrows
    BY <2>1, <2>4, <2>5, <2>6, Growing
  <2> QED BY <2>1, <2>2, <2>5, <2>7, <1>1, <1>2, PuttingOld DEF Outcome
<1> QED BY <1>3, <1>4

\* and replaced.
LEMMA PutStaticSteps ==
    ASSUME Typed, Nested, PutStatic
    PROVE  Outcome
<1>1. At("putstatic") /\ Ready("putstatic") /\ 0 \in Nat /\ 1 \in Nat
  BY AtReady DEF PutStatic
<1>2. Instr.c \in DOMAIN classes /\ After \in Int
  BY <1>1 DEF Ready, IsInstr
<1>3. CASE ~Initialized(Instr.c) /\ Initialize(Instr.c)
  BY <1>1, <1>2, <1>3, Initializing DEF Outcome
<1>4. CASE ~(~Initialized(Instr.c) /\ Initialize(Instr.c))
  <2> DEFINE v == StaticHome(Instr.c, Instr.name)
             b == Popped("ref", 0)
  <2>1. /\ statics' = [statics EXCEPT ![v] = b]
        /\ StackBecomes(1, <<>>, <<>>, After)
        /\ loaded' = loaded \cup ToSet(Lineage(Instr.c))
        /\ UNCHANGED <<classes, objects, arrays, inited, exposed>>
    BY <1>4 DEF PutStatic
  <2>2. b \in Ids
    BY <1>1, Taken DEF Ready
  <2> HIDE DEF b, v
  <2>3. boxes' = boxes
    <3>1. boxes' = boxes \o <<>> /\ boxes \in Seq(TheBoxes)
      BY <2>1 DEF StackBecomes, Typed
    <3> QED BY <3>1
  <2>4. Len(boxes') \in Nat /\ Len(boxes) <= Len(boxes') /\ Ids' = Ids
    BY <2>3, TypedFacts DEF Ids
  <2>5. statics' \in [DOMAIN statics' -> Ids'] /\ exposed' \subseteq Ids'
    BY <2>1, <2>2, <2>4 DEF Typed
  <2>6. loaded \subseteq loaded' /\ loaded' \subseteq DOMAIN classes
        /\ inited \subseteq inited' /\ inited' \subseteq DOMAIN classes
    BY <2>1, <1>2, LoadingMore DEF Typed
  <2>7. DataGrows
    BY <2>1, <2>4, <2>5, <2>6, Growing
  <2> QED BY <2>1, <2>7, <1>1, <1>2, Dropping DEF Outcome
<1> QED BY <1>3, <1>4

-----------------------------------------------------------------------------
(* An object that is on the stack.                                         *)
LEMMA ObjectOnStack ==
    ASSUME Typed, NEW op, Ready(op), NEW k \in Nat, Popped("object", k) # Null
    PROVE  /\ Val(Popped("object", k)) \in DOMAIN objects
           /\ objects[Val(Popped("object", k))] \in ObjectSet(classes, Len(boxes))
           /\ \A v \in DOMAIN objects[Val(Popped("object", k))] :
                objects[Val(Popped("object", k))][v] \in Ids
<1> DEFINE b == Popped("object", k)
<1>1. boxes[b] \in TheBoxes /\ boxes[b].type = "object"
  BY ValuesOnStack
<1> DEFINE x == boxes[b]
<1>2. x \in BoxSet(classes, Len(objects), Len(arrays), loaded) /\ x.type = "object"
      /\ Len(objects) \in Nat /\ Len(arrays) \in Nat
  BY <1>1, TypedFacts DEF TheBoxes
<1> HIDE DEF x
<1>3. x.val \in 1..Len(objects)
  BY <1>2, BoxFacts
<1>4. objects \in Seq(ObjectSet(classes, Len(boxes)))
  BY DEF Typed
<1>5. objects[x.val] \in ObjectSet(classes, Len(boxes)) /\ x.val \in DOMAIN objects
  BY <1>3, <1>4
<1> DEFINE y == objects[x.val]
<1>6. objects[Val(b)] = y /\ Val(b) = x.val
  BY DEF Val, x
<1> HIDE DEF y, b
<1>7. \A v \in DOMAIN y : y[v] \in Ids
  BY <1>5 DEF ObjectSet, y, Ids
<1> QED BY <1>5, <1>6, <1>7 DEF b, y

\* A field of an object is loaded,
LEMMA GetFieldSteps ==
    ASSUME Typed, Nested, GetField
    PROVE  Outcome
<1> DEFINE o == Popped("object", 0)
           v == <<Instr.c, Instr.name>>
           b == IF v \in DOMAIN objects[Val(o)] THEN objects[Val(o)][v] ELSE Null
<1>1. At("getfield") /\ Ready("getfield") /\ 0 \in Nat /\ 1 \in Nat
  BY AtReady DEF GetField
<1>2. Instr.c \in DOMAIN classes /\ After \in Int
  BY <1>1 DEF Ready, IsInstr
<1>3. CASE o = Null
  <2>1. Ends("undefined")
    BY <1>3 DEF GetField
  <2> QED BY <2>1, <1>1, Ending
<1>4. CASE o # Null /\ ClonesLong(b)
  <2>1. Ends("undefined")
    BY <1>4 DEF GetField
  <2> QED BY <2>1, <1>1, Ending
<1>5. CASE o # Null /\ ~ClonesLong(b)
  <2>1. /\ IF b = Null THEN StackBecomes(1, <<Null>>, <<>>, After) ELSE Pushes(1, boxes[b])
        /\ loaded' = loaded \cup ToSet(Lineage(Instr.c))
        /\ UNCHANGED <<classes, statics, objects, arrays, inited, exposed>>
    BY <1>5 DEF GetField
  <2>2. b \in Ids
    <3>1. \A w \in DOMAIN objects[Val(o)] : objects[Val(o)][w] \in Ids
      BY <1>1, <1>5, ObjectOnStack
    <3>2. Null \in Ids
      BY TypedFacts DEF Ids, Null
    <3> HIDE DEF o, v
    <3> QED BY <3>1, <3>2
  <2> HIDE DEF b, o
  <2>3. loaded \subseteq loaded' /\ loaded' \subseteq DOMAIN classes
        /\ inited \subseteq inited' /\ inited' \subseteq DOMAIN classes
    BY <2>1, <1>2, LoadingMore DEF Typed
  <2>4. boxes \in Seq(TheBoxes) /\ Len(boxes) \in Nat /\ Len(objects) \in Nat /\ Len(arrays) \in Nat
        /\ exposed \subseteq Ids
    BY DEF Typed
  <2>5. CASE b = Null
    <3>1. StackBecomes(1, <<Null>>, <<>>, After) /\ boxes' = boxes \o <<>>
      BY <2>1, <2>5 DEF StackBecomes
    <3>2. Len(boxes') \in Nat /\ Len(boxes) <= Len(boxes') /\ exposed' \subseteq Ids'
      BY <2>1, <2>4, <3>1 DEF Ids
    <3>3. DataGrows
      BY <2>1, <2>3, <3>2, Growing
    <3>4. Null \in Ids /\ Null \in Shared'
      BY <2>4 DEF Ids, Null, Shared
    <3> QED BY <3>1, <3>3, <3>4, <1>1, <1>2, PuttingOld DEF Outcome
  <2>6. CASE b # Null
    <3> DEFINE x == boxes[b]
    <3>1. StackBecomes(1, <<New(1)>>, <<x>>, After) /\ boxes' = boxes \o <<x>>
      BY <2>1, <2>6 DEF StackBecomes, Pushes
    <3>2. b \in 1..Len(boxes)
      BY <2>2, <2>4, <2>6 DEF Ids, Null
    <3>3. x \in TheBoxes
      BY <3>2, <2>4
    <3> HIDE DEF x
    <3>4. Len(boxes') = Len(boxes) + 1
      BY <3>1, <3>3, <2>4
    <3>5. Len(boxes') \in Nat /\ Len(boxes) <= Len(boxes') /\ exposed' \subseteq Ids'
      BY <2>1, <2>4, <3>4 DEF Ids
    <3>6. DataGrows
      BY <2>1, <2>3, <3>5, Growing
    <3>7. x \in BoxSet(classes, Len(objects'), Len(arrays'), loaded')
      <4>1. /\ Len(objects') \in Nat /\ Len(arrays') \in Nat /\ loaded \subseteq loaded'
            /\ Len(objects) <= Len(objects') /\ Len(arrays) <= Len(arrays')
        BY <2>1, <2>3, <2>4
      <4>2. TheBoxes \subseteq BoxSet(classes, Len(objects'), Len(arrays'), loaded')
        BY <4>1, <2>4, BoxesMore DEF TheBoxes
      <4> QED BY <4>2, <3>3
    <3>8. <<x>> \in Seq(BoxSet(classes, Len(objects'), Len(arrays'), loaded')) /\ <<x>> # <<>>
      BY <3>7
    <3> QED BY <3>1, <3>6, <3>8, <1>1, <1>2, PuttingNew DEF Outcome
  <2> QED BY <2>5, <2>6
<1> QED BY <1>3, <1>4, <1>5

\* and stored to.
LEMMA PutFieldSteps ==
    ASSUME Typed, Nested, PutField
    PROVE  Outcome
<1> DEFINE o == Popped("object", 1)
           v == <<Instr.c, Instr.name>>
           b == Popped("ref", 0)
<1>1. At("putfield") /\ Ready("putfield") /\ 0 \in Nat /\ 1 \in Nat /\ 2 \in Nat
  BY AtReady DEF PutField
<1>2. Instr.c \in DOMAIN classes /\ After \in Int
  BY <1>1 DEF Ready, IsInstr
<1>3. CASE o = Null
  <2>1. Ends("undefined")
    BY <1>3 DEF PutField
  <2> QED BY <2>1, <1>1, Ending
<1>4. CASE o # Null
  <2>1. /\ objects' = IF v \in DOMAIN objects[Val(o)]
                      THEN [objects EXCEPT ![Val(o)][v] = b] ELSE objects
        /\ StackBecomes(2, <<>>, <<>>, After)
        /\ loaded' = loaded \cup ToSet(Lineage(Instr.c))
        /\ UNCHANGED <<classes, statics, arrays, inited, exposed>>
    BY <1>4 DEF PutField
  <2>2. b \in Ids
    BY <1>1, Taken DEF Ready
  <2>3. /\ Val(o) \in DOMAIN objects
        /\ objects[Val(o)] \in ObjectSet(classes, Len(boxes))
    BY <1>1, <1>4, ObjectOnStack
  <2> HIDE DEF b, v, o
  <2>4. objects \in Seq(ObjectSet(classes, Len(boxes))) /\ Len(boxes) \in Nat
    BY DEF Typed
  <2>5. objects' \in Seq(ObjectSet(classes, Len(boxes))) /\ Len(objects') = Len(objects)
    <3>1. CASE v \notin DOMAIN objects[Val(o)]
      BY <3>1, <2>1, <2>4
    <3>2. CASE v \in DOMAIN objects[Val(o)]
      <4> DEFINE x == objects[Val(o)]
                 y == [x EXCEPT ![v] = b]
      <4>1. y \in ObjectSet(classes, Len(boxes))
        BY <2>2, <2>3 DEF ObjectSet, Ids
      <4>2. objects' = [objects EXCEPT ![Val(o)] = y]
        BY <2>1, <3>2
      <4> HIDE DEF y
      <4> QED BY <4>1, <4>2, <2>3, <2>4
    <3> QED BY <3>1, <3>2
  <2>6. boxes' = boxes
    <3>1. boxes' = boxes \o <<>> /\ boxes \in Seq(TheBoxes)
      BY <2>1 DEF StackBecomes, Typed
    <3> QED BY <3>1
  <2>7. Len(boxes') \in Nat /\ Len(boxes) <= Len(boxes') /\ exposed' \subseteq Ids'
        /\ objects' \in Seq(ObjectSet(classes, Len(boxes'))) /\ Len(objects) <= Len(objects')
    BY <2>1, <2>4, <2>5, <2>6 DEF Typed, Ids
  <2>8. loaded \subseteq loaded' /\ loaded' \subseteq DOMAIN classes
        /\ inited \subseteq inited' /\ inited' \subseteq DOMAIN classes
    BY <2>1, <1>2, LoadingMore DEF Typed
  <2>9. DataGrows
    BY <2>1, <2>7, <2>8, Growing
  <2> QED BY <2>1, <2>9, <1>1, <1>2, Dropping DEF Outcome
<1> QED BY <1>3, <1>4

-----------------------------------------------------------------------------
(* Objects and the boxes of their fields.                                  *)

\* Finitely many finite sets have a finite union.
LEMMA FiniteUnions ==
    ASSUME NEW D, IsFiniteSet(D), NEW f, D \subseteq DOMAIN f, \A d \in D : IsFiniteSet(f[d])
    PROVE  IsFiniteSet(UNION {{d} \X f[d] : d \in D})
<1> DEFINE g == [d \in D |-> {d} \X f[d]]
           T == {{d} \X f[d] : d \in D}
<1>1. g \in Surjection(D, T)
  BY DEF Surjection
<1>2. IsFiniteSet(T)
  BY <1>1, FS_Surjection
<1>3. ASSUME NEW t \in T PROVE IsFiniteSet(t)
  <2>1. PICK d \in D : t = {d} \X f[d]
    OBVIOUS
  <2>2. IsFiniteSet({d})
    BY FS_Singleton
  <2> QED BY <2>1, <2>2, FS_Product
<1> HIDE DEF T
<1> QED BY <1>2, <1>3, FS_UNION DEF T

\* The fields of an object, those of the classes above it included, have types.
LEMMA Layout ==
    ASSUME Typed, NEW c \in DOMAIN classes
    PROVE  /\ FieldsOf(c) \in Seq((DOMAIN classes) \X FieldNames(classes))
           /\ Len(FieldsOf(c)) \in Nat
           /\ \A v \in ToSet(FieldsOf(c)) :
                /\ v \in (DOMAIN classes) \X FieldNames(classes)
                /\ FieldType(v) \in NumTypes \cup References
                /\ \E i \in 1..Len(FieldsOf(c)) : FieldsOf(c)[i] = v
           /\ \A i \in 1..Len(FieldsOf(c)) : FieldType(FieldsOf(c)[i]) \in NumTypes \cup References
<1> DEFINE D == ToSet(Lineage(c))
           F == [d \in D |-> DOMAIN classes[d].fields]
           U == UNION {{d} \X F[d] : d \in D}
           V == (DOMAIN classes) \X FieldNames(classes)
<1>1. IsFiniteSet(D) /\ D \subseteq DOMAIN classes
  BY LineLoaded
<1>2. \A d \in DOMAIN classes : /\ IsFiniteSet(DOMAIN classes[d].fields)
                                /\ \A v \in DOMAIN classes[d].fields :
                                     /\ classes[d].fields[v] \in NumTypes \cup References
                                     /\ v \in FieldNames(classes)
  BY Classes DEF Typed
<1>3. \A d \in D : IsFiniteSet(F[d]) /\ F[d] = DOMAIN classes[d].fields
  BY <1>1, <1>2
<1>4. U = UNION {{d} \X DOMAIN classes[d].fields : d \in D}
  BY <1>3
<1>5. D \subseteq DOMAIN F
  OBVIOUS
<1>6. ASSUME NEW v \in U PROVE v \in V /\ FieldType(v) \in NumTypes \cup References
  <2>1. PICK d \in D : v \in {d} \X F[d]
    OBVIOUS
  <2>2. /\ d \in DOMAIN classes /\ v[1] = d /\ v[2] \in DOMAIN classes[d].fields
        /\ v = <<v[1], v[2]>>
    BY <2>1, <1>1, <1>3
  <2>3. v[2] \in FieldNames(classes) /\ classes[d].fields[v[2]] \in NumTypes \cup References
    BY <2>2, <1>2
  <2>4. FieldType(v) = classes[d].fields[v[2]]
    BY <2>2 DEF FieldType
  <2> DEFINE w == v[2]
  <2>5. v = <<d, w>> /\ w \in FieldNames(classes)
    BY <2>2, <2>3
  <2> HIDE DEF w
  <2>6. v \in V
    BY <2>2, <2>5
  <2> QED BY <2>3, <2>4, <2>6
<1> HIDE DEF D, F, V
<1>7. IsFiniteSet(U)
  BY <1>1, <1>3, <1>5, FiniteUnions
<1>8. FieldsOf(c) = SetToSeq(U)
  BY <1>4 DEF FieldsOf, D
<1> HIDE DEF U
<1>9. /\ FieldsOf(c) \in Seq(U) /\ ToSet(FieldsOf(c)) = U
      /\ \A x \in U : \E i \in DOMAIN FieldsOf(c) : FieldsOf(c)[i] = x
  BY <1>7, <1>8, Listed
<1> DEFINE s == FieldsOf(c)
<1> HIDE DEF s
<1>10. s \in Seq(U) /\ U \subseteq V
  BY <1>6, <1>9 DEF s
<1>11. s \in Seq(V) /\ Len(s) \in Nat /\ DOMAIN s = 1..Len(s)
  BY <1>10, SeqGrows
<1>12. \A i \in 1..Len(s) : s[i] \in U
  BY <1>10
<1> QED BY <1>6, <1>9, <1>11, <1>12 DEF s, V

\* The boxes that are made for them are boxes.
LEMMA FieldBoxesMade ==
    ASSUME Typed, NEW c \in DOMAIN classes, NEW no \in Nat, NEW na \in Nat, NEW ld
    PROVE  /\ FieldBoxes(c) \in Seq(BoxSet(classes, no, na, ld))
           /\ Len(FieldBoxes(c)) = Len(FieldsOf(c)) /\ Len(FieldsOf(c)) \in Nat
<1> DEFINE s == FieldsOf(c)
           B == BoxSet(classes, no, na, ld)
<1>1. Len(s) \in Nat /\ DOMAIN s = 1..Len(s)
      /\ \A i \in 1..Len(s) : FieldType(s[i]) \in NumTypes \cup References
  BY Layout
<1>2. \A i \in 1..Len(s) : Zero(FieldType(s[i])) \in B
  BY <1>1, ZeroBox
<1>3. FieldBoxes(c) = [i \in 1..Len(s) |-> Zero(FieldType(s[i]))]
  BY <1>1 DEF FieldBoxes
<1> HIDE DEF s, B
<1>4. FieldBoxes(c) \in Seq(B) /\ Len(FieldBoxes(c)) = Len(s)
  BY <1>1, <1>2, <1>3
<1> QED BY <1>1, <1>4 DEF s, B

\* An object of these boxes is an object.
LEMMA ObjectMade ==
    ASSUME Typed, NEW c \in DOMAIN classes, NEW j \in Nat \ {0}, NEW nb \in Nat,
           Len(boxes) + j - 1 + Len(FieldsOf(c)) <= nb
    PROVE  createObject(c, j) \in ObjectSet(classes, nb)
<1> DEFINE s == FieldsOf(c)
           V == (DOMAIN classes) \X FieldNames(classes)
           at(v) == CHOOSE i \in DOMAIN s : s[i] = v
           S == ToSet(s)
<1>1. /\ s \in Seq(V) /\ Len(s) \in Nat /\ Len(boxes) \in Nat /\ DOMAIN s = 1..Len(s)
      /\ Len(boxes) + j - 1 + Len(s) <= nb
      /\ \A v \in S : v \in V /\ \E i \in 1..Len(s) : s[i] = v
  <2>1. /\ s \in Seq(V) /\ Len(s) \in Nat
        /\ \A v \in ToSet(s) : v \in V /\ \E i \in 1..Len(s) : s[i] = v
    BY Layout
  <2>2. Len(boxes) \in Nat /\ Len(boxes) + j - 1 + Len(s) <= nb
    BY TypedFacts
  <2> HIDE DEF s
  <2>3. DOMAIN s = 1..Len(s)
    BY <2>1
  <2> QED BY <2>1, <2>2, <2>3
<1>2. createObject(c, j) = [v \in S |-> IF FieldType(v) \in References THEN Null ELSE New(j - 1 + at(v))]
  BY DEF createObject
<1> HIDE DEF s
<1>3. ASSUME NEW v \in S PROVE at(v) \in 1..Len(s)
  BY <1>1
<1> HIDE DEF at
<1>4. ASSUME NEW v \in S PROVE New(j - 1 + at(v)) \in 0..nb
  BY <1>1, <1>3 DEF New
<1>5. Null \in 0..nb
  BY DEF Null
<1>6. S \in SUBSET V
  BY <1>1
<1> HIDE DEF S
<1>7. createObject(c, j) \in [S -> 0..nb]
  BY <1>2, <1>4, <1>5
<1> QED BY <1>6, <1>7 DEF ObjectSet, V

-----------------------------------------------------------------------------
(* The objects and boxes there are, and those that come to be.             *)
LEMMA ObjectsAppended ==
    ASSUME Typed, NEW nb \in Nat, Len(boxes) <= nb, NEW new \in Seq(ObjectSet(classes, nb))
    PROVE  /\ objects \o new \in Seq(ObjectSet(classes, nb))
           /\ Len(objects \o new) = Len(objects) + Len(new)
           /\ Len(objects) \in Nat /\ Len(new) \in Nat
<1>1. Len(boxes) \in Nat
  BY TypedFacts
<1>2. ObjectSet(classes, Len(boxes)) \subseteq ObjectSet(classes, nb)
  BY <1>1, ObjectsMore
<1>3. objects \in Seq(ObjectSet(classes, nb))
  BY <1>2, SeqGrows DEF Typed
<1> QED BY <1>3, Concatenated

\* One more array.
LEMMA ArraysAppended ==
    ASSUME Typed, NEW nb \in Nat, Len(boxes) <= nb, NEW new \in ArraySet(nb)
    PROVE  /\ Append(arrays, new) \in Seq(ArraySet(nb))
           /\ Len(Append(arrays, new)) = Len(arrays) + 1
           /\ Len(arrays) \in Nat
<1>1. Len(boxes) \in Nat
  BY TypedFacts
<1>2. ArraySet(Len(boxes)) \subseteq ArraySet(nb)
  BY <1>1, ArraysMore
<1>3. arrays \in Seq(ArraySet(nb))
  BY <1>2, SeqGrows DEF Typed
<1> QED BY <1>3

\* Where new boxes are found.
LEMMA BoxesAfter ==
    ASSUME Typed, NEW B, NEW fresh \in Seq(B), boxes' = boxes \o fresh
    PROVE  /\ Len(boxes') = Len(boxes) + Len(fresh)
           /\ Len(boxes) \in Nat /\ Len(boxes') \in Nat /\ Len(boxes) <= Len(boxes')
           /\ exposed' = exposed => exposed' \subseteq Ids'
<1> DEFINE S == TheBoxes \cup B
<1>1. boxes \in Seq(S) /\ fresh \in Seq(S)
  BY SeqGrows DEF Typed
<1> HIDE DEF S
<1>2. Len(boxes') = Len(boxes) + Len(fresh)
  BY <1>1, Concatenated
<1>3. Len(boxes) \in Nat /\ Len(fresh) \in Nat
  BY <1>1
<1> QED BY <1>2, <1>3 DEF Typed, Ids

-----------------------------------------------------------------------------
\* new.
LEMMA NewObjectSteps ==
    ASSUME Typed, Nested, NewObject
    PROVE  Outcome
<1> DEFINE c == Instr.c
           no == Len(objects) + 1
           fresh == <<Object(c, no)>> \o FieldBoxes(c)
<1>1. At("new") /\ Ready("new") /\ 0 \in Nat
  BY AtReady DEF NewObject
<1>2. c \in DOMAIN classes /\ After \in Int /\ Top.cls \in DOMAIN classes
  BY <1>1 DEF Ready, IsInstr
<1>3. CASE ~Initialized(Top.cls) /\ Initialize(Top.cls)
  BY <1>1, <1>2, <1>3, Initializing DEF Outcome
<1>4. CASE ~(~Initialized(Top.cls) /\ Initialize(Top.cls))
  <2>1. /\ objects' = Append(objects, createObject(c, 2))
        /\ StackBecomes(0, <<New(1)>>, fresh, After)
        /\ loaded' = loaded \cup ToSet(Lineage(c))
        /\ UNCHANGED <<classes, statics, arrays, inited, exposed>>
    BY <1>4 DEF NewObject
  <2> DEFINE n == Len(FieldsOf(c))
             na == Len(arrays)
             B == BoxSet(classes, no, na, loaded')
  <2>2. no \in Nat /\ no \in 1..no /\ na \in Nat /\ objects \in Seq(ObjectSet(classes, Len(boxes)))
    BY DEF Typed
  <2>3. ToSet(LineageIn(classes, c)) \subseteq loaded'
    BY <2>1, <1>2, LineLoaded
  <2> HIDE DEF c, no, na
  <2>4. Object(c, no) \in B
    BY <1>2, <2>2, <2>3, ObjectBox
  <2>5. FieldBoxes(c) \in Seq(B) /\ Len(FieldBoxes(c)) = n /\ n \in Nat
    BY <1>2, <2>2, FieldBoxesMade
  <2> HIDE DEF B
  <2>6. fresh \in Seq(B) /\ Len(fresh) = n + 1 /\ fresh # <<>>
    <3> DEFINE y == FieldBoxes(c)
               x == Object(c, no)
    <3> HIDE DEF y, x
    <3>1. <<x>> \o y \in Seq(B) /\ Len(<<x>> \o y) = n + 1 /\ <<x>> \o y # <<>>
      BY <2>4, <2>5 DEF x, y
    <3> QED BY <3>1 DEF x, y
  <2> HIDE DEF fresh
  <2>7. boxes' = boxes \o fresh
    BY <2>1 DEF StackBecomes
  <2>8. Len(boxes') = Len(boxes) + n + 1 /\ Len(boxes) \in Nat /\ Len(boxes') \in Nat
        /\ Len(boxes) <= Len(boxes') /\ exposed' \subseteq Ids'
    <3> HIDE DEF n
    <3>1. Len(boxes') = Len(boxes) + Len(fresh) /\ Len(boxes) \in Nat /\ Len(boxes') \in Nat
          /\ Len(boxes) <= Len(boxes') /\ exposed' \subseteq Ids'
      BY <2>1, <2>6, <2>7, BoxesAfter
    <3> QED BY <3>1, <2>5, <2>6
  <2>9. createObject(c, 2) \in ObjectSet(classes, Len(boxes'))
    <3>1. Len(boxes) + 2 - 1 + Len(FieldsOf(c)) <= Len(boxes') /\ 2 \in Nat \ {0}
      BY <2>5, <2>8
    <3> QED BY <3>1, <1>2, <2>8, ObjectMade
  <2> DEFINE new == <<createObject(c, 2)>>
  <2>10. new \in Seq(ObjectSet(classes, Len(boxes'))) /\ Len(new) = 1
         /\ objects' = objects \o new
    BY <2>1, <2>2, <2>9 DEF c
  <2> HIDE DEF new
  <2>11. objects' \in Seq(ObjectSet(classes, Len(boxes'))) /\ Len(objects') = no
    BY <2>8, <2>10, ObjectsAppended DEF no
  <2>12. Len(objects) <= Len(objects')
    BY <2>11, TypedFacts DEF no
  <2>13. loaded \subseteq loaded' /\ loaded' \subseteq DOMAIN classes
         /\ inited \subseteq inited' /\ inited' \subseteq DOMAIN classes
    BY <2>1, <1>2, LoadingMore DEF Typed
  <2>14. DataGrows
    BY <2>1, <2>8, <2>11, <2>12, <2>13, Growing
  <2>15. fresh \in Seq(BoxSet(classes, Len(objects'), Len(arrays'), loaded'))
    BY <2>1, <2>6, <2>11 DEF B, na
  <2> QED BY <1>1, <1>2, <2>1, <2>6, <2>14, <2>15, PuttingNew DEF Outcome
<1> QED BY <1>3, <1>4

\* A string constant is an object with an array of chars.
LEMMA StringSteps ==
    ASSUME Typed, NEW op, Ready(op), Instr.n \in 0..Greatest("int"), StringConstant
    PROVE  Works
<1> DEFINE n == Instr.n
           k == 1 + Len(FieldsOf("String"))
           string == [createObject("String", 2) EXCEPT ![FieldsOf("String")[1]] = New(k + 1)]
           chars  == [i \in 1..n |-> Box("int", 0)]
           ids == [i \in 1..n |-> New(k + 1 + i)]
           no == Len(objects) + 1
           na == Len(arrays) + 1
           fields == FieldBoxes("String")
           fresh == <<Object("String", no)>> \o fields \o <<Array(na)>> \o chars
           B == BoxSet(classes, no, na, loaded')
<1>1. /\ objects' = Append(objects, string) /\ arrays' = Append(arrays, ids)
      /\ loaded' = loaded \cup ToSet(Lineage("String"))
      /\ StackBecomes(0, <<New(1)>>, fresh, After)
      /\ UNCHANGED <<classes, statics, inited, exposed>>
  BY DEF StringConstant
<1>2. "String" \in DOMAIN classes
  BY Classes DEF Typed
<1>3. /\ no \in Nat /\ no \in 1..no /\ na \in Nat /\ na \in 1..na
      /\ objects \in Seq(ObjectSet(classes, Len(boxes)))
      /\ After \in Int /\ 0 \in Nat
  BY DEF Typed, Ready
<1>4. n \in Nat /\ n \in ValuesOf("int") /\ "int" \in NumTypes /\ 0 \in ValuesOf("int")
  <2>1. "int" \in DOMAIN Width /\ "int" \in IntTypes
    BY SmallNumbers, ValuesAreInt DEF IntTypes
  <2>2. Least("int") \in Int /\ Greatest("int") \in Int /\ 0 \in Between("int")
    BY <2>1, Widths
  <2> QED BY <2>1, <2>2, SmallNumbers DEF ValuesOf, Between
<1>5. ToSet(LineageIn(classes, "String")) \subseteq loaded'
  BY <1>1, <1>2, LineLoaded
<1> HIDE DEF no, na
<1>6. Object("String", no) \in B /\ Array(na) \in B /\ Box("int", 0) \in B
  <2>1. Object("String", no) \in B
    BY <1>2, <1>3, <1>5, ObjectBox
  <2>2. Array(na) \in B
    BY <1>3, ArrayBox
  <2>3. Box("int", 0) \in B
    BY <1>3, <1>4, NumberBox
  <2> QED BY <2>1, <2>2, <2>3
<1>7. fields \in Seq(B) /\ Len(fields) = k - 1 /\ k \in Nat \ {0}
  BY <1>2, <1>3, FieldBoxesMade
<1> HIDE DEF B, n
<1>8. chars \in Seq(B) /\ Len(chars) = n
  BY <1>4, <1>6
<1>9. fresh \in Seq(B) /\ Len(fresh) = k + 1 + n /\ fresh # <<>>
  <2> DEFINE x == Object("String", no)
             y == Array(na)
  <2> HIDE DEF x, y, chars, fields, k
  <2>1. x \in B /\ y \in B
    BY <1>6 DEF x, y
  <2>2. <<x>> \o fields \in Seq(B) /\ Len(<<x>> \o fields) = k
    BY <2>1, <1>7
  <2> DEFINE z == <<x>> \o fields
  <2> HIDE DEF z
  <2>3. z \o <<y>> \in Seq(B) /\ Len(z \o <<y>>) = k + 1
    BY <2>1, <2>2, <1>7 DEF z
  <2> DEFINE w == z \o <<y>>
  <2> HIDE DEF w
  <2>4. w \o chars \in Seq(B) /\ Len(w \o chars) = k + 1 + n
    BY <2>3, <1>7, <1>8, <1>4 DEF w
  <2>5. w \o chars # <<>>
    BY <2>4, <1>7, <1>4
  <2> QED BY <2>4, <2>5 DEF w, z, x, y
<1> HIDE DEF fresh, chars
<1>10. boxes' = boxes \o fresh
  BY <1>1 DEF StackBecomes
<1>11. Len(boxes') = Len(boxes) + k + 1 + n /\ Len(boxes) \in Nat /\ Len(boxes') \in Nat
       /\ Len(boxes) <= Len(boxes') /\ exposed' \subseteq Ids'
  <2> HIDE DEF k
  <2>1. /\ Len(boxes') = Len(boxes) + Len(fresh) /\ Len(boxes) \in Nat /\ Len(boxes') \in Nat
        /\ Len(boxes) <= Len(boxes') /\ exposed' \subseteq Ids'
    BY <1>1, <1>9, <1>10, BoxesAfter
  <2> QED BY <2>1, <1>9, <1>7, <1>4
<1> DEFINE nb == Len(boxes')
<1>12. string \in ObjectSet(classes, nb)
  <2>1. Len(boxes) + 2 - 1 + Len(FieldsOf("String")) <= nb /\ 2 \in Nat \ {0} /\ nb \in Nat
    BY <1>4, <1>7, <1>11
  <2>2. createObject("String", 2) \in ObjectSet(classes, nb)
    BY <2>1, <1>2, ObjectMade
  <2>3. New(k + 1) \in 0..nb
    <3> HIDE DEF k
    <3> QED BY <1>4, <1>7, <1>11 DEF New
  <2> DEFINE o == createObject("String", 2)
             v == FieldsOf("String")[1]
             x == New(k + 1)
  <2> HIDE DEF o, v, x, nb
  <2>4. [o EXCEPT ![v] = x] \in ObjectSet(classes, nb)
    BY <2>2, <2>3 DEF ObjectSet, o, x
  <2> QED BY <2>4 DEF o, v, x
<1>13. ids \in ArraySet(nb)
  <2> HIDE DEF k
  <2>1. \A i \in 1..n : New(k + 1 + i) \in 0..nb
    BY <1>4, <1>7, <1>11 DEF New
  <2>2. ids \in Seq(0..nb) /\ Len(ids) = n
    BY <1>4, <2>1
  <2> QED BY <2>2, <1>4 DEF ArraySet
<1> HIDE DEF string, ids, nb, k
<1>14. /\ objects' \in Seq(ObjectSet(classes, nb)) /\ Len(objects') = no
       /\ Len(objects) <= Len(objects')
  <2> DEFINE new == <<string>>
  <2>1. new \in Seq(ObjectSet(classes, nb)) /\ Len(new) = 1 /\ objects' = objects \o new
    BY <1>1, <1>3, <1>12
  <2> HIDE DEF new
  <2>2. nb \in Nat /\ Len(boxes) <= nb
    BY <1>11 DEF nb
  <2>3. /\ objects \o new \in Seq(ObjectSet(classes, nb))
        /\ Len(objects \o new) = Len(objects) + Len(new) /\ Len(objects) \in Nat
    BY <2>1, <2>2, ObjectsAppended
  <2> QED BY <2>1, <2>3 DEF no
<1>15. /\ arrays' \in Seq(ArraySet(nb)) /\ Len(arrays') = na
       /\ Len(arrays) <= Len(arrays')
  <2>1. nb \in Nat /\ Len(boxes) <= nb
    BY <1>11 DEF nb
  <2>2. /\ Append(arrays, ids) \in Seq(ArraySet(nb))
        /\ Len(Append(arrays, ids)) = Len(arrays) + 1 /\ Len(arrays) \in Nat
    BY <2>1, <1>13, ArraysAppended
  <2> QED BY <2>2, <1>1 DEF na
<1>16. loaded \subseteq loaded' /\ loaded' \subseteq DOMAIN classes
       /\ inited \subseteq inited' /\ inited' \subseteq DOMAIN classes
  BY <1>1, <1>2, LoadingMore DEF Typed
<1>17. DataGrows
  BY <1>1, <1>11, <1>14, <1>15, <1>16, Growing DEF nb
<1>18. fresh \in Seq(BoxSet(classes, Len(objects'), Len(arrays'), loaded'))
  BY <1>9, <1>14, <1>15 DEF B
<1> QED BY <1>1, <1>3, <1>9, <1>17, <1>18, PuttingNew

\* ldc.
LEMMA LoadConstantSteps ==
    ASSUME Typed, Nested, LoadConstant
    PROVE  Outcome
<1>1. At("ldc") /\ Ready("ldc") /\ 0 \in Nat
  BY AtReady DEF LoadConstant
<1>2. \/ Instr.t = "string" /\ Instr.n \in 0..Greatest("int")
      \/ Instr.t \in NumTypes /\ Instr.n \in ValuesOf(Instr.t)
  BY <1>1 DEF Ready, IsInstr
<1>3. "string" \notin NumTypes
  BY DEF NumTypes, IntTypes
<1>4. CASE Instr.t = "string"
  <2>1. StringConstant /\ Instr.n \in 0..Greatest("int")
    BY <1>2, <1>3, <1>4 DEF LoadConstant
  <2> QED BY <2>1, <1>1, StringSteps DEF Outcome
<1>5. CASE Instr.t # "string"
  <2>1. Pushes(0, Box(Instr.t, Instr.n)) /\ UNCHANGED data
    BY <1>5 DEF LoadConstant
  <2>2. Instr.t \in NumTypes /\ Instr.n \in ValuesOf(Instr.t)
    BY <1>2, <1>5
  <2> QED BY <2>1, <2>2, <1>1, PushingNumber DEF Outcome
<1> QED BY <1>4, <1>5

\* The numbers of boxes of several objects, one object's after another's.
LEMMA Blocks ==
    ASSUME NEW m \in Nat, NEW size \in Nat \ {0}
    PROVE  /\ m * size \in Nat
           /\ \A i \in 1..m : (i - 1) * size \in Nat /\ (i - 1) * size + size <= m * size
           /\ \A j \in 1..(m * size) : /\ (j - 1) \div size \in 0..(m - 1)
                                       /\ (j - 1) % size \in 0..(size - 1)
<1>1. m * size \in Nat
  OBVIOUS
<1>2. ASSUME NEW i \in 1..m PROVE (i - 1) * size \in Nat /\ (i - 1) * size + size <= m * size
  <2>1. i - 1 \in Nat /\ m - i \in Nat
    OBVIOUS
  <2>2. (i - 1) * size \in Nat /\ (m - i) * size \in Nat
    BY <2>1
  <2>3. m * size = (i - 1) * size + size + (m - i) * size
    OBVIOUS
  <2> QED BY <2>2, <2>3
<1>3. ASSUME NEW j \in 1..(m * size)
      PROVE  (j - 1) \div size \in 0..(m - 1) /\ (j - 1) % size \in 0..(size - 1)
  <2> DEFINE q == (j - 1) \div size
             r == (j - 1) % size
  <2>1. j - 1 \in Nat /\ j - 1 < m * size
    BY <1>1
  <2>2. q \in 0..(j - 1) /\ r \in 0..(size - 1) /\ j - 1 = size * q + r
    BY <2>1, Division
  <2> HIDE DEF q, r
  <2>3. q \in Nat
    BY <2>1, <2>2
  <2>4. SUFFICES q < m
    BY <2>2, <2>3 DEF q, r
  <2>5. SUFFICES ASSUME q >= m PROVE FALSE
    BY <2>3
  <2>6. q - m \in Nat
    BY <2>3, <2>5
  <2>7. (q - m) * size \in Nat
    BY <2>6
  <2>8. size * q = m * size + (q - m) * size
    BY <2>3
  <2> QED BY <1>1, <2>1, <2>2, <2>7, <2>8
<1> QED BY <1>1, <1>2, <1>3

\* anewarray makes the objects of the elements.
LEMMA NewObjectsSteps ==
    ASSUME Typed, Nested, NewObjects
    PROVE  Outcome
<1> DEFINE c == Instr.c
           n == Popped("int", 0)
           m == Val(n)
           size == 1 + Len(FieldsOf(c))
           part(i, r) == IF r = 0 THEN Object(c, Len(objects) + i + 1) ELSE FieldBoxes(c)[r]
           new == [i \in 1..m |-> createObject(c, 3 + (i - 1) * size)]
           ids == [i \in 1..m |-> New(2 + (i - 1) * size)]
           parts == [j \in 1..(m * size) |-> part((j - 1) \div size, (j - 1) % size)]
           fresh == <<Array(Len(arrays) + 1)>> \o parts
<1>1. At("anewarray") /\ Ready("anewarray") /\ 0 \in Nat /\ 1 \in Nat
  BY AtReady DEF NewObjects
<1>2. c \in DOMAIN classes /\ After \in Int
  BY <1>1 DEF Ready, IsInstr
<1>3. CASE n = Null
  <2>1. Ends("undefined")
    BY <1>3 DEF NewObjects
  <2> QED BY <2>1, <1>1, Ending
<1>4. CASE n # Null /\ m < 0
  <2>1. Ends("throws")
    BY <1>4 DEF NewObjects
  <2> QED BY <2>1, <1>1, Ending
<1>5. CASE n # Null /\ ~(m < 0)
  <2>1. /\ objects' = objects \o new
        /\ arrays' = Append(arrays, ids)
        /\ StackBecomes(1, <<New(1)>>, fresh, After)
        /\ loaded' = loaded \cup ToSet(Lineage(c))
        /\ UNCHANGED <<classes, statics, inited, exposed>>
    BY <1>5 DEF NewObjects
  <2>2. m \in ValuesOf("int") /\ m \in Nat
    BY <1>1, <1>5, ValuesOnStack DEF NumTypes, IntTypes
  <2> DEFINE no == Len(objects) + m
             na == Len(arrays) + 1
             B  == BoxSet(classes, no, na, loaded')
  <2>3. /\ Len(objects) \in Nat /\ no \in Nat /\ na \in Nat /\ na \in 1..na
        /\ size \in Nat \ {0}
    BY <2>2, <1>2, Layout DEF Typed
  <2>4. ToSet(LineageIn(classes, c)) \subseteq loaded'
    BY <2>1, <1>2, LineLoaded
  <2> HIDE DEF c, m, no, na
  <2>5. FieldBoxes(c) \in Seq(B) /\ Len(FieldBoxes(c)) = size - 1
    BY <1>2, <2>3, FieldBoxesMade
  <2>6. /\ Array(na) \in B
        /\ \A i \in 0..(m - 1) : Object(c, Len(objects) + i + 1) \in B
    <3>1. Array(na) \in B
      BY <2>3, ArrayBox
    <3>2. ASSUME NEW i \in 0..(m - 1) PROVE Object(c, Len(objects) + i + 1) \in B
      <4> DEFINE o == Len(objects) + i + 1
      <4>1. o \in 1..no
        BY <2>2, <2>3 DEF no
      <4> HIDE DEF o
      <4>2. Object(c, o) \in B
        BY <4>1, <1>2, <2>3, <2>4, ObjectBox
      <4> QED BY <4>2 DEF o
    <3> QED BY <3>1, <3>2
  <2> HIDE DEF B, size
  <2>7. /\ m * size \in Nat
        /\ \A i \in 1..m : (i - 1) * size \in Nat /\ (i - 1) * size + size <= m * size
        /\ \A j \in 1..(m * size) : /\ (j - 1) \div size \in 0..(m - 1)
                                    /\ (j - 1) % size \in 0..(size - 1)
    BY <2>2, <2>3, Blocks
  <2>8. ASSUME NEW i \in 0..(m - 1), NEW r \in 0..(size - 1) PROVE part(i, r) \in B
    <3>1. CASE r = 0
      BY <3>1, <2>6
    <3>2. CASE r # 0
      <4> DEFINE y == FieldBoxes(c)
      <4> HIDE DEF y
      <4>1. y \in Seq(B) /\ r \in 1..Len(y)
        BY <3>2, <2>3, <2>5 DEF y
      <4>2. y[r] \in B
        BY <4>1
      <4> QED BY <3>2, <4>2 DEF y
    <3> QED BY <3>1, <3>2
  <2> HIDE DEF part
  <2> DEFINE len == m * size
  <2>9. parts \in Seq(B) /\ Len(parts) = len
    <3>1. \A j \in 1..len : part((j - 1) \div size, (j - 1) % size) \in B
      BY <2>7, <2>8
    <3>2. parts = [j \in 1..len |-> part((j - 1) \div size, (j - 1) % size)] /\ len \in Nat
      BY <2>7
    <3> HIDE DEF len, parts
    <3> QED BY <3>1, <3>2
  <2> HIDE DEF parts
  <2>10. fresh \in Seq(B) /\ Len(fresh) = len + 1 /\ fresh # <<>>
    <3> DEFINE x == Array(na)
    <3>1. x \in B /\ fresh = <<x>> \o parts /\ len \in Nat
      BY <2>6, <2>7 DEF na
    <3> HIDE DEF x, len, fresh
    <3> QED BY <3>1, <2>9
  <2> HIDE DEF fresh
  <2>11. boxes' = boxes \o fresh
    BY <2>1 DEF StackBecomes
  <2>12. Len(boxes') = Len(boxes) + len + 1 /\ Len(boxes) \in Nat /\ Len(boxes') \in Nat
         /\ Len(boxes) <= Len(boxes') /\ exposed' \subseteq Ids' /\ len \in Nat
    <3>1. Len(boxes') = Len(boxes) + Len(fresh) /\ Len(boxes) \in Nat /\ Len(boxes') \in Nat
          /\ Len(boxes) <= Len(boxes') /\ exposed' \subseteq Ids'
      BY <2>1, <2>10, <2>11, BoxesAfter
    <3>2. len \in Nat
      BY <2>7
    <3> HIDE DEF len
    <3> QED BY <3>1, <3>2, <2>10
  <2> DEFINE nb == Len(boxes')
  <2>13. new \in Seq(ObjectSet(classes, nb)) /\ Len(new) = m
    <3>1. ASSUME NEW i \in 1..m PROVE createObject(c, 3 + (i - 1) * size) \in ObjectSet(classes, nb)
      <4> DEFINE b == (i - 1) * size
                 j == 3 + b
      <4>1. b \in Nat /\ b + size <= len
        BY <2>7
      <4> HIDE DEF b
      <4>2. j \in Nat \ {0} /\ nb \in Nat
        BY <4>1, <2>12
      <4>3. Len(boxes) + j - 1 + Len(FieldsOf(c)) <= nb
        <5>1. Len(FieldsOf(c)) = size - 1
          BY <2>5, <1>2, FieldBoxesMade, <2>3 DEF size
        <5> HIDE DEF len
        <5> QED BY <5>1, <4>1, <2>12, <2>3
      <4> HIDE DEF j, nb
      <4>4. createObject(c, j) \in ObjectSet(classes, nb)
        BY <4>2, <4>3, <1>2, ObjectMade DEF c
      <4> QED BY <4>4 DEF j, b
    <3> QED BY <3>1, <2>2
  <2>14. ids \in ArraySet(nb)
    <3>1. ASSUME NEW i \in 1..m PROVE New(2 + (i - 1) * size) \in 0..nb
      <4> DEFINE b == (i - 1) * size
      <4>1. b \in Nat /\ b + size <= len
        BY <2>7
      <4> HIDE DEF b, len
      <4>2. New(2 + b) \in 0..nb
        BY <4>1, <2>3, <2>12 DEF New
      <4> QED BY <4>2 DEF b
    <3>2. ids \in Seq(0..nb) /\ Len(ids) = m
      BY <3>1, <2>2
    <3> QED BY <3>2, <2>2 DEF ArraySet
  <2> HIDE DEF new, ids, nb, len
  <2>15. nb \in Nat /\ Len(boxes) <= nb
    BY <2>12 DEF nb
  <2>16. /\ objects' \in Seq(ObjectSet(classes, nb)) /\ Len(objects') = no
         /\ Len(objects) <= Len(objects')
    <3>1. /\ objects \o new \in Seq(ObjectSet(classes, nb))
          /\ Len(objects \o new) = Len(objects) + Len(new) /\ Len(objects) \in Nat
      BY <2>13, <2>15, ObjectsAppended
    <3> QED BY <3>1, <2>1, <2>2, <2>13 DEF no
  <2>17. /\ arrays' \in Seq(ArraySet(nb)) /\ Len(arrays') = na
         /\ Len(arrays) <= Len(arrays')
    <3>1. /\ Append(arrays, ids) \in Seq(ArraySet(nb))
          /\ Len(Append(arrays, ids)) = Len(arrays) + 1 /\ Len(arrays) \in Nat
      BY <2>14, <2>15, ArraysAppended
    <3> QED BY <3>1, <2>1 DEF na
  <2>18. loaded \subseteq loaded' /\ loaded' \subseteq DOMAIN classes
         /\ inited \subseteq inited' /\ inited' \subseteq DOMAIN classes
    BY <2>1, <1>2, LoadingMore DEF Typed
  <2>19. DataGrows
    BY <2>1, <2>12, <2>16, <2>17, <2>18, Growing DEF nb
  <2>20. fresh \in Seq(BoxSet(classes, Len(objects'), Len(arrays'), loaded'))
    BY <2>10, <2>16, <2>17 DEF B
  <2> QED BY <1>1, <1>2, <2>1, <2>10, <2>19, <2>20, PuttingNew DEF Outcome
<1> QED BY <1>3, <1>4, <1>5

\* Instructions on constants, arrays, objects and static variables.
LEMMA DataSteps ==
    ASSUME Typed, Nested, Data
    PROVE  Outcome
BY LoadConstantSteps, ArrayLoadSteps, ArrayStoreSteps, ArrayLengthSteps, NewArraySteps,
   NewObjectsSteps, NewObjectSteps, GetStaticSteps, PutStaticSteps, GetFieldSteps, PutFieldSteps,
   InstanceOfSteps DEF Data

-----------------------------------------------------------------------------
(* Returns and exceptions.                                                 *)

(* The top frame, whether an exception is to be dealt with or not.         *)
LEMMA AtTop ==
    ASSUME Typed, Nested, Running
    PROVE  /\ frames # <<>> /\ Len(frames) \in Nat \ {0} /\ Top = frames[Len(frames)]
           /\ Top \in FrameSet(classes, Len(boxes), loaded \cup inited)
           /\ Top.stack \in Seq(Ids) /\ Top.via \in {"name", "invoke"}
           /\ Top.cls \in DOMAIN classes /\ Top.method \in DOMAIN classes[Top.cls].methods
           /\ Top.method \in MethodNames(classes) /\ Top.pc \in Int
           /\ IsMethod(Method, DOMAIN classes)
<1> DEFINE F == FrameSet(classes, Len(boxes), loaded \cup inited)
<1>1. frames # <<>> /\ frames \in Seq(F)
  BY DEF Nested, Typed
<1> HIDE DEF F
<1>2. Len(frames) \in Nat \ {0} /\ Top = frames[Len(frames)] /\ Top \in F
  BY <1>1 DEF Top, Last
<1>3. Len(boxes) \in Nat
  BY TypedFacts
<1>4. /\ Top.cls \in loaded \cup inited /\ Top.method \in DOMAIN classes[Top.cls].methods
      /\ Top.method \in MethodNames(classes) /\ Top.pc \in Int
      /\ Top.stack \in Seq(Ids) /\ Top.via \in {"name", "invoke"}
  BY <1>2, <1>3, FrameFacts DEF F, Ids
<1>5. Top.cls \in DOMAIN classes
  BY <1>4 DEF Typed
<1>6. IsMethod(Method, DOMAIN classes)
  BY <1>4, <1>5, Classes DEF Typed, Method
<1> QED BY <1>1, <1>2, <1>4, <1>5, <1>6 DEF F

\* A return leaves the frame.
LEMMA ReturnSteps ==
    ASSUME Typed, Nested, Return
    PROVE  Outcome
<1> DEFINE b == IF Instr.t = "void" THEN Null ELSE Popped(Instr.t, 0)
<1>1. At("return") /\ Ready("return") /\ 0 \in Nat
  BY AtReady DEF Return
<1>2. CASE ClonesLong(b)
  <2>1. Ends("undefined")
    BY <1>2 DEF Return
  <2> QED BY <2>1, <1>1, Ending
<1>3. CASE ~ClonesLong(b)
  <2>1. ReturnWith(b, exc)
    BY <1>3 DEF Return
  <2>2. b \in Ids
    <3>1. Top.stack \in Seq(Ids)
      BY <1>1 DEF Ready
    <3>2. Popped(Instr.t, 0) \in Ids
      BY <3>1, <1>1, Taken
    <3>3. Null \in Ids
      BY TypedFacts DEF Ids, Null
    <3> QED BY <3>2, <3>3
  <2> HIDE DEF b
  <2>3. exc \in ExcSet(TheBoxes, MethodNames(classes)) /\ Running /\ ~Interrupted /\ frames # <<>>
    BY <1>1 DEF Typed, Ready
  <2>4. Returns(b, exc)
    BY <2>1, <2>2, <2>3 DEF Returns
  <2> QED BY <2>3, <2>4 DEF Leaves, Outcome
<1> QED BY <1>2, <1>3

\* The handler that handleException comes to is an entry of the table.
LEMMA HandlerThere ==
    ASSUME Typed, Nested, Running, NEW c, NEW pc, handleException(c, pc) # 0
    PROVE  Method.table[handleException(c, pc)].handler \in Int
<1> DEFINE t == Method.table
           k == handleException(c, pc)
           E == [start : Int, end : Int, handler : Int, type : STRING]
           I == {i \in 1..Len(t) : Breaks(t[i]) \/
                   (hasInheritanceRelationship(c, t[i].type) /\ Covers(t[i], pc))}
<1>1. t \in Seq(E)
  BY AtTop DEF IsMethod
<1>2. k = IF I # {} THEN Min(I) ELSE 0
  BY DEF handleException, SelectInSeq
<1> HIDE DEF k, t, E
<1>3. I \in SUBSET Nat
  OBVIOUS
<1>4. I # {} => Min(I) \in I
  <2> HIDE DEF I
  <2> QED BY <1>3, FirstPosition
<1>5. k \in 1..Len(t)
  <2>1. k # 0
    BY DEF k
  <2>2. k \in I
    <3> HIDE DEF I
    <3> QED BY <2>1, <1>2, <1>4
  <2> QED BY <2>2
<1>6. t[k] \in E
  BY <1>1, <1>5
<1> QED BY <1>6 DEF t, k, E

(* The handler has the object on its stack, and nothing else.              *)
LEMMA Handling ==
    ASSUME Typed, Nested, Running, NEW pc \in Int,
           Popped("object", 0) # Null, Handles(Popped("object", 0), pc),
           UNCHANGED <<data, boxes, status>>,
           exc' \in ExcSet(TheBoxes, MethodNames(classes)),
           exc'.pending => exc.pending /\ ~Interrupted /\ exc'.byName = exc.byName
    PROVE  Works
<1> DEFINE b == Popped("object", 0)
           f == [Top EXCEPT !.stack = <<b>>, !.pc = pc, !.resumed = FALSE]
           nb == Len(boxes)
           cs == loaded \cup inited
<1>1. /\ frames # <<>> /\ Top \in FrameSet(classes, nb, cs) /\ Top.stack \in Seq(Ids) /\ 0 \in Nat
  BY AtTop
<1>2. b \in ToSet(Top.stack) /\ b \in 0..nb /\ nb \in Nat
  BY <1>1, Taken, TypedFacts DEF Ids
<1> HIDE DEF b
<1>3. f \in FrameSet(classes, nb, cs)
  <2> DEFINE t == Top
  <2>1. <<b>> \in Seq(0..nb) /\ FALSE \in BOOLEAN /\ nb <= nb /\ cs \subseteq cs
    BY <1>2
  <2> HIDE DEF nb, cs, t
  <2>2. [t EXCEPT !.stack = <<b>>, !.pc = pc, !.resumed = FALSE] \in FrameSet(classes, nb, cs)
    BY <1>1, <1>2, <2>1, FrameChanged DEF t
  <2> QED BY <2>2 DEF t
<1>4. f.stack = <<b>> /\ f.locals = Top.locals /\ f.via = Top.via
  BY <1>1 DEF FrameSet
<1>5. frames' = SetTop(f)
  BY DEF Handles, b
<1> HIDE DEF f
<1>6. ToSet(f.stack) = {b} /\ b \in Held(Top)
  BY <1>2, <1>4, OnStackOrLocal DEF ToSet
<1>7. Held(f) \subseteq Held(Top)
  BY <1>4, <1>6 DEF Held
<1>8. Shared' = Shared
  BY DEF data, Shared
<1>9. ASSUME Apart(Top, Shared) PROVE Apart(f, Shared') /\ Distinct(f, Shared')
  <2>1. DOMAIN f.stack = {1} /\ f.stack[1] = b
    BY <1>4
  <2>2. PICK i \in DOMAIN Top.stack : b = Top.stack[i]
    BY <1>2 DEF ToSet
  <2>3. Apart(f, Shared)
    BY <1>4, <1>9, <2>1, <2>2 DEF Apart
  <2>4. Distinct(f, Shared)
    BY <2>1 DEF Distinct
  <2> QED BY <2>3, <2>4, <1>8
<1>10. GoesOn(f)
  BY <1>3, <1>4, <1>5, <1>7, <1>9 DEF GoesOn, data
<1>11. DataGrows /\ BoxesGrow
  <2>1. DataGrows
    BY <1>2, DataSame
  <2>2. BoxesGrow
    BY DEF BoxesGrow, Typed, TheBoxes, data
  <2> QED BY <2>1, <2>2
<1> QED BY <1>1, <1>10, <1>11 DEF Works

\* athrow goes to a handler, leaves the frame, or halts,
LEMMA ThrowSteps ==
    ASSUME Typed, Nested, Throw
    PROVE  Outcome
<1> DEFINE b == Popped("object", 0)
           k == handleException(boxes[b].cls, Top.pc)
           h == Method.table[k].handler
<1>1. At("athrow") /\ Ready("athrow") /\ Running /\ ~Interrupted /\ frames # <<>> /\ 0 \in Nat
  BY AtReady DEF Throw, Ready
<1>2. CASE ~Throwable(b)
  <2>1. Ends("throws")
    BY <1>2 DEF Throw
  <2> QED BY <2>1, <1>1, Ending
<1>3. CASE Throwable(b) /\ k # 0 /\ Breaks(Method.table[k])
  <2>1. Ends("undefined")
    BY <1>3 DEF Throw
  <2> QED BY <2>1, <1>1, Ending
<1>4. CASE Throwable(b) /\ k # 0 /\ ~Breaks(Method.table[k])
  <2>1. Handles(b, h) /\ UNCHANGED <<data, boxes, exc, status>>
    BY <1>4 DEF Throw
  <2>2. h \in Int
    BY <1>1, <1>4, HandlerThere
  <2>3. b # Null
    BY <1>4 DEF Throwable
  <2>4. /\ exc' \in ExcSet(TheBoxes, MethodNames(classes))
        /\ exc'.pending => exc.pending /\ ~Interrupted /\ exc'.byName = exc.byName
    BY <2>1, <1>1, ExcSame
  <2> HIDE DEF h
  <2> QED BY <2>1, <2>2, <2>3, <2>4, <1>1, Handling DEF Outcome
<1>5. CASE Throwable(b) /\ k = 0
  <2> DEFINE e == [exc EXCEPT !.pending = TRUE, !.thrown = boxes[b]]
  <2>1. ReturnWith(b, e)
    BY <1>5 DEF Throw
  <2>2. b # Null
    BY <1>5 DEF Throwable
  <2>3. b \in Ids /\ boxes[b] \in TheBoxes /\ boxes[b].type = "object"
    <3>1. b \in DOMAIN boxes /\ boxes[b] \in TheBoxes /\ boxes[b].type = "object"
      BY <2>2, <1>1, ValuesOnStack
    <3> QED BY <3>1, <1>1, Taken DEF Ready
  <2>4. e \in ExcSet(TheBoxes, MethodNames(classes))
    BY <2>3 DEF Typed, ExcSet
  <2>5. Returns(b, e)
    BY <2>1, <2>2, <2>3, <2>4 DEF Returns
  <2> QED BY <2>5, <1>1 DEF Leaves, Outcome
<1> QED BY <1>2, <1>3, <1>4, <1>5

\* and so does a frame that an exception comes to.
LEMMA RecoverSteps ==
    ASSUME Typed, Nested, Recover
    PROVE  Outcome
<1> DEFINE b == Popped("object", 0)
           k == handleException(boxes[b].cls, CallAddress)
           h == Method.table[k].handler - 1
<1>1. Running /\ Interrupted
  BY DEF Recover
<1>2. frames # <<>> /\ Top.stack \in Seq(Ids) /\ 0 \in Nat
  BY <1>1, AtTop
<1>3. CASE ~Throwable(b)
  <2>1. Ends("throws")
    BY <1>3 DEF Recover
  <2> QED BY <2>1, <1>1 DEF Ends, Halts, Outcome
<1>4. CASE Throwable(b) /\ k # 0 /\ Breaks(Method.table[k])
  <2>1. Ends("undefined")
    BY <1>4 DEF Recover
  <2> QED BY <2>1, <1>1 DEF Ends, Halts, Outcome
<1>5. CASE Throwable(b) /\ k # 0 /\ ~Breaks(Method.table[k])
  <2>1. /\ Handles(b, h) /\ exc' = [NoException EXCEPT !.thrown = exc.thrown]
        /\ UNCHANGED <<data, boxes, status>>
    BY <1>5 DEF Recover
  <2>2. Method.table[k].handler \in Int
    BY <1>1, <1>5, HandlerThere
  <2>3. h \in Int
    BY <2>2
  <2>4. b # Null
    BY <1>5 DEF Throwable
  <2>5. exc' \in ExcSet(TheBoxes, MethodNames(classes)) /\ exc'.pending = FALSE
    <3>1. exc.thrown \in TheBoxes /\ <<>> \in Seq(MethodNames(classes))
      BY DEF Typed, ExcSet
    <3> QED BY <3>1, <2>1 DEF ExcSet, NoException
  <2> HIDE DEF h
  <2> QED BY <2>1, <2>3, <2>4, <2>5, <1>1, Handling DEF Outcome
<1>6. CASE Throwable(b) /\ k = 0
  <2>1. ReturnWith(b, exc)
    BY <1>6 DEF Recover
  <2>2. b # Null
    BY <1>6 DEF Throwable
  <2>3. b \in Ids /\ exc \in ExcSet(TheBoxes, MethodNames(classes))
    BY <1>2, Taken DEF Typed
  <2>4. Returns(b, exc)
    BY <2>1, <2>2, <2>3 DEF Returns
  <2> QED BY <2>4, <1>1, <1>2 DEF Leaves, Outcome
<1> QED BY <1>3, <1>4, <1>5, <1>6

-----------------------------------------------------------------------------
(* Calls.                                                                  *)

(* The arguments of a call that is made come from the stack of the caller, *)
(* and the method called is one of a class that is loaded.                 *)
LEMMA CallFacts ==
    ASSUME Typed, Nested, InvokeReady
    PROVE  /\ At("invoke") /\ Ready("invoke")
           /\ Instr.c \in DOMAIN classes /\ Len(Params) \in Nat /\ Arguments \in Nat
           /\ Instr.kind \in {"static", "virtual", "special", "interface"}
           /\ \A i : Argument(i) \in Ids /\ Argument(i) \in ToSet(Top.stack) \cup {Null}
<1>1. At("invoke") /\ Ready("invoke")
  BY AtReady DEF InvokeReady
<1>2. /\ Instr.c \in DOMAIN classes /\ Params \in Seq(ParamTypes)
      /\ Instr.kind \in {"static", "virtual", "special", "interface"}
  BY <1>1, PeeledTypes DEF Ready, IsInstr, Params
<1>3. Len(Params) \in Nat /\ Arguments \in Nat /\ OnObject \in {0, 1}
  BY <1>2 DEF Arguments, OnObject
<1>4. Top.stack \in Seq(Ids)
  BY <1>1 DEF Ready
<1>5. ASSUME NEW t, NEW k \in Nat
      PROVE  Popped(t, k) \in Ids /\ Popped(t, k) \in ToSet(Top.stack) \cup {Null}
  <2>1. Popped(t, k) \in Ids
    BY <1>4, Taken
  <2>2. CASE Popped(t, k) = Null
    BY <2>1, <2>2
  <2>3. CASE Popped(t, k) # Null
    BY <2>1, <2>3, <1>1, ValuesOnStack
  <2> QED BY <2>2, <2>3
<1>6. Null \in Ids
  BY TypedFacts DEF Ids, Null
<1>7. ASSUME NEW i PROVE Argument(i) \in Ids /\ Argument(i) \in ToSet(Top.stack) \cup {Null}
  <2> DEFINE k == i + 1 - OnObject
             x == Popped("object", Len(Params))
             y == Popped(Params[k], Len(Params) - k)
             z == CASE k = 0 -> x [] k \in DOMAIN Params -> y [] OTHER -> Null
  <2>1. Argument(i) = z
    BY DEF Argument
  <2> HIDE DEF k
  <2>2. DOMAIN Params = 1..Len(Params)
    BY <1>2
  <2>3. CASE k = 0
    <3>1. k \notin DOMAIN Params
      BY <2>2, <2>3
    <3>2. x \in Ids /\ x \in ToSet(Top.stack) \cup {Null}
      BY <1>3, <1>5
    <3> HIDE DEF x, y
    <3>3. z = x
      BY <2>3, <3>1
    <3> QED BY <3>2, <3>3, <2>1
  <2>4. CASE k \in DOMAIN Params
    <3>1. k # 0 /\ Len(Params) - k \in Nat
      BY <2>2, <2>4, <1>3
    <3>2. y \in Ids /\ y \in ToSet(Top.stack) \cup {Null}
      BY <3>1, <1>5
    <3> HIDE DEF x, y
    <3>3. z = y
      BY <2>4, <3>1
    <3> QED BY <3>2, <3>3, <2>1
  <2>5. CASE k # 0 /\ k \notin DOMAIN Params
    <3> HIDE DEF x, y
    <3>1. z = Null
      BY <2>5
    <3> QED BY <3>1, <1>6, <2>1
  <2> QED BY <2>3, <2>4, <2>5
<1> QED BY <1>1, <1>2, <1>3, <1>7

\* The class a method is found in is one that is loaded by the call.
LEMMA SiteLoaded ==
    ASSUME Typed, Nested, InvokeReady, ~NoReceiver, Site # NoClass
    PROVE  /\ Site \in DOMAIN classes /\ Site \in loaded \cup ToSet(Lineage(Instr.c))
           /\ Instr.name \in DOMAIN classes[Site].methods /\ Instr.name \in MethodNames(classes)
           /\ IsMethod(Callee, DOMAIN classes)
<1>1. /\ Ready("invoke") /\ Instr.c \in DOMAIN classes /\ Len(Params) \in Nat
      /\ Instr.kind \in {"static", "virtual", "special", "interface"}
  BY CallFacts
<1>2. /\ Lineage(Instr.c) \in Seq(DOMAIN classes) /\ Instr.c \in ToSet(Lineage(Instr.c))
      /\ ToSet(Lineage(Instr.c)) \subseteq DOMAIN classes
  BY <1>1, LineLoaded
<1> DEFINE L == loaded \cup ToSet(Lineage(Instr.c))
<1>3. /\ LookIn \in Seq(DOMAIN classes)
      /\ ToSet(LookIn) \subseteq L
  <2>1. CASE Instr.kind = "static"
    <3>1. LookIn = <<Instr.c>>
      BY <2>1 DEF LookIn
    <3> DEFINE c == Instr.c
    <3> HIDE DEF c
    <3>2. LookIn = <<c>> /\ c \in DOMAIN classes
      BY <3>1, <1>1 DEF c
    <3>3. LookIn \in Seq(DOMAIN classes) /\ ToSet(LookIn) = {c}
      BY <3>2 DEF ToSet
    <3> QED BY <3>3, <1>2 DEF c
  <2>2. CASE Instr.kind = "virtual"
    <3>1. LookIn = Lineage(boxes[This].cls)
      BY <2>2 DEF LookIn
    <3>2. This # Null /\ boxes[This].type = "object"
      BY <2>2 DEF NoReceiver
    <3>3. Top.stack \in Seq(Ids)
      BY <1>1 DEF Ready
    <3>4. boxes[This] \in TheBoxes
      BY <1>1, <3>2, <3>3, Taken DEF This
    <3> DEFINE x == boxes[This]
    <3>5. x \in BoxSet(classes, Len(objects), Len(arrays), loaded) /\ x.type = "object"
          /\ Len(objects) \in Nat /\ Len(arrays) \in Nat
      BY <3>2, <3>4, TypedFacts DEF TheBoxes
    <3> HIDE DEF x
    <3>6. x.cls \in DOMAIN classes /\ ToSet(LineageIn(classes, x.cls)) \subseteq loaded
      BY <3>5, BoxFacts
    <3>7. Lineage(x.cls) \in Seq(DOMAIN classes)
      BY <3>6, LineLoaded
    <3> QED BY <3>1, <3>6, <3>7 DEF x, Lineage
  <2>3. CASE Instr.kind \in {"special", "interface"}
    <3>1. Instr.kind # "static" /\ Instr.kind # "virtual"
      BY <2>3
    <3>2. LookIn = Lineage(Instr.c)
      BY <2>3, <3>1 DEF LookIn
    <3> QED BY <3>2, <1>2
  <2> QED BY <1>1, <2>1, <2>2, <2>3
<1> DEFINE s == LookIn
           I == {i \in 1..Len(s) : Instr.name \in DOMAIN classes[s[i]].methods}
           k == IF I # {} THEN Min(I) ELSE 0
<1>4. Site = IF k = 0 THEN NoClass ELSE s[k]
  BY DEF Site, SelectInSeq
<1> HIDE DEF s
<1>5. I \in SUBSET Nat /\ (I # {} => Min(I) \in I)
  <2>1. I \in SUBSET Nat
    OBVIOUS
  <2> HIDE DEF I
  <2> QED BY <2>1, FirstPosition
<1>6. k # 0
  BY <1>4
<1>7. k \in I
  <2> HIDE DEF I
  <2> QED BY <1>5, <1>6
<1> HIDE DEF k
<1>8. Site = s[k] /\ k \in 1..Len(s) /\ Instr.name \in DOMAIN classes[Site].methods
  BY <1>4, <1>6, <1>7
<1>9. s[k] \in DOMAIN classes /\ s[k] \in ToSet(s)
  BY <1>3, <1>8 DEF s, ToSet
<1>10. Site \in DOMAIN classes /\ Site \in L
  BY <1>3, <1>8, <1>9 DEF s
<1>11. \A c \in DOMAIN classes : \A m \in DOMAIN classes[c].methods :
         IsMethod(classes[c].methods[m], DOMAIN classes) /\ m \in MethodNames(classes)
  BY Classes DEF Typed
<1>12. IsMethod(Callee, DOMAIN classes) /\ Instr.name \in MethodNames(classes)
  BY <1>8, <1>10, <1>11 DEF Callee
<1> QED BY <1>8, <1>10, <1>12

\* A call of a method with code makes a frame from the top of the stack.
LEMMA InvokeMethodSteps ==
    ASSUME Typed, Nested, InvokeMethod
    PROVE  Outcome
<1> DEFINE n == Arguments
           locals == [i \in 0..(MaxLocals - 1) |-> Argument(i)]
           f  == [Top EXCEPT !.stack = Drop(@, n), !.resumed = FALSE]
           g  == Frame(Site, Instr.name, locals, Callee.maxStack, "invoke")
           nb == Len(boxes)
           cs == loaded' \cup inited'
           s  == Top.stack
           d  == Drop(s, n)
<1>1. /\ frames' = Append(SetTop(f), g)
      /\ loaded' = loaded \cup ToSet(Lineage(Instr.c))
      /\ UNCHANGED <<classes, statics, objects, arrays, inited, exposed, boxes, exc, status>>
      /\ InvokeReady /\ ~NoReceiver /\ Site # NoClass /\ ~Callee.native
  BY DEF InvokeMethod, Callable
<1>2. /\ Ready("invoke") /\ Instr.c \in DOMAIN classes /\ n \in Nat
      /\ \A i : Argument(i) \in Ids /\ Argument(i) \in ToSet(Top.stack) \cup {Null}
  BY <1>1, CallFacts
<1>3. /\ Site \in DOMAIN classes /\ Site \in cs
      /\ Instr.name \in DOMAIN classes[Site].methods /\ Instr.name \in MethodNames(classes)
      /\ Callee.maxLocals \in Nat /\ Callee.maxStack \in Nat /\ MaxLocals = Callee.maxLocals
  BY <1>1, SiteLoaded DEF IsMethod, MaxLocals
<1>4. nb \in Nat /\ loaded \cup inited \subseteq cs
  BY <1>1, TypedFacts
<1>5. /\ g \in FrameSet(classes, nb, cs) /\ g.stack = <<>>
      /\ Range(g.locals) \subseteq ToSet(Top.stack) \cup {Null}
  <2>1. locals \in [0..(Callee.maxLocals - 1) -> 0..nb]
        /\ Range(locals) \subseteq ToSet(Top.stack) \cup {Null}
    BY <1>2, <1>3 DEF Ids, Range
  <2>2. <<>> \in Seq(0..nb) /\ 0 \in Int /\ "invoke" \in {"name", "invoke"} /\ FALSE \in BOOLEAN
    OBVIOUS
  <2> HIDE DEF locals, nb, cs
  <2> DEFINE x == [cls |-> Site, method |-> Instr.name, pc |-> 0, locals |-> locals, stack |-> <<>>,
                   maxStack |-> Callee.maxStack, via |-> "invoke", resumed |-> FALSE]
             c == Site
             m == Instr.name
  <2>3. /\ c \in cs /\ m \in DOMAIN classes[c].methods /\ m \in MethodNames(classes)
        /\ classes[c].methods[m].maxLocals \in Nat /\ Callee.maxStack \in Nat
        /\ locals \in [0..(classes[c].methods[m].maxLocals - 1) -> 0..nb]
    BY <2>1, <1>3 DEF Callee
  <2> HIDE DEF c, m
  <2>4. [cls |-> c, method |-> m, pc |-> 0, locals |-> locals, stack |-> <<>>,
         maxStack |-> Callee.maxStack, via |-> "invoke", resumed |-> FALSE]
          \in FrameSet(classes, nb, cs)
    BY <2>2, <2>3, <1>4, FrameMade
  <2>5. g = x
    BY DEF Frame
  <2> QED BY <2>1, <2>4, <2>5 DEF c, m
<1>6. d \in Seq(Ids) /\ s \in Seq(Ids) /\ \A i \in 1..Len(d) : d[i] = s[i] /\ i \in 1..Len(s)
  BY <1>2, Dropped DEF Ready
<1>7. f \in FrameSet(classes, nb, cs) /\ f.stack = d /\ f.locals = Top.locals
      /\ f.via = Top.via /\ f.pc = Top.pc /\ f.cls = Top.cls /\ f.method = Top.method
  <2> DEFINE t == Top
  <2>1. t \in FrameSet(classes, nb, loaded \cup inited) /\ d \in Seq(0..nb)
        /\ nb <= nb /\ FALSE \in BOOLEAN
    BY <1>2, <1>4, <1>6 DEF Ready, Ids
  <2>2. f = [t EXCEPT !.stack = d, !.resumed = FALSE]
    OBVIOUS
  <2> HIDE DEF t, d, nb, cs, f
  <2>3. [t EXCEPT !.stack = d, !.resumed = FALSE] \in FrameSet(classes, nb, cs)
    BY <2>1, <1>4, FrameChanged
  <2>4. /\ f.stack = d /\ f.locals = t.locals /\ f.via = t.via /\ f.pc = t.pc
        /\ f.cls = t.cls /\ f.method = t.method
    BY <2>1, <2>2 DEF FrameSet
  <2> QED BY <2>2, <2>3, <2>4 DEF t
<1> HIDE DEF f, g, d, s
<1>8. DOMAIN d = 1..Len(d) /\ DOMAIN s = 1..Len(s)
  BY <1>6
<1>9. Held(f) \subseteq Held(Top)
  <2>1. ToSet(d) \subseteq ToSet(s)
    BY <1>6, <1>8 DEF ToSet
  <2> QED BY <2>1, <1>7 DEF Held, s
<1>10. ASSUME Apart(Top, Shared), Distinct(Top, Shared) PROVE Apart(f, Shared) /\ Distinct(f, Shared)
  <2>1. Apart(f, Shared)
    BY <1>6, <1>7, <1>8, <1>10 DEF Apart, s
  <2>2. Distinct(f, Shared)
    BY <1>6, <1>7, <1>8, <1>10 DEF Distinct, s
  <2> QED BY <2>1, <2>2
<1>11. WaitsFor(f, g)
  <2>1. Instr.op = "invoke"
    BY <1>2 DEF Ready
  <2> QED BY <2>1, <1>1, <1>5, <1>7, <1>9, <1>10 DEF WaitsFor
<1>12. DataGrows
  <2>1. loaded \subseteq loaded' /\ loaded' \subseteq DOMAIN classes
        /\ inited \subseteq inited' /\ inited' \subseteq DOMAIN classes
    BY <1>1, <1>2, LoadingMore DEF Typed
  <2>2. Len(boxes') \in Nat /\ Len(boxes) <= Len(boxes') /\ exposed' \subseteq Ids'
    BY <1>1, <1>4 DEF Typed, Ids
  <2> QED BY <1>1, <2>1, <2>2, Growing
<1> QED BY <1>1, <1>2, <1>11, <1>12 DEF Enters, Ready, Outcome

\* A native method returns at once.
LEMMA NativeReturnsSteps ==
    ASSUME Typed, Nested, Callable, NEW v, NEW fresh, NativeReturns(v, fresh),
           \/ v = Null /\ fresh = <<>>
           \/ v = New(1) /\ \E box \in Callee.gives : fresh = <<box>>,
           loaded' = loaded \cup ToSet(Lineage(Instr.c)),
           UNCHANGED <<classes, statics, objects, arrays, inited, exposed, status>>
    PROVE  Works
<1> DEFINE n   == Arguments
           d   == Drop(Top.stack, n)
           ids == Handed(v, Instr.desc, exc)
           max == Grown(Top.maxStack, exc)
           f   == TopWithMore(d \o ids, max, After)
           nb  == Len(boxes')
<1>1. InvokeReady /\ ~NoReceiver /\ Site # NoClass
  BY DEF Callable
<1>2. Ready("invoke") /\ Instr.c \in DOMAIN classes /\ n \in Nat
  BY <1>1, CallFacts
<1>3. Instr.name \in MethodNames(classes) /\ IsMethod(Callee, DOMAIN classes)
  BY <1>1, SiteLoaded
<1>4. /\ Top.stack \in Seq(Ids) /\ Top.maxStack \in Nat /\ After \in Int /\ Running /\ ~Interrupted
      /\ Top \in FrameSet(classes, Len(boxes), loaded \cup inited) /\ frames # <<>>
  BY <1>2 DEF Ready
<1>5. /\ Len(boxes) \in Nat /\ Len(objects) \in Nat /\ Len(arrays) \in Nat
      /\ exc \in ExcSet(TheBoxes, MethodNames(classes))
  BY DEF Typed
<1> DEFINE B == BoxSet(classes, Len(objects'), Len(arrays'), loaded')
<1>6. fresh \in Seq(B)
  <2>1. CASE fresh = <<>>
    BY <2>1
  <2>2. CASE \E box \in Callee.gives : fresh = <<box>>
    <3>1. PICK box \in Callee.gives : fresh = <<box>>
      BY <2>2
    <3>2. box = Box(box.type, box.val) /\ box.type \in NumTypes /\ box.val \in ValuesOf(box.type)
      BY <1>3 DEF IsMethod
    <3> DEFINE t == box.type
               w == box.val
    <3> HIDE DEF t, w
    <3>3. box = Box(t, w) /\ t \in NumTypes /\ w \in ValuesOf(t)
          /\ Len(objects') \in Nat /\ Len(arrays') \in Nat
      BY <3>2, <1>5 DEF t, w
    <3>4. box \in B
      BY <3>3, NumberBox
    <3> HIDE DEF B
    <3> QED BY <3>1, <3>4
  <2> QED BY <2>1, <2>2
<1> HIDE DEF B
<1>7. boxes' = boxes \o fresh
  BY DEF NativeReturns
<1>8. /\ nb = Len(boxes) + Len(fresh) /\ nb \in Nat /\ Len(boxes) <= nb /\ exposed' \subseteq Ids'
      /\ Len(fresh) \in Nat
  BY <1>6, <1>7, BoxesAfter
<1>9. DataGrows
  <2>1. loaded \subseteq loaded' /\ loaded' \subseteq DOMAIN classes
        /\ inited \subseteq inited' /\ inited' \subseteq DOMAIN classes
    BY <1>2, LoadingMore DEF Typed
  <2> QED BY <2>1, <1>8, Growing
<1>10. BoxesGrow
  BY <1>6, <1>7, <1>9, BoxesAppended DEF B
<1>11. v \in 0..nb /\ (v \in Shared' \/ v > Len(boxes))
  <2>1. CASE v = Null
    BY <2>1, <1>8 DEF Null, Shared
  <2>2. CASE v = New(1) /\ \E box \in Callee.gives : fresh = <<box>>
    <3>1. Len(fresh) = 1
      BY <2>2
    <3> QED BY <2>2, <3>1, <1>5, <1>8 DEF New
  <2> QED BY <2>1, <2>2
<1> HIDE DEF nb
<1>12. ids \in Seq({v}) /\ (~exc.pending => Len(ids) <= 1)
  <2> DEFINE x == IF ReturnsVoid(Instr.desc) THEN <<>> ELSE <<v>>
             y == IF exc.pending THEN <<v>> ELSE <<>>
  <2>1. ids = x \o y
    BY DEF Handed
  <2>2. x \in Seq({v}) /\ y \in Seq({v}) /\ Len(x) <= 1 /\ (~exc.pending => Len(y) = 0)
    <3>1. <<>> \in Seq({v}) /\ <<v>> \in Seq({v}) /\ Len(<<v>>) = 1 /\ Len(<<>>) = 0
      OBVIOUS
    <3>2. x \in {<<>>, <<v>>} /\ y \in {<<>>, <<v>>} /\ (~exc.pending => y = <<>>)
      OBVIOUS
    <3> HIDE DEF x, y
    <3>3. x = <<>> \/ x = <<v>>
      BY <3>2
    <3>4. y = <<>> \/ y = <<v>>
      BY <3>2
    <3>5. x \in Seq({v}) /\ Len(x) <= 1
      <4>1. CASE x = <<>>
        BY <3>1, <4>1
      <4>2. CASE x = <<v>>
        BY <3>1, <4>2
      <4> QED BY <3>3, <4>1, <4>2
    <3>6. y \in Seq({v}) /\ (~exc.pending => Len(y) = 0)
      BY <3>1, <3>2, <3>4
    <3> QED BY <3>5, <3>6
  <2> HIDE DEF x, y, ids
  <2>3. x \o y \in Seq({v}) /\ Len(x \o y) = Len(x) + Len(y) /\ Len(x) \in Nat
    BY <2>2, Concatenated
  <2> QED BY <2>1, <2>2, <2>3
<1> HIDE DEF ids
<1>13. ids \in Seq(0..nb) /\ Len(ids) \in Nat /\ \A i \in DOMAIN ids : ids[i] = v
  <2>1. {v} \subseteq 0..nb
    BY <1>11
  <2>2. ids \in Seq({v})
    BY <1>12
  <2>3. ids \in Seq(0..nb)
    BY <2>1, <2>2, SeqGrows
  <2>4. Len(ids) \in Nat /\ \A i \in DOMAIN ids : ids[i] \in {v}
    BY <2>2
  <2> QED BY <2>3, <2>4
<1>14. FromTop(n, ids)
  BY <1>11, <1>13 DEF FromTop
<1>15. exc' = Extended(exc, Instr.name)
  BY DEF NativeReturns
<1>16. /\ exc' \in ExcSet(TheBoxes, MethodNames(classes))
       /\ exc'.pending = exc.pending /\ exc'.byName = exc.byName
  <2> DEFINE e == exc
             m == Instr.name
             M == MethodNames(classes)
             T == TheBoxes
  <2> HIDE DEF e, m, M, T
  <2>1. e \in [pending : BOOLEAN, thrown : T, trace : Seq(M), byName : BOOLEAN] /\ m \in M
    BY <1>3, <1>5 DEF ExcSet, e, m, M, T
  <2>2. Append(e.trace, m) \in Seq(M)
    BY <2>1
  <2>3. /\ Extended(e, m) \in [pending : BOOLEAN, thrown : T, trace : Seq(M), byName : BOOLEAN]
        /\ Extended(e, m).pending = e.pending /\ Extended(e, m).byName = e.byName
    BY <2>1, <2>2 DEF Extended
  <2> QED BY <1>15, <2>3 DEF ExcSet, e, m, M, T
<1>17. Unlike(ids) \/ exc'.pending
  <2>1. CASE Len(ids) <= 1
    <3>1. \A i, j \in DOMAIN ids : i = j
      BY <2>1, <1>13
    <3> QED BY <3>1 DEF Unlike
  <2> QED BY <2>1, <1>12, <1>16
<1>18. max \in Nat
  BY <1>4 DEF Grown
<1> HIDE DEF max
<1>19. frames' = SetTop(f)
  BY DEF NativeReturns, TopWithMore, ids, max
<1>20. d \o ids \in Seq(0..nb)
  <2>1. d \in Seq(0..nb)
    <3>1. d \in Seq(Ids)
      BY <1>2, <1>4, Dropped
    <3>2. Ids \subseteq 0..nb
      BY <1>5, <1>8 DEF Ids, nb
    <3> HIDE DEF d
    <3> QED BY <3>1, <3>2, SeqGrows
  <2> HIDE DEF d
  <2> QED BY <2>1, <1>13
<1> DEFINE st == d \o ids
<1> HIDE DEF st
<1>21. /\ TopWithMore(st, max, After) \in FrameSet(classes, Len(boxes'), loaded' \cup inited')
       /\ TopWithMore(st, max, After).stack = st /\ TopWithMore(st, max, After).locals = Top.locals
       /\ TopWithMore(st, max, After).via = Top.via /\ TopWithMore(st, max, After).resumed = FALSE
  <2>1. /\ st \in Seq(0..Len(boxes')) /\ Len(boxes') \in Nat /\ Len(boxes) <= Len(boxes')
        /\ Ready("invoke") /\ DataGrows /\ After \in Int /\ max \in Nat
    BY <1>2, <1>4, <1>8, <1>9, <1>18, <1>20 DEF nb, st
  <2> HIDE DEF f, d, n
  <2>2. Stands(TopWithMore(st, max, After), st)
    BY <2>1, Widened
  <2> QED BY <2>2 DEF Stands
<1>22. /\ f \in FrameSet(classes, Len(boxes'), loaded' \cup inited')
       /\ f.stack = d \o ids /\ f.locals = Top.locals /\ f.via = Top.via /\ f.resumed = FALSE
  BY <1>21 DEF st
<1> HIDE DEF f
<1>23. GoesOn(f)
  <2>1. Unlike(ids) \/ (exc'.pending /\ ~f.resumed)
    BY <1>17, <1>22
  <2>2. ids \in Seq(0..Len(boxes')) /\ Len(boxes') \in Nat /\ Len(boxes) <= Len(boxes')
    BY <1>8, <1>13 DEF nb
  <2> QED BY <2>1, <2>2, <1>2, <1>9, <1>14, <1>19, <1>22, Replacing
<1>24. exc'.pending => exc.pending /\ ~Interrupted /\ exc'.byName = exc.byName
  BY <1>4, <1>16
<1> QED BY <1>4, <1>9, <1>10, <1>16, <1>23, <1>24 DEF Works

\* Instructions that call and return, and exceptions.
LEMMA CallSteps ==
    ASSUME Typed, Nested, Calls
    PROVE  Outcome
<1>1. CASE Return \/ Throw \/ Recover \/ InvokeMethod
  BY <1>1, ReturnSteps, ThrowSteps, RecoverSteps, InvokeMethodSteps
<1>2. CASE InvokeInitializes
  <2>1. At("invoke") /\ ~Initialized(Instr.c) /\ Initialize(Instr.c)
    BY <1>2 DEF InvokeInitializes
  <2>2. Ready("invoke")
    BY <2>1, AtReady
  <2>3. Instr.c \in DOMAIN classes
    BY <2>2 DEF Ready, IsInstr
  <2> QED BY <2>1, <2>2, <2>3, Initializing DEF Outcome
<1>3. CASE InvokeFails
  <2>1. At("invoke")
    BY <1>3 DEF InvokeFails, InvokeReady
  <2>2. \E how \in {"throws", "exits", "undefined"} : Ends(how)
    <3>1. CASE NoReceiver
      BY <1>3, <3>1 DEF InvokeFails
    <3>2. CASE ~NoReceiver /\ Site = NoClass
      BY <1>3, <3>2 DEF InvokeFails
    <3>3. CASE ~NoReceiver /\ Site # NoClass
      BY <1>3, <3>3 DEF InvokeFails
    <3> QED BY <3>1, <3>2, <3>3
  <2> QED BY <2>1, <2>2, Ending
<1>4. CASE InvokeNative
  <2>1. /\ Callable /\ loaded' = loaded \cup ToSet(Lineage(Instr.c))
        /\ UNCHANGED <<classes, statics, objects, arrays, inited, exposed, status>>
        /\ \/ NativeReturns(Null, <<>>)
           \/ \E box \in Callee.gives : NativeReturns(New(1), <<box>>)
    BY <1>4 DEF InvokeNative
  <2>2. CASE NativeReturns(Null, <<>>)
    BY <2>1, <2>2, NativeReturnsSteps DEF Outcome
  <2>3. ASSUME NEW box \in Callee.gives, NativeReturns(New(1), <<box>>) PROVE Outcome
    <3> DEFINE fresh == <<box>>
    <3>1. \E b \in Callee.gives : fresh = <<b>>
      OBVIOUS
    <3>2. NativeReturns(New(1), fresh)
      BY <2>3
    <3> HIDE DEF fresh
    <3> QED BY <2>1, <3>1, <3>2, NativeReturnsSteps DEF Outcome
  <2> QED BY <2>1, <2>2, <2>3
<1> QED BY <1>1, <1>2, <1>3, <1>4 DEF Calls

(* Every step is of one of the four kinds.                                 *)
LEMMA StepKinds ==
    ASSUME Typed, Nested, Next
    PROVE  Outcome
<1>1. CASE Constants
  BY <1>1, ConstantSteps
<1>2. CASE Moves
  BY <1>2, LoadSteps, StoreSteps, IincSteps, PopSteps, DupSteps, SwapSteps DEF Moves
<1>3. CASE Numbers
  BY <1>3, BinarySteps, NegateSteps, ConvertSteps, CompareSteps DEF Numbers
<1>4. CASE Control
  BY <1>4, BranchSteps, SwitchSteps DEF Control
<1>5. CASE Data
  BY <1>5, DataSteps
<1>6. CASE Calls
  BY <1>6, CallSteps
<1> QED BY <1>1, <1>2, <1>3, <1>4, <1>5, <1>6 DEF Next

-----------------------------------------------------------------------------
(* The invariant.                                                          *)

(* An exception that is on its way is on top of the stack, unless a        *)
(* <clinit> has let it go.                                                 *)
Arrives ==
  frames # <<>> /\ exc.pending /\ ~exc.byName =>
    /\ ~Top.resumed
    /\ Top.stack # <<>> /\ Last(Top.stack) # Null
    /\ boxes[Last(Top.stack)] = exc.thrown /\ exc.thrown.type = "object"

Clear(f, g, S) == Range(f.locals) \cap Held(g) \subseteq S

(* No frame has a box in a local variable that a frame above it has, too,  *)
(* and none has one both on its stack and in a local variable, or twice on *)
(* its stack, except for boxes that are shared.  The top may have an       *)
(* exception's object there twice.                                         *)
Owned ==
  /\ \A k, l \in 1..Len(frames) :
       k < l => Clear(frames[k], frames[l], Shared)
  /\ \A k \in 1..Len(frames) : Apart(frames[k], Shared)
  /\ \A k \in 1..Len(frames) :
       k < Len(frames) \/ ~Interrupted => Distinct(frames[k], Shared)

(* The frame below one that an instruction called is at that instruction.  *)
Waiting ==
  \A k \in 1..(Len(frames) - 1) :
    frames[k + 1].via = "invoke" =>
      classes[frames[k].cls].methods[frames[k].method].code[frames[k].pc].op = "invoke"

(* An exception on its way has come out of a call that ends at pc.         *)
OutOfCall(f) ==
  \E i \in DOMAIN classes[f.cls].methods[f.method].code :
    /\ i + classes[f.cls].methods[f.method].code[i].len = f.pc
    /\ classes[f.cls].methods[f.method].code[i].op = "invoke"

Came == frames # <<>> /\ exc.pending /\ ~exc.byName => OutOfCall(Top)

Inv == Typed /\ Nested /\ Arrives /\ Owned /\ Waiting /\ Came

-----------------------------------------------------------------------------
(* The frames after a step.                                                *)

\* The frames when the top goes on,
LEMMA FramesGoOn ==
    ASSUME Typed, frames # <<>>, NEW f, GoesOn(f)
    PROVE  /\ Len(frames') = Len(frames) /\ Len(frames) \in Nat \ {0}
           /\ frames' # <<>> /\ frames'[Len(frames)] = f /\ Top' = f
           /\ Top = frames[Len(frames)]
           /\ \A k \in 1..(Len(frames) - 1) : frames'[k] = frames[k]
<1> DEFINE n == Len(frames)
           F == FrameSet(classes, Len(boxes), loaded \cup inited)
           S == F \cup {f}
<1>1. frames \in Seq(S)
  BY SeqGrows DEF Typed
<1>2. frames' = [frames EXCEPT ![n] = f]
  BY DEF GoesOn, SetTop
<1> HIDE DEF S, F
<1>3. n \in Nat \ {0}
  BY <1>1
<1>4. f \in S
  BY DEF S
<1>5. /\ frames' \in Seq(S) /\ Len(frames') = n /\ frames'[n] = f
      /\ \A k \in 1..(n - 1) : frames'[k] = frames[k]
  BY <1>1, <1>2, <1>4, SetLast
<1>6. Top' = f /\ Top = frames[n] /\ frames' # <<>>
  BY <1>3, <1>5 DEF Top, Last
<1> QED BY <1>3, <1>5, <1>6

\* when it calls,
LEMMA FramesEntered ==
    ASSUME Typed, frames # <<>>, NEW f, NEW g, WaitsFor(f, g)
    PROVE  /\ Len(frames') = Len(frames) + 1 /\ Len(frames) \in Nat \ {0}
           /\ frames' # <<>> /\ frames'[Len(frames)] = f /\ frames'[Len(frames) + 1] = g
           /\ Top' = g /\ Top = frames[Len(frames)]
           /\ \A k \in 1..(Len(frames) - 1) : frames'[k] = frames[k]
<1> DEFINE n == Len(frames)
           F == FrameSet(classes, Len(boxes), loaded \cup inited)
           S == F \cup {f, g}
           s == [frames EXCEPT ![n] = f]
<1>1. frames \in Seq(S)
  BY SeqGrows DEF Typed
<1>2. frames' = Append(s, g)
  BY DEF WaitsFor, SetTop
<1> HIDE DEF S, F
<1>3. n \in Nat \ {0}
  BY <1>1
<1>4. f \in S /\ g \in S
  BY DEF S
<1>5. /\ s \in Seq(S) /\ Len(s) = n /\ s[n] = f
      /\ \A k \in 1..(n - 1) : s[k] = frames[k]
  BY <1>1, <1>4, SetLast
<1> HIDE DEF s
<1>6. /\ frames' \in Seq(S) /\ Len(frames') = n + 1 /\ frames'[n + 1] = g
      /\ \A k \in 1..n : frames'[k] = s[k]
  BY <1>2, <1>4, <1>5
<1>7. Top' = g /\ Top = frames[n] /\ frames' # <<>>
  BY <1>3, <1>6 DEF Top, Last
<1>8. frames'[n] = f /\ \A k \in 1..(n - 1) : frames'[k] = frames[k]
  BY <1>3, <1>5, <1>6
<1> QED BY <1>3, <1>6, <1>7, <1>8

(* The frame that is returned to.                                          *)
Given(b)    == IF b = Null THEN Null ELSE New(1)
Back(b, e)  == [Caller EXCEPT !.stack = @ \o Handed(Given(b), CallerInstr.desc, e),
                              !.maxStack = Grown(@, e),
                              !.pc = @ + CallerInstr.len, !.resumed = FALSE]

\* when it returns to an instruction that called it,
LEMMA FramesReturned ==
    ASSUME Typed, frames # <<>>, Len(frames) > 1, NEW b, NEW e, ReturnToCaller(b, e)
    PROVE  /\ Len(frames') = Len(frames) - 1 /\ Len(frames) \in Nat \ {0, 1}
           /\ frames' # <<>> /\ frames'[Len(frames) - 1] = Back(b, e) /\ Top' = Back(b, e)
           /\ Caller = frames[Len(frames) - 1] /\ Top = frames[Len(frames)]
           /\ \A k \in 1..(Len(frames) - 2) : frames'[k] = frames[k]
<1> DEFINE n == Len(frames)
           F == FrameSet(classes, Len(boxes), loaded \cup inited)
           g == Back(b, e)
           S == F \cup {g}
           s == SubSeq(frames, 1, n - 2)
<1>1. frames \in Seq(S)
  BY SeqGrows DEF Typed
<1>2. frames' = Append(s, g)
  BY DEF ReturnToCaller, Back, Given
<1> HIDE DEF S, F, g
<1>3. n \in Nat \ {0, 1}
  BY <1>1
<1>4. g \in S
  BY DEF S
<1>5. /\ s \in Seq(S) /\ Len(s) = n - 2
      /\ \A k \in 1..(n - 2) : s[k] = frames[k]
  <2>1. s = Drop(frames, 2) /\ 2 \in Nat
    BY DEF Drop
  <2> HIDE DEF s
  <2>2. s \in Seq(S) /\ Len(s) = n - 2 /\ \A k \in 1..Len(s) : s[k] = frames[k]
    BY <1>1, <1>3, <2>1, Dropped
  <2> QED BY <2>2
<1> HIDE DEF s
<1>6. /\ frames' \in Seq(S) /\ Len(frames') = n - 1 /\ frames'[n - 1] = g
      /\ \A k \in 1..(n - 2) : frames'[k] = s[k]
  BY <1>2, <1>3, <1>4, <1>5
<1>7. Top' = g /\ Top = frames[n] /\ frames' # <<>>
  BY <1>3, <1>6 DEF Top, Last
<1>8. \A k \in 1..(n - 2) : frames'[k] = frames[k]
  BY <1>5, <1>6
<1> QED BY <1>3, <1>6, <1>7, <1>8 DEF g, Caller

\* and when it returns to invokeByName.
LEMMA FramesLeft ==
    ASSUME Typed, frames # <<>>, NEW e, ReturnByName(e)
    PROVE  /\ Len(frames') = Len(frames) - 1 /\ Len(frames) \in Nat \ {0}
           /\ Top = frames[Len(frames)]
           /\ frames' # <<>> => Len(frames) > 1 /\ Top' = frames[Len(frames) - 1]
           /\ \A k \in 1..(Len(frames) - 1) : frames'[k] = frames[k]
           /\ Len(frames) = 1 <=> frames' = <<>>
<1> DEFINE n == Len(frames)
           F == FrameSet(classes, Len(boxes), loaded \cup inited)
<1>1. frames \in Seq(F)
  BY DEF Typed
<1>2. frames' = SubSeq(frames, 1, n - 1)
  BY DEF ReturnByName, Front
<1> HIDE DEF F
<1>3. n \in Nat \ {0}
  BY <1>1
<1>4. /\ frames' \in Seq(F) /\ Len(frames') = n - 1
      /\ \A k \in 1..(n - 1) : frames'[k] = frames[k]
  <2>1. frames' = Drop(frames, 1) /\ 1 \in Nat
    BY <1>2 DEF Drop
  <2>2. frames' \in Seq(F) /\ Len(frames') = n - 1 /\ \A k \in 1..Len(frames') : frames'[k] = frames[k]
    BY <1>1, <1>3, <2>1, Dropped
  <2> QED BY <2>2
<1>5. Top = frames[n] /\ (frames' # <<>> => n > 1 /\ Top' = frames[n - 1])
  BY <1>3, <1>4 DEF Top, Last
<1> QED BY <1>3, <1>4, <1>5

(* A frame that calls has another below it, unless it was called by name.  *)
LEMMA CallerThere ==
    ASSUME Typed, Nested, frames # <<>>, Top.via = "invoke"
    PROVE  Len(frames) > 1 /\ Len(frames) \in Nat
<1> DEFINE F == FrameSet(classes, Len(boxes), loaded \cup inited)
<1>1. frames \in Seq(F) /\ frames # <<>>
  BY DEF Typed
<1> HIDE DEF F
<1>2. Len(frames) \in Nat \ {0} /\ Top = frames[Len(frames)]
  BY <1>1 DEF Top, Last
<1>3. frames[1].via = "name"
  BY DEF Nested
<1> QED BY <1>2, <1>3

-----------------------------------------------------------------------------
(* Types are kept.                                                         *)

\* An exception keeps its type when there are more boxes.
LEMMA ExcMore ==
    ASSUME NEW B, NEW T, B \subseteq T, NEW ms, NEW e \in ExcSet(B, ms)
    PROVE  e \in ExcSet(T, ms)
BY DEF ExcSet

(* What is not changed keeps its type when there is more.                  *)
LEMMA BoxesThere ==
    ASSUME Typed, DataGrows
    PROVE  /\ TheBoxes \subseteq BoxSet(classes, Len(objects'), Len(arrays'), loaded')
           /\ TheBoxes' = BoxSet(classes, Len(objects'), Len(arrays'), loaded')
<1>1. /\ Len(objects) \in Nat /\ Len(arrays) \in Nat /\ Len(objects') \in Nat /\ Len(arrays') \in Nat
      /\ Len(objects) <= Len(objects') /\ Len(arrays) <= Len(arrays') /\ loaded \subseteq loaded'
      /\ classes' = classes
  BY DEF Typed, DataGrows
<1> QED BY <1>1, BoxesMore DEF TheBoxes

\* Frames keep their types when there are more boxes and classes.
LEMMA FramesStay ==
    ASSUME Typed, DataGrows, Len(boxes') \in Nat, Len(boxes) <= Len(boxes')
    PROVE  frames \in Seq(FrameSet(classes, Len(boxes'), loaded' \cup inited'))
<1> DEFINE F == FrameSet(classes, Len(boxes), loaded \cup inited)
           G == FrameSet(classes, Len(boxes'), loaded' \cup inited')
<1>1. F \subseteq G
  <2>1. Len(boxes) \in Nat /\ loaded \cup inited \subseteq loaded' \cup inited'
    BY DEF Typed, DataGrows
  <2> QED BY <2>1, FramesMore
<1>2. frames \in Seq(F)
  BY DEF Typed
<1> HIDE DEF F, G
<1>3. frames \in Seq(G)
  BY <1>1, <1>2, SeqGrows
<1> QED BY <1>3 DEF G

(* The types of everything else.                                           *)
TypedButFrames ==
  /\ classes' \in Programs
  /\ loaded' \subseteq DOMAIN classes' /\ inited' \subseteq DOMAIN classes'
  /\ statics' \in [DOMAIN statics' -> Ids']
  /\ objects' \in Seq(ObjectSet(classes', Len(boxes')))
  /\ arrays' \in Seq(ArraySet(Len(boxes')))
  /\ exposed' \subseteq Ids'

\* Data that grows keeps its types.
LEMMA DataTyped ==
    ASSUME Typed, DataGrows
    PROVE  TypedButFrames
BY DEF Typed, DataGrows, TypedButFrames

\* The types, and that frames below the top are at an instruction: kept by halting,
LEMMA HaltsTyped ==
    ASSUME Typed, Nested, Halts
    PROVE  Typed' /\ Nested'
<1>1. /\ UNCHANGED <<classes, statics, objects, arrays, loaded, inited, exposed, frames, boxes, exc>>
      /\ status' \in {"throws", "exits", "undefined"}
  BY DEF Halts, data
<1>2. Typed'
  BY <1>1 DEF Typed, TheBoxes, Ids
<1>3. Nested'
  BY <1>1 DEF Nested, Running
<1> QED BY <1>2, <1>3

\* by working,
LEMMA WorksTyped ==
    ASSUME Typed, Nested, Works
    PROVE  Typed' /\ Nested'
<1> DEFINE n == Len(frames)
           G == FrameSet(classes, Len(boxes'), loaded' \cup inited')
<1>1. /\ DataGrows /\ BoxesGrow /\ status' = status /\ Running /\ frames # <<>>
      /\ exc' \in ExcSet(TheBoxes, MethodNames(classes))
  BY DEF Works
<1>2. PICK f : GoesOn(f)
  BY DEF Works
<1>3. /\ Len(frames') = n /\ n \in Nat \ {0} /\ frames' # <<>> /\ frames'[n] = f
      /\ Top = frames[n]
      /\ \A k \in 1..(n - 1) : frames'[k] = frames[k]
  BY <1>1, <1>2, FramesGoOn
<1>4. Len(boxes') \in Nat /\ Len(boxes) <= Len(boxes') /\ classes' = classes
  BY <1>1 DEF BoxesGrow, DataGrows
<1>5. frames' \in Seq(G)
  <2>1. frames \in Seq(G)
    BY <1>1, <1>4, FramesStay
  <2>2. f \in G /\ frames' = [frames EXCEPT ![Len(frames)] = f]
    BY <1>2 DEF GoesOn, SetTop
  <2> HIDE DEF G
  <2> QED BY <2>1, <2>2, <1>1, SetLast
<1> HIDE DEF G
<1>6. boxes' \in Seq(TheBoxes')
  BY <1>1, BoxesThere DEF BoxesGrow
<1>7. exc' \in ExcSet(TheBoxes', MethodNames(classes'))
  BY <1>1, <1>4, BoxesThere, ExcMore
<1>8. TypedButFrames
  BY <1>1, DataTyped
<1>9. Typed'
  BY <1>1, <1>4, <1>5, <1>6, <1>7, <1>8 DEF Typed, TypedButFrames, G
<1>10. Nested'
  <2>1. f.via = Top.via
    BY <1>2 DEF GoesOn
  <2>2. frames'[1].via = "name"
    <3>1. CASE n = 1
      BY <3>1, <2>1, <1>1, <1>3 DEF Nested
    <3>2. CASE n # 1
      BY <3>2, <1>1, <1>3 DEF Nested
    <3> QED BY <3>1, <3>2
  <2> QED BY <1>3, <1>4, <2>2 DEF Nested
<1> QED BY <1>9, <1>10

\* by calling,
LEMMA EntersTyped ==
    ASSUME Typed, Nested, Enters
    PROVE  Typed' /\ Nested'
<1> DEFINE n == Len(frames)
           G == FrameSet(classes, Len(boxes'), loaded' \cup inited')
<1>1. /\ DataGrows /\ UNCHANGED <<boxes, exc, status>> /\ frames # <<>>
      /\ Top.pc \in DOMAIN Method.code
  BY DEF Enters
<1>2. PICK f, g : WaitsFor(f, g)
  BY DEF Enters
<1>3. /\ Len(frames') = n + 1 /\ n \in Nat \ {0} /\ frames' # <<>>
      /\ frames'[n] = f /\ frames'[n + 1] = g /\ Top = frames[n]
      /\ \A k \in 1..(n - 1) : frames'[k] = frames[k]
  BY <1>1, <1>2, FramesEntered
<1>4. Len(boxes') \in Nat /\ Len(boxes) <= Len(boxes') /\ classes' = classes
  BY <1>1 DEF DataGrows, Typed
<1>5. frames' \in Seq(G)
  <2>1. frames \in Seq(G)
    BY <1>1, <1>4, FramesStay
  <2>2. f \in G /\ g \in G /\ frames' = Append([frames EXCEPT ![Len(frames)] = f], g)
    BY <1>1, <1>2 DEF WaitsFor, SetTop
  <2> HIDE DEF G
  <2>3. [frames EXCEPT ![Len(frames)] = f] \in Seq(G)
    BY <2>1, <2>2, <1>1, SetLast
  <2> QED BY <2>2, <2>3
<1> HIDE DEF G
<1>6. boxes' \in Seq(TheBoxes')
  BY <1>1, BoxesThere, SeqGrows DEF Typed
<1>7. exc' \in ExcSet(TheBoxes', MethodNames(classes'))
  BY <1>1, <1>4, BoxesThere, ExcMore DEF Typed
<1>8. TypedButFrames
  BY <1>1, DataTyped
<1>9. Typed'
  BY <1>1, <1>4, <1>5, <1>6, <1>7, <1>8 DEF Typed, TypedButFrames, G
<1>10. Nested'
  <2>1. f.via = Top.via /\ f.pc = Top.pc /\ f.cls = Top.cls /\ f.method = Top.method
    BY <1>2 DEF WaitsFor
  <2>2. frames'[1].via = "name"
    <3>1. CASE n = 1
      BY <3>1, <2>1, <1>1, <1>3 DEF Nested
    <3>2. CASE n # 1
      <4>1. 1 \in 1..(n - 1)
        <5>1. n \in Nat \ {0} /\ n # 1
          BY <3>2, <1>3
        <5> HIDE DEF n
        <5> QED BY <5>1
      <4>2. frames'[1] = frames[1]
        BY <4>1, <1>3
      <4> QED BY <4>2, <1>1 DEF Nested
    <3> QED BY <3>1, <3>2
  <2>3. ASSUME NEW k \in 1..n
        PROVE  frames'[k].pc \in DOMAIN classes'[frames'[k].cls].methods[frames'[k].method].code
    <3>1. CASE k = n
      BY <3>1, <1>1, <1>3, <1>4, <2>1 DEF Method
    <3>2. CASE k # n
      BY <3>2, <1>3, <1>4 DEF Nested
    <3> QED BY <3>1, <3>2
  <2>4. Len(frames') - 1 = n
    BY <1>3
  <2> QED BY <1>3, <2>2, <2>3, <2>4 DEF Nested
<1> QED BY <1>9, <1>10

-----------------------------------------------------------------------------
(* An exception that comes out of one more method.                         *)
LEMMA OneMore ==
    ASSUME NEW B, NEW ms, NEW e \in ExcSet(B, ms), NEW m \in ms
    PROVE  /\ Extended(e, m) \in ExcSet(B, ms)
           /\ [Extended(e, m) EXCEPT !.byName = e.pending] \in ExcSet(B, ms)
<1>1. /\ e.pending \in BOOLEAN /\ e.thrown \in B /\ e.trace \in Seq(ms) /\ e.byName \in BOOLEAN
      /\ e = [pending |-> e.pending, thrown |-> e.thrown, trace |-> e.trace, byName |-> e.byName]
  BY DEF ExcSet
<1>2. Append(e.trace, m) \in Seq(ms)
  BY <1>1
<1> QED BY <1>1, <1>2 DEF Extended, ExcSet

(* x is on its way if e is, is the same object, and byName is as given.    *)
Like(x, e, byName) == x.pending = e.pending /\ x.thrown = e.thrown /\ x.byName = byName

\* Another method in the trace changes nothing else about an exception.
LEMMA OneMoreLike ==
    ASSUME NEW B, NEW ms, NEW e, e \in ExcSet(B, ms), NEW m
    PROVE  /\ Like(Extended(e, m), e, e.byName)
           /\ Like([Extended(e, m) EXCEPT !.byName = e.pending], e, e.pending)
BY DEF ExcSet, Extended, Like

(* The frame below the top of one that was called by an instruction.       *)
LEMMA CallerFacts ==
    ASSUME Typed, Nested, Len(frames) > 1, Len(frames) \in Nat
    PROVE  /\ Caller = frames[Len(frames) - 1]
           /\ Caller \in FrameSet(classes, Len(boxes), loaded \cup inited)
           /\ Caller.stack \in Seq(Ids) /\ Caller.pc \in Int /\ Caller.maxStack \in Nat
           /\ Caller.cls \in DOMAIN classes
           /\ CallerInstr.len \in Nat
<1> DEFINE F == FrameSet(classes, Len(boxes), loaded \cup inited)
           n == Len(frames)
<1>1. frames \in Seq(F)
  BY DEF Typed
<1> HIDE DEF F
<1>2. n - 1 \in 1..n /\ n - 1 \in 1..(n - 1) /\ Caller = frames[n - 1]
  BY DEF Caller
<1>3. Caller \in F
  BY <1>1, <1>2
<1>4. Len(boxes) \in Nat
  BY TypedFacts
<1>5. /\ Caller.cls \in loaded \cup inited /\ Caller.method \in DOMAIN classes[Caller.cls].methods
      /\ Caller.stack \in Seq(Ids) /\ Caller.pc \in Int /\ Caller.maxStack \in Nat
  BY <1>3, <1>4, FrameFacts DEF F, Ids
<1>6. Caller.cls \in DOMAIN classes
  BY <1>5 DEF Typed
<1>7. IsMethod(classes[Caller.cls].methods[Caller.method], DOMAIN classes)
  BY <1>5, <1>6, Classes DEF Typed
<1>8. Caller.pc \in DOMAIN classes[Caller.cls].methods[Caller.method].code
  BY <1>2 DEF Nested
<1>9. CallerInstr.len \in Nat
  BY <1>7, <1>8 DEF IsMethod, IsInstr, CallerInstr
<1> QED BY <1>2, <1>3, <1>5, <1>6, <1>9 DEF F

(* What is put on the stack of the frame that is returned to.              *)
LEMMA HandedOver ==
    ASSUME NEW S, NEW v \in S, NEW desc, NEW e
    PROVE  /\ Handed(v, desc, e) \in Seq(S) /\ Len(Handed(v, desc, e)) \in 0..2
           /\ \A i \in 1..Len(Handed(v, desc, e)) : Handed(v, desc, e)[i] = v
           /\ ~e.pending => Len(Handed(v, desc, e)) <= 1
           /\ e.pending => Len(Handed(v, desc, e)) >= 1
<1>1. CASE ReturnsVoid(desc) /\ e.pending
  BY <1>1 DEF Handed
<1>2. CASE ReturnsVoid(desc) /\ ~e.pending
  BY <1>2 DEF Handed
<1>3. CASE ~ReturnsVoid(desc) /\ e.pending
  BY <1>3 DEF Handed
<1>4. CASE ~ReturnsVoid(desc) /\ ~e.pending
  BY <1>4 DEF Handed
<1> QED BY <1>1, <1>2, <1>3, <1>4

(* The boxes after a return to a caller.                                   *)
LEMMA BoxesReturned ==
    ASSUME Typed, NEW b \in Ids, NEW e, ReturnToCaller(b, e)
    PROVE  /\ boxes' \in Seq(TheBoxes) /\ Len(boxes') \in Nat /\ Len(boxes) \in Nat
           /\ Len(boxes) <= Len(boxes') /\ Given(b) \in 0..Len(boxes')
           /\ \A i \in 1..Len(boxes) : boxes'[i] = boxes[i]
           /\ b # Null => Given(b) = Len(boxes) + 1 /\ boxes'[Given(b)] = boxes[b]
           /\ Given(b) = Null \/ Given(b) > Len(boxes)
<1> DEFINE S == TheBoxes
<1>1. boxes \in Seq(S) /\ Len(boxes) \in Nat
  BY DEF Typed
<1>2. boxes' = IF b = Null THEN boxes ELSE Append(boxes, boxes[b])
  BY DEF ReturnToCaller
<1> HIDE DEF S
<1>3. CASE b = Null
  BY <1>1, <1>2, <1>3 DEF S, Given, Null
<1>4. CASE b # Null
  <2>1. b \in 1..Len(boxes) /\ boxes[b] \in S
    BY <1>1, <1>4 DEF Ids, Null
  <2>2. boxes' = Append(boxes, boxes[b]) /\ Given(b) = Len(boxes) + 1
    BY <1>2, <1>4 DEF Given, New
  <2> DEFINE x == boxes[b]
  <2>3. x \in S /\ boxes' = Append(boxes, x)
    BY <2>1, <2>2
  <2> HIDE DEF x
  <2>4. boxes' \in Seq(S) /\ Len(boxes') = Len(boxes) + 1 /\ boxes'[Len(boxes) + 1] = x
        /\ \A i \in 1..Len(boxes) : boxes'[i] = boxes[i]
    BY <1>1, <2>3
  <2> QED BY <1>1, <2>2, <2>4 DEF S, x
<1> QED BY <1>3, <1>4

\* The frame that is returned to.
LEMMA BackTyped ==
    ASSUME Typed, Nested, Len(frames) > 1, Len(frames) \in Nat, NEW b \in Ids, NEW e,
           ReturnToCaller(b, e), DataGrows
    PROVE  /\ Back(b, e) \in FrameSet(classes, Len(boxes'), loaded' \cup inited')
           /\ Back(b, e).via = Caller.via /\ Back(b, e).locals = Caller.locals
           /\ Back(b, e).stack = Caller.stack \o Handed(Given(b), CallerInstr.desc, e)
           /\ Back(b, e).resumed = FALSE
           /\ Back(b, e).cls = Caller.cls /\ Back(b, e).method = Caller.method
           /\ Back(b, e).pc = Caller.pc + CallerInstr.len
<1> DEFINE nb  == Len(boxes)
           nb2 == Len(boxes')
           cs  == loaded \cup inited
           cs2 == loaded' \cup inited'
           h   == Handed(Given(b), CallerInstr.desc, e)
           s   == Caller.stack \o h
           m   == Grown(Caller.maxStack, e)
           pc  == Caller.pc + CallerInstr.len
           F   == FrameSet(classes, nb, cs)
<1>1. /\ Caller \in F /\ Caller.stack \in Seq(Ids) /\ Caller.pc \in Int /\ Caller.maxStack \in Nat
      /\ CallerInstr.len \in Nat
  BY CallerFacts
<1>2. nb \in Nat /\ nb2 \in Nat /\ nb <= nb2 /\ Given(b) \in 0..nb2
  BY BoxesReturned
<1>3. cs \subseteq cs2
  BY DEF DataGrows
<1>4. s \in Seq(0..nb2)
  <2>1. h \in Seq(0..nb2)
    BY <1>2, HandedOver
  <2>2. Ids \subseteq 0..nb2
    BY <1>2 DEF Ids
  <2>3. Caller.stack \in Seq(0..nb2)
    BY <1>1, <2>2, SeqGrows
  <2> HIDE DEF h
  <2> QED BY <2>1, <2>3, Concatenated
<1>5. m \in Nat /\ pc \in Int /\ FALSE \in BOOLEAN
  BY <1>1 DEF Grown
<1>6. Back(b, e) = [Caller EXCEPT !.stack = s, !.maxStack = m, !.pc = pc, !.resumed = FALSE]
  BY DEF Back
<1> HIDE DEF nb, nb2, cs, cs2, s, m, pc
<1>7. Back(b, e) \in FrameSet(classes, nb2, cs2)
  <2>1. Caller \in FrameSet(classes, nb, cs)
    BY <1>1
  <2>2. \A t \in Seq(0..nb2), k \in Nat, a \in Int, r \in BOOLEAN :
          [Caller EXCEPT !.stack = t, !.maxStack = k, !.pc = a, !.resumed = r]
            \in FrameSet(classes, nb2, cs2)
    BY <2>1, <1>2, <1>3, FrameChanged
  <2> DEFINE R(t, k, a, r) == [Caller EXCEPT !.stack = t, !.maxStack = k, !.pc = a, !.resumed = r]
  <2>3. \A t \in Seq(0..nb2), k \in Nat, a \in Int, r \in BOOLEAN :
          R(t, k, a, r) \in FrameSet(classes, nb2, cs2)
    BY <2>2
  <2>4. Back(b, e) = R(s, m, pc, FALSE)
    BY <1>6
  <2> HIDE DEF R
  <2>5. R(s, m, pc, FALSE) \in FrameSet(classes, nb2, cs2)
    BY <2>3, <1>4, <1>5
  <2> QED BY <2>4, <2>5
<1>8. /\ Back(b, e).via = Caller.via /\ Back(b, e).locals = Caller.locals
      /\ Back(b, e).stack = s /\ Back(b, e).resumed = FALSE
      /\ Back(b, e).cls = Caller.cls /\ Back(b, e).method = Caller.method /\ Back(b, e).pc = pc
  BY <1>1, <1>6 DEF FrameSet
<1> QED BY <1>7, <1>8 DEF nb2, cs2, s, pc

\* by returning to an instruction,
LEMMA ReturnedTyped ==
    ASSUME Typed, Nested, Running, frames # <<>>, Top.via = "invoke", NEW b, NEW e, Returns(b, e)
    PROVE  /\ Typed' /\ Nested' /\ DataGrows /\ ReturnToCaller(b, e)
           /\ Len(frames) > 1 /\ Len(frames) \in Nat
<1> DEFINE n == Len(frames)
           G == FrameSet(classes, Len(boxes'), loaded' \cup inited')
           g == Back(b, e)
<1>1. ReturnToCaller(b, e) /\ b \in Ids /\ e \in ExcSet(TheBoxes, MethodNames(classes))
  BY DEF Returns, ReturnWith
<1>2. n > 1 /\ n \in Nat
  BY CallerThere
<1>3. /\ boxes' \in Seq(TheBoxes) /\ Len(boxes') \in Nat /\ Len(boxes) <= Len(boxes')
  BY <1>1, BoxesReturned
<1>4. DataGrows /\ UNCHANGED data /\ status' = status
  <2>1. UNCHANGED data /\ status' = status
    BY <1>1 DEF ReturnToCaller
  <2> QED BY <2>1, <1>3, DataSame
<1>5. /\ Len(frames') = n - 1 /\ frames' # <<>> /\ frames'[n - 1] = g
      /\ Caller = frames[n - 1]
      /\ \A k \in 1..(n - 2) : frames'[k] = frames[k]
  BY <1>1, <1>2, FramesReturned
<1>6. g \in G /\ g.via = Caller.via
  BY <1>1, <1>2, <1>4, BackTyped
<1>7. frames' \in Seq(G)
  <2>1. frames \in Seq(G)
    BY <1>3, <1>4, FramesStay
  <2>2. frames' = Append(Drop(frames, 2), g)
    BY <1>1 DEF ReturnToCaller, Back, Given, Drop
  <2> HIDE DEF G, g
  <2>3. Drop(frames, 2) \in Seq(G)
    <3>1. 2 \in Nat
      OBVIOUS
    <3> QED BY <2>1, <3>1, Dropped
  <2> QED BY <2>2, <2>3, <1>6
<1> HIDE DEF G, g
<1>8. boxes' \in Seq(TheBoxes') /\ TheBoxes \subseteq TheBoxes'
  <2>1. TheBoxes \subseteq TheBoxes'
    BY <1>4, BoxesThere
  <2> QED BY <2>1, <1>3, SeqGrows
<1>9. classes' = classes
  BY <1>4 DEF DataGrows
<1>10. exc' \in ExcSet(TheBoxes', MethodNames(classes'))
  <2>1. Top.method \in MethodNames(classes)
    BY AtTop
  <2>2. exc' = Extended(e, Top.method)
    BY <1>1 DEF ReturnToCaller
  <2>3. exc' \in ExcSet(TheBoxes, MethodNames(classes))
    BY <1>1, <2>1, <2>2, OneMore
  <2> QED BY <2>3, <1>8, <1>9, ExcMore
<1>11. TypedButFrames
  BY <1>4, DataTyped
<1>12. Typed'
  BY <1>4, <1>7, <1>8, <1>9, <1>10, <1>11 DEF Typed, TypedButFrames, G
<1>13. Nested'
  <2>1. frames[1].via = "name"
    BY DEF Nested
  <2>2. frames'[1].via = "name"
    <3>1. CASE n = 2
      BY <3>1, <2>1, <1>5, <1>6
    <3>2. CASE n # 2
      <4>1. 1 \in 1..(n - 2)
        <5>1. n \in Nat /\ n > 1 /\ n # 2
          BY <3>2, <1>2
        <5> HIDE DEF n
        <5> QED BY <5>1
      <4> QED BY <4>1, <2>1, <1>5
    <3> QED BY <3>1, <3>2
  <2>3. ASSUME NEW k \in 1..(Len(frames') - 1)
        PROVE  frames'[k].pc \in DOMAIN classes'[frames'[k].cls].methods[frames'[k].method].code
    <3>1. k \in 1..(n - 2) /\ k \in 1..(n - 1)
      BY <1>2, <1>5
    <3> QED BY <3>1, <1>5, <1>9 DEF Nested
  <2> QED BY <2>2, <2>3, <1>5 DEF Nested
<1> QED BY <1>1, <1>2, <1>4, <1>12, <1>13

\* by returning to invokeByName,
LEMMA LeftTyped ==
    ASSUME Typed, Nested, Running, frames # <<>>, Top.via # "invoke", NEW b, NEW e, Returns(b, e)
    PROVE  Typed' /\ Nested' /\ DataGrows /\ ReturnByName(e)
<1> DEFINE n == Len(frames)
           G == FrameSet(classes, Len(boxes'), loaded' \cup inited')
<1>1. ReturnByName(e) /\ e \in ExcSet(TheBoxes, MethodNames(classes))
  BY DEF Returns, ReturnWith
<1>2. UNCHANGED data /\ boxes' = boxes
  BY <1>1 DEF ReturnByName
<1>3. Len(boxes') \in Nat /\ Len(boxes) <= Len(boxes')
  BY <1>2, TypedFacts
<1>4. DataGrows
  BY <1>2, <1>3, DataSame
<1>5. /\ Len(frames') = n - 1 /\ n \in Nat \ {0}
      /\ \A k \in 1..(n - 1) : frames'[k] = frames[k]
      /\ n = 1 <=> frames' = <<>>
  BY <1>1, FramesLeft
<1>6. frames' \in Seq(G)
  <2>1. frames \in Seq(G)
    BY <1>3, <1>4, FramesStay
  <2>2. frames' = Drop(frames, 1)
    BY <1>1 DEF ReturnByName, Front, Drop
  <2>3. 1 \in Nat
    OBVIOUS
  <2> HIDE DEF G
  <2> QED BY <2>1, <2>2, <2>3, Dropped
<1> HIDE DEF G
<1>7. boxes' \in Seq(TheBoxes') /\ TheBoxes \subseteq TheBoxes'
  <2>1. TheBoxes \subseteq TheBoxes'
    BY <1>4, BoxesThere
  <2>2. boxes' \in Seq(TheBoxes)
    BY <1>2 DEF Typed
  <2> QED BY <2>1, <2>2, SeqGrows
<1>8. classes' = classes
  BY <1>4 DEF DataGrows
<1>9. exc' \in ExcSet(TheBoxes', MethodNames(classes'))
  <2>1. Top.method \in MethodNames(classes)
    BY AtTop
  <2>2. exc' = [Extended(e, Top.method) EXCEPT !.byName = e.pending]
    BY <1>1 DEF ReturnByName
  <2>3. exc' \in ExcSet(TheBoxes, MethodNames(classes))
    BY <1>1, <2>1, <2>2, OneMore
  <2> QED BY <2>3, <1>7, <1>8, ExcMore
<1>10. TypedButFrames
  BY <1>4, DataTyped
<1>11. status' \in {"runs", "done", "throws", "exits", "undefined"} /\ (n = 1 => status' = "done")
  BY <1>1 DEF ReturnByName, Typed
<1>12. Typed'
  BY <1>6, <1>7, <1>8, <1>9, <1>10, <1>11 DEF Typed, TypedButFrames, G
<1>13. Nested'
  <2>1. Running' => frames' # <<>>
    BY <1>5, <1>11 DEF Running
  <2>2. frames' # <<>> => frames'[1].via = "name"
    <3> SUFFICES ASSUME frames' # <<>> PROVE frames'[1].via = "name"
      OBVIOUS
    <3>1. 1 \in 1..(n - 1)
      <4>1. n \in Nat \ {0} /\ n # 1
        BY <1>5
      <4> HIDE DEF n
      <4> QED BY <4>1
    <3> QED BY <3>1, <1>5 DEF Nested
  <2>3. ASSUME NEW k \in 1..(Len(frames') - 1)
        PROVE  frames'[k].pc \in DOMAIN classes'[frames'[k].cls].methods[frames'[k].method].code
    <3>1. k \in 1..(n - 1)
      BY <1>5
    <3> QED BY <3>1, <1>5, <1>8 DEF Nested
  <2> QED BY <2>1, <2>2, <2>3 DEF Nested
<1> QED BY <1>1, <1>4, <1>12, <1>13

\* and so by returning.
LEMMA LeavesTyped ==
    ASSUME Typed, Nested, Leaves
    PROVE  Typed' /\ Nested'
<1>1. Running /\ frames # <<>>
  BY DEF Leaves
<1>2. PICK b, e : Returns(b, e)
  BY DEF Leaves
<1>3. CASE Top.via = "invoke"
  BY <1>1, <1>2, <1>3, ReturnedTyped
<1>4. CASE Top.via # "invoke"
  BY <1>1, <1>2, <1>4, LeftTyped
<1> QED BY <1>3, <1>4

-----------------------------------------------------------------------------
(* main and the <clinit> of its class.                                     *)
LEMMA InitTyped ==
    ASSUME Init
    PROVE  Typed /\ Nested
<1> DEFINE F  == [c \in DOMAIN classes |-> DOMAIN classes[c].statics]
           U  == UNION {{c} \X DOMAIN classes[c].statics : c \in DOMAIN classes}
           vs == SetToSeq(U)
           nb == Len(boxes)
           cs == loaded \cup inited
           G  == FrameSet(classes, nb, cs)
           called(m) == Frame(Main, m, Empty(classes[Main].methods[m].maxLocals),
                              classes[Main].methods[m].maxStack, "name")
<1>1. classes \in Programs
  BY DEF Init
<1>2. /\ IsFiniteSet(DOMAIN classes) /\ Main \in DOMAIN classes
      /\ "main" \in DOMAIN classes[Main].methods /\ 0 \in DOMAIN classes[Main].methods["main"].code
      /\ \A d \in DOMAIN classes : classes[d].super \in DOMAIN classes \cup {NoClass}
      /\ \A m \in DOMAIN classes[Main].methods :
           IsMethod(classes[Main].methods[m], DOMAIN classes) /\ m \in MethodNames(classes)
      /\ \A c \in DOMAIN classes :
           /\ IsFiniteSet(DOMAIN classes[c].statics)
           /\ \A v \in DOMAIN classes[c].statics : classes[c].statics[v] \in NumTypes \cup References
  BY <1>1, Classes
<1>3. IsFiniteSet(U)
  <2>1. DOMAIN classes \subseteq DOMAIN F /\ \A c \in DOMAIN classes : IsFiniteSet(F[c])
    BY <1>2
  <2>2. U = UNION {{c} \X F[c] : c \in DOMAIN classes}
    OBVIOUS
  <2> HIDE DEF F, U
  <2> QED BY <1>2, <2>1, <2>2, FiniteUnions
<1>5. \A v \in U : classes[v[1]].statics[v[2]] \in NumTypes \cup References
  BY <1>2
<1> DEFINE type(v) == classes[v[1]].statics[v[2]]
<1>6. /\ boxes = [i \in DOMAIN vs |-> Zero(type(vs[i]))]
      /\ statics = [v \in ToSet(vs) |-> IF type(v) \in References THEN Null
                                        ELSE CHOOSE i \in DOMAIN vs : vs[i] = v]
  BY DEF Init
<1> HIDE DEF U
<1>7. /\ vs \in Seq(U) /\ Len(vs) \in Nat /\ DOMAIN vs = 1..Len(vs) /\ ToSet(vs) = U
      /\ \A x \in U : \E i \in DOMAIN vs : vs[i] = x
      /\ \A i \in DOMAIN vs : vs[i] \in U
  BY <1>3, Listed
<1> HIDE DEF vs
<1>8. \A i \in DOMAIN vs : type(vs[i]) \in NumTypes \cup References
  BY <1>5, <1>7
<1>9. /\ objects = <<>> /\ arrays = <<>> /\ loaded = ToSet(Lineage(Main)) /\ inited = {Main}
      /\ exc = NoException /\ status = "runs" /\ exposed = {}
  BY DEF Init
<1>10. boxes \in Seq(TheBoxes)
  <2>1. Len(objects) \in Nat /\ Len(arrays) \in Nat
    BY <1>9
  <2>2. \A i \in DOMAIN vs : Zero(type(vs[i])) \in TheBoxes
    BY <1>8, <2>1, ZeroBox DEF TheBoxes
  <2> HIDE DEF type
  <2> QED BY <1>6, <1>7, <2>2
<1>11. nb = Len(vs) /\ nb \in Nat
  <2> HIDE DEF type
  <2> QED BY <1>6, <1>7
<1>12. statics \in [DOMAIN statics -> Ids]
  <2>1. \A v \in U : statics[v] \in Ids
    <3> SUFFICES ASSUME NEW v \in U PROVE statics[v] \in Ids
      OBVIOUS
    <3>1. (CHOOSE i \in DOMAIN vs : vs[i] = v) \in DOMAIN vs
      BY <1>7
    <3> DEFINE x == CHOOSE i \in DOMAIN vs : vs[i] = v
    <3>2. statics[v] = IF type(v) \in References THEN Null ELSE x
      BY <1>6, <1>7
    <3> HIDE DEF x, type
    <3>3. x \in 1..Len(vs)
      BY <3>1, <1>7 DEF x
    <3> QED BY <3>2, <3>3, <1>11 DEF Ids, Null
  <2>2. DOMAIN statics = U /\ statics = [v \in U |-> statics[v]]
    BY <1>6, <1>7
  <2> QED BY <2>1, <2>2
<1>13. /\ Lineage(Main) \in Seq(DOMAIN classes) /\ Main \in ToSet(Lineage(Main))
       /\ ToSet(Lineage(Main)) \subseteq DOMAIN classes
  BY <1>2, Lines DEF Lineage
<1>14. \A m \in DOMAIN classes[Main].methods :
         called(m) \in G /\ called(m).via = "name" /\ called(m).cls = Main /\ called(m).pc = 0
         /\ called(m).method = m
  <2> SUFFICES ASSUME NEW m \in DOMAIN classes[Main].methods
               PROVE  /\ called(m) \in G /\ called(m).via = "name" /\ called(m).cls = Main
                      /\ called(m).pc = 0 /\ called(m).method = m
    OBVIOUS
  <2>1. /\ m \in MethodNames(classes) /\ classes[Main].methods[m].maxLocals \in Nat
        /\ classes[Main].methods[m].maxStack \in Nat /\ Main \in cs
    BY <1>2, <1>9 DEF IsMethod
  <2>2. Empty(classes[Main].methods[m].maxLocals)
          \in [0..(classes[Main].methods[m].maxLocals - 1) -> 0..nb]
    BY <1>11 DEF Empty, Null
  <2>3. <<>> \in Seq(0..nb) /\ "name" \in {"name", "invoke"} /\ FALSE \in BOOLEAN /\ 0 \in Int
    OBVIOUS
  <2>4. called(m) \in G
    BY <2>1, <2>2, <2>3, <1>11, FrameMade DEF Frame
  <2> QED BY <2>4 DEF Frame
<1> HIDE DEF G
<1>15. frames = <<called("main")>> \o IF "<clinit>" \in DOMAIN classes[Main].methods
                                      THEN <<called("<clinit>")>> ELSE <<>>
  BY DEF Init
<1> HIDE DEF called
<1>16. /\ frames \in Seq(G) /\ frames # <<>> /\ frames[1] = called("main")
       /\ Len(frames) \in {1, 2}
  <2>1. CASE "<clinit>" \in DOMAIN classes[Main].methods
    BY <2>1, <1>2, <1>14, <1>15
  <2>2. CASE "<clinit>" \notin DOMAIN classes[Main].methods
    BY <2>2, <1>2, <1>14, <1>15
  <2> QED BY <2>1, <2>2
<1>17. exc \in ExcSet(TheBoxes, MethodNames(classes))
  <2>1. Len(objects) \in Nat /\ Len(arrays) \in Nat
    BY <1>9
  <2>2. Box("none", 0) \in TheBoxes
    BY <2>1, NoBox DEF TheBoxes
  <2> QED BY <2>2, <1>9 DEF NoException, ExcSet
<1>18. /\ objects \in Seq(ObjectSet(classes, Len(boxes))) /\ arrays \in Seq(ArraySet(Len(boxes)))
       /\ loaded \subseteq DOMAIN classes /\ inited \subseteq DOMAIN classes /\ exposed \subseteq Ids
       /\ status \in {"runs", "done", "throws", "exits", "undefined"}
  BY <1>2, <1>9, <1>13
<1>19. Typed
  BY <1>1, <1>10, <1>12, <1>16, <1>17, <1>18 DEF Typed, G
<1>20. Nested
  <2>1. called("main").via = "name" /\ called("main").pc = 0 /\ called("main").cls = Main
        /\ called("main").method = "main"
    BY <1>2, <1>14
  <2>2. ASSUME NEW k \in 1..(Len(frames) - 1)
        PROVE  frames[k].pc \in DOMAIN classes[frames[k].cls].methods[frames[k].method].code
    <3>1. k = 1
      <4> DEFINE n == Len(frames)
      <4>1. n = 1 \/ n = 2
        BY <1>16
      <4>2. k \in 1..(n - 1)
        OBVIOUS
      <4> HIDE DEF n
      <4> QED BY <4>1, <4>2
    <3> QED BY <3>1, <2>1, <1>2, <1>16
  <2> QED BY <2>1, <2>2, <1>16 DEF Nested
<1> QED BY <1>19, <1>20

-----------------------------------------------------------------------------
(* Exceptions arrive.                                                      *)

(* An exception on its way that no <clinit> has let go is dealt with first.*)
LEMMA OnItsWay ==
    ASSUME Arrives, frames # <<>>, exc.pending, ~exc.byName
    PROVE  Interrupted
BY DEF Arrives, Interrupted

(* The object that goes with the exception e out of a frame is the one     *)
(* that was thrown.                                                        *)
LEMMA ThrownReturned ==
    ASSUME Typed, Nested, Arrives, Running, frames # <<>>, NEW b, NEW e, Returns(b, e),
           e.pending, ~e.byName
    PROVE  b \in Ids /\ b # Null /\ boxes[b] = e.thrown /\ e.thrown.type = "object"
<1>1. b \in Ids
  BY DEF Returns
<1>2. CASE e = exc /\ ~Interrupted
  BY <1>2, OnItsWay
<1>3. CASE e = exc /\ b = Popped("object", 0) /\ b # Null
  <2>1. Top.stack \in Seq(Ids) /\ 0 \in Nat
    BY AtTop
  <2>2. b = Below(Top.stack, 0) /\ 0 < Len(Top.stack)
    BY <1>3, <2>1, Taken
  <2>3. b = Last(Top.stack)
    BY <2>1, <2>2 DEF Below, Last
  <2> QED BY <1>1, <1>3, <2>3 DEF Arrives
<1>4. CASE e = [exc EXCEPT !.pending = TRUE, !.thrown = boxes[b]] /\ b # Null /\ boxes[b].type = "object"
  <2>1. exc = [pending |-> exc.pending, thrown |-> exc.thrown, trace |-> exc.trace,
               byName |-> exc.byName]
    BY DEF Typed, ExcSet
  <2>2. e.thrown = boxes[b]
    BY <1>4, <2>1
  <2> QED BY <1>1, <1>4, <2>2
<1> QED BY <1>2, <1>3, <1>4 DEF Returns

\* An exception that is handed to the caller is on top of its stack.
LEMMA ArrivesOnReturn ==
    ASSUME Typed, Nested, Arrives, Running, frames # <<>>, Top.via = "invoke",
           NEW b, NEW e, Returns(b, e)
    PROVE  Arrives'
<1> DEFINE v == Given(b)
           h == Handed(v, CallerInstr.desc, e)
<1>1. /\ ReturnToCaller(b, e) /\ Len(frames) > 1 /\ Len(frames) \in Nat /\ DataGrows
      /\ b \in Ids /\ e \in ExcSet(TheBoxes, MethodNames(classes))
  BY ReturnedTyped DEF Returns
<1>2. exc' = Extended(e, Top.method) /\ Top.method \in MethodNames(classes)
  BY <1>1, AtTop DEF ReturnToCaller
<1>3. exc'.pending = e.pending /\ exc'.thrown = e.thrown /\ exc'.byName = e.byName
  <2>1. Like(exc', e, e.byName)
    BY <1>1, <1>2, OneMoreLike
  <2> QED BY <2>1 DEF Like
<1> SUFFICES ASSUME exc'.pending, ~exc'.byName
             PROVE  /\ ~(Top').resumed /\ (Top').stack # <<>> /\ Last((Top').stack) # Null
                    /\ boxes'[Last((Top').stack)] = exc'.thrown /\ exc'.thrown.type = "object"
  BY DEF Arrives
<1>4. b # Null /\ boxes[b] = e.thrown /\ e.thrown.type = "object"
  BY <1>3, ThrownReturned
<1>5. v \in 0..Len(boxes') /\ v # Null /\ boxes'[v] = boxes[b]
  <2>1. Len(boxes) \in Nat
    BY TypedFacts
  <2> QED BY <1>1, <1>4, <2>1, BoxesReturned DEF Null
<1>6. Top' = Back(b, e)
  BY <1>1, FramesReturned
<1>7. Back(b, e).stack = Caller.stack \o h /\ Back(b, e).resumed = FALSE
  BY <1>1, BackTyped
<1>8. Caller.stack \o h # <<>> /\ Last(Caller.stack \o h) = v
  <2> DEFINE S == Ids \cup {v}
             s == Caller.stack
  <2>1. v \in S
    OBVIOUS
  <2>2. s \in Seq(S)
    <3>1. s \in Seq(Ids) /\ Ids \subseteq S
      BY <1>1, CallerFacts
    <3> QED BY <3>1, SeqGrows
  <2> HIDE DEF S, s, v
  <2>3. h \in Seq(S) /\ Len(h) \in 0..2 /\ Len(h) >= 1 /\ \A i \in 1..Len(h) : h[i] = v
    BY <2>1, <1>3, HandedOver
  <2> HIDE DEF h
  <2>4. /\ s \o h \in Seq(S) /\ Len(s \o h) = Len(s) + Len(h)
        /\ \A i \in (Len(s) + 1)..(Len(s) + Len(h)) : (s \o h)[i] = h[i - Len(s)]
    BY <2>2, <2>3, Concatenated
  <2>5. Len(s) + Len(h) \in (Len(s) + 1)..(Len(s) + Len(h)) /\ Len(s) \in Nat
    BY <2>2, <2>3
  <2>6. (s \o h)[Len(s \o h)] = v
    <3>1. (s \o h)[Len(s) + Len(h)] = h[Len(s) + Len(h) - Len(s)]
      BY <2>4, <2>5
    <3>2. Len(s) + Len(h) - Len(s) = Len(h) /\ Len(h) \in 1..Len(h)
      BY <2>3, <2>5
    <3> QED BY <2>3, <2>4, <3>1, <3>2
  <2>7. s \o h # <<>>
    BY <2>3, <2>4, <2>5
  <2> QED BY <2>6, <2>7 DEF Last, s
<1> HIDE DEF v, h
<1> QED BY <1>3, <1>4, <1>5, <1>6, <1>7, <1>8

\* Every kind of step keeps exceptions arriving.
LEMMA ArrivesKept ==
    ASSUME Typed, Nested, Arrives, Outcome
    PROVE  Arrives'
<1>1. CASE Halts
  <2>1. UNCHANGED <<frames, boxes, exc>>
    BY <1>1 DEF Halts
  <2> QED BY <2>1 DEF Arrives, Top
<1>2. CASE Works
  <2>1. exc'.pending => exc.pending /\ ~Interrupted /\ exc'.byName = exc.byName
    BY <1>2 DEF Works
  <2>2. frames # <<>>
    BY <1>2 DEF Works
  <2> QED BY <2>1, <2>2, OnItsWay DEF Arrives
<1>3. CASE Enters
  <2>1. exc' = exc /\ ~Interrupted /\ frames # <<>>
    BY <1>3 DEF Enters
  <2> QED BY <2>1, OnItsWay DEF Arrives
<1>4. CASE Leaves
  <2>1. Running /\ frames # <<>>
    BY <1>4 DEF Leaves
  <2>2. PICK b, e : Returns(b, e)
    BY <1>4 DEF Leaves
  <2>3. CASE Top.via = "invoke"
    BY <2>1, <2>2, <2>3, ArrivesOnReturn
  <2>4. CASE Top.via # "invoke"
    <3>1. /\ ReturnByName(e) /\ e \in ExcSet(TheBoxes, MethodNames(classes))
          /\ Top.method \in MethodNames(classes)
      BY <2>1, <2>2, <2>4, LeftTyped, AtTop DEF Returns
    <3>2. exc' = [Extended(e, Top.method) EXCEPT !.byName = e.pending]
      BY <3>1 DEF ReturnByName
    <3>3. exc'.byName = exc'.pending
      <4>1. Like(exc', e, e.pending)
        BY <3>1, <3>2, OneMoreLike
      <4> QED BY <4>1 DEF Like
    <3> QED BY <3>3 DEF Arrives
  <2> QED BY <2>3, <2>4
<1> QED BY <1>1, <1>2, <1>3, <1>4 DEF Outcome

\* Where exceptions arrive, the object that was thrown is popped.
LEMMA ThrownIsThere ==
    ASSUME Typed, Nested, Arrives
    PROVE  ThrownArrives
<1> SUFFICES ASSUME Running, frames # <<>>, Interrupted, ~exc.byName
             PROVE  Popped("object", 0) # Null /\ boxes[Popped("object", 0)] = exc.thrown
  BY DEF ThrownArrives
<1>1. /\ Top.stack # <<>> /\ Last(Top.stack) # Null
      /\ boxes[Last(Top.stack)] = exc.thrown /\ exc.thrown.type = "object"
  BY DEF Arrives, Interrupted
<1>2. Top.stack \in Seq(Ids)
  BY AtTop
<1>3. Below(Top.stack, 0) = Last(Top.stack)
  BY <1>1, <1>2 DEF Below, Last
<1>4. Popped("object", 0) = Last(Top.stack)
  BY <1>1, <1>3 DEF Popped, As
<1> QED BY <1>1, <1>4

-----------------------------------------------------------------------------
(* Boxes of local variables.                                               *)

(* LocalsPrivate, of a step.                                               *)
LocalsStay ==
  \A k \in 1..(Len(frames) - 1) : k <= Len(frames') =>
    \A n \in DOMAIN frames[k].locals :
      LET b == frames[k].locals[n]
      IN /\ frames'[k].locals[n] = b
         /\ b = Null \/ b \in exposed \/ boxes'[b] = boxes[b]

\* What holds up to shared boxes holds when more are shared.
LEMMA Looser ==
    ASSUME NEW S, NEW T, S \subseteq T
    PROVE  /\ \A f, g : Clear(f, g, S) => Clear(f, g, T)
           /\ \A f : Apart(f, S) => Apart(f, T)
           /\ \A f : Distinct(f, S) => Distinct(f, T)
BY DEF Clear, Apart, Distinct

\* An empty stack has no box twice.
LEMMA EmptyStack ==
    ASSUME NEW f, f.stack = <<>>, NEW S
    PROVE  Apart(f, S) /\ Distinct(f, S)
BY DEF Apart, Distinct

\* Frames hold boxes there are.
LEMMA HeldThere ==
    ASSUME Typed
    PROVE  \A k \in 1..Len(frames) :
             /\ Range(frames[k].locals) \subseteq Ids /\ Held(frames[k]) \subseteq Ids
             /\ \A n \in DOMAIN frames[k].locals : /\ frames[k].locals[n] \in Range(frames[k].locals)
                                                   /\ frames[k].locals[n] \in Ids
<1> SUFFICES ASSUME NEW k \in 1..Len(frames)
             PROVE  /\ Range(frames[k].locals) \subseteq Ids /\ Held(frames[k]) \subseteq Ids
                    /\ \A n \in DOMAIN frames[k].locals :
                         /\ frames[k].locals[n] \in Range(frames[k].locals)
                         /\ frames[k].locals[n] \in Ids
  OBVIOUS
<1> DEFINE F == FrameSet(classes, Len(boxes), loaded \cup inited)
           f == frames[k]
<1>1. frames \in Seq(F)
  BY DEF Typed
<1> HIDE DEF F
<1>2. f \in F
  BY <1>1
<1> HIDE DEF f
<1>3. Len(boxes) \in Nat
  BY TypedFacts
<1>4. f.stack \in Seq(Ids)
  BY <1>2, <1>3, FrameFacts DEF F, Ids
<1>5. f.locals \in [DOMAIN f.locals -> Ids]
  <2>1. f.locals \in [0..(classes[f.cls].methods[f.method].maxLocals - 1) -> Ids]
    BY <1>2, <1>3, FrameFacts DEF F, Ids
  <2> QED BY <2>1
<1>6. ToSet(f.stack) \subseteq Ids
  BY <1>4 DEF ToSet
<1>7. Range(f.locals) \subseteq Ids
  BY <1>5 DEF Range
<1>8. \A n \in DOMAIN f.locals : f.locals[n] \in Range(f.locals)
  BY DEF Range
<1> QED BY <1>6, <1>7, <1>8 DEF f, Held

\* Boxes that are shared stay so.
LEMMA SharedGrows ==
    ASSUME Typed, DataGrows
    PROVE  Shared \subseteq Shared'
BY DEF DataGrows, Shared

(* A box below the top that is changed is one that the top has.            *)
LEMMA StaysWhenWorking ==
    ASSUME Typed, Owned, frames # <<>>, BoxesGrow, NEW f, GoesOn(f)
    PROVE  LocalsStay
<1> DEFINE n == Len(frames)
<1>1. /\ Len(frames') = n /\ n \in Nat \ {0} /\ Top = frames[n]
      /\ \A k \in 1..(n - 1) : frames'[k] = frames[k]
  BY FramesGoOn
<1>2. SUFFICES ASSUME NEW k \in 1..(n - 1), NEW m \in DOMAIN frames[k].locals
               PROVE  /\ frames'[k].locals[m] = frames[k].locals[m]
                      /\ \/ frames[k].locals[m] = Null \/ frames[k].locals[m] \in exposed
                         \/ boxes'[frames[k].locals[m]] = boxes[frames[k].locals[m]]
  BY DEF LocalsStay
<1> DEFINE b == frames[k].locals[m]
<1>3. k \in 1..n /\ n \in 1..n /\ k < n
  BY <1>1
<1>4. b \in Ids /\ b \in Range(frames[k].locals)
  BY <1>3, HeldThere
<1>5. Clear(frames[k], Top, Shared)
  BY <1>1, <1>3 DEF Owned
<1> HIDE DEF b
<1>6. b = Null \/ b \in DOMAIN boxes
  <2>1. boxes \in Seq(TheBoxes)
    BY DEF Typed
  <2> QED BY <1>4, <2>1 DEF Ids, Null
<1>7. CASE b \in Held(Top)
  <2>1. b \in Shared
    BY <1>4, <1>5, <1>7 DEF Clear
  <2> QED BY <1>1, <2>1 DEF Shared, b
<1>8. CASE b \notin Held(Top)
  BY <1>1, <1>6, <1>8 DEF BoxesGrow, b
<1> QED BY <1>7, <1>8

\* Frames stay apart when the top goes on,
LEMMA OwnedWhenWorking ==
    ASSUME Typed, Owned, frames # <<>>, DataGrows, NEW f, GoesOn(f)
    PROVE  Owned'
<1> DEFINE n == Len(frames)
<1>1. /\ Len(frames') = n /\ n \in Nat \ {0} /\ Top = frames[n] /\ frames'[n] = f /\ Top' = f
      /\ \A k \in 1..(n - 1) : frames'[k] = frames[k]
  BY FramesGoOn
<1>2. Shared \subseteq Shared'
  BY SharedGrows
<1>3. /\ \A k, l \in 1..n : k < l => Clear(frames[k], frames[l], Shared)
      /\ \A k \in 1..n : Apart(frames[k], Shared)
      /\ \A k \in 1..n : k < n \/ ~Interrupted => Distinct(frames[k], Shared)
  BY DEF Owned
<1>4. n \in 1..n /\ \A k \in 1..n : k = n \/ k \in 1..(n - 1)
  <2>1. n \in Nat \ {0}
    BY <1>1
  <2> HIDE DEF n
  <2> QED BY <2>1
<1>5. Apart(f, Shared') /\ (Distinct(f, Shared') \/ (exc'.pending /\ ~f.resumed))
  <2>1. Apart(Top, Shared) /\ (~Interrupted => Distinct(Top, Shared))
    BY <1>1, <1>3, <1>4
  <2> QED BY <2>1 DEF GoesOn
<1>6. ASSUME NEW k \in 1..(n - 1) PROVE Clear(frames[k], f, Shared')
  <2>1. k \in 1..n /\ k < n
    BY <1>1
  <2>2. Clear(frames[k], Top, Shared)
    BY <1>1, <1>3, <1>4, <2>1
  <2>3. Range(frames[k].locals) \subseteq Ids
    BY <2>1, HeldThere
  <2>4. \A b \in Held(f) : b \in Shared' \/ b > Len(boxes) \/ b \in Held(Top)
    BY DEF GoesOn
  <2>5. \A b \in Ids : ~(b > Len(boxes))
    BY TypedFacts DEF Ids
  <2> QED BY <1>2, <2>2, <2>3, <2>4, <2>5 DEF Clear
<1> HIDE DEF n
<1>7. ASSUME NEW k \in 1..n, NEW l \in 1..n, k < l
      PROVE  Clear(frames'[k], frames'[l], Shared')
  <2>1. k \in 1..(n - 1) /\ frames'[k] = frames[k]
    BY <1>1, <1>7
  <2>2. CASE l = n
    BY <2>1, <2>2, <1>1, <1>6
  <2>3. CASE l # n
    BY <2>1, <2>3, <1>1, <1>2, <1>3, <1>4, <1>7, Looser
  <2> QED BY <2>2, <2>3
<1>8. ASSUME NEW k \in 1..n PROVE Apart(frames'[k], Shared')
  <2>1. CASE k = n
    BY <2>1, <1>1, <1>5
  <2>2. CASE k # n
    BY <2>2, <1>1, <1>2, <1>3, <1>4, Looser
  <2> QED BY <2>1, <2>2
<1>9. ASSUME NEW k \in 1..n, k < n \/ ~(exc'.pending /\ ~f.resumed)
      PROVE  Distinct(frames'[k], Shared')
  <2>1. CASE k = n
    BY <2>1, <1>1, <1>5, <1>9
  <2>2. CASE k # n
    <3>1. k < n /\ frames'[k] = frames[k]
      BY <2>2, <1>1, <1>4
    <3> QED BY <3>1, <1>2, <1>3, Looser
  <2> QED BY <2>1, <2>2
<1>10. Interrupted' <=> exc'.pending /\ ~f.resumed
  BY <1>1 DEF Interrupted
<1> QED BY <1>1, <1>7, <1>8, <1>9, <1>10 DEF Owned

\* when it calls,
LEMMA OwnedWhenEntering ==
    ASSUME Typed, Owned, frames # <<>>, ~Interrupted, DataGrows, exposed' = exposed,
           boxes' = boxes, exc' = exc, NEW f, NEW g, WaitsFor(f, g)
    PROVE  Owned' /\ LocalsStay
<1> DEFINE n == Len(frames)
           S == Shared
<1>1. /\ Len(frames') = n + 1 /\ n \in Nat \ {0} /\ Top = frames[n]
      /\ frames'[n] = f /\ frames'[n + 1] = g
      /\ \A k \in 1..(n - 1) : frames'[k] = frames[k]
  BY FramesEntered
<1>2. Shared' = S /\ Null \in S
  BY DEF Shared
<1>3. /\ \A k, l \in 1..n : k < l => Clear(frames[k], frames[l], S)
      /\ \A k \in 1..n : Apart(frames[k], S)
      /\ \A k \in 1..n : Distinct(frames[k], S)
  BY DEF Owned
<1>4. /\ f.locals = Top.locals /\ Held(f) \subseteq Held(Top)
      /\ Apart(Top, S) /\ Distinct(Top, S) => Apart(f, S) /\ Distinct(f, S)
      /\ g.stack = <<>> /\ Range(g.locals) \subseteq ToSet(Top.stack) \cup {Null}
  BY DEF WaitsFor
<1>5. LocalsStay
  <2>1. SUFFICES ASSUME NEW k \in 1..(n - 1), NEW m \in DOMAIN frames[k].locals
                 PROVE  /\ frames'[k].locals[m] = frames[k].locals[m]
                        /\ boxes'[frames[k].locals[m]] = boxes[frames[k].locals[m]]
    BY DEF LocalsStay
  <2> QED BY <1>1
<1> HIDE DEF n, S
<1>6. n \in 1..n /\ n + 1 \in 1..(n + 1)
      /\ \A k \in 1..(n + 1) : k = n + 1 \/ k = n \/ (k \in 1..(n - 1) /\ k \in 1..n)
  BY <1>1
<1>7. Apart(f, S) /\ Distinct(f, S) /\ Apart(g, S) /\ Distinct(g, S)
  BY <1>1, <1>3, <1>4, <1>6, EmptyStack
<1>8. ToSet(g.stack) = {}
  BY <1>4 DEF ToSet
<1>9. Held(g) \subseteq ToSet(Top.stack) \cup {Null}
  BY <1>4, <1>8 DEF Held
<1>10. Clear(f, g, S)
  <2>1. Apart(Top, S)
    BY <1>1, <1>3, <1>6
  <2>2. ASSUME NEW b \in Range(Top.locals), b \in ToSet(Top.stack) PROVE b \in S
    <3>1. PICK i \in DOMAIN Top.stack : Top.stack[i] = b
      BY <2>2 DEF ToSet
    <3>2. PICK m \in DOMAIN Top.locals : Top.locals[m] = b
      BY DEF Range
    <3> QED BY <3>1, <3>2, <2>1 DEF Apart
  <2> QED BY <2>2, <1>2, <1>4, <1>9 DEF Clear
<1>11. ASSUME NEW k \in 1..(n - 1) PROVE Clear(frames[k], f, S) /\ Clear(frames[k], g, S)
  <2>1. k \in 1..n /\ k < n
    BY <1>1
  <2>2. Clear(frames[k], Top, S)
    BY <1>1, <1>3, <1>6, <2>1
  <2>3. Held(g) \subseteq Held(Top) \cup S
    BY <1>2, <1>9 DEF Held
  <2> QED BY <2>2, <2>3, <1>4 DEF Clear
<1>12. ASSUME NEW k \in 1..(n + 1), NEW l \in 1..(n + 1), k < l
       PROVE  Clear(frames'[k], frames'[l], S)
  <2>1. CASE l = n + 1
    <3>1. k = n \/ k \in 1..(n - 1)
      BY <2>1, <1>6, <1>12, <1>1
    <3> QED BY <3>1, <2>1, <1>1, <1>10, <1>11
  <2>2. CASE l = n
    <3>1. k \in 1..(n - 1)
      BY <2>2, <1>6, <1>12, <1>1
    <3> QED BY <3>1, <2>2, <1>1, <1>11
  <2>3. CASE l \in 1..(n - 1)
    <3>1. k \in 1..(n - 1) /\ k \in 1..n /\ l \in 1..n
      BY <2>3, <1>12, <1>1
    <3> QED BY <3>1, <2>3, <1>1, <1>3, <1>12
  <2> QED BY <2>1, <2>2, <2>3, <1>6
<1>13. ASSUME NEW k \in 1..(n + 1) PROVE Apart(frames'[k], S) /\ Distinct(frames'[k], S)
  BY <1>1, <1>3, <1>6, <1>7
<1> QED BY <1>1, <1>2, <1>5, <1>12, <1>13 DEF Owned

(* The stack of the frame that is returned to gets null or a new box.      *)
LEMMA BackOwned ==
    ASSUME NEW nb \in Nat, NEW s \in Seq(0..nb), NEW v, v = Null \/ v > nb,
           NEW h \in Seq({v}), NEW f, NEW g,
           Range(f.locals) \subseteq 0..nb, f.stack = s, g.locals = f.locals, g.stack = s \o h,
           NEW S, Null \in S
    PROVE  /\ Apart(f, S) => Apart(g, S)
           /\ Distinct(f, S) /\ Len(h) <= 1 => Distinct(g, S)
           /\ Held(g) \subseteq Held(f) \cup {v}
<1> DEFINE T == 0..nb \cup {v}
           t == s \o h
<1>1. s \in Seq(T) /\ h \in Seq(T)
  <2>1. 0..nb \subseteq T /\ {v} \subseteq T
    OBVIOUS
  <2> QED BY <2>1, SeqGrows
<1> HIDE DEF T
<1>2. /\ t \in Seq(T) /\ Len(t) = Len(s) + Len(h)
      /\ \A i \in 1..Len(s) : t[i] = s[i]
      /\ \A i \in (Len(s) + 1)..(Len(s) + Len(h)) : t[i] = h[i - Len(s)]
  BY <1>1, Concatenated
<1>3. Len(s) \in Nat /\ Len(h) \in Nat
  BY <1>1
<1>4. \A i \in 1..Len(h) : h[i] = v
  OBVIOUS
<1> HIDE DEF t
<1>5. \A i \in DOMAIN t : \/ i \in 1..Len(s) /\ t[i] = s[i] /\ t[i] \in 0..nb
                          \/ i \in (Len(s) + 1)..(Len(s) + Len(h)) /\ t[i] = v
  <2> SUFFICES ASSUME NEW i \in DOMAIN t
               PROVE  \/ i \in 1..Len(s) /\ t[i] = s[i] /\ t[i] \in 0..nb
                      \/ i \in (Len(s) + 1)..(Len(s) + Len(h)) /\ t[i] = v
    OBVIOUS
  <2>1. i \in 1..(Len(s) + Len(h))
    BY <1>2
  <2>2. CASE i <= Len(s)
    <3>1. i \in 1..Len(s)
      BY <2>1, <2>2, <1>3
    <3> QED BY <3>1, <1>2
  <2>3. CASE ~(i <= Len(s))
    <3>1. i \in (Len(s) + 1)..(Len(s) + Len(h)) /\ i - Len(s) \in 1..Len(h)
      BY <2>1, <2>3, <1>3
    <3> QED BY <3>1, <1>2, <1>4
  <2> QED BY <2>2, <2>3
<1>6. DOMAIN s = 1..Len(s) /\ g.stack = t /\ f.stack = s
  BY DEF t
<1>7. \A n \in DOMAIN f.locals : f.locals[n] \in 0..nb
  BY DEF Range
<1>8. v \in S \/ v \notin 0..nb
  OBVIOUS
<1>9. Apart(f, S) => Apart(g, S)
  BY <1>5, <1>6, <1>7, <1>8 DEF Apart
<1>10. Distinct(f, S) /\ Len(h) <= 1 => Distinct(g, S)
  <2> SUFFICES ASSUME Distinct(f, S), Len(h) <= 1,
                      NEW i \in DOMAIN t, NEW j \in DOMAIN t, i # j, t[i] = t[j]
               PROVE  t[i] \in S
    BY <1>6 DEF Distinct
  <2>1. CASE i \in 1..Len(s) /\ j \in 1..Len(s)
    BY <2>1, <1>2, <1>6 DEF Distinct
  <2>2. CASE i \notin 1..Len(s) /\ j \notin 1..Len(s)
    <3>1. i \in (Len(s) + 1)..(Len(s) + Len(h)) /\ j \in (Len(s) + 1)..(Len(s) + Len(h))
      BY <2>2, <1>5
    <3> QED BY <3>1, <1>3
  <2>3. CASE i \in 1..Len(s) /\ j \notin 1..Len(s)
    BY <2>3, <1>5, <1>8
  <2>4. CASE i \notin 1..Len(s) /\ j \in 1..Len(s)
    BY <2>4, <1>5, <1>8
  <2> QED BY <2>1, <2>2, <2>3, <2>4
<1>11. Held(g) \subseteq Held(f) \cup {v}
  <2>1. ASSUME NEW b \in ToSet(t) PROVE b \in ToSet(s) \cup {v}
    <3>1. PICK i \in DOMAIN t : t[i] = b
      BY DEF ToSet
    <3> QED BY <3>1, <1>5, <1>6 DEF ToSet
  <2> QED BY <2>1, <1>6 DEF Held
<1> QED BY <1>9, <1>10, <1>11

\* when it returns to an instruction,
LEMMA OwnedWhenReturned ==
    ASSUME Typed, Nested, Owned, Running, frames # <<>>, Top.via = "invoke",
           NEW b, NEW e, Returns(b, e)
    PROVE  Owned' /\ LocalsStay
<1> DEFINE n == Len(frames)
           S == Shared
           T == Shared'
           g == Back(b, e)
           h == Handed(Given(b), CallerInstr.desc, e)
<1>1. /\ ReturnToCaller(b, e) /\ n > 1 /\ n \in Nat /\ DataGrows
      /\ b \in Ids /\ e \in ExcSet(TheBoxes, MethodNames(classes))
  BY ReturnedTyped DEF Returns
<1>2. /\ Len(frames') = n - 1 /\ frames'[n - 1] = g /\ Top' = g /\ Caller = frames[n - 1]
      /\ \A k \in 1..(n - 2) : frames'[k] = frames[k]
  BY <1>1, FramesReturned
<1>3. S \subseteq T /\ Null \in S
  BY <1>1, SharedGrows DEF Shared
<1>4. /\ \A k, l \in 1..n : k < l => Clear(frames[k], frames[l], S)
      /\ \A k \in 1..n : Apart(frames[k], S)
      /\ \A k \in 1..n : k < n => Distinct(frames[k], S)
  BY DEF Owned
<1>5. /\ g.locals = Caller.locals /\ g.stack = Caller.stack \o h /\ g.resumed = FALSE
  BY <1>1, BackTyped
<1>6. /\ Len(boxes) \in Nat /\ (Given(b) = Null \/ Given(b) > Len(boxes))
      /\ \A i \in 1..Len(boxes) : boxes'[i] = boxes[i]
  BY <1>1, BoxesReturned
<1>7. exc'.pending = e.pending
  <2>1. exc' = Extended(e, Top.method)
    BY <1>1 DEF ReturnToCaller
  <2>2. Like(exc', e, e.byName)
    BY <1>1, <2>1, OneMoreLike
  <2> QED BY <2>2 DEF Like
<1>8. h \in Seq({Given(b)}) /\ (~e.pending => Len(h) <= 1)
  <2>1. Given(b) \in {Given(b)}
    OBVIOUS
  <2> QED BY <2>1, HandedOver
<1>9. \A k \in 1..n : /\ Range(frames[k].locals) \subseteq Ids
                      /\ \A m \in DOMAIN frames[k].locals : frames[k].locals[m] \in Ids
  BY HeldThere
<1>10. Caller.stack \in Seq(0..Len(boxes)) /\ Range(Caller.locals) \subseteq 0..Len(boxes)
  <2>1. n - 1 \in 1..n
    BY <1>1
  <2> QED BY <2>1, <1>1, <1>2, <1>9, CallerFacts DEF Ids
<1> HIDE DEF n, S, T, g, h
<1>11. /\ Apart(Caller, S) => Apart(g, S)
       /\ Distinct(Caller, S) /\ Len(h) <= 1 => Distinct(g, S)
       /\ Held(g) \subseteq Held(Caller) \cup {Given(b)}
  <2> DEFINE nb == Len(boxes)
             v == Given(b)
             f == Caller
             s == Caller.stack
  <2>1. /\ nb \in Nat /\ s \in Seq(0..nb) /\ (v = Null \/ v > nb) /\ h \in Seq({v})
        /\ Range(f.locals) \subseteq 0..nb /\ f.stack = s /\ g.locals = f.locals
        /\ g.stack = s \o h /\ Null \in S
    BY <1>3, <1>5, <1>6, <1>8, <1>10
  <2> HIDE DEF nb, v, f, s
  <2>2. /\ Apart(f, S) => Apart(g, S)
        /\ Distinct(f, S) /\ Len(h) <= 1 => Distinct(g, S)
        /\ Held(g) \subseteq Held(f) \cup {v}
    BY <2>1, BackOwned
  <2> QED BY <2>2 DEF f, v
<1>12. /\ n - 1 \in 1..n /\ n - 1 < n
       /\ \A k \in 1..(n - 1) : /\ k \in 1..n /\ k < n /\ k <= n - 1
                                /\ k = n - 1 \/ (k \in 1..(n - 2) /\ k < n - 1)
  BY <1>1
<1>13. LocalsStay
  <2>1. SUFFICES ASSUME NEW k \in 1..(n - 1), NEW m \in DOMAIN frames[k].locals
                 PROVE  /\ frames'[k].locals[m] = frames[k].locals[m]
                        /\ \/ frames[k].locals[m] = Null
                           \/ boxes'[frames[k].locals[m]] = boxes[frames[k].locals[m]]
    BY DEF LocalsStay, n
  <2>2. frames'[k].locals[m] = frames[k].locals[m]
    <3>1. CASE k = n - 1
      BY <3>1, <1>2, <1>5
    <3>2. CASE k \in 1..(n - 2)
      BY <3>2, <1>2
    <3> QED BY <3>1, <3>2, <1>12
  <2>3. frames[k].locals[m] \in Ids
    BY <1>9, <1>12
  <2> QED BY <2>2, <2>3, <1>6 DEF Ids, Null
<1>14. ASSUME NEW k \in 1..(n - 2) PROVE Clear(frames[k], g, T)
  <2>1. k \in 1..n /\ k < n - 1
    BY <1>1
  <2>2. Clear(frames[k], Caller, S) /\ Range(frames[k].locals) \subseteq Ids
    BY <2>1, <1>2, <1>4, <1>9, <1>12
  <2>3. Given(b) \in S \/ Given(b) \notin Ids
    BY <1>3, <1>6 DEF Ids
  <2> QED BY <2>2, <2>3, <1>3, <1>11 DEF Clear
<1>15. ASSUME NEW k \in 1..(n - 1), NEW l \in 1..(n - 1), k < l
       PROVE  Clear(frames'[k], frames'[l], T)
  <2>1. k \in 1..(n - 2) /\ k \in 1..n /\ l \in 1..n
    BY <1>15, <1>1
  <2>2. CASE l = n - 1
    BY <2>1, <2>2, <1>2, <1>14
  <2>3. CASE l # n - 1
    <3>1. l \in 1..(n - 2)
      BY <2>3, <1>12
    <3>2. Clear(frames[k], frames[l], S)
      BY <2>1, <1>4, <1>15
    <3>3. Clear(frames[k], frames[l], T)
      BY <3>2, <1>3, Looser
    <3> QED BY <3>1, <3>3, <2>1, <1>2
  <2> QED BY <2>2, <2>3
<1>16. ASSUME NEW k \in 1..(n - 1) PROVE Apart(frames'[k], T)
  <2>1. CASE k = n - 1
    <3>1. Apart(g, S)
      BY <1>2, <1>4, <1>11, <1>12
    <3> QED BY <2>1, <3>1, <1>2, <1>3, Looser
  <2>2. CASE k \in 1..(n - 2)
    BY <2>2, <1>2, <1>3, <1>4, <1>12, Looser
  <2> QED BY <2>1, <2>2, <1>12
<1>17. ASSUME NEW k \in 1..(n - 1), k < n - 1 \/ ~e.pending PROVE Distinct(frames'[k], T)
  <2>1. CASE k = n - 1
    <3>1. Distinct(Caller, S)
      BY <1>2, <1>4, <1>12
    <3>2. Len(h) <= 1
      BY <2>1, <1>1, <1>8, <1>17
    <3>3. Distinct(g, S)
      BY <3>1, <3>2, <1>11
    <3> QED BY <2>1, <3>3, <1>2, <1>3, Looser
  <2>2. CASE k \in 1..(n - 2)
    BY <2>2, <1>2, <1>3, <1>4, <1>12, Looser
  <2> QED BY <2>1, <2>2, <1>12
<1>18. Interrupted' <=> e.pending
  BY <1>2, <1>5, <1>7 DEF Interrupted
<1>19. Owned'
  BY <1>2, <1>15, <1>16, <1>17, <1>18 DEF Owned, T
<1> QED BY <1>13, <1>19

\* and when it returns to invokeByName.
LEMMA OwnedWhenLeft ==
    ASSUME Typed, Nested, Owned, Running, frames # <<>>, Top.via # "invoke",
           NEW b, NEW e, Returns(b, e)
    PROVE  Owned' /\ LocalsStay
<1> DEFINE n == Len(frames)
<1>1. ReturnByName(e) /\ DataGrows
  BY LeftTyped
<1>2. /\ Len(frames') = n - 1 /\ n \in Nat \ {0}
      /\ \A k \in 1..(n - 1) : frames'[k] = frames[k]
  BY <1>1, FramesLeft
<1>3. Shared' = Shared /\ boxes' = boxes
  BY <1>1 DEF ReturnByName, data, Shared
<1>4. \A k \in 1..(n - 1) : k \in 1..n /\ k < n
  BY <1>2
<1>5. /\ \A k, l \in 1..n : k < l => Clear(frames[k], frames[l], Shared)
      /\ \A k \in 1..n : Apart(frames[k], Shared)
      /\ \A k \in 1..n : k < n => Distinct(frames[k], Shared)
  BY DEF Owned
<1>6. LocalsStay
  <2>1. SUFFICES ASSUME NEW k \in 1..(n - 1), NEW m \in DOMAIN frames[k].locals
                 PROVE  /\ frames'[k].locals[m] = frames[k].locals[m]
                        /\ boxes'[frames[k].locals[m]] = boxes[frames[k].locals[m]]
    BY DEF LocalsStay
  <2> QED BY <1>2, <1>3
<1> HIDE DEF n
<1>7. Owned'
  BY <1>2, <1>3, <1>4, <1>5 DEF Owned
<1> QED BY <1>6, <1>7

\* Every kind of step keeps frames apart and local variables as they are.
LEMMA OwnedKept ==
    ASSUME Typed, Nested, Owned, Outcome
    PROVE  Owned' /\ LocalsStay
<1>1. CASE Halts
  <2>1. UNCHANGED <<frames, boxes, exc, exposed>>
    BY <1>1 DEF Halts, data
  <2>2. Owned'
    BY <2>1 DEF Owned, Shared, Interrupted, Top
  <2>3. LocalsStay
    BY <2>1 DEF LocalsStay
  <2> QED BY <2>2, <2>3
<1>2. CASE Works
  <2>1. frames # <<>> /\ DataGrows /\ BoxesGrow
    BY <1>2 DEF Works
  <2>2. PICK f : GoesOn(f)
    BY <1>2 DEF Works
  <2> QED BY <2>1, <2>2, OwnedWhenWorking, StaysWhenWorking
<1>3. CASE Enters
  <2>1. /\ frames # <<>> /\ ~Interrupted /\ DataGrows /\ exposed' = exposed
        /\ boxes' = boxes /\ exc' = exc
    BY <1>3 DEF Enters
  <2>2. PICK f, g : WaitsFor(f, g)
    BY <1>3 DEF Enters
  <2> QED BY <2>1, <2>2, OwnedWhenEntering
<1>4. CASE Leaves
  <2>1. Running /\ frames # <<>>
    BY <1>4 DEF Leaves
  <2>2. PICK b, e : Returns(b, e)
    BY <1>4 DEF Leaves
  <2>3. CASE Top.via = "invoke"
    BY <2>1, <2>2, <2>3, OwnedWhenReturned
  <2>4. CASE Top.via # "invoke"
    BY <2>1, <2>2, <2>4, OwnedWhenLeft
  <2> QED BY <2>3, <2>4
<1> QED BY <1>1, <1>2, <1>3, <1>4 DEF Outcome

-----------------------------------------------------------------------------
(* Where exceptions come from.                                             *)

CodeOf(f) == classes[f.cls].methods[f.method].code

\* Callers stay at their calls when the top goes on,
LEMMA WaitingWhenWorking ==
    ASSUME Typed, Waiting, frames # <<>>, classes' = classes, NEW f, GoesOn(f)
    PROVE  Waiting'
<1> DEFINE n == Len(frames)
<1>1. /\ Len(frames') = n /\ n \in Nat \ {0} /\ Top = frames[n] /\ frames'[n] = f
      /\ \A k \in 1..(n - 1) : frames'[k] = frames[k]
  BY FramesGoOn
<1>2. f.via = Top.via
  BY DEF GoesOn
<1>3. \A k \in 1..(n - 1) : frames[k + 1].via = "invoke" => CodeOf(frames[k])[frames[k].pc].op = "invoke"
  BY DEF Waiting, CodeOf
<1> HIDE DEF n
<1>4. ASSUME NEW k \in 1..(n - 1) PROVE frames'[k + 1].via = frames[k + 1].via
  <2>1. k + 1 = n \/ k + 1 \in 1..(n - 1)
    BY <1>1
  <2> QED BY <2>1, <1>1, <1>2
<1> QED BY <1>1, <1>3, <1>4 DEF Waiting, CodeOf

\* when it calls,
LEMMA WaitingWhenEntering ==
    ASSUME Typed, Waiting, frames # <<>>, classes' = classes, NEW f, NEW g, WaitsFor(f, g)
    PROVE  Waiting'
<1> DEFINE n == Len(frames)
<1>1. /\ Len(frames') = n + 1 /\ n \in Nat \ {0} /\ Top = frames[n]
      /\ frames'[n] = f /\ frames'[n + 1] = g
      /\ \A k \in 1..(n - 1) : frames'[k] = frames[k]
  BY FramesEntered
<1>2. /\ f.via = Top.via /\ f.pc = Top.pc /\ f.cls = Top.cls /\ f.method = Top.method
      /\ g.via = "invoke" => Instr.op = "invoke"
  BY DEF WaitsFor
<1>3. \A k \in 1..(n - 1) : frames[k + 1].via = "invoke" => CodeOf(frames[k])[frames[k].pc].op = "invoke"
  BY DEF Waiting, CodeOf
<1>4. Instr = CodeOf(f)[f.pc]
  BY <1>2 DEF Instr, Method, CodeOf
<1> HIDE DEF n
<1>5. ASSUME NEW k \in 1..n, frames'[k + 1].via = "invoke"
      PROVE  CodeOf(frames'[k])[frames'[k].pc].op = "invoke"
  <2>1. CASE k = n
    BY <2>1, <1>1, <1>2, <1>4, <1>5
  <2>2. CASE k # n
    <3>1. k \in 1..(n - 1) /\ frames'[k] = frames[k]
      BY <2>2, <1>1
    <3>2. k + 1 = n \/ k + 1 \in 1..(n - 1)
      BY <3>1, <1>1
    <3>3. frames'[k + 1].via = frames[k + 1].via
      BY <3>2, <1>1, <1>2
    <3> QED BY <3>1, <3>3, <1>3, <1>5
  <2> QED BY <2>1, <2>2
<1>6. Len(frames') - 1 = n
  BY <1>1
<1> QED BY <1>5, <1>6 DEF Waiting, CodeOf

\* when it returns, after which it is behind a call,
LEMMA WaitingWhenReturned ==
    ASSUME Typed, Nested, Waiting, Running, frames # <<>>, Top.via = "invoke",
           NEW b, NEW e, Returns(b, e)
    PROVE  Waiting' /\ OutOfCall(Top)'
<1> DEFINE n == Len(frames)
<1>1. /\ ReturnToCaller(b, e) /\ n > 1 /\ n \in Nat /\ DataGrows /\ b \in Ids /\ Nested'
  BY ReturnedTyped DEF Returns
<1>2. /\ Len(frames') = n - 1 /\ n \in Nat \ {0, 1}
      /\ frames'[n - 1] = Back(b, e) /\ Top' = Back(b, e)
      /\ Caller = frames[n - 1] /\ Top = frames[n]
      /\ \A k \in 1..(n - 2) : frames'[k] = frames[k]
  BY <1>1, FramesReturned
<1>3. /\ Back(b, e).via = Caller.via
      /\ Back(b, e).cls = Caller.cls /\ Back(b, e).method = Caller.method
      /\ Back(b, e).pc = Caller.pc + CallerInstr.len
  BY <1>1, BackTyped
<1>4. classes' = classes
  BY <1>1 DEF DataGrows
<1>5. \A k \in 1..(n - 1) : frames[k + 1].via = "invoke" => CodeOf(frames[k])[frames[k].pc].op = "invoke"
  BY DEF Waiting, CodeOf
<1>6. Caller.pc \in DOMAIN CodeOf(Caller)
  <2>1. n - 1 \in 1..(n - 1)
    BY <1>1
  <2> QED BY <2>1, <1>2 DEF Nested, CodeOf
<1> HIDE DEF n
<1>7. ASSUME NEW k \in 1..(n - 2), frames'[k + 1].via = "invoke"
      PROVE  CodeOf(frames'[k])[frames'[k].pc].op = "invoke"
  <2>1. k \in 1..(n - 1) /\ frames'[k] = frames[k]
    BY <1>2
  <2>2. k + 1 = n - 1 \/ k + 1 \in 1..(n - 2)
    BY <1>2
  <2>3. frames'[k + 1].via = frames[k + 1].via
    BY <2>2, <1>2, <1>3
  <2> QED BY <2>1, <2>3, <1>5, <1>7
<1>8. Waiting'
  <2>1. Len(frames') - 1 = n - 2
    BY <1>2
  <2> QED BY <2>1, <1>4, <1>7 DEF Waiting, CodeOf
<1>9. OutOfCall(Top)'
  <2>1. CodeOf(Caller)[Caller.pc].op = "invoke"
    <3>1. n - 1 \in 1..(n - 1) /\ (n - 1) + 1 = n
      BY <1>2
    <3> QED BY <3>1, <1>2, <1>5
  <2>2. CallerInstr = CodeOf(Caller)[Caller.pc]
    BY DEF CallerInstr, CodeOf
  <2>3. OutOfCall(Back(b, e))
    BY <2>1, <2>2, <1>3, <1>6 DEF OutOfCall, CodeOf
  <2> QED BY <2>3, <1>2, <1>4 DEF OutOfCall
<1> QED BY <1>8, <1>9

\* and when it returns to invokeByName.
LEMMA WaitingWhenLeft ==
    ASSUME Typed, Nested, Waiting, Running, frames # <<>>, Top.via # "invoke",
           NEW b, NEW e, Returns(b, e)
    PROVE  Waiting'
<1> DEFINE n == Len(frames)
<1>1. ReturnByName(e) /\ DataGrows
  BY LeftTyped
<1>2. /\ Len(frames') = n - 1 /\ n \in Nat \ {0}
      /\ \A k \in 1..(n - 1) : frames'[k] = frames[k]
  BY <1>1, FramesLeft
<1>3. classes' = classes
  BY <1>1 DEF DataGrows
<1> HIDE DEF n
<1>4. \A k \in 1..(n - 2) : k \in 1..(n - 1) /\ k + 1 \in 1..(n - 1) /\ k \in 1..(Len(frames) - 1)
  BY <1>2 DEF n
<1>5. Len(frames') - 1 = n - 2
  BY <1>2
<1> QED BY <1>2, <1>3, <1>4, <1>5 DEF Waiting

\* Every kind of step keeps callers at their calls.
LEMMA WaitingKept ==
    ASSUME Typed, Nested, Arrives, Waiting, Came, Outcome
    PROVE  Waiting' /\ Came'
<1>1. CASE Halts
  <2>1. UNCHANGED <<frames, exc, classes>>
    BY <1>1 DEF Halts, data
  <2> QED BY <2>1 DEF Waiting, Came, OutOfCall, Top
<1>2. CASE Works
  <2>1. /\ exc'.pending => exc.pending /\ ~Interrupted /\ exc'.byName = exc.byName
        /\ frames # <<>> /\ DataGrows
    BY <1>2 DEF Works
  <2>2. PICK f : GoesOn(f)
    BY <1>2 DEF Works
  <2>3. Waiting'
    BY <2>1, <2>2, WaitingWhenWorking DEF DataGrows
  <2>4. Came'
    BY <2>1, OnItsWay DEF Came
  <2> QED BY <2>3, <2>4
<1>3. CASE Enters
  <2>1. exc' = exc /\ ~Interrupted /\ frames # <<>> /\ DataGrows
    BY <1>3 DEF Enters
  <2>2. PICK f, g : WaitsFor(f, g)
    BY <1>3 DEF Enters
  <2>3. Waiting'
    BY <2>1, <2>2, WaitingWhenEntering DEF DataGrows
  <2>4. Came'
    BY <2>1, OnItsWay DEF Came
  <2> QED BY <2>3, <2>4
<1>4. CASE Leaves
  <2>1. Running /\ frames # <<>>
    BY <1>4 DEF Leaves
  <2>2. PICK b, e : Returns(b, e)
    BY <1>4 DEF Leaves
  <2>3. CASE Top.via = "invoke"
    <3>1. Waiting' /\ OutOfCall(Top)'
      BY <2>1, <2>2, <2>3, WaitingWhenReturned
    <3> QED BY <3>1 DEF Came
  <2>4. CASE Top.via # "invoke"
    <3>1. /\ ReturnByName(e) /\ e \in ExcSet(TheBoxes, MethodNames(classes))
          /\ Top.method \in MethodNames(classes)
      BY <2>1, <2>2, <2>4, LeftTyped, AtTop DEF Returns
    <3>2. exc' = [Extended(e, Top.method) EXCEPT !.byName = e.pending]
      BY <3>1 DEF ReturnByName
    <3>3. Like(exc', e, e.pending)
      BY <3>1, <3>2, OneMoreLike
    <3>4. Came'
      BY <3>3 DEF Like, Came
    <3> QED BY <3>4, <2>1, <2>2, <2>4, WaitingWhenLeft
  <2> QED BY <2>3, <2>4
<1> QED BY <1>1, <1>2, <1>3, <1>4 DEF Outcome

-----------------------------------------------------------------------------
(* Which handler an exception out of a call comes to.                      *)

(* The last byte of a call is in a range just when the call is.            *)
LEMMA CallCovered ==
    ASSUME Typed, Nested, Running, Came, frames # <<>>, exc.pending, ~exc.byName,
           NEW k \in DOMAIN Method.table
    PROVE  Covers(Method.table[k], CallAddress) <=>
             CallBefore(Method.code, Top.pc) \in Method.table[k].start..(Method.table[k].end - 1)
<1> DEFINE code == Method.code
           call == CallBefore(code, Top.pc)
           s == Method.table[k].start
           e == Method.table[k].end
           len == code[call].len
           E == [start : Int, end : Int, handler : Int, type : STRING]
           t == Method.table
<1>1. IsMethod(Method, DOMAIN classes) /\ Top.pc \in Int
  BY AtTop
<1>2. t \in Seq(E)
  BY <1>1 DEF IsMethod
<1> HIDE DEF t, E
<1>3. s \in Int /\ e \in Int
  <2>1. t[k] \in E
    BY <1>2 DEF t
  <2> QED BY <2>1 DEF E, t
<1>4. \E i \in DOMAIN code : i + code[i].len = Top.pc /\ code[i].op = "invoke"
  BY DEF Came, OutOfCall, Method
<1>5. call \in DOMAIN code /\ call + len = Top.pc /\ code[call].op = "invoke"
  BY <1>4 DEF CallBefore
<1> HIDE DEF call
<1>6. call \in Int /\ len \in Nat
  BY <1>1, <1>5 DEF IsMethod, IsInstr
<1>7. len > 0 /\ {s, e} \cap (call + 1)..(call + len - 1) = {}
  BY <1>1, <1>5 DEF IsMethod
<1>8. Covers(Method.table[k], CallAddress) <=> s <= Top.pc - 1 /\ Top.pc - 1 < e
  BY DEF Covers, CallAddress
<1> HIDE DEF s, e, len
<1>9. s \notin (call + 1)..(call + len - 1) /\ e \notin (call + 1)..(call + len - 1)
  BY <1>7
<1>10. (s <= call + len - 1 <=> s <= call) /\ (call + len - 1 < e <=> call <= e - 1)
  BY <1>3, <1>6, <1>7, <1>9
<1>11. (s <= Top.pc - 1 /\ Top.pc - 1 < e) <=> call \in s..(e - 1)
  BY <1>3, <1>5, <1>6, <1>10
<1> QED BY <1>8, <1>11 DEF call, s, e

(* The first entry that is for the call and the class is what              *)
(* handleException comes to, if it comes to no entry that it breaks at.    *)
LEMMA HandlerFound ==
    ASSUME Typed, Nested, Running, Came, frames # <<>>, exc.pending, ~exc.byName, NEW c,
           NEW handlers,
           handlers = {k \in DOMAIN Method.table :
                         /\ CallBefore(Method.code, Top.pc)
                              \in Method.table[k].start..(Method.table[k].end - 1)
                         /\ Method.table[k].type \in ToSet(Lineage(c))},
           NEW k, k = handleException(c, CallAddress)
    PROVE  /\ k = 0 => handlers = {}
           /\ k # 0 /\ ~Breaks(Method.table[k]) => handlers # {} /\ k = Min(handlers)
<1> DEFINE t == Method.table
           I == {i \in 1..Len(t) : Breaks(t[i]) \/
                   (hasInheritanceRelationship(c, t[i].type) /\ Covers(t[i], CallAddress))}
<1>1. IsMethod(Method, DOMAIN classes)
  BY AtTop
<1>2. DOMAIN t = 1..Len(t)
  BY <1>1 DEF IsMethod
<1>3. k = IF I # {} THEN Min(I) ELSE 0
  BY DEF handleException, SelectInSeq
<1>4. handlers = {i \in 1..Len(t) : hasInheritanceRelationship(c, t[i].type) /\ Covers(t[i], CallAddress)}
  BY <1>2, CallCovered DEF hasInheritanceRelationship
<1>5. I \in SUBSET Nat /\ handlers \subseteq I
  BY <1>4
<1>6. \A i \in I : ~Breaks(t[i]) => i \in handlers
  BY <1>4
<1>7. \A i \in I : i # 0
  OBVIOUS
<1> HIDE DEF I
<1>8. I # {} => Min(I) \in I /\ \A i \in I : Min(I) <= i
  BY <1>5, FirstPosition
<1>9. k = 0 => handlers = {}
  BY <1>3, <1>5, <1>7, <1>8
<1>10. ASSUME k # 0, ~Breaks(Method.table[k]) PROVE handlers # {} /\ k = Min(handlers)
  <2>1. I # {} /\ k \in I /\ \A i \in I : k <= i
    BY <1>10, <1>3, <1>8
  <2>2. k \in handlers
    BY <1>10, <1>6, <2>1
  <2>3. handlers \in SUBSET Nat /\ handlers # {}
    BY <1>5, <2>2
  <2>4. Min(handlers) \in handlers /\ \A i \in handlers : Min(handlers) <= i
    BY <2>3, FirstPosition
  <2>5. k <= Min(handlers) /\ Min(handlers) <= k /\ k \in Nat /\ Min(handlers) \in Nat
    BY <1>5, <2>1, <2>2, <2>4
  <2>6. k = Min(handlers)
    BY <2>5
  <2> QED BY <2>2, <2>6
<1> QED BY <1>9, <1>10

\* An exception out of a call goes to the handler in force, or leaves the method.
LEMMA RecoverTakes ==
    ASSUME Typed, Nested, Arrives, Came
    PROVE  HandlerTaken
<1> SUFFICES ASSUME Recover, ~exc.byName, status' = "runs" PROVE HandlerTaken
  BY DEF HandlerTaken
<1> DEFINE b == Popped("object", 0)
           c == exc.thrown.cls
           k == handleException(c, CallAddress)
           handlers == {i \in DOMAIN Method.table :
                          /\ CallBefore(Method.code, Top.pc)
                               \in Method.table[i].start..(Method.table[i].end - 1)
                          /\ Method.table[i].type \in ToSet(Lineage(exc.thrown.cls))}
<1>1. Running /\ Interrupted /\ exc.pending
  BY DEF Recover, Interrupted
<1>2. /\ frames # <<>> /\ Len(frames) \in Nat \ {0} /\ Top = frames[Len(frames)]
      /\ Top \in FrameSet(classes, Len(boxes), loaded \cup inited)
      /\ Top.stack \in Seq(Ids) /\ 0 \in Nat /\ Top.method \in MethodNames(classes)
  BY <1>1, AtTop
<1>3. b # Null /\ boxes[b] = exc.thrown
  BY <1>1, <1>2, ThrownIsThere DEF ThrownArrives
<1>4. k = handleException(boxes[b].cls, CallAddress)
  BY <1>3
<1>5. /\ k = 0 => handlers = {}
      /\ k # 0 /\ ~Breaks(Method.table[k]) => handlers # {} /\ k = Min(handlers)
  <2> HIDE DEF k, handlers
  <2> QED BY <1>1, <1>2, HandlerFound DEF k, handlers
<1>6. \/ Ends("throws") \/ Ends("undefined")
      \/ /\ k # 0 /\ ~Breaks(Method.table[k])
         /\ Handles(b, Method.table[k].handler - 1)
         /\ exc' = [NoException EXCEPT !.thrown = exc.thrown]
      \/ k = 0 /\ ReturnWith(b, exc)
  BY <1>4 DEF Recover
<1> HIDE DEF k, b
<1>7. ~Ends("throws") /\ ~Ends("undefined")
  BY DEF Ends
<1>8. CASE /\ k # 0 /\ ~Breaks(Method.table[k])
           /\ Handles(b, Method.table[k].handler - 1)
           /\ exc' = [NoException EXCEPT !.thrown = exc.thrown]
  <2>1. handlers # {} /\ k = Min(handlers)
    BY <1>5, <1>8
  <2> DEFINE f == [Top EXCEPT !.stack = <<b>>, !.pc = Method.table[k].handler - 1, !.resumed = FALSE]
             n == Len(frames)
  <2>2. frames' = [frames EXCEPT ![n] = f]
    BY <1>8 DEF Handles, SetTop
  <2>3. f.pc = Method.table[k].handler - 1
    BY <1>2 DEF FrameSet
  <2>4. Len(frames') = n /\ Last(frames') = f
    <3> DEFINE F == FrameSet(classes, Len(boxes), loaded \cup inited) \cup {f}
    <3>1. frames \in Seq(F) /\ f \in F
      <4>1. frames \in Seq(FrameSet(classes, Len(boxes), loaded \cup inited))
        BY DEF Typed
      <4> HIDE DEF f
      <4>2. FrameSet(classes, Len(boxes), loaded \cup inited) \subseteq F
        OBVIOUS
      <4> QED BY <4>1, <4>2, SeqGrows
    <3> HIDE DEF f, F
    <3> QED BY <3>1, <2>2, <1>2 DEF Last
  <2>5. ~exc'.pending
    BY <1>8 DEF NoException
  <2> HIDE DEF f
  <2> QED BY <2>1, <2>3, <2>4, <2>5 DEF HandlerTaken
<1>9. CASE k = 0 /\ ReturnWith(b, exc)
  <2>1. handlers = {}
    BY <1>5, <1>9
  <2>2. b \in Ids
    BY <1>2, Taken DEF b
  <2>3. exc \in ExcSet(TheBoxes, MethodNames(classes))
    BY DEF Typed
  <2>4. Returns(b, exc)
    BY <1>3, <1>9, <2>2, <2>3 DEF Returns, b
  <2>5. exc'.pending /\ Len(frames') < Len(frames)
    <3>1. CASE Top.via = "invoke"
      <4>1. ReturnToCaller(b, exc) /\ Len(frames) > 1
        BY <1>1, <1>2, <2>4, <3>1, ReturnedTyped
      <4>2. Len(frames') = Len(frames) - 1
        BY <4>1, <1>2, FramesReturned
      <4>3. Like(exc', exc, exc.byName)
        BY <4>1, <2>3, OneMoreLike DEF ReturnToCaller
      <4> QED BY <4>2, <4>3, <1>1, <1>2 DEF Like
    <3>2. CASE Top.via # "invoke"
      <4>1. ReturnByName(exc)
        BY <1>1, <1>2, <2>4, <3>2, LeftTyped
      <4>2. Len(frames') = Len(frames) - 1
        BY <4>1, <1>2, FramesLeft
      <4>3. Like(exc', exc, exc.pending)
        BY <4>1, <2>3, OneMoreLike DEF ReturnByName
      <4> QED BY <4>2, <4>3, <1>1, <1>2 DEF Like
    <3> QED BY <3>1, <3>2
  <2> QED BY <2>1, <2>5 DEF HandlerTaken
<1> QED BY <1>6, <1>7, <1>8, <1>9

-----------------------------------------------------------------------------
(* The invariant holds when callMain has put main and the <clinit> of its  *)
(* class on the stack ...                                                  *)
LEMMA InitInv ==
    ASSUME Init
    PROVE  Inv
<1> DEFINE called(m) == Frame(Main, m, Empty(classes[Main].methods[m].maxLocals),
                              classes[Main].methods[m].maxStack, "name")
<1>1. Typed /\ Nested
  BY InitTyped
<1>2. exc = NoException /\ exposed = {}
  BY DEF Init
<1>3. Arrives
  BY <1>2 DEF Arrives, NoException
<1>4. \A m : called(m).stack = <<>> /\ Range(called(m).locals) \subseteq {Null}
  BY DEF Frame, Empty, Range
<1>5. frames = <<called("main")>> \o IF "<clinit>" \in DOMAIN classes[Main].methods
                                     THEN <<called("<clinit>")>> ELSE <<>>
  BY DEF Init
<1> HIDE DEF called
<1>6. \A k \in 1..Len(frames) : frames[k].stack = <<>> /\ Range(frames[k].locals) \subseteq Shared
  <2>1. CASE "<clinit>" \in DOMAIN classes[Main].methods
    <3> DEFINE x == called("main")
               y == called("<clinit>")
               S == {x, y}
    <3>1. frames = <<x>> \o <<y>> /\ <<x>> \in Seq(S) /\ <<y>> \in Seq(S)
      BY <2>1, <1>5
    <3> HIDE DEF x, y, S
    <3>2. /\ Len(frames) = 2
          /\ \A i \in 1..1 : frames[i] = <<x>>[i]
          /\ \A i \in 2..2 : frames[i] = <<y>>[i - 1]
      BY <3>1, Concatenated
    <3>3. frames[1] = x /\ frames[2] = y /\ \A k \in 1..Len(frames) : k = 1 \/ k = 2
      BY <3>2
    <3> QED BY <3>3, <1>4 DEF Shared, x, y
  <2>2. CASE "<clinit>" \notin DOMAIN classes[Main].methods
    <3>1. frames = <<called("main")>>
      BY <2>2, <1>5
    <3> QED BY <3>1, <1>4 DEF Shared
  <2> QED BY <2>1, <2>2
<1>7. \A k \in 1..Len(frames) : Apart(frames[k], Shared) /\ Distinct(frames[k], Shared)
  BY <1>6, EmptyStack
<1>8. Owned
  BY <1>6, <1>7 DEF Owned, Clear
<1>9. Came
  BY <1>2 DEF Came, NoException
<1>10. Waiting
  <2>1. CASE "<clinit>" \in DOMAIN classes[Main].methods
    <3> DEFINE x == called("main")
               y == called("<clinit>")
               S == {x, y}
    <3>1. frames = <<x>> \o <<y>> /\ <<x>> \in Seq(S) /\ <<y>> \in Seq(S)
      BY <2>1, <1>5
    <3>2. y.via = "name"
      BY DEF Frame, called
    <3> HIDE DEF x, y, S
    <3>3. Len(frames) = 2 /\ \A i \in 2..2 : frames[i] = <<y>>[i - 1]
      BY <3>1, Concatenated
    <3>4. \A k \in 1..(Len(frames) - 1) : k + 1 = 2
      BY <3>3
    <3> QED BY <3>2, <3>3, <3>4 DEF Waiting
  <2>2. CASE "<clinit>" \notin DOMAIN classes[Main].methods
    <3>1. Len(frames) = 1
      BY <2>2, <1>5
    <3> QED BY <3>1 DEF Waiting
  <2> QED BY <2>1, <2>2
<1> QED BY <1>1, <1>3, <1>8, <1>9, <1>10 DEF Inv

(* ... every round of the loop of execByteCode keeps it ...                *)
LEMMA StepInv ==
    ASSUME Inv, Next
    PROVE  Inv' /\ LocalsStay
<1>1. Typed /\ Nested /\ Arrives /\ Owned /\ Waiting /\ Came
  BY DEF Inv
<1>2. Outcome
  BY <1>1, StepKinds
<1>3. Typed' /\ Nested'
  BY <1>1, <1>2, HaltsTyped, WorksTyped, EntersTyped, LeavesTyped DEF Outcome
<1>4. Arrives' /\ Owned' /\ LocalsStay
  BY <1>1, <1>2, ArrivesKept, OwnedKept
<1>5. Waiting' /\ Came'
  BY <1>1, <1>2, WaitingKept
<1> QED BY <1>3, <1>4, <1>5 DEF Inv

(* ... and so does nothing happening.                                      *)
LEMMA StutterInv ==
    ASSUME Inv, UNCHANGED vars
    PROVE  Inv'
<1>1. /\ UNCHANGED <<classes, statics, objects, arrays, loaded, inited, exposed>>
      /\ UNCHANGED <<frames, boxes, exc, status>>
  BY DEF vars, data
<1>2. Typed' /\ Nested'
  BY <1>1 DEF Inv, Typed, Nested, TheBoxes, Ids, Running
<1>3. Arrives' /\ Owned'
  BY <1>1 DEF Inv, Arrives, Owned, Shared, Interrupted, Top
<1>4. Waiting' /\ Came'
  BY <1>1 DEF Inv, Waiting, Came, OutOfCall, Top
<1> QED BY <1>2, <1>3, <1>4 DEF Inv

(* Whatever program runs: boxes and frames have their types; frames below  *)
(* the top are at the call they wait for; an exception that comes out of a *)
(* call has its object on the stack; and no two frames have a box in       *)
(* common that could be written to through both.                           *)
THEOREM Invariance == Spec => []Inv
<1>1. Init => Inv
  BY InitInv
<1>2. Inv /\ [Next]_vars => Inv'
  BY StepInv, StutterInv
<1> QED BY <1>1, <1>2, PTL DEF Spec

(* What the invariant says of types, in the words of the model.            *)
LEMMA InvWellTyped ==
    ASSUME Typed, Nested
    PROVE  WellTyped
<1>1. Len(objects) \in Nat /\ Len(arrays) \in Nat /\ Len(boxes) \in Nat /\ Len(frames) \in Nat
      /\ classes \in Programs
  BY TypedFacts
<1>2. BoxesTyped
  <2> SUFFICES ASSUME NEW i \in DOMAIN boxes
               PROVE  /\ boxes[i].type \in NumTypes => boxes[i].val \in ValuesOf(boxes[i].type)
                      /\ boxes[i].type = "object" =>
                           boxes[i].val \in DOMAIN objects /\ boxes[i].cls \in loaded
                      /\ boxes[i].type = "array" => boxes[i].val \in DOMAIN arrays
    BY DEF BoxesTyped
  <2> DEFINE b == boxes[i]
  <2>1. b \in TheBoxes
    BY DEF Typed
  <2> HIDE DEF b
  <2>2. /\ b.type \in NumTypes => b.val \in ValuesOf(b.type)
        /\ b.type = "object" => /\ b.val \in 1..Len(objects) /\ b.cls \in DOMAIN classes
                                /\ ToSet(LineageIn(classes, b.cls)) \subseteq loaded
        /\ b.type = "array" => b.val \in 1..Len(arrays)
    BY <1>1, <2>1, BoxFacts DEF TheBoxes
  <2>3. DOMAIN objects = 1..Len(objects) /\ DOMAIN arrays = 1..Len(arrays)
    BY DEF Typed
  <2>4. b.cls \in DOMAIN classes => b.cls \in ToSet(LineageIn(classes, b.cls))
    BY <1>1, Classes, Lines
  <2> QED BY <2>2, <2>3, <2>4 DEF b
<1>3. HoldersTyped
  <2>1. Ids = 0..Len(boxes) /\ DOMAIN frames = 1..Len(frames)
    BY DEF Ids, Typed
  <2>2. \A k \in DOMAIN frames :
          Range(frames[k].locals) \subseteq Ids /\ ToSet(frames[k].stack) \subseteq Ids
    BY <2>1, HeldThere DEF Held
  <2>3. Range(statics) \subseteq Ids
    BY DEF Range, Typed
  <2>4. ASSUME NEW o \in DOMAIN objects PROVE Range(objects[o]) \subseteq Ids
    <3>1. objects[o] \in ObjectSet(classes, Len(boxes))
      BY DEF Typed
    <3>2. PICK D : objects[o] \in [D -> Ids]
      BY <3>1 DEF ObjectSet, Ids
    <3> QED BY <3>2 DEF Range
  <2>5. ASSUME NEW a \in DOMAIN arrays PROVE ToSet(arrays[a]) \subseteq Ids
    <3>1. arrays[a] \in ArraySet(Len(boxes))
      BY DEF Typed
    <3>2. arrays[a] \in Seq(Ids)
      BY <3>1 DEF ArraySet, Ids
    <3> QED BY <3>2 DEF ToSet
  <2>6. exposed \subseteq Ids
    BY DEF Typed
  <2> QED BY <2>1, <2>2, <2>3, <2>4, <2>5, <2>6 DEF HoldersTyped
<1>4. FramesTyped
  <2> SUFFICES ASSUME NEW k \in DOMAIN frames
               PROVE  /\ frames[k].cls \in loaded \cup inited
                      /\ frames[k].method \in DOMAIN classes[frames[k].cls].methods
                      /\ frames[k].pc \in Int
                      /\ k < Len(frames) =>
                           frames[k].pc \in DOMAIN classes[frames[k].cls].methods[frames[k].method].code
    BY DEF FramesTyped
  <2> DEFINE F == FrameSet(classes, Len(boxes), loaded \cup inited)
  <2>1. frames \in Seq(F)
    BY DEF Typed
  <2> HIDE DEF F
  <2>2. frames[k] \in F /\ k \in 1..Len(frames)
    BY <2>1
  <2>3. /\ frames[k].cls \in loaded \cup inited
        /\ frames[k].method \in DOMAIN classes[frames[k].cls].methods /\ frames[k].pc \in Int
    BY <2>2, <1>1, FrameFacts DEF F
  <2>4. k < Len(frames) => k \in 1..(Len(frames) - 1)
    BY <2>2, <1>1
  <2> QED BY <2>3, <2>4 DEF Nested
<1>5. /\ loaded \subseteq DOMAIN classes /\ inited \subseteq DOMAIN classes
      /\ status \in {"runs", "done", "throws", "exits", "undefined"}
  BY DEF Typed
<1> QED BY <1>2, <1>3, <1>4, <1>5 DEF WellTyped

(* Numbers stay in the range of their type through every instruction,      *)
(* references lead to objects and arrays there are, and every stack, local *)
(* variable, static, field and element holds null or a box there is        *)
(* (Interpreter.cpp:98-1310).                                              *)
THEOREM WellTypedHolds == Spec => []WellTyped
<1>1. Inv => WellTyped
  BY InvWellTyped DEF Inv
<1> QED BY <1>1, Invariance, PTL

(* The frame an exception comes to finds the object that was thrown on top *)
(* of its stack, through however many calls it came, with and without      *)
(* results (Interpreter.cpp:79-96 and 1894-1903).                          *)
THEOREM ThrownArrivesHolds == Spec => []ThrownArrives
<1>1. Inv => ThrownArrives
  BY ThrownIsThere DEF Inv
<1> QED BY <1>1, Invariance, PTL

(* What runs above a method leaves its local variables alone, although     *)
(* they are boxes that instructions write to, unless the method got the    *)
(* box from a static variable or an array (Interpreter.cpp:1596-1634).     *)
THEOREM LocalsPrivateHolds == Spec => LocalsPrivate
<1>1. Inv /\ [Next]_vars => [LocalsStay]_vars
  BY StepInv
<1>2. Spec => [][LocalsStay]_vars
  BY <1>1, Invariance, PTL DEF Spec
<1> QED BY <1>2 DEF LocalsStay, LocalsPrivate

(* handleException, given the address of the last byte of a call, finds    *)
(* the first handler whose range has the call and whose class the          *)
(* exception is of, or gives the exception to the caller                   *)
(* (Interpreter.cpp:79-96 and 1454-1480).                                  *)
THEOREM HandlerInForceHolds == Spec => HandlerInForce
<1>1. Inv /\ [Next]_vars => [HandlerTaken]_vars
  BY RecoverTakes DEF Inv
<1>2. Spec => [][HandlerTaken]_vars
  BY <1>1, Invariance, PTL DEF Spec
<1> QED BY <1>2 DEF HandlerInForce

-----------------------------------------------------------------------------
(* Arithmetic.                                                             *)

\* An instruction has one action.
LEMMA OnlyBinary ==
    ASSUME At("binary"), Next
    PROVE  Binary
<1>1. Instr.op = "binary" /\ ~Interrupted
  BY DEF At
<1>2. ~Constants
  BY <1>1 DEF Constants, Unknown, Unsupported, Nop, ConstNull, Const, PushImmediate, At
<1>3. ~Moves
  BY <1>1 DEF Moves, Load, Store, Iinc, Pop, Dup, Swap, At
<1>4. ~Control
  BY <1>1 DEF Control, Goto, If, IfCompare, IfSame, IfNull, Switch, At
<1>5. ~Data
  BY <1>1 DEF Data, LoadConstant, ArrayLoad, ArrayStore, ArrayLength, NewArray, NewObjects,
              NewObject, GetStatic, PutStatic, GetField, PutField, InstanceOf, At
<1>6. ~Calls
  BY <1>1 DEF Calls, Return, Throw, Recover, InvokeInitializes, InvokeFails, InvokeMethod,
              InvokeNative, Callable, InvokeReady, At
<1>7. ~Negate /\ ~Convert /\ ~Compare
  BY <1>1 DEF Negate, Convert, Compare, At
<1> QED BY <1>2, <1>3, <1>4, <1>5, <1>6, <1>7 DEF Next, Numbers

\* Pushes leaves the box on top.
LEMMA PushedOnTop ==
    ASSUME Typed, Nested, NEW op, Ready(op), NEW k \in Nat, NEW box, Pushes(k, box)
    PROVE  boxes'[Last(Last(frames').stack)] = box
<1> DEFINE n == Len(frames)
           s == Drop(Top.stack, k) \o <<New(1)>>
           F == FrameSet(classes, Len(boxes), loaded \cup inited)
           f == [Top EXCEPT !.stack = s, !.pc = After, !.resumed = FALSE]
<1>1. frames' = SetTop(f) /\ boxes' = boxes \o <<box>>
  BY DEF Pushes, StackBecomes
<1>2. n \in Nat \ {0} /\ Top.stack \in Seq(Ids) /\ Top \in F
  BY DEF Ready
<1>3. Len(boxes) \in Nat /\ boxes \in Seq(TheBoxes)
  BY DEF Typed
<1>4. boxes'[New(1)] = box
  <2> DEFINE S == TheBoxes \cup {box}
  <2>1. boxes \in Seq(S) /\ <<box>> \in Seq(S)
    BY <1>3, SeqGrows
  <2> HIDE DEF S
  <2> QED BY <1>1, <1>3, <2>1, Concatenated DEF New
<1>5. s # <<>> /\ Last(s) = New(1)
  <2> DEFINE d == Drop(Top.stack, k)
             S == Ids \cup {New(1)}
  <2>1. d \in Seq(Ids)
    BY <1>2, Dropped
  <2> HIDE DEF d
  <2>2. d \in Seq(S) /\ <<New(1)>> \in Seq(S)
    BY <2>1, SeqGrows
  <2> HIDE DEF S
  <2>3. Len(s) = Len(d) + 1 /\ Len(d) \in Nat /\ s[Len(d) + 1] = New(1) /\ s \in Seq(S)
    BY <2>2, Concatenated DEF d
  <2> HIDE DEF s
  <2> QED BY <2>3 DEF Last
<1> HIDE DEF s
<1>6. f.stack = s
  <2>1. Top \in [cls : loaded \cup inited, method : MethodNames(classes), pc : Int,
                 locals : LocalsOf(Len(boxes)), stack : Seq(0..Len(boxes)), maxStack : Nat,
                 via : {"name", "invoke"}, resumed : BOOLEAN]
    BY <1>2 DEF F, FrameSet
  <2> QED BY <2>1
<1>7. Last(frames') = f
  <2> DEFINE S == F \cup {f}
  <2>1. frames \in Seq(S)
    BY SeqGrows DEF Typed
  <2>2. frames' = [frames EXCEPT ![n] = f]
    BY <1>1 DEF SetTop
  <2>3. f \in S
    OBVIOUS
  <2> HIDE DEF S, F, f
  <2>4. Len(frames') = n /\ frames'[n] = f
    BY <1>2, <2>1, <2>2, <2>3, SetLast
  <2> QED BY <1>2, <2>4 DEF Last
<1> QED BY <1>1, <1>4, <1>5, <1>6, <1>7

(* What binary arithmetic leaves on the stack is the number that Java      *)
(* says, and it leaves the loop only where it traps or is refused.         *)
LEMMA ComputesAsJava ==
    ASSUME Typed, Nested, Next
    PROVE  ComputesJava
<1> DEFINE x == Popped(Instr.t, 1)
           y == Popped(Instr.t, 0)
           t == Instr.t
           f == Instr.f
           a == Val(x)
           b == Val(y)
           done == boxes'[Last(Last(frames').stack)].val
<1> SUFFICES ASSUME At("binary"), t \in IntTypes, x # Null, y # Null
             PROVE  IF status' = "runs"
                    THEN KnownToDiffer(f, t, a, b) \/ done = JavaCalc(f, t, a, b)
                    ELSE Traps(f, t, a, b) \/ Refuses(f, a)
  BY DEF ComputesJava
<1>1. Ready("binary") /\ Binary /\ 0 \in Nat /\ 1 \in Nat /\ 2 \in Nat
  BY AtReady, OnlyBinary
<1>2. f \in IntOps /\ t \in NumTypes
  BY <1>1 DEF Ready, IsInstr
<1>3. OperandType = t
  BY DEF OperandType, IntTypes
<1>4. a \in Between(t) /\ b \in Between(t)
  BY <1>1, <1>2, ValuesOnStack DEF Between, ValuesOf
<1>5. CASE Traps(f, t, a, b)
  <2>1. Ends("undefined")
    BY <1>1, <1>3, <1>5 DEF Binary, Traps, Refuses
  <2> QED BY <2>1, <1>5 DEF Ends
<1>6. CASE ~Traps(f, t, a, b) /\ Refuses(f, a)
  <2>1. Ends("throws") \/ Ends("undefined")
    BY <1>1, <1>3, <1>6 DEF Binary
  <2> QED BY <2>1, <1>6 DEF Ends
<1>7. CASE ~Traps(f, t, a, b) /\ ~Refuses(f, a)
  <2> DEFINE box == Box(t, Calc(f, t, a, b))
  <2>1. Pushes(2, box)
    BY <1>1, <1>3, <1>7 DEF Binary
  <2>2. done = Calc(f, t, a, b)
    <3>1. box.val = Calc(f, t, a, b)
      BY DEF Box
    <3> HIDE DEF box
    <3>2. boxes'[Last(Last(frames').stack)] = box
      BY <1>1, <2>1, PushedOnTop
    <3> QED BY <3>1, <3>2
  <2>3. Calc(f, t, a, b) = IntCalc(f, t, a, b)
    BY DEF Calc
  <2>4. status' = "runs"
    BY <2>1 DEF Pushes, StackBecomes, At, Running
  <2>5. KnownToDiffer(f, t, a, b) \/ IntCalc(f, t, a, b) = JavaCalc(f, t, a, b)
    <3> HIDE DEF a, b, t, f, x, y
    <3> QED BY <1>2, <1>4, <1>7, MachineIsJava
  <2> HIDE DEF done
  <2> QED BY <2>2, <2>3, <2>4, <2>5
<1> QED BY <1>5, <1>6, <1>7

(* Every sum, difference, product, quotient, remainder, shift and bitwise  *)
(* combination of ints and longs that stays on the stack is the one of the *)
(* Java Language Specification, whatever the widths, but for KnownToDiffer *)
(* (Interpreter.cpp:664-796).                                              *)
THEOREM ArithmeticAgreesHolds == Spec => ArithmeticAgrees
<1>1. Inv /\ [Next]_vars => [ComputesJava]_vars
  BY ComputesAsJava DEF Inv
<1>2. Spec => [][ComputesJava]_vars
  BY <1>1, Invariance, PTL DEF Spec
<1> QED BY <1>2 DEF ArithmeticAgrees

-----------------------------------------------------------------------------
(* Arguments.                                                              *)

(* What a verifier of class files ensures before a method is called: the   *)
(* arguments are of the types that the descriptor declares, where arrays   *)
(* are objects, and methods of objects are called on objects.  The code    *)
(* has no verifier.                                                        *)
Verified ==
  InvokeMethod =>
    LET types == Declared(Instr.desc)
        given(k) == Below(Top.stack, Len(types) - k)
    IN /\ \A k \in DOMAIN types : given(k) # Null =>
            \/ boxes[given(k)].type = types[k]
            \/ types[k] = "object" /\ boxes[given(k)].type = "array"
       /\ Instr.kind # "static" /\ given(0) # Null => boxes[given(0)].type = "object"

\* A sequence's last element, one more, and the sequence before them.
LEMMA LastTwo ==
    ASSUME NEW S, NEW s \in Seq(S), s # <<>>, NEW f \in S, NEW g \in S
    PROVE  /\ Last(Append([s EXCEPT ![Len(s)] = f], g)) = g
           /\ Append([s EXCEPT ![Len(s)] = f], g)[Len(s)] = f
<1> DEFINE t == [s EXCEPT ![Len(s)] = f]
<1>1. t \in Seq(S) /\ Len(t) = Len(s) /\ t[Len(s)] = f /\ Len(s) \in Nat \ {0}
  BY SetLast
<1> HIDE DEF t
<1> DEFINE u == Append(t, g)
<1>2. Len(u) = Len(s) + 1 /\ u[Len(s) + 1] = g /\ u[Len(s)] = f
  BY <1>1
<1> HIDE DEF u
<1> QED BY <1>2 DEF Last, u, t

(* What InvokeMethod does to the frames: the arguments leave the stack of  *)
(* the caller, and the callee has them as local variables.                 *)
LEMMA ArgumentsMoved ==
    ASSUME Typed, Nested, InvokeMethod
    PROVE  /\ frames'[Len(frames)].stack = Drop(Top.stack, Arguments)
           /\ Len(Params) \in Nat /\ OnObject \in {0, 1}
           /\ \A i \in 0..(Arguments - 1) : Last(frames').locals[i] = Argument(i)
<1> DEFINE locals == [i \in 0..(MaxLocals - 1) |-> Argument(i)]
           f == [Top EXCEPT !.stack = Drop(@, Arguments), !.resumed = FALSE]
           g == Frame(Site, Instr.name, locals, Callee.maxStack, "invoke")
           F == FrameSet(classes, Len(boxes), loaded \cup inited)
           S == F \cup {f, g}
<1>1. /\ frames' = Append(SetTop(f), g) /\ InvokeReady /\ ~NoReceiver /\ Site # NoClass
      /\ ~Callee.native /\ Arguments <= MaxLocals
  BY DEF InvokeMethod, Callable
<1>2. /\ Ready("invoke") /\ Len(Params) \in Nat /\ Arguments \in Nat /\ OnObject \in {0, 1}
  BY <1>1, CallFacts DEF OnObject
<1>3. MaxLocals \in Nat
  BY <1>1, SiteLoaded DEF IsMethod, MaxLocals
<1>4. f.stack = Drop(Top.stack, Arguments)
  <2>1. Top \in [cls : loaded \cup inited, method : MethodNames(classes), pc : Int,
                 locals : LocalsOf(Len(boxes)), stack : Seq(0..Len(boxes)), maxStack : Nat,
                 via : {"name", "invoke"}, resumed : BOOLEAN]
    BY <1>2 DEF Ready, FrameSet
  <2> QED BY <2>1
<1>5. g.locals = locals
  BY DEF Frame
<1>6. Last(frames') = g /\ frames'[Len(frames)] = f
  <2>1. frames \in Seq(S) /\ frames # <<>>
    BY <1>2, SeqGrows DEF Typed, Ready
  <2>2. f \in S /\ g \in S
    OBVIOUS
  <2> HIDE DEF S, f, g
  <2> QED BY <1>1, <2>1, <2>2, LastTwo DEF SetTop
<1>7. ASSUME NEW i \in 0..(Arguments - 1) PROVE locals[i] = Argument(i)
  BY <1>1, <1>2, <1>3
<1> HIDE DEF f, g, locals
<1> QED BY <1>2, <1>4, <1>5, <1>6, <1>7

\* A value of the type, or none, is popped as it is.
LEMMA PoppedAsGiven ==
    ASSUME NEW t, NEW k,
           Below(Top.stack, k) # Null => boxes[Below(Top.stack, k)].type = t
    PROVE  Popped(t, k) = Below(Top.stack, k)
BY DEF Popped, As

(* Every argument comes to its local variable in a call of a verified      *)
(* program.                                                                *)
LEMMA PassedAsDeclared ==
    ASSUME Typed, Nested, Verified
    PROVE  ArgumentsPassed
<1> DEFINE types == Declared(Instr.desc)
           n == Len(types)
           given(k) == Below(Top.stack, n - k)
           arrayAsObject(k) == /\ types[k] = "object" /\ given(k) # Null
                               /\ boxes[given(k)].type = "array"
<1> SUFFICES ASSUME InvokeMethod, ~HasArrayOfClass(Instr.desc)
             PROVE  /\ \A k \in DOMAIN types :
                         arrayAsObject(k) \/ Last(frames').locals[k - 1 + OnObject] = given(k)
                    /\ Instr.kind # "static" => Last(frames').locals[0] = given(0)
                    /\ frames'[Len(frames)].stack = Drop(Top.stack, n + OnObject)
  BY DEF ArgumentsPassed
<1>1. IsDescriptor(Instr.desc)
  <2>1. Ready("invoke")
    BY CallFacts DEF InvokeMethod, Callable
  <2> QED BY <2>1 DEF Ready, IsInstr
<1>2. Params = types
  BY <1>1, PeeledAsDeclared DEF Params
<1>3. types \in Seq(ParamTypes)
  BY <1>1, <1>2, PeeledTypes DEF Params
<1>4. /\ \A k \in DOMAIN types : given(k) # Null =>
           \/ boxes[given(k)].type = types[k]
           \/ types[k] = "object" /\ boxes[given(k)].type = "array"
      /\ Instr.kind # "static" /\ given(0) # Null => boxes[given(0)].type = "object"
  BY DEF Verified
<1> HIDE DEF types
<1>5. /\ frames'[Len(frames)].stack = Drop(Top.stack, n + OnObject)
      /\ n \in Nat /\ OnObject \in {0, 1} /\ DOMAIN types = 1..n
      /\ \A i \in 0..(n + OnObject - 1) : Last(frames').locals[i] = Argument(i)
  BY <1>2, <1>3, ArgumentsMoved DEF Arguments
<1>6. ASSUME NEW k \in DOMAIN types, ~arrayAsObject(k)
      PROVE  Last(frames').locals[k - 1 + OnObject] = given(k)
  <2> DEFINE i == k - 1 + OnObject
  <2>1. i \in 0..(n + OnObject - 1) /\ i + 1 - OnObject = k /\ k # 0
    BY <1>5
  <2>2. Argument(i) = Popped(types[k], n - k)
    <3> HIDE DEF i
    <3> QED BY <1>2, <2>1 DEF Argument
  <2>3. Popped(types[k], n - k) = given(k)
    <3>1. given(k) # Null => boxes[given(k)].type = types[k]
      BY <1>4, <1>6
    <3> QED BY <3>1, PoppedAsGiven
  <2> HIDE DEF i, given
  <2>4. Last(frames').locals[i] = given(k)
    BY <1>5, <2>1, <2>2, <2>3
  <2> QED BY <2>4 DEF i
<1>7. ASSUME Instr.kind # "static" PROVE Last(frames').locals[0] = given(0)
  <2>1. OnObject = 1 /\ 0 \in 0..(n + OnObject - 1) /\ 0 + 1 - OnObject = 0 /\ n - 0 = n
    BY <1>5, <1>7 DEF OnObject
  <2>2. 0 \notin DOMAIN types
    BY <1>5
  <2>3. Argument(0) = Popped("object", n)
    BY <1>2, <2>1, <2>2 DEF Argument
  <2>4. Popped("object", n) = given(0)
    <3>1. given(0) = Below(Top.stack, n)
      BY <2>1
    <3>2. Below(Top.stack, n) # Null => boxes[Below(Top.stack, n)].type = "object"
      BY <1>4, <1>7, <3>1
    <3> QED BY <3>1, <3>2, PoppedAsGiven
  <2> HIDE DEF given
  <2> QED BY <1>5, <2>1, <2>3, <2>4
<1> HIDE DEF given, n
<1> QED BY <1>5, <1>6, <1>7 DEF n

(* In programs that a verifier lets pass, every argument of every call     *)
(* comes to the local variable that the callee looks for it in, and no     *)
(* more leave the caller's stack: what is passed is what the descriptor    *)
(* declares, whatever the descriptor, the stack and the program            *)
(* (Interpreter.cpp:1596-1634, Utils.cpp:140-234).                         *)
THEOREM ArgumentsArriveHolds == Spec /\ [][Verified]_vars => ArgumentsArrive
<1>1. Inv /\ [Next]_vars /\ [Verified]_vars => [ArgumentsPassed]_vars
  BY PassedAsDeclared DEF Inv
<1>2. Spec /\ [][Verified]_vars => [][ArgumentsPassed]_vars
  BY <1>1, Invariance, PTL DEF Spec
<1> QED BY <1>2 DEF ArgumentsArrive
=============================================================================
