------------------------------- MODULE Values -------------------------------
(***************************************************************************)
(* What the arithmetic instructions compute from numbers (the lambdas and  *)
(* templates of interpreter/Interpreter.cpp and .hpp), and what the Java   *)
(* Language Specification says they compute.                               *)
(*                                                                         *)
(* Integers have the widths of Width, which stand for 8, 16, 32 and 64     *)
(* bits; those of int and long are powers of two.  A float or double is a  *)
(* whole number; any other number is Other.  An integer is rounded when it *)
(* becomes one, to as many binary digits as Mantissa says (24 and 53); the *)
(* arithmetic of floats and doubles is exact here.                         *)
(***************************************************************************)
EXTENDS Integers, FiniteSetsExt

CONSTANTS
  Width,      \* of "byte", "short", "int" and "long"
  Mantissa    \* of "float" and "double"

IntTypes == {"int", "long"}
NumTypes == IntTypes \cup {"float", "double"}
Wide     == {"long", "double"}

PowerOf2(n) == LET p[i \in 0..n] == IF i = 0 THEN 1 ELSE 2 * p[i - 1] IN p[n]

ASSUME ValuesAssumption ==
  /\ DOMAIN Width = {"byte", "short"} \cup IntTypes
  /\ \A t \in DOMAIN Width : Width[t] \in Nat \ {0}
  /\ Width["byte"] < Width["short"] /\ Width["short"] < Width["int"]
  /\ \A t \in IntTypes : \E k \in 0..Width[t] : Width[t] = PowerOf2(k)
  /\ DOMAIN Mantissa = {"float", "double"}
  /\ \A t \in DOMAIN Mantissa : Mantissa[t] \in Nat \ {0}
  /\ Width["int"] <= Mantissa["double"]

Least(t)    == -PowerOf2(Width[t] - 1)
Greatest(t) == PowerOf2(Width[t] - 1) - 1

ValuesOf(t) == IF t \in IntTypes THEN Least(t)..Greatest(t) ELSE Int

Unsigned(t, v) == v % PowerOf2(Width[t])

(* The two's complement number of type t that has the low bits of v.       *)
Wrap(t, v) == LET m == Unsigned(t, v)
              IN IF m > Greatest(t) THEN m - PowerOf2(Width[t]) ELSE m

Abs(v)  == IF v < 0 THEN -v ELSE v
Sign(v) == IF v < 0 THEN -1 ELSE IF v = 0 THEN 0 ELSE 1

(* Division that rounds toward zero, and its remainder.                    *)
Quotient(a, b)  == Sign(a) * Sign(b) * (Abs(a) \div Abs(b))
Remainder(a, b) == a - b * Quotient(a, b)

Bits(t, v) == {i \in 0..(Width[t] - 1) : (v \div PowerOf2(i)) % 2 = 1}

(* The number that has, of n bits, those of B.                             *)
OfBits(n, B) ==
  LET low[i \in 0..n] == IF i = 0 THEN 0
                         ELSE low[i - 1] + IF i - 1 \in B THEN PowerOf2(i - 1) ELSE 0
  IN low[n]

WithBits(t, B) == Wrap(t, OfBits(Width[t], B))

-----------------------------------------------------------------------------
(* Whole floating point numbers.                                           *)

Other == 1000000

(* What an integer is rounded to when it becomes a float or double t       *)
(* (cvtsi2sd): the nearest multiple of the power of two by which it is too *)
(* long, and of two that are as near the even one.                         *)
Rounded(t, v) ==
  LET excess == Cardinality({i \in 0..Width["long"] : PowerOf2(Mantissa[t] + i) <= Abs(v)})
      unit   == PowerOf2(excess)
      down   == Abs(v) \div unit
      rest   == Abs(v) % unit
      up     == 2 * rest > unit \/ (2 * rest = unit /\ down % 2 = 1)
  IN Sign(v) * unit * (IF up THEN down + 1 ELSE down)

(* The operand of a shift: pow() makes the other one a double.             *)
AsDouble(v) == Rounded("double", v)

(* static_cast from a double that pow() or floor() made: a number out of   *)
(* range becomes the least integer (cvttsd2si).                            *)
FromDouble(t, v) == IF v \in Least(t)..Greatest(t) THEN v ELSE Least(t)

FloatCalc(f, a, b) ==
  IF Other \in {a, b} \/ (f \in {"div", "rem"} /\ b = 0) THEN Other
  ELSE CASE f = "add" -> a + b
         [] f = "sub" -> a - b
         [] f = "mul" -> a * b
         [] f = "div" -> IF a % Abs(b) = 0 THEN Quotient(a, b) ELSE Other
         [] f = "rem" -> Remainder(a, b)

-----------------------------------------------------------------------------
(* binaryArithmetic on JInt and JLong.                                     *)

(* The processor traps.                                                    *)
Traps(f, t, a, b) ==
  /\ t \in IntTypes /\ f \in {"div", "rem"}
  /\ b = 0 \/ (a = Least(t) /\ b = -1)

(* throw runtime_error("0 is not handled")                                 *)
Refuses(f, a) == f = "ushr" /\ a = 0

(* Shift distances are masked; lushr of a negative number masks one of two *)
(* distances as if it were an int's.  (The distance of a long's shift is   *)
(* taken off the stack as a long, which it never is: see Binary.)          *)
Distance(t, b) == b % Width[t]

LogicalShift(t, a, b) ==
  LET s == Distance(t, b)
  IN IF a > 0 THEN a \div PowerOf2(s)
     ELSE Wrap(t, a \div PowerOf2(Distance("int", b)) + PowerOf2(Width[t] - s))

(* Mutant of IntCalc: an arithmetic shift rounds toward zero.              *)
IntCalcDivides(f, t, a, b) ==
  CASE f = "add"  -> Wrap(t, a + b)
    [] f = "sub"  -> Wrap(t, a - b)
    [] f = "mul"  -> Wrap(t, a * b)
    [] f = "div"  -> Quotient(a, b)
    [] f = "rem"  -> Remainder(a, b)
    [] f = "shl"  -> FromDouble(t, AsDouble(a) * PowerOf2(Distance(t, b)))
    [] f = "shr"  -> FromDouble(t, Quotient(AsDouble(a), PowerOf2(Distance(t, b))))
    [] f = "ushr" -> LogicalShift(t, a, b)
    [] f = "and"  -> WithBits(t, Bits(t, a) \cap Bits(t, b))
    [] f = "or"   -> WithBits(t, Bits(t, a) \cup Bits(t, b))
    [] f = "xor"  -> WithBits(t, SymDiff(Bits(t, a), Bits(t, b)))

IntCalc(f, t, a, b) ==
  CASE f = "add"  -> Wrap(t, a + b)
    [] f = "sub"  -> Wrap(t, a - b)
    [] f = "mul"  -> Wrap(t, a * b)
    [] f = "div"  -> Quotient(a, b)
    [] f = "rem"  -> Remainder(a, b)
    [] f = "shl"  -> FromDouble(t, AsDouble(a) * PowerOf2(Distance(t, b)))
    [] f = "shr"  -> FromDouble(t, AsDouble(a) \div PowerOf2(Distance(t, b)))
    [] f = "ushr" -> LogicalShift(t, a, b)
    [] f = "and"  -> WithBits(t, Bits(t, a) \cap Bits(t, b))
    [] f = "or"   -> WithBits(t, Bits(t, a) \cup Bits(t, b))
    [] f = "xor"  -> WithBits(t, SymDiff(Bits(t, a), Bits(t, b)))

FloatOps == {"add", "sub", "mul", "div", "rem"}
IntOps   == FloatOps \cup {"shl", "shr", "ushr", "and", "or", "xor"}

Calc(f, t, a, b) == IF t \in IntTypes THEN IntCalc(f, t, a, b) ELSE FloatCalc(f, a, b)

(* ineg ... dneg.                                                          *)
Negated(t, a) == IF t \in IntTypes THEN Wrap(t, -a) ELSE FloatCalc("mul", -1, a)

(* typeCast, and i2b, i2s; i2c is i2b.                                     *)
Cast(from, to, a) ==
  CASE to \in {"byte", "char"}                     -> Wrap("byte", a)
    [] to = "short"                                -> Wrap("short", a)
    [] from \in IntTypes /\ to \in IntTypes        -> Wrap(to, a)
    [] from \notin IntTypes /\ to \in IntTypes     -> FromDouble(to, a)
    [] from \in IntTypes /\ to \in {"float", "double"}    -> Rounded(to, a)
    [] from \notin IntTypes /\ to \in {"float", "double"} -> a

(* lcmp, fcmpl and fcmpg, dcmpl and dcmpg: the results it may have.        *)
Comparisons(a, b) == IF Other \in {a, b} THEN -1..1 ELSE {Sign(a - b)}

Condition(f, a) ==
  CASE f = "eq" -> a = 0
    [] f = "ne" -> a # 0
    [] f = "lt" -> a < 0
    [] f = "ge" -> a >= 0
    [] f = "gt" -> a > 0
    [] f = "le" -> a <= 0

-----------------------------------------------------------------------------
(* The Java Language Specification (15.17 to 15.22), on the unsigned       *)
(* representation where it can be said there.                              *)
JavaCalc(f, t, a, b) ==
  LET u == Unsigned(t, a)
      s == Unsigned(t, b) % Width[t]
      bits(v) == {i \in 0..(Width[t] - 1) : (Unsigned(t, v) \div PowerOf2(i)) % 2 = 1}
      m == PowerOf2(Width[t])
      number(S) == CHOOSE n \in 0..(m - 1) : bits(n) = S
      result ==
        CASE f = "add"  -> u + Unsigned(t, b)
          [] f = "sub"  -> m + u - Unsigned(t, b)
          [] f = "mul"  -> u * Unsigned(t, b)
          [] f = "div"  -> CHOOSE q \in -m..m : /\ Abs(q * b) <= Abs(a)
                                                /\ Abs(a) < Abs(q * b) + Abs(b)
                                                /\ q = 0 \/ Sign(q) = Sign(a) * Sign(b)
          [] f = "rem"  -> CHOOSE r \in -m..m : /\ Abs(r) < Abs(b) /\ r * a >= 0
                                                /\ \E q \in -m..m : a = q * b + r
          [] f = "shl"  -> u * PowerOf2(s)
          [] f = "shr"  -> CHOOSE q \in -m..m : q * PowerOf2(s) <= a /\ a < (q + 1) * PowerOf2(s)
          [] f = "ushr" -> u \div PowerOf2(s)
          [] f = "and"  -> number(bits(a) \cap bits(b))
          [] f = "or"   -> number(bits(a) \cup bits(b))
          [] f = "xor"  -> number((bits(a) \cup bits(b)) \ (bits(a) \cap bits(b)))
      r == result % m
  IN IF r >= m \div 2 THEN r - m ELSE r

(* Where the machine is known to differ: a shift of a number that no       *)
(* double is, which only a long can be; a left shift that does not fit;    *)
(* lushr of a negative number by a distance that an int's shift would mask *)
(* otherwise.                                                              *)
KnownToDiffer(f, t, a, b) ==
  \/ f \in {"shl", "shr"} /\ AsDouble(a) # a
  \/ f = "shl" /\ a * PowerOf2(Distance(t, b)) \notin Least(t)..Greatest(t)
  \/ f = "ushr" /\ a < 0 /\ Distance("int", b) # Distance(t, b)
=============================================================================
