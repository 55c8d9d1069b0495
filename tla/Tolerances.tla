------------------------------ MODULE Tolerances ------------------------------
(***************************************************************************)
(* Num<REAL>: comparisons and rounding with tolerances.  A number is an    *)
(* integer that counts units of 1/One, so that the tolerances are numbers  *)
(* too and nothing is lost as long as the product of two numbers is whole. *)
(***************************************************************************)
EXTENDS Integers

CONSTANTS
  One,       \* the number 1
  Zeta,      \* exact equality
  Epsilon    \* numerical equality

ASSUME TolerancesAssumption ==
  /\ One \in Nat \ {0} /\ One % 2 = 0
  /\ Zeta \in Nat /\ 10 * Zeta <= One
  /\ Epsilon \in Nat /\ 10 * Epsilon <= One

Magnitude(a) == IF a < 0 THEN -a ELSE a
Least(a, b)  == IF a <= b THEN a ELSE b
Most(a, b)   == IF a >= b THEN a ELSE b

Times(a, b) == (a * b) \div One

Floor(a) == a - (a % One)
Ceil(a)  == -Floor(-a)

(* Halves are rounded away from zero. *)
Round(a) == IF a < 0 THEN -Floor(-a + One \div 2) ELSE Floor(a + One \div 2)

IsZetaEq(a, b)    == Magnitude(a - b) <= Zeta
IsZetaGE(a, b)    == a - b >= -Zeta
IsZetaLT(a, b)    == a - b < -Zeta
IsZetaZero(a)     == Magnitude(a) <= Zeta
IsZetaIntegral(a) == IsZetaEq(a, Round(a))
IsEpsIntegral(a)  == Magnitude(a - Round(a)) <= Epsilon
EpsFloor(a)       == Floor(a + Epsilon)
EpsCeil(a)        == Ceil(a - Epsilon)
===============================================================================
