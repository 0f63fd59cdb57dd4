-------------------------------- MODULE Money --------------------------------
(***************************************************************************)
(* checkoutservice/money/money.go (frontend/money/money.go is the same     *)
(* file): amounts of money as whole units plus nanos, 1/NanosMod of a      *)
(* unit.  The code has nanosMod = 10^9; here it is a parameter, so that    *)
(* TLC can check a small one and the proofs cover every one.               *)
(*                                                                         *)
(* int64 and int32 are unbounded integers here.  The nanos of two valid    *)
(* amounts add up to less than 2 * 10^9 < 2^31 and cannot wrap; the units  *)
(* would have to reach 2^63.                                               *)
(***************************************************************************)
EXTENDS Integers

CONSTANTS NanosMod,    \* nanos in a unit
          Currencies   \* currency codes

ASSUME NanosModAssumption == NanosMod \in Nat /\ NanosMod > 1

Money == [units: Int, nanos: Int, code: Currencies]

Zero(code) == [units |-> 0, nanos |-> 0, code |-> code]

\* The amount in nanos: the quantity every operation below is about.
Value(m) == m.units * NanosMod + m.nanos

(***************************************************************************)
(* Validity: the signs of units and nanos agree, and nanos is below one    *)
(* unit.                                                                   *)
(***************************************************************************)
signMatches(m) ==
    \/ m.nanos = 0
    \/ m.units = 0
    \/ (m.nanos < 0) = (m.units < 0)

validNanos(n) == -(NanosMod - 1) <= n /\ n <= NanosMod - 1

IsValid(m) == signMatches(m) /\ validNanos(m.nanos)

(***************************************************************************)
(* Sum.  Go's / and % round towards zero.                                  *)
(***************************************************************************)
TruncDiv(a, b) == IF a >= 0 THEN a \div b ELSE -((-a) \div b)
TruncMod(a, b) == a - b * TruncDiv(a, b)

\* The error Sum returns; the caller's Must panics on anything but "nil".
SumError(l, r) ==
    IF ~IsValid(l) \/ ~IsValid(r) THEN "ErrInvalidValue"
    ELSE IF l.code # r.code THEN "ErrMismatchingCurrency"
    ELSE "nil"

\* Mutant: no nanos counts as a different sign.
SameSignStrict(units, nanos) ==
    \/ units = 0 /\ nanos = 0
    \/ units > 0 /\ nanos > 0
    \/ units < 0 /\ nanos < 0

SameSign(units, nanos) ==
    \/ units = 0 /\ nanos = 0
    \/ units > 0 /\ nanos >= 0
    \/ units < 0 /\ nanos <= 0

\* Mutant: the carry is not added to the units.
SumNoCarry(l, r) ==
    [units |-> l.units + r.units,
     nanos |-> TruncMod(l.nanos + r.nanos, NanosMod), code |-> l.code]

\* Mutant: the carry is added to the units and left in the nanos.
SumKeepNanos(l, r) ==
    LET nanos == l.nanos + r.nanos
    IN  [units |-> l.units + r.units + TruncDiv(nanos, NanosMod),
         nanos |-> nanos, code |-> l.code]

\* The amount Sum returns when there is no error.
Sum(l, r) ==
    LET units == l.units + r.units
        nanos == l.nanos + r.nanos
    IN  IF SameSign(units, nanos)
          THEN [units |-> units + TruncDiv(nanos, NanosMod),
                nanos |-> TruncMod(nanos, NanosMod), code |-> l.code]
          ELSE IF units > 0
            THEN [units |-> units - 1, nanos |-> nanos + NanosMod, code |-> l.code]
            ELSE [units |-> units + 1, nanos |-> nanos - NanosMod, code |-> l.code]

=============================================================================
