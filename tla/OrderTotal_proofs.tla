-------------------------- MODULE OrderTotal_proofs --------------------------
(***************************************************************************)
(* What Sum does, for every NanosMod and all valid amounts, and the totals *)
(* of an order of any length, any quantities and any prices that are valid *)
(* and not negative.                                                       *)
(***************************************************************************)
EXTENDS OrderTotal, SequenceTheorems, WellFoundedInduction, TLAPS

\* The nanos of two valid amounts carry at most one unit, either way.
LEMMA TruncDivSmall ==
    ASSUME NEW a \in Int, -2 * NanosMod < a, a < 2 * NanosMod
    PROVE  TruncDiv(a, NanosMod) = IF a >= NanosMod THEN 1
                                   ELSE IF a <= -NanosMod THEN -1 ELSE 0
<1> DEFINE N == NanosMod
<1>0. N \in Nat /\ N > 1
    BY NanosModAssumption
<1>1. ASSUME NEW b \in Nat, b < 2 * N PROVE b \div N = IF b >= N THEN 1 ELSE 0
    <2>1. CASE b < N
        BY <1>0, <2>1
    <2>2. CASE b >= N
        BY <1>0, <1>1, <2>2
    <2> QED BY <2>1, <2>2, <1>0
<1>2. CASE a >= 0
    BY <1>0, <1>1, <1>2 DEF TruncDiv
<1>3. CASE a < 0
    <2>1. -a \in Nat /\ -a < 2 * N /\ -a > 0
        BY <1>0, <1>3
    <2>2. (-a) \div N = IF -a >= N THEN 1 ELSE 0
        BY <1>1, <2>1
    <2> QED BY <1>0, <1>3, <2>2 DEF TruncDiv
<1> QED BY <1>2, <1>3

\* Sum as four cases without division: what the lemmas below are proved from.
LEMMA SumCases ==
    ASSUME NEW l \in Money, NEW r \in Money, IsValid(l), IsValid(r),
           NEW units, units = l.units + r.units,
           NEW nanos, nanos = l.nanos + r.nanos
    PROVE  LET s == Sum(l, r) IN
           /\ s \in Money
           /\ s.code = l.code
           /\ units \in Int /\ nanos \in Int
           /\ -2 * NanosMod < nanos /\ nanos < 2 * NanosMod
           /\ \/ SameSign(units, nanos) /\ nanos >= NanosMod
                   /\ s.units = units + 1 /\ s.nanos = nanos - NanosMod
              \/ SameSign(units, nanos) /\ nanos <= -NanosMod
                   /\ s.units = units - 1 /\ s.nanos = nanos + NanosMod
              \/ SameSign(units, nanos) /\ -NanosMod < nanos /\ nanos < NanosMod
                   /\ s.units = units /\ s.nanos = nanos
              \/ ~SameSign(units, nanos) /\ units > 0
                   /\ s.units = units - 1 /\ s.nanos = nanos + NanosMod
              \/ ~SameSign(units, nanos) /\ units <= 0
                   /\ s.units = units + 1 /\ s.nanos = nanos - NanosMod
<1>0. NanosMod \in Nat /\ NanosMod > 1
    BY NanosModAssumption
<1>1. /\ l.units \in Int /\ r.units \in Int /\ l.nanos \in Int /\ r.nanos \in Int
      /\ l.code \in Currencies
    BY DEF Money
<1>2. units \in Int /\ nanos \in Int /\ -2 * NanosMod < nanos /\ nanos < 2 * NanosMod
    BY <1>0, <1>1 DEF IsValid, validNanos
<1>3. CASE SameSign(units, nanos)
    <2>1. TruncDiv(nanos, NanosMod) = IF nanos >= NanosMod THEN 1
                                      ELSE IF nanos <= -NanosMod THEN -1 ELSE 0
        BY <1>2, TruncDivSmall
    <2>2. Sum(l, r) = [units |-> units + TruncDiv(nanos, NanosMod),
                       nanos |-> TruncMod(nanos, NanosMod), code |-> l.code]
        BY <1>3 DEF Sum
    <2> HIDE DEF Sum, TruncDiv
    <2>3. CASE nanos >= NanosMod
        <3>1. TruncDiv(nanos, NanosMod) = 1 /\ TruncMod(nanos, NanosMod) = nanos - NanosMod
            BY <1>0, <1>2, <2>1, <2>3 DEF TruncMod
        <3> QED BY <1>0, <1>1, <1>2, <1>3, <2>2, <2>3, <3>1 DEF Money
    <2>4. CASE nanos <= -NanosMod
        <3>1. TruncDiv(nanos, NanosMod) = -1 /\ TruncMod(nanos, NanosMod) = nanos + NanosMod
            BY <1>0, <1>2, <2>1, <2>4 DEF TruncMod
        <3> QED BY <1>0, <1>1, <1>2, <1>3, <2>2, <2>4, <3>1 DEF Money
    <2>5. CASE -NanosMod < nanos /\ nanos < NanosMod
        <3>1. TruncDiv(nanos, NanosMod) = 0 /\ TruncMod(nanos, NanosMod) = nanos
            BY <1>0, <1>2, <2>1, <2>5 DEF TruncMod
        <3> QED BY <1>0, <1>1, <1>2, <1>3, <2>2, <2>5, <3>1 DEF Money
    <2> QED BY <1>0, <1>2, <2>3, <2>4, <2>5
<1>4. CASE ~SameSign(units, nanos) /\ units > 0
    BY <1>0, <1>1, <1>2, <1>4 DEF Sum, Money
<1>5. CASE ~SameSign(units, nanos) /\ units <= 0
    BY <1>0, <1>1, <1>2, <1>5 DEF Sum, Money
<1> QED BY <1>2, <1>3, <1>4, <1>5

\* Sum of money.go never gains or loses a nano, whatever the signs, carries
\* and borrows.
THEOREM SumPreservesValue ==
    ASSUME NEW l \in Money, NEW r \in Money, IsValid(l), IsValid(r)
    PROVE  Sum(l, r) \in Money /\ Value(Sum(l, r)) = Value(l) + Value(r)
<1> DEFINE units == l.units + r.units
           nanos == l.nanos + r.nanos
           s == Sum(l, r)
<1>0. NanosMod \in Nat /\ l.units \in Int /\ r.units \in Int /\ l.nanos \in Int /\ r.nanos \in Int
    BY NanosModAssumption DEF Money
<1>1. \/ s.units = units + 1 /\ s.nanos = nanos - NanosMod
      \/ s.units = units - 1 /\ s.nanos = nanos + NanosMod
      \/ s.units = units /\ s.nanos = nanos
    BY SumCases
<1>2. s \in Money
    BY SumCases
<1> HIDE DEF s
<1>3. s.units * NanosMod + s.nanos = units * NanosMod + nanos
    BY <1>0, <1>1
<1>4. units * NanosMod + nanos = Value(l) + Value(r)
    BY <1>0 DEF Value
<1> QED BY <1>2, <1>3, <1>4 DEF Value, s

LEMMA ProductBounds ==
    ASSUME NEW u \in Int
    PROVE  /\ u * NanosMod \in Int
           /\ u >= 1 => u * NanosMod >= NanosMod
           /\ u = 0 => u * NanosMod = 0
           /\ u <= -1 => u * NanosMod <= -NanosMod
<1>0. NanosMod \in Nat /\ NanosMod > 1
    BY NanosModAssumption
<1>1. ASSUME u >= 1 PROVE u * NanosMod >= NanosMod
    <2>1. (u - 1) * NanosMod >= 0
        BY <1>0, <1>1
    <2> QED BY <1>0, <2>1
<1>2. ASSUME u <= -1 PROVE u * NanosMod <= -NanosMod
    <2>1. (-u - 1) * NanosMod >= 0
        BY <1>0, <1>2
    <2> QED BY <1>0, <2>1
<1> QED BY <1>0, <1>1, <1>2

\* The sign of a valid amount is the sign of both its parts.
LEMMA SignOfParts ==
    ASSUME NEW m \in Money, IsValid(m)
    PROVE  /\ Value(m) \in Int
           /\ Value(m) >= 0 <=> m.units >= 0 /\ m.nanos >= 0
           /\ Value(m) <= 0 <=> m.units <= 0 /\ m.nanos <= 0
<1>0. /\ NanosMod \in Nat /\ NanosMod > 1
      /\ m.units \in Int /\ m.nanos \in Int
    BY NanosModAssumption DEF Money
<1>1. /\ m.nanos = 0 \/ m.units = 0 \/ (m.nanos < 0 <=> m.units < 0)
      /\ -(NanosMod - 1) <= m.nanos /\ m.nanos <= NanosMod - 1
    BY <1>0 DEF IsValid, signMatches, validNanos
<1> DEFINE p == m.units * NanosMod
<1>2. /\ p \in Int
      /\ m.units >= 1 => p >= NanosMod
      /\ m.units = 0 => p = 0
      /\ m.units <= -1 => p <= -NanosMod
    BY <1>0, ProductBounds
<1>3. Value(m) = p + m.nanos
    BY DEF Value
<1> HIDE DEF p
<1> QED BY <1>0, <1>1, <1>2, <1>3

\* Sum of two valid amounts that are not negative is not valid in one case
\* only: the units are zero, the nanos are not, and they do not carry.  The
\* result is then worth more than nothing and less than one unit.
THEOREM SumInvalidOnlyBelowOneUnit ==
    ASSUME NEW l \in Money, NEW r \in Money, IsValid(l), IsValid(r),
           Value(l) >= 0, Value(r) >= 0, ~IsValid(Sum(l, r))
    PROVE  0 < Value(Sum(l, r)) /\ Value(Sum(l, r)) < NanosMod
<1> DEFINE units == l.units + r.units
           nanos == l.nanos + r.nanos
           s == Sum(l, r)
<1>0. /\ NanosMod \in Nat /\ NanosMod > 1
      /\ l.units \in Int /\ r.units \in Int /\ l.nanos \in Int /\ r.nanos \in Int
    BY NanosModAssumption DEF Money
<1>1. units \in Nat /\ nanos \in Nat
    BY <1>0, SignOfParts
<1>2. /\ s \in Money
      /\ nanos < 2 * NanosMod
      /\ \/ SameSign(units, nanos) /\ nanos >= NanosMod
              /\ s.units = units + 1 /\ s.nanos = nanos - NanosMod
         \/ SameSign(units, nanos) /\ nanos <= -NanosMod
         \/ SameSign(units, nanos) /\ -NanosMod < nanos /\ nanos < NanosMod
              /\ s.units = units /\ s.nanos = nanos
         \/ ~SameSign(units, nanos) /\ units > 0
         \/ ~SameSign(units, nanos) /\ units <= 0
              /\ s.units = units + 1 /\ s.nanos = nanos - NanosMod
    BY SumCases
<1> HIDE DEF s
<1>3. ~(signMatches(s) /\ validNanos(s.nanos))
    BY DEF IsValid, s
<1>4. s.units = 1 /\ s.nanos = nanos - NanosMod /\ 0 < nanos /\ nanos < NanosMod
    BY <1>0, <1>1, <1>2, <1>3 DEF SameSign, signMatches, validNanos
<1>5. Value(s) = nanos
    BY <1>0, <1>1, <1>4 DEF Value
<1> QED BY <1>4, <1>5 DEF s

\* Two valid amounts worth the same have the same units and nanos: the total
\* the frontend shows is, digit for digit, the total that was charged.
THEOREM ValidRepresentationUnique ==
    ASSUME NEW l \in Money, NEW r \in Money, IsValid(l), IsValid(r), Value(l) = Value(r)
    PROVE  l.units = r.units /\ l.nanos = r.nanos
<1> DEFINE d == l.units - r.units
           p == d * NanosMod
<1>0. /\ NanosMod \in Nat /\ NanosMod > 1
      /\ l.units \in Int /\ r.units \in Int /\ l.nanos \in Int /\ r.nanos \in Int
      /\ d \in Int
    BY NanosModAssumption DEF Money
<1>1. p = r.nanos - l.nanos
    <2>1. l.units * NanosMod + l.nanos = r.units * NanosMod + r.nanos
        BY DEF Value
    <2>2. \A a, b, N \in Int : (a - b) * N = a * N - b * N /\ a * N \in Int /\ b * N \in Int
        OBVIOUS
    <2>3. /\ p = l.units * NanosMod - r.units * NanosMod
          /\ l.units * NanosMod \in Int /\ r.units * NanosMod \in Int
        BY <1>0, <2>2
    <2> HIDE DEF p
    <2> QED BY <1>0, <2>1, <2>3
<1>2. /\ -(NanosMod - 1) <= l.nanos /\ l.nanos <= NanosMod - 1
      /\ -(NanosMod - 1) <= r.nanos /\ r.nanos <= NanosMod - 1
    BY <1>0 DEF IsValid, validNanos
<1>3. (l.nanos >= 0 /\ r.nanos >= 0) \/ (l.nanos <= 0 /\ r.nanos <= 0)
    BY <1>0, SignOfParts
<1>4. /\ d >= 1 => p >= NanosMod
      /\ d = 0 => p = 0
      /\ d <= -1 => p <= -NanosMod
    BY <1>0, ProductBounds
<1>5. d = 0
    <2> HIDE DEF d, p
    <2> QED BY <1>0, <1>1, <1>2, <1>3, <1>4
<1>6. p = 0
    BY <1>4, <1>5
<1> QED BY <1>0, <1>1, <1>5, <1>6

-----------------------------------------------------------------------------
\* What the currency service returns is a valid amount that is not negative.
LEMMA Priced ==
    ASSUME NEW m \in Prices \cup Shippings
    PROVE  m \in Money /\ IsValid(m) /\ Value(m) \in Nat
<1>1. m \in Money /\ IsValid(m) /\ Value(m) >= 0
    BY OrderTotalAssumption
<1>2. Value(m) \in Int
    BY <1>1, SignOfParts
<1> QED BY <1>1, <1>2

LEMMA ZeroValue ==
    ASSUME NEW code \in Currencies
    PROVE  Zero(code) \in Money /\ IsValid(Zero(code)) /\ Value(Zero(code)) = 0
<1>1. NanosMod \in Nat /\ NanosMod > 1
    BY NanosModAssumption
<1> QED BY <1>1 DEF Zero, Money, IsValid, signMatches, validNanos, Value

\* Must either yields the sum of two valid amounts or panics.
LEMMA MustCases ==
    ASSUME NEW l, NEW r, NEW v, NEW next, Must(l, r, v, next)
    PROVE  \/ pc' = next /\ v = Sum(l, r) /\ IsValid(l) /\ IsValid(r) /\ l.code = r.code
           \/ pc' = "panicked" /\ v = l /\ SumError(l, r) # "nil"
BY DEF Must, SumError

-----------------------------------------------------------------------------
(***************************************************************************)
(* Types.  The loop indexes lines only inside the body.                    *)
(***************************************************************************)
Typed ==
    /\ TypeOK
    /\ lines \in Seq(Line)
    /\ i >= 1
    /\ pc = "multiply" => i <= Len(lines)

LEMMA LineTypes ==
    ASSUME Typed, i <= Len(lines)
    PROVE  /\ lines[i].cost \in Prices /\ lines[i].quantity \in Nat
           /\ lines[i].cost \in Money /\ IsValid(lines[i].cost)
           /\ Value(lines[i].cost) \in Nat
<1>1. lines[i] \in Line
    BY ElementOfSeq DEF Typed, TypeOK
<1>2. lines[i].cost \in Prices /\ lines[i].quantity \in Nat
    BY <1>1, OrderTotalAssumption DEF Line
<1> QED BY <1>2, Priced

LEMMA TypedInductive ==
    /\ Init => Typed
    /\ Typed /\ [Next]_vars => Typed'
<1>1. ASSUME Init PROVE Typed
    <2>1. shipping \in Money
        BY <1>1, Priced DEF Init
    <2>2. Zero(shipping.code) \in Money
        BY <2>1, ZeroValue DEF Money
    <2>3. lines \in Seq(Line)
        <3>1. PICK k \in 0..MaxLines : lines \in [1..k -> Line]
            BY <1>1 DEF Init
        <3>2. k \in Nat
            BY <3>1, OrderTotalAssumption
        <3> QED BY <3>1, <3>2
    <2> QED BY <1>1, <2>1, <2>2, <2>3 DEF Init, Typed, TypeOK, Handlers
<1>2. ASSUME Typed, [Next]_vars PROVE Typed'
    <2> USE <1>2 DEF Typed, TypeOK
    <2>0. shipping \in Money
        BY Priced
    <2>1. ASSUME NEW l \in Money, NEW r \in Money, NEW v, NEW next, Must(l, r, v, next)
          PROVE  v \in Money /\ pc' \in {next, "panicked"}
        BY <2>1, MustCases, SumPreservesValue
    <2>2. CASE AddShippingFirst
        BY <2>0, <2>1, <2>2 DEF AddShippingFirst
    <2>3. CASE NextLine
        BY <2>3, LineTypes DEF NextLine
    <2>4. CASE MultiplyStep
        BY <2>1, <2>4, LineTypes DEF MultiplyStep
    <2>5. CASE AddLine
        BY <2>1, <2>5 DEF AddLine
    <2>6. CASE LinesDone
        BY <2>6 DEF LinesDone
    <2>7. CASE AddShippingLast
        BY <2>0, <2>1, <2>7 DEF AddShippingLast
    <2>8. CASE UNCHANGED vars
        BY <2>8 DEF vars
    <2> QED BY <2>2, <2>3, <2>4, <2>5, <2>6, <2>7, <2>8 DEF Next
<1> QED BY <1>1, <1>2

\* The loops keep their types for any prices, quantities and number of lines.
THEOREM TotalTypeCorrect == Spec => []TypeOK
<1>1. Typed => TypeOK
    BY DEF Typed
<1> QED BY <1>1, TypedInductive, PTL DEF Spec

-----------------------------------------------------------------------------
(***************************************************************************)
(* Every line adds quantity times cost.  MultiplySlow's loop invariant:    *)
(* out has been added up quantity - n + 1 times.                           *)
(***************************************************************************)
Product ==
    pc = "multiply" =>
        \/ n = 0 /\ lines[i].quantity = 0 /\ out = lines[i].cost
        \/ n >= 1 /\ lines[i].quantity >= 1
           /\ Value(out) = (lines[i].quantity - n + 1) * Value(lines[i].cost)

LEMMA AddOnce ==
    ASSUME NEW k \in Int, NEW v \in Int
    PROVE  k * v + v = (k + 1) * v
OBVIOUS

LEMMA ProductInductive ==
    /\ Init => Product
    /\ Typed /\ Product /\ [Next]_vars => Product'
<1>1. Init => Product
    BY DEF Init, Product
<1>2. ASSUME Typed, Product, [Next]_vars PROVE Product'
    <2>1. CASE NextLine
        <3>1. lines[i].quantity \in Nat /\ Value(lines[i].cost) \in Nat
            BY <1>2, <2>1, LineTypes DEF NextLine
        <3>2. out' = lines[i].cost /\ n' = lines[i].quantity /\ lines' = lines /\ i' = i
            BY <2>1 DEF NextLine
        <3>3. Value(out)' = Value(lines[i].cost)
            BY <3>2 DEF Value
        <3>4. CASE n' = 0
            BY <3>2, <3>4 DEF Product
        <3>5. CASE n' # 0
            <4>1. n' >= 1 /\ lines'[i'].quantity >= 1
                  /\ (lines'[i'].quantity - n' + 1) = 1
                BY <3>1, <3>2, <3>5
            <4>2. Value(out)' = (lines'[i'].quantity - n' + 1) * Value(lines'[i'].cost)
                BY <3>1, <3>2, <3>3, <4>1
            <4> QED BY <3>2, <4>1, <4>2 DEF Product, Value
        <3> QED BY <3>4, <3>5
    <2>2. CASE MultiplyStep
        <3>1. /\ lines[i].quantity \in Nat /\ Value(lines[i].cost) \in Nat
              /\ lines[i].cost \in Money /\ IsValid(lines[i].cost)
              /\ out \in Money /\ n \in Nat
            BY <1>2, <2>2, LineTypes DEF MultiplyStep, Typed, TypeOK
        <3>2. n > 1 /\ n' = n - 1 /\ lines' = lines /\ i' = i
            BY <2>2 DEF MultiplyStep
        <3>3. Must(out, lines[i].cost, out', "multiply")
            BY <2>2 DEF MultiplyStep
        <3>4. CASE pc' = "multiply"
            <4>1. out' = Sum(out, lines[i].cost) /\ IsValid(out)
                BY <3>3, <3>4, MustCases
            <4>2. Value(out)' = Value(out) + Value(lines[i].cost)
                BY <3>1, <4>1, SumPreservesValue DEF Value
            <4>3. /\ lines[i].quantity >= 1
                  /\ Value(out) = (lines[i].quantity - n + 1) * Value(lines[i].cost)
                BY <1>2, <2>2, <3>2 DEF Product, MultiplyStep
            <4>4. (lines[i].quantity - n + 1) * Value(lines[i].cost) + Value(lines[i].cost)
                    = ((lines[i].quantity - n + 1) + 1) * Value(lines[i].cost)
                BY <3>1, AddOnce
            <4>5. lines[i].quantity - n' + 1 = (lines[i].quantity - n + 1) + 1
                BY <3>1, <3>2
            <4>6. Value(out)' = (lines[i].quantity - n' + 1) * Value(lines[i].cost)
                BY <4>2, <4>3, <4>4, <4>5
            <4> QED BY <3>1, <3>2, <4>3, <4>6 DEF Product, Value
        <3>5. CASE pc' # "multiply"
            BY <3>5 DEF Product
        <3> QED BY <3>4, <3>5
    <2>3. CASE UNCHANGED vars
        BY <1>2, <2>3 DEF Product, vars, Value
    <2>4. CASE AddShippingFirst \/ AddLine \/ LinesDone \/ AddShippingLast
        <3>1. pc' # "multiply"
            BY <2>4 DEF AddShippingFirst, AddLine, LinesDone, AddShippingLast, Must
        <3> QED BY <3>1 DEF Product
    <2> QED BY <1>2, <2>1, <2>2, <2>3, <2>4 DEF Next
<1> QED BY <1>1, <1>2

LEMMA LineStep ==
    ASSUME Typed, Product, [Next]_vars, i' # i, pc' # "panicked"
    PROVE  Value(total') = Value(total) + LineValue(lines[i])
<1>1. AddLine
    BY DEF Next, vars, AddShippingFirst, NextLine, MultiplyStep, LinesDone, AddShippingLast
<1>2. /\ lines[i].quantity \in Nat /\ Value(lines[i].cost) \in Nat
      /\ out \in Money /\ total \in Money /\ n \in Nat
    BY <1>1, LineTypes DEF AddLine, Typed, TypeOK
<1>3. total' = Sum(total, out) /\ IsValid(total) /\ IsValid(out)
    BY <1>1, MustCases DEF AddLine
<1>4. Value(total') = Value(total) + Value(out)
    BY <1>2, <1>3, SumPreservesValue
<1>5. Value(out) = LineValue(lines[i])
    <2>1. CASE n = 0
        <3>1. lines[i].quantity = 0 /\ out = lines[i].cost
            BY <1>1, <2>1 DEF Product, AddLine
        <3> QED BY <1>2, <3>1 DEF LineValue
    <2>2. CASE n # 0
        <3>1. n = 1
            BY <1>1, <1>2, <2>2 DEF AddLine
        <3>2. lines[i].quantity >= 1
              /\ Value(out) = (lines[i].quantity - n + 1) * Value(lines[i].cost)
            BY <1>1, <3>1 DEF Product, AddLine
        <3>3. lines[i].quantity - n + 1 = lines[i].quantity
            BY <1>2, <3>1
        <3>4. Value(out) = Value(lines[i].cost) * lines[i].quantity
            BY <1>2, <3>2, <3>3
        <3> QED BY <1>2, <3>2, <3>4 DEF LineValue
    <2> QED BY <2>1, <2>2
<1> QED BY <1>4, <1>5

\* Every line of every order adds exactly quantity times cost, and the cost
\* once where the quantity is zero.
THEOREM EveryLineExact == Spec => EachLineExact
<1>1. Typed /\ Product /\ [Next]_vars =>
        [i' # i /\ pc' # "panicked" => Value(total') = Value(total) + LineValue(lines[i])]_vars
    BY LineStep
<1> QED BY <1>1, TypedInductive, ProductInductive, PTL DEF Spec, EachLineExact

-----------------------------------------------------------------------------
(***************************************************************************)
(* Validity.  Amounts are not negative, and only those below one unit are  *)
(* in a form that IsValid refuses.                                         *)
(***************************************************************************)
Sound(m) ==
    /\ m \in Money
    /\ Value(m) \in Nat
    /\ ~IsValid(m) => 0 < Value(m) /\ Value(m) < NanosMod

Amounts == Sound(total) /\ Sound(out)

LEMMA SoundSum ==
    ASSUME NEW l, NEW r, NEW v, NEW next, Sound(l), Sound(r), Must(l, r, v, next)
    PROVE  Sound(v)
<1>1. CASE v = l
    BY <1>1
<1>2. CASE v = Sum(l, r) /\ IsValid(l) /\ IsValid(r)
    <2>1. v \in Money /\ Value(v) = Value(l) + Value(r)
        BY <1>2, SumPreservesValue DEF Sound
    <2>2. ~IsValid(v) => 0 < Value(v) /\ Value(v) < NanosMod
        BY <1>2, SumInvalidOnlyBelowOneUnit DEF Sound
    <2> QED BY <2>1, <2>2 DEF Sound
<1> QED BY <1>1, <1>2, MustCases

LEMMA AmountsInductive ==
    /\ Init => Amounts
    /\ Typed /\ Amounts /\ [Next]_vars => Amounts'
<1>1. ASSUME Init PROVE Amounts
    <2>1. Sound(shipping)
        BY <1>1, Priced DEF Init, Sound
    <2>2. Sound(Zero(shipping.code))
        BY <2>1, ZeroValue DEF Sound, Money
    <2> QED BY <1>1, <2>1, <2>2 DEF Init, Amounts
<1>2. ASSUME Typed, Amounts, [Next]_vars PROVE Amounts'
    <2> USE DEF Amounts
    <2>0. Sound(shipping)
        BY <1>2, Priced DEF Typed, TypeOK, Sound
    <2>1. ASSUME i <= Len(lines) PROVE Sound(lines[i].cost)
        BY <1>2, <2>1, LineTypes DEF Sound
    <2>2. CASE AddShippingFirst
        <3>1. Sound(total')
            BY <1>2, <2>0, <2>2, SoundSum DEF AddShippingFirst
        <3> QED BY <1>2, <2>2, <3>1 DEF AddShippingFirst, Sound, Value, IsValid, signMatches
    <2>3. CASE NextLine
        BY <1>2, <2>1, <2>3 DEF NextLine, Sound, Value, IsValid, signMatches
    <2>4. CASE MultiplyStep
        <3>1. Sound(out')
            BY <1>2, <2>1, <2>4, SoundSum DEF MultiplyStep, Typed
        <3> QED BY <1>2, <2>4, <3>1 DEF MultiplyStep, Sound, Value, IsValid, signMatches
    <2>5. CASE AddLine
        <3>1. Sound(total')
            BY <1>2, <2>5, SoundSum DEF AddLine
        <3> QED BY <1>2, <2>5, <3>1 DEF AddLine, Sound, Value, IsValid, signMatches
    <2>6. CASE LinesDone
        BY <1>2, <2>6 DEF LinesDone, Sound, Value, IsValid, signMatches
    <2>7. CASE AddShippingLast
        <3>1. Sound(total')
            BY <1>2, <2>0, <2>7, SoundSum DEF AddShippingLast
        <3> QED BY <1>2, <2>7, <3>1 DEF AddShippingLast, Sound, Value, IsValid, signMatches
    <2>8. CASE UNCHANGED vars
        BY <1>2, <2>8 DEF vars, Sound, Value, IsValid, signMatches
    <2> QED BY <1>2, <2>2, <2>3, <2>4, <2>5, <2>6, <2>7, <2>8 DEF Next
<1> QED BY <1>1, <1>2

\* Whatever is ordered, a total or a product that IsValid refuses is worth
\* less than one unit: no order of one unit or more is charged in a form the
\* payment service could misread.
THEOREM InvalidAlwaysBelowOneUnit == Spec => []InvalidOnlyBelowOneUnit
<1>1. Amounts => InvalidOnlyBelowOneUnit
    BY DEF Amounts, Sound, InvalidOnlyBelowOneUnit
<1> QED BY <1>1, TypedInductive, AmountsInductive, PTL DEF Spec

-----------------------------------------------------------------------------
(***************************************************************************)
(* Panics.  Nothing, and amounts of a unit or more, in one currency, are   *)
(* closed under Sum.                                                       *)
(***************************************************************************)
Whole(m, code) ==
    /\ m \in Money /\ IsValid(m) /\ Value(m) \in Nat
    /\ WholeUnit(m)
    /\ m.code = code

LEMMA WholeSum ==
    ASSUME NEW code, NEW l, NEW r, Whole(l, code), Whole(r, code)
    PROVE  SumError(l, r) = "nil" /\ Whole(Sum(l, r), code)
<1> DEFINE units == l.units + r.units
           nanos == l.nanos + r.nanos
           s == Sum(l, r)
<1>0. /\ NanosMod \in Nat /\ NanosMod > 1
      /\ l \in Money /\ r \in Money /\ IsValid(l) /\ IsValid(r)
      /\ l.units \in Nat /\ r.units \in Nat /\ l.nanos \in Nat /\ r.nanos \in Nat
    BY NanosModAssumption, SignOfParts DEF Whole, Money
<1>1. SumError(l, r) = "nil"
    BY DEF Whole, SumError
<1>2. Value(s) \in Nat /\ Value(s) = Value(l) + Value(r)
    BY SumPreservesValue DEF Whole
<1>3. /\ s \in Money /\ s.code = code
      /\ nanos < 2 * NanosMod
      /\ \/ SameSign(units, nanos) /\ nanos >= NanosMod
              /\ s.units = units + 1 /\ s.nanos = nanos - NanosMod
         \/ SameSign(units, nanos) /\ nanos <= -NanosMod
         \/ SameSign(units, nanos) /\ -NanosMod < nanos /\ nanos < NanosMod
              /\ s.units = units /\ s.nanos = nanos
         \/ ~SameSign(units, nanos)
    BY <1>0, SumCases DEF Whole
<1>4. CASE l.units = 0 /\ r.units = 0
    <2>1. Value(l) = 0 /\ Value(r) = 0
        BY <1>4 DEF Whole, WholeUnit
    <2>2. nanos = 0 /\ units = 0
        BY <1>0, <1>4, <2>1 DEF Value
    <2>3. s.units = 0 /\ s.nanos = 0
        BY <1>0, <1>3, <2>2 DEF SameSign
    <2> QED BY <1>0, <1>1, <1>2, <1>3, <2>1, <2>3
            DEF Whole, WholeUnit, IsValid, signMatches, validNanos
<1>5. CASE units >= 1
    <2> HIDE DEF s
    <2>1. s.units >= 1 /\ s.nanos \in Nat /\ s.nanos < NanosMod
        BY <1>0, <1>3, <1>5 DEF SameSign, Money
    <2>2. s.units \in Int
        BY <1>3 DEF Money
    <2>3. IsValid(s) /\ WholeUnit(s)
        BY <1>0, <2>1, <2>2 DEF WholeUnit, IsValid, signMatches, validNanos
    <2> QED BY <1>1, <1>2, <1>3, <2>3 DEF Whole, s
<1> QED BY <1>0, <1>4, <1>5

WholeOrder ==
    /\ WholeUnit(shipping)
    /\ \A k \in 1..Len(lines) :
         WholeUnit(lines[k].cost) /\ lines[k].cost.code = shipping.code

NoPanic ==
    WholeOrder =>
        /\ Whole(total, shipping.code) /\ Whole(out, shipping.code)
        /\ pc # "panicked"

LEMMA NoPanicInductive ==
    /\ Init => NoPanic
    /\ Typed /\ NoPanic /\ [Next]_vars => NoPanic'
<1>1. ASSUME Init PROVE NoPanic
    <2>1. shipping \in Money /\ IsValid(shipping) /\ Value(shipping) \in Nat
        BY <1>1, Priced DEF Init
    <2>2. /\ Zero(shipping.code) \in Money /\ IsValid(Zero(shipping.code))
          /\ Value(Zero(shipping.code)) = 0
        BY <2>1, ZeroValue DEF Money
    <2>3. Whole(Zero(shipping.code), shipping.code)
        BY <2>2 DEF Whole, WholeUnit, Zero
    <2> QED BY <1>1, <2>1, <2>3 DEF Init, NoPanic, WholeOrder, Whole
<1>2. ASSUME Typed, NoPanic, [Next]_vars PROVE NoPanic'
    <2>0. shipping' = shipping /\ lines' = lines
        BY <1>2 DEF Next, vars, AddShippingFirst, NextLine, MultiplyStep, AddLine,
                    LinesDone, AddShippingLast
    <2> SUFFICES ASSUME WholeOrder
                 PROVE  /\ Whole(total', shipping.code) /\ Whole(out', shipping.code)
                        /\ pc' # "panicked"
        BY <2>0 DEF NoPanic, WholeOrder, Whole, WholeUnit, Value, IsValid, signMatches
    <2>1. Whole(total, shipping.code) /\ Whole(out, shipping.code) /\ pc # "panicked"
        BY <1>2 DEF NoPanic
    <2>2. Whole(shipping, shipping.code)
        BY <1>2, Priced DEF Typed, TypeOK, WholeOrder, Whole
    <2>3. ASSUME i <= Len(lines) PROVE Whole(lines[i].cost, shipping.code)
        <3>1. i \in 1..Len(lines)
            BY <1>2, <2>3 DEF Typed, TypeOK
        <3> QED BY <1>2, <2>3, <3>1, LineTypes DEF WholeOrder, Whole
    <2>4. ASSUME NEW l, NEW r, NEW v, NEW next, next # "panicked",
                 Whole(l, shipping.code), Whole(r, shipping.code), Must(l, r, v, next)
          PROVE  Whole(v, shipping.code) /\ pc' # "panicked"
        BY <2>4, WholeSum DEF Must
    <2>5. CASE AddShippingFirst
        BY <2>1, <2>2, <2>4, <2>5 DEF AddShippingFirst
    <2>6. CASE NextLine
        BY <2>1, <2>3, <2>6 DEF NextLine
    <2>7. CASE MultiplyStep
        BY <1>2, <2>1, <2>3, <2>4, <2>7 DEF MultiplyStep, Typed
    <2>8. CASE AddLine
        BY <2>1, <2>4, <2>8 DEF AddLine
    <2>9. CASE LinesDone
        BY <2>1, <2>9 DEF LinesDone
    <2>10. CASE AddShippingLast
        BY <2>1, <2>2, <2>4, <2>10 DEF AddShippingLast
    <2>11. CASE UNCHANGED vars
        BY <2>1, <2>11 DEF vars
    <2> QED BY <1>2, <2>5, <2>6, <2>7, <2>8, <2>9, <2>10, <2>11 DEF Next
<1> QED BY <1>1, <1>2

\* An order whose shipping cost and prices are in one currency, each nothing
\* or at least one unit, never makes Must panic, in any of the three loops.
THEOREM WholeUnitsNeverPanic == Spec => []NoPanicFromWholeUnits
<1>1. NoPanic => NoPanicFromWholeUnits
    BY DEF NoPanic, WholeOrder, NoPanicFromWholeUnits
<1> QED BY <1>1, TypedInductive, NoPanicInductive, PTL DEF Spec

-----------------------------------------------------------------------------
(***************************************************************************)
(* Sums.  LinesValue is a recursive function, so its equation holds only   *)
(* once a function with that equation is known to exist.                   *)
(***************************************************************************)
IsLinesValue(f, ls, size) ==
    f = [k \in 0..size |-> IF k = 0 THEN 0 ELSE f[k - 1] + LineValue(ls[k])]

\* A set of natural numbers that has a member has a least one.
LEMMA LeastOne ==
    ASSUME NEW S \in SUBSET Nat, S # {}
    PROVE  \E x \in S : \A y \in S : x <= y
<1>1. PICK x \in S : \A y \in S : ~(<<y, x>> \in OpToRel(<, Nat))
    BY NatLessThanWellFounded, WFMin, Zenon
<1>2. ASSUME NEW y \in S, y < x PROVE FALSE
    <2>1. <<y, x>> \in Nat \X Nat /\ <<y, x>>[1] < <<y, x>>[2]
        BY <1>2
    <2>2. <<y, x>> \in OpToRel(<, Nat)
        BY <2>1 DEF OpToRel
    <2> QED BY <1>1, <2>2
<1> QED BY <1>2

LEMMA LinesValueExists ==
    ASSUME NEW ls, NEW N \in Nat
    PROVE  \E f : IsLinesValue(f, ls, N)
<1> DEFINE Fails == {size \in Nat : ~\E f : IsLinesValue(f, ls, size)}
<1>1. ASSUME Fails # {} PROVE FALSE
    <2>1. PICK size \in Fails : \A y \in Fails : size <= y
        <3>1. Fails \in SUBSET Nat
            OBVIOUS
        <3> HIDE DEF Fails
        <3> QED BY <1>1, <3>1, LeastOne
    <2>2. CASE size = 0
        <3> DEFINE f == [k \in 0..0 |-> 0]
        <3>1. f = [k \in 0..0 |-> IF k = 0 THEN 0 ELSE f[k - 1] + LineValue(ls[k])]
            OBVIOUS
        <3>2. IsLinesValue(f, ls, size)
            BY <2>2, <3>1 DEF IsLinesValue
        <3> QED BY <2>1, <3>2
    <2>3. CASE size # 0
        <3>1. size \in Nat /\ size - 1 \in Nat /\ size - 1 \notin Fails
            BY <2>1, <2>3
        <3>2. PICK g : IsLinesValue(g, ls, size - 1)
            BY <3>1
        <3> DEFINE f == [k \in 0..size |-> IF k = size THEN g[size - 1] + LineValue(ls[size]) ELSE g[k]]
                   e == [k \in 0..size |-> IF k = 0 THEN 0 ELSE f[k - 1] + LineValue(ls[k])]
        <3>3. ASSUME NEW k \in 0..size PROVE f[k] = e[k]
            <4>1. \A j \in 0..(size - 1) : g[j] = IF j = 0 THEN 0 ELSE g[j - 1] + LineValue(ls[j])
                BY <3>2 DEF IsLinesValue
            <4>2. CASE k = size
                <5>1. size - 1 \in 0..size /\ size - 1 # size /\ f[size - 1] = g[size - 1]
                    BY <3>1
                <5> QED BY <2>3, <3>1, <4>2, <5>1
            <4>3. CASE k # size /\ k # 0
                <5>1. k \in 0..(size - 1) /\ k - 1 \in 0..size /\ k - 1 # size
                    BY <3>1, <4>3
                <5>2. f[k - 1] = g[k - 1] /\ f[k] = g[k] /\ g[k] = g[k - 1] + LineValue(ls[k])
                    BY <4>1, <4>3, <5>1
                <5> QED BY <4>3, <5>2
            <4>4. CASE k # size /\ k = 0
                BY <2>3, <3>1, <4>1, <4>4
            <4> QED BY <4>2, <4>3, <4>4
        <3>4. f = e
            BY <3>3
        <3>5. IsLinesValue(f, ls, size)
            BY <3>4 DEF IsLinesValue
        <3> QED BY <2>1, <3>5
    <2> QED BY <2>2, <2>3
<1> QED BY <1>1

LEMMA LinesValueUnfolds ==
    /\ LinesValue[0] = 0
    /\ \A k \in 1..MaxLines : LinesValue[k] = LinesValue[k - 1] + LineValue(lines[k])
<1>1. LinesValue = CHOOSE f : IsLinesValue(f, lines, MaxLines)
    BY Zenon DEF LinesValue, IsLinesValue
<1>2. PICK f : f = LinesValue /\ IsLinesValue(f, lines, MaxLines)
    BY <1>1, LinesValueExists, OrderTotalAssumption
<1>3. \A k \in 0..MaxLines : f[k] = IF k = 0 THEN 0 ELSE f[k - 1] + LineValue(lines[k])
    BY <1>2 DEF IsLinesValue
<1>4. 0 \in 0..MaxLines /\ \A k \in 1..MaxLines : k \in 0..MaxLines /\ k # 0
    BY OrderTotalAssumption
<1> QED BY <1>2, <1>3, <1>4

\* What the loop has added so far: the lines before i, and the shipping where
\* the handler has come by it.
ShippingAdded ==
    /\ pc # "shippingFirst"
    /\ handler = "viewCartHandler" => pc = "done"

Sums ==
    /\ Len(lines) <= MaxLines /\ i <= Len(lines) + 1
    /\ pc = "shippingFirst" => handler = "PlaceOrder"
    /\ pc = "shippingLast" => handler = "viewCartHandler"
    /\ pc \in {"shippingLast", "done"} => i = Len(lines) + 1
    /\ LinesValue[i - 1] \in Int
    /\ pc # "panicked" =>
          Value(total) = (IF ShippingAdded THEN Value(shipping) ELSE 0) + LinesValue[i - 1]

\* The lines never change, so neither does what they are worth.
LEMMA SameLines ==
    ASSUME [Next]_vars
    PROVE  /\ lines' = lines /\ shipping' = shipping /\ handler' = handler
           /\ LinesValue' = LinesValue
<1>1. lines' = lines /\ shipping' = shipping /\ handler' = handler
    BY DEF Next, vars, AddShippingFirst, NextLine, MultiplyStep, AddLine, LinesDone, AddShippingLast
<1>2. LinesValue = CHOOSE f : IsLinesValue(f, lines, MaxLines)
    BY Zenon DEF LinesValue, IsLinesValue
<1>3. LinesValue' = CHOOSE f : IsLinesValue(f, lines', MaxLines)
    BY Zenon DEF LinesValue, IsLinesValue
<1> QED BY <1>1, <1>2, <1>3

LEMMA SumsInit == Init => Sums
<1> SUFFICES ASSUME Init PROVE Sums
    OBVIOUS
<1>1. PICK k \in 0..MaxLines : lines \in [1..k -> Line]
    BY DEF Init
<1>2. k \in Nat /\ k <= MaxLines /\ Len(lines) = k
    <2>1. k \in Nat /\ k <= MaxLines
        BY <1>1, OrderTotalAssumption
    <2>2. lines \in Seq(Line) /\ DOMAIN lines = 1..k
        BY <1>1, <2>1
    <2> QED BY <2>1, <2>2
<1>3. /\ shipping \in Money /\ Value(shipping) \in Nat
      /\ Value(Zero(shipping.code)) = 0
    BY Priced, ZeroValue DEF Init, Money
<1>4. /\ i = 1 /\ i - 1 = 0 /\ LinesValue[i - 1] = 0
      /\ i <= Len(lines) + 1
    BY <1>2, LinesValueUnfolds DEF Init
<1> HIDE DEF Value, Zero
<1>5. Value(total) = (IF ShippingAdded THEN Value(shipping) ELSE 0)
    <2>1. CASE handler = "placeOrderHandler"
        BY <2>1 DEF Init, ShippingAdded
    <2>2. CASE handler # "placeOrderHandler"
        <3>1. total = Zero(shipping.code) /\ ~ShippingAdded
            BY <2>2 DEF Init, ShippingAdded, Handlers
        <3> QED BY <1>3, <3>1
    <2> QED BY <2>1, <2>2
<1>6. Value(total) \in Int
    BY <1>3, <1>5
<1> QED BY <1>2, <1>4, <1>5, <1>6, OrderTotalAssumption DEF Init, Sums

LEMMA SumsStep == Typed /\ Product /\ Sums /\ [Next]_vars => Sums'
<1> SUFFICES ASSUME Typed, Product, Sums, [Next]_vars PROVE Sums'
    OBVIOUS
<1> HIDE DEF Value
<1>1. /\ lines' = lines /\ shipping' = shipping /\ handler' = handler
      /\ LinesValue' = LinesValue
    BY SameLines
<1>2. /\ i \in Nat /\ i >= 1 /\ Len(lines) \in Nat /\ MaxLines \in Nat
      /\ total \in Money /\ shipping \in Money /\ Value(shipping) \in Nat
    BY Priced, OrderTotalAssumption DEF Typed, TypeOK
<1>3. Value(shipping)' = Value(shipping)
    BY <1>1 DEF Value
<1>4. ASSUME NEW next, Must(total, shipping, total', next), pc' # "panicked"
      PROVE  pc' = next /\ Value(total)' = Value(total) + Value(shipping)
    <2>1. pc' = next /\ total' = Sum(total, shipping) /\ IsValid(total) /\ IsValid(shipping)
        BY <1>4, MustCases
    <2> QED BY <1>2, <2>1, SumPreservesValue DEF Value
<1>5. CASE AddShippingFirst
    <2>1. CASE pc' = "panicked"
        BY <1>1, <1>5, <2>1 DEF AddShippingFirst, Sums, ShippingAdded
    <2>2. CASE pc' # "panicked"
        <3>1. pc' = "line" /\ Value(total)' = Value(total) + Value(shipping) /\ i' = i
            BY <1>4, <1>5, <2>2 DEF AddShippingFirst
        <3>2. pc = "shippingFirst" /\ handler = "PlaceOrder"
            BY <1>5 DEF AddShippingFirst, Sums
        <3>3. ~ShippingAdded /\ ShippingAdded'
            BY <1>1, <3>1, <3>2 DEF ShippingAdded
        <3> QED BY <1>1, <1>2, <1>3, <3>1, <3>2, <3>3 DEF Sums
    <2> QED BY <2>1, <2>2
<1>6. CASE AddLine
    <2>1. /\ i' = i + 1 /\ i <= Len(lines) /\ i' - 1 = i /\ i \in 1..MaxLines
          /\ pc = "multiply" /\ pc' \in {"line", "panicked"}
        BY <1>2, <1>6 DEF AddLine, Must, Typed, Sums
    <2>2. LinesValue[i] = LinesValue[i - 1] + LineValue(lines[i]) /\ LinesValue[i - 1] \in Int
        BY <2>1, LinesValueUnfolds DEF Sums
    <2>3. LineValue(lines[i]) \in Int
        <3>1. lines[i].quantity \in Nat /\ Value(lines[i].cost) \in Nat
            BY <2>1, LineTypes
        <3> QED BY <3>1 DEF LineValue
    <2>4. ASSUME pc' # "panicked" PROVE Value(total)' = Value(total) + LineValue(lines[i])
        <3>1. Value(total') = Value(total) + LineValue(lines[i])
            BY <1>2, <2>1, <2>4, LineStep
        <3> QED BY <3>1 DEF Value
    <2>5. ShippingAdded' <=> ShippingAdded
        BY <1>1, <2>1 DEF ShippingAdded
    <2>6. LinesValue'[i' - 1] = LinesValue[i - 1] + LineValue(lines[i]) /\ LinesValue'[i' - 1] \in Int
        BY <1>1, <2>1, <2>2, <2>3
    <2>7. ASSUME pc' # "panicked"
          PROVE  Value(total)' = (IF ShippingAdded' THEN Value(shipping)' ELSE 0) + LinesValue'[i' - 1]
        <3> DEFINE before == LinesValue[i - 1]
                   line == LineValue(lines[i])
                   first == IF ShippingAdded THEN Value(shipping) ELSE 0
        <3>1. /\ Value(total) = first + before /\ Value(total)' = Value(total) + line
              /\ LinesValue'[i' - 1] = before + line
            BY <2>1, <2>4, <2>6, <2>7 DEF Sums
        <3>2. before \in Int /\ line \in Int /\ first \in Int
            BY <1>2, <2>2, <2>3
        <3>3. first = IF ShippingAdded' THEN Value(shipping)' ELSE 0
            BY <1>3, <2>5
        <3> HIDE DEF before, line, first
        <3> QED BY <3>1, <3>2, <3>3
    <2>8. Len(lines') <= MaxLines /\ i' <= Len(lines') + 1
        BY <1>1, <1>2, <2>1 DEF Sums
    <2> QED BY <2>1, <2>6, <2>7, <2>8 DEF Sums
<1>7. CASE LinesDone
    <2>1. /\ i' = i /\ total' = total /\ pc = "line" /\ i > Len(lines)
          /\ pc' = IF handler = "viewCartHandler" THEN "shippingLast" ELSE "done"
        BY <1>7 DEF LinesDone
    <2>2. ShippingAdded' <=> ShippingAdded
        BY <1>1, <2>1 DEF ShippingAdded
    <2>3. Value(total)' = Value(total)
        BY <2>1 DEF Value
    <2>4. i = Len(lines) + 1
        BY <1>2, <2>1 DEF Sums
    <2> QED BY <1>1, <1>3, <2>1, <2>2, <2>3, <2>4 DEF Sums
<1>8. CASE AddShippingLast
    <2>1. CASE pc' = "panicked"
        BY <1>1, <1>8, <2>1 DEF AddShippingLast, Sums, ShippingAdded
    <2>2. CASE pc' # "panicked"
        <3>1. pc' = "done" /\ Value(total)' = Value(total) + Value(shipping) /\ i' = i
            BY <1>4, <1>8, <2>2 DEF AddShippingLast
        <3>2. pc = "shippingLast" /\ handler = "viewCartHandler" /\ i = Len(lines) + 1
            BY <1>8 DEF AddShippingLast, Sums
        <3>3. ~ShippingAdded /\ ShippingAdded'
            BY <1>1, <3>1, <3>2 DEF ShippingAdded
        <3> QED BY <1>1, <1>2, <1>3, <3>1, <3>2, <3>3 DEF Sums
    <2> QED BY <2>1, <2>2
<1>9. CASE NextLine \/ MultiplyStep
    <2>1. /\ i' = i /\ total' = total /\ pc \in {"line", "multiply"}
          /\ pc' \in {"multiply", "panicked"}
        BY <1>9 DEF NextLine, MultiplyStep, Must
    <2>2. ShippingAdded' <=> ShippingAdded
        BY <1>1, <2>1 DEF ShippingAdded
    <2>3. Value(total)' = Value(total)
        BY <2>1 DEF Value
    <2> QED BY <1>1, <1>3, <2>1, <2>2, <2>3 DEF Sums
<1>10. CASE UNCHANGED vars
    BY <1>1, <1>10 DEF vars, Sums, ShippingAdded, Value
<1> QED BY <1>5, <1>6, <1>7, <1>8, <1>9, <1>10 DEF Next

\* Whichever of the three loops runs, with any prices, quantities and number
\* of lines, the total it reaches is worth the shipping and the lines.
THEOREM TotalExact == Spec => []ExactTotal
<1>1. Typed /\ Sums => ExactTotal
    <2> SUFFICES ASSUME Typed, Sums, pc = "done"
                 PROVE  Value(total) = Value(shipping) + LinesValue[Len(lines)]
        BY DEF ExactTotal
    <2>1. i - 1 = Len(lines) /\ ShippingAdded
        BY DEF Sums, ShippingAdded, Typed, TypeOK
    <2> QED BY <2>1 DEF Sums
<1> QED BY <1>1, TypedInductive, ProductInductive, SumsInit, SumsStep, PTL DEF Spec
=============================================================================
