------------------------ MODULE CostEstimatorProofs ------------------------
(***************************************************************************)
(* Proofs about CostEstimator, for every plan, rate table and rounding     *)
(* unit the assumptions admit.                                             *)
(***************************************************************************)
EXTENDS CostEstimator, FiniteSums

LEMMA Halves == (TicksPerCent \div 2) \in Nat /\ TicksPerCent \div 2 < TicksPerCent
  BY MoneyAssumption

LEMMA QuotientIsNat ==
  ASSUME NEW n \in Nat, NEW d \in Nat \ {0}
  PROVE  n \div d \in Nat /\ (n < d => n \div d = 0)
<1>1. n = d * (n \div d) + (n % d) /\ n % d \in 0 .. d - 1 /\ n \div d \in Int
  OBVIOUS
<1> DEFINE q == n \div d
           r == n % d
<1>2. \A x \in Int : x < 0 => d * x <= -d
  OBVIOUS
<1>3. \A x \in Int : x > 0 => d * x >= d
  OBVIOUS
<1>4. ~(q < 0)
  BY <1>1, <1>2
<1>5. n < d => ~(q > 0)
  BY <1>1, <1>3
<1>6. QED
  BY <1>1, <1>4, <1>5

-----------------------------------------------------------------------------
(***************************************************************************)
(* The decimal context.  Unit is defined by recursion, so that it exists   *)
(* has to be shown: by induction there is a function that obeys the        *)
(* recursion up to n, any two of them agree, and so all of them together   *)
(* make one that obeys it everywhere.                                      *)
(***************************************************************************)
UnitStep(g, m) == IF m < Precision THEN 1 ELSE 10 * g[m \div 10]

UnitUpTo(g, n) == \A m \in Nat : m <= n => g[m] = UnitStep(g, m)

LEMMA TenthIsLess ==
  \A m \in Nat : m \div 10 \in Nat /\ (m >= Precision => m \div 10 < m)
  BY MoneyAssumption

LEMMA UnitsUpTo == \A n \in Nat : \E g \in [Nat -> Nat] : UnitUpTo(g, n)
<1> DEFINE N == {n \in Nat : \E g \in [Nat -> Nat] : UnitUpTo(g, n)}
<1>1. 0 \in N
  <2> DEFINE g == [m \in Nat |-> 1]
  <2>1. g \in [Nat -> Nat] /\ UnitUpTo(g, 0)
    BY MoneyAssumption DEF UnitUpTo, UnitStep
  <2> HIDE DEF g
  <2>2. QED
    BY <2>1
<1>2. ASSUME NEW n \in N PROVE n + 1 \in N
  <2>1. PICK g \in [Nat -> Nat] : UnitUpTo(g, n)
    OBVIOUS
  <2> DEFINE v == UnitStep(g, n + 1)
             h == [m \in Nat |-> IF m <= n THEN g[m] ELSE v]
  <2>2. n \in Nat /\ v \in Nat
    BY TenthIsLess DEF UnitStep
  <2> HIDE DEF v
  <2>3. h \in [Nat -> Nat] /\ h[n + 1] = v /\ \A m \in Nat : m <= n => h[m] = g[m]
    BY <2>2
  <2> HIDE DEF h
  <2>4. ASSUME NEW m \in Nat, m <= n + 1 PROVE UnitStep(h, m) = UnitStep(g, m)
    <3>1. CASE m < Precision
      BY <3>1 DEF UnitStep
    <3>2. CASE m >= Precision
      <4>1. m \div 10 \in Nat /\ m \div 10 <= n
        BY <2>2, <2>4, <3>2, TenthIsLess
      <4>2. QED
        BY <2>3, <4>1 DEF UnitStep
    <3>3. QED
      BY <3>1, <3>2, MoneyAssumption
  <2>5. UnitUpTo(h, n + 1)
    <3> SUFFICES ASSUME NEW m \in Nat, m <= n + 1 PROVE h[m] = UnitStep(h, m)
      BY DEF UnitUpTo
    <3>1. CASE m <= n
      BY <2>1, <2>3, <2>4, <3>1 DEF UnitUpTo
    <3>2. CASE m = n + 1
      BY <2>3, <2>4, <3>2 DEF v
    <3>3. QED
      BY <2>2, <3>1, <3>2
  <2>6. QED
    BY <2>2, <2>3, <2>5
<1>3. N = Nat
  <2>1. N \in SUBSET Nat
    OBVIOUS
  <2> HIDE DEF N
  <2>2. QED
    BY <1>1, <1>2, <2>1, ByInduction
<1>4. QED
  BY <1>3

LEMMA UnitsAgree ==
  ASSUME NEW n \in Nat, NEW g, NEW h, UnitUpTo(g, n), UnitUpTo(h, n)
  PROVE  \A m \in Nat : m <= n => g[m] = h[m]
<1> DEFINE D == {m \in Nat : m <= n /\ g[m] # h[m]}
<1>1. SUFFICES ASSUME D # {} PROVE FALSE
  OBVIOUS
<1>2. PICK m \in D : \A k \in D : m <= k
  <2>1. D \in SUBSET Nat
    OBVIOUS
  <2> HIDE DEF D
  <2>2. QED
    BY <1>1, <2>1, SmallestOf
<1>3. CASE m < Precision
  BY <1>2, <1>3 DEF UnitUpTo, UnitStep
<1>4. CASE m >= Precision
  <2> DEFINE t == m \div 10
  <2>1. t \in Nat /\ t < m
    BY <1>4, TenthIsLess
  <2>2. g[m] = 10 * g[t] /\ h[m] = 10 * h[t]
    BY <1>2, <1>4, MoneyAssumption DEF UnitUpTo, UnitStep
  <2> HIDE DEF t
  <2>3. g[t] = h[t]
    BY <1>2, <2>1
  <2>4. QED
    BY <1>2, <2>2, <2>3
<1>5. QED
  BY <1>3, <1>4, MoneyAssumption

LEMMA UnitExists == \E g \in [Nat -> Nat] : g = [m \in Nat |-> UnitStep(g, m)]
<1> DEFINE At(m) == CHOOSE g \in [Nat -> Nat] : UnitUpTo(g, m)
           u == [m \in Nat |-> At(m)[m]]
<1>1. \A m \in Nat : At(m) \in [Nat -> Nat] /\ UnitUpTo(At(m), m)
  BY UnitsUpTo
<1> HIDE DEF At
<1>2. u \in [Nat -> Nat] /\ \A m \in Nat : u[m] = At(m)[m]
  BY <1>1
<1> HIDE DEF u
<1>3. \A m, n \in Nat : m <= n => At(n)[m] = u[m]
  <2> SUFFICES ASSUME NEW m \in Nat, NEW n \in Nat, m <= n PROVE At(n)[m] = u[m]
    OBVIOUS
  <2>1. UnitUpTo(At(m), m) /\ UnitUpTo(At(n), n)
    BY <1>1
  <2>2. UnitUpTo(At(n), m)
    BY <2>1 DEF UnitUpTo
  <2>3. QED
    BY <1>2, <2>1, <2>2, UnitsAgree
<1>4. ASSUME NEW m \in Nat PROVE u[m] = UnitStep(u, m)
  <2>1. u[m] = UnitStep(At(m), m)
    <3>1. UnitUpTo(At(m), m) /\ m <= m
      BY <1>1
    <3>2. QED
      BY <1>2, <3>1 DEF UnitUpTo
  <2>2. UnitStep(At(m), m) = UnitStep(u, m)
    <3>1. CASE m < Precision
      BY <3>1 DEF UnitStep
    <3>2. CASE m >= Precision
      <4>1. At(m)[m \div 10] = u[m \div 10]
        BY <1>3, <3>2, TenthIsLess
      <4>2. QED
        BY <4>1 DEF UnitStep
    <3>3. QED
      BY <3>1, <3>2, MoneyAssumption
  <2>3. QED
    BY <2>1, <2>2
<1>5. u = [m \in Nat |-> UnitStep(u, m)]
  BY <1>2, <1>4
<1>6. QED
  BY <1>2, <1>5

LEMMA UnitIs ==
  /\ \A m \in Nat : m < Precision => Unit[m] = 1
  /\ \A m \in Nat : m >= Precision => Unit[m] = 10 * Unit[m \div 10]
<1>1. Unit = [m \in Nat |-> IF m < Precision THEN 1 ELSE 10 * Unit[m \div 10]]
  BY UnitExists DEF Unit, UnitStep
<1>2. QED
  BY <1>1, MoneyAssumption

\* A unit is a tenth part in Precision of the amounts that are rounded to it.
LEMMA UnitIsFine ==
  \A m \in Nat : /\ Unit[m] \in Nat /\ Unit[m] >= 1
                 /\ m >= Precision => Unit[m] * Precision <= 10 * m
<1> DEFINE Fine(m) == /\ Unit[m] \in Nat /\ Unit[m] >= 1
                      /\ m >= Precision => Unit[m] * Precision <= 10 * m
           D == {m \in Nat : ~Fine(m)}
<1>1. SUFFICES ASSUME D # {} PROVE FALSE
  OBVIOUS
<1>2. PICK m \in D : \A k \in D : m <= k
  <2>1. D \in SUBSET Nat
    OBVIOUS
  <2> HIDE DEF D
  <2>2. QED
    BY <1>1, <2>1, SmallestOf
<1>3. CASE m < Precision
  BY <1>2, <1>3, UnitIs, MoneyAssumption
<1>4. CASE m >= Precision
  <2> DEFINE t == m \div 10
  <2>1. t \in Nat /\ t < m /\ 10 * t <= m
    BY <1>4, TenthIsLess
  <2>2. Unit[m] = 10 * Unit[t]
    BY <1>4, UnitIs
  <2> HIDE DEF t
  <2>3. Fine(t)
    BY <1>2, <2>1
  <2>4. CASE t >= Precision
    <3> DEFINE a == Unit[t] * Precision
    <3>1. a \in Int /\ (10 * Unit[t]) * Precision = 10 * a /\ a <= 10 * t
      BY <2>3, <2>4, MoneyAssumption
    <3> HIDE DEF a
    <3>2. Unit[m] * Precision <= 10 * m
      BY <2>1, <2>2, <3>1
    <3>3. QED
      BY <1>2, <2>2, <2>3, <3>2
  <2>5. CASE t < Precision
    <3>1. Unit[m] = 10 /\ 10 * Precision <= 10 * m
      BY <1>2, <1>4, <2>1, <2>2, <2>5, UnitIs, MoneyAssumption
    <3>2. QED
      BY <1>2, <3>1
  <2>6. QED
    BY <2>1, <2>4, <2>5, MoneyAssumption
<1>5. QED
  BY <1>3, <1>4, MoneyAssumption

LEMMA Division ==
  ASSUME NEW n \in Nat, NEW d \in Nat \ {0}
  PROVE  n = d * (n \div d) + (n % d) /\ n % d \in 0 .. d - 1 /\ n \div d \in Nat
  BY QuotientIsNat

\* Rounding to the context: whole, odd, on the same side of zero, exact below
\* Precision, and never off by more than five parts in Precision.
LEMMA ContextRoundIs ==
  ASSUME NEW n \in Int
  PROVE  /\ ContextRound(n) \in Int
         /\ n >= 0 => ContextRound(n) >= 0
         /\ n <= 0 => ContextRound(n) <= 0
         /\ ContextRound(-n) = -ContextRound(n)
         /\ Magnitude(n) < Precision => ContextRound(n) = n
         /\ Precision * Magnitude(ContextRound(n) - n) <= 5 * Magnitude(n)
<1> DEFINE m       == Magnitude(n)
           unit    == Unit[m]
           whole   == m \div unit
           rest    == m % unit
           rounded == IF 2 * rest > unit \/ (2 * rest = unit /\ whole % 2 = 1)
                      THEN unit * (whole + 1) ELSE unit * whole
<1>1. m \in Nat /\ m = Magnitude(-n)
  BY DEF Magnitude
<1>2. unit \in Nat \ {0}
  BY <1>1, UnitIsFine
<1>3. /\ ContextRound(n) = IF m < Precision THEN n
                           ELSE IF n < 0 THEN -rounded ELSE rounded
      /\ ContextRound(-n) = IF m < Precision THEN -n
                            ELSE IF -n < 0 THEN -rounded ELSE rounded
  BY <1>1 DEF ContextRound
<1>4. n = IF n < 0 THEN -m ELSE m
  BY DEF Magnitude
<1>5. m < Precision => unit = 1
  BY <1>1, UnitIs
<1>6. m >= Precision => unit * Precision <= 10 * m
  BY <1>1, UnitIsFine
<1> HIDE DEF m, unit
<1>7. m = unit * whole + rest /\ rest \in 0 .. unit - 1 /\ whole \in Nat
  BY <1>1, <1>2, Division
<1>8. unit * (whole + 1) = unit * whole + unit
  BY <1>2, <1>7
<1> DEFINE w == unit * whole
<1>9. w \in Nat
  BY <1>2, <1>7
<1>10. /\ rounded \in Nat
       /\ 2 * (rounded - m) <= unit /\ 2 * (m - rounded) <= unit
       /\ unit = 1 => rounded = m
       /\ m = 0 => rounded = 0
  <2> HIDE DEF w, whole, rest
  <2>1. m = w + rest /\ rest \in 0 .. unit - 1
    BY <1>7 DEF w
  <2>2. rounded = (IF 2 * rest > unit \/ (2 * rest = unit /\ whole % 2 = 1)
                   THEN w + unit ELSE w)
    BY <1>8 DEF w
  <2> HIDE DEF rounded
  <2>3. QED
    BY <1>1, <1>2, <1>9, <2>1, <2>2
<1> HIDE DEF rounded, w
<1>11. m < Precision => rounded = m
  BY <1>5, <1>10
<1>12. Precision * Magnitude(rounded - m) <= 5 * m
  <2> DEFINE e == Magnitude(rounded - m)
  <2>1. e \in Nat /\ 2 * e <= unit /\ (rounded = m => e = 0)
    BY <1>1, <1>2, <1>10 DEF Magnitude
  <2> HIDE DEF e
  <2>2. CASE m < Precision
    <3>1. e = 0 /\ Precision * 0 = 0
      BY <1>11, <2>1, <2>2, MoneyAssumption
    <3>2. QED
      BY <1>1, <3>1 DEF e
  <2>3. CASE m >= Precision
    <3> DEFINE x == Precision * e
    <3>1. x \in Nat /\ 2 * x = Precision * (2 * e)
      BY <2>1, MoneyAssumption
    <3>2. Precision * (2 * e) <= Precision * unit
      <4> DEFINE d == unit - 2 * e
      <4>1. d \in Nat /\ unit = 2 * e + d
        BY <1>2, <2>1
      <4> HIDE DEF d
      <4>2. Precision * d >= 0 /\ Precision * (2 * e + d) = Precision * (2 * e) + Precision * d
        BY <2>1, <4>1, MoneyAssumption
      <4>3. Precision * (2 * e) \in Int /\ Precision * d \in Int
        BY <2>1, <4>1, MoneyAssumption
      <4>4. QED
        BY <4>1, <4>2, <4>3
    <3>3. Precision * unit <= 10 * m
      BY <1>2, <1>6, <2>3, MoneyAssumption
    <3>4. Precision * unit \in Int /\ Precision * (2 * e) \in Int
      BY <1>2, <2>1, MoneyAssumption
    <3> HIDE DEF x
    <3>5. 2 * x <= 10 * m
      BY <1>1, <3>1, <3>2, <3>3, <3>4
    <3>6. QED
      BY <1>1, <3>1, <3>5 DEF x, e
  <2>4. QED
    BY <1>1, <2>2, <2>3, MoneyAssumption DEF e
<1>13. Magnitude(ContextRound(n) - n) = Magnitude(rounded - m)
  BY <1>1, <1>3, <1>4, <1>10, <1>11 DEF Magnitude
<1>14. n = 0 => m = 0
  BY <1>4, <1>1
<1>15. QED
  BY <1>1, <1>3, <1>4, <1>10, <1>11, <1>12, <1>13, <1>14 DEF m

LEMMA Cancel ==
  ASSUME NEW d \in Nat \ {0}, NEW x \in Int, NEW y \in Int, d * x <= d * y
  PROVE  x <= y
<1>1. SUFFICES ASSUME x >= y + 1 PROVE FALSE
  OBVIOUS
<1> DEFINE z == x - y - 1
<1>2. z \in Nat /\ x = y + 1 + z
  BY <1>1
<1> HIDE DEF z
<1>3. d * (y + 1 + z) = d * y + d + d * z /\ d * z >= 0
  BY <1>2
<1>4. d * y \in Int /\ d * z \in Int
  BY <1>2
<1>5. QED
  BY <1>2, <1>3, <1>4

LEMMA Scaled ==
  ASSUME NEW d \in Nat, NEW x \in Int, NEW y \in Int, x <= y
  PROVE  d * x <= d * y
<1> DEFINE z == y - x
<1>1. z \in Nat /\ y = x + z
  OBVIOUS
<1> HIDE DEF z
<1>2. d * (x + z) = d * x + d * z /\ d * z >= 0 /\ d * x \in Int /\ d * z \in Int
  BY <1>1
<1>3. QED
  BY <1>1, <1>2

\* One rounding more adds six parts in Precision of the gross amount involved:
\* five of its own, and one that the error of what is rounded may add.
LEMMA RoundedOnceMore ==
  ASSUME NEW a \in Int, NEW e \in Int, NEW g \in Nat, NEW k \in Nat, 5 * k <= Precision,
         Magnitude(e) <= g, Precision * Magnitude(a - e) <= k * g
  PROVE  Precision * Magnitude(ContextRound(a) - e) <= (k + 6) * g
<1> DEFINE x == Magnitude(a - e)
           y == Magnitude(ContextRound(a) - a)
<1>1. ContextRound(a) \in Int /\ Precision * y <= 5 * Magnitude(a)
  BY ContextRoundIs
<1>2. Precision \in Nat \ {0}
  BY MoneyAssumption
<1>3. x \in Nat /\ y \in Nat /\ Magnitude(a) \in Nat /\ Magnitude(a) <= g + x
  BY <1>1 DEF Magnitude
<1>4. Magnitude(ContextRound(a) - e) \in Nat /\ Magnitude(ContextRound(a) - e) <= y + x
  BY <1>1 DEF Magnitude
<1> HIDE DEF x, y
<1>5. 5 * x <= g
  <2>1. Precision * (5 * x) = 5 * (Precision * x) /\ Precision * x \in Int /\ k * g \in Int
    BY <1>2, <1>3
  <2>2. (5 * k) * g <= Precision * g
    <3>1. g * (5 * k) <= g * Precision
      BY <1>2, Scaled
    <3>2. QED
      BY <1>2, <3>1
  <2>3. (5 * k) * g = 5 * (k * g)
    OBVIOUS
  <2>4. Precision * x <= k * g
    BY DEF x
  <2>5. Precision * g \in Int
    BY <1>2
  <2>6. Precision * (5 * x) <= Precision * g
    BY <2>1, <2>2, <2>3, <2>4, <2>5
  <2>7. QED
    BY <1>2, <1>3, <2>6, Cancel
<1>6. Precision * y <= 6 * g
  BY <1>1, <1>2, <1>3, <1>5
<1>7. Precision * x <= k * g
  BY DEF x
<1>8. Precision * (y + x) = Precision * y + Precision * x /\ (k + 6) * g = k * g + 6 * g
  BY <1>2, <1>3
<1>9. Precision * Magnitude(ContextRound(a) - e) <= Precision * (y + x)
  BY <1>2, <1>3, <1>4, Scaled
<1>10. /\ Precision * y \in Int /\ Precision * x \in Int /\ k * g \in Int
       /\ Precision * Magnitude(ContextRound(a) - e) \in Int
  BY <1>2, <1>3, <1>4
<1>11. QED
  BY <1>6, <1>7, <1>8, <1>9, <1>10

-----------------------------------------------------------------------------
\* A price is never negative, whatever the plan says (BUG-3).
Prices ==
    {q \in [fault : Reasons \cup {NoFault}, ticks : Nat, exact : Nat] :
        q.fault # NoFault => q.ticks = 0 /\ q.exact = 0}
Quotes == [fault : Reasons \cup {NoFault}, ticks : Int, exact : Int]

\* A price off by at most k parts in Precision.
Near(q, k) == Precision * Magnitude(q.ticks - q.exact) <= k * q.exact

PricesNear(k) == {q \in Prices : Near(q, k)}

LEMMA ExactIsNear ==
  \A q \in Prices : \A k \in Nat : q.ticks = q.exact => q \in PricesNear(k)
<1> SUFFICES ASSUME NEW q \in Prices, NEW k \in Nat, q.ticks = q.exact PROVE Near(q, k)
  BY DEF PricesNear
<1>1. q.exact \in Nat /\ Magnitude(q.ticks - q.exact) = 0
  BY DEF Prices, Magnitude
<1>2. Precision * 0 = 0 /\ k * q.exact >= 0
  BY <1>1, MoneyAssumption
<1>3. QED
  BY <1>1, <1>2 DEF Near

LEMMA PricedIsPrice ==
  \A n \in Nat : /\ Priced(n) \in Prices /\ Priced(n).ticks = n /\ Priced(n).exact = n
                 /\ Priced(n).fault = NoFault
  BY DEF Priced, Quote, Prices, NoFault

LEMMA FaultyIsPrice ==
  \A reason \in Reasons : Faulty(reason) \in Prices /\ Faulty(reason).ticks = Faulty(reason).exact
  BY DEF Faulty, Prices

LEMMA NearerIsNear ==
  ASSUME NEW k \in Nat, NEW l \in Nat, k <= l
  PROVE  PricesNear(k) \subseteq PricesNear(l)
<1> SUFFICES ASSUME NEW q \in PricesNear(k) PROVE Near(q, l)
  BY DEF PricesNear
<1>1. q.ticks \in Nat /\ q.exact \in Nat
  BY DEF PricesNear, Prices
<1>2. k * q.exact <= l * q.exact
  <2>1. q.exact * k <= q.exact * l
    BY <1>1, Scaled
  <2>2. QED
    BY <1>1, <2>1
<1>3. /\ Precision * Magnitude(q.ticks - q.exact) \in Int
      /\ k * q.exact \in Int /\ l * q.exact \in Int
  BY <1>1, MoneyAssumption DEF Magnitude
<1>4. QED
  BY <1>2, <1>3 DEF PricesNear, Near

LEMMA CombinedIsNear ==
  ASSUME NEW p \in Prices, NEW q \in Prices, NEW t \in Nat, NEW e \in Nat, NEW k \in Nat,
         5 * k <= Precision, Precision * Magnitude(t - e) <= k * e
  PROVE  Combined(p, q, t, e) \in PricesNear(k + 6)
<1>1. CASE p.fault # NoFault \/ q.fault # NoFault
  BY <1>1, ExactIsNear DEF Combined, Prices
<1>2. CASE p.fault = NoFault /\ q.fault = NoFault
  <2>1. Combined(p, q, t, e) = Quote(ContextRound(t), e)
    BY <1>2 DEF Combined
  <2>2. ContextRound(t) \in Nat
    BY ContextRoundIs
  <2>3. Magnitude(e) <= e
    BY DEF Magnitude
  <2>4. Precision * Magnitude(ContextRound(t) - e) <= (k + 6) * e
    BY <2>3, RoundedOnceMore
  <2>5. QED
    BY <2>1, <2>2, <2>4 DEF Quote, PricesNear, Prices, Near, NoFault
<1>3. QED
  BY <1>1, <1>2

LEMMA TimesIsNear ==
  ASSUME NEW k \in Nat, 5 * k <= Precision, NEW p \in PricesNear(k),
         NEW q \in Prices, q.ticks = q.exact
  PROVE  Times(p, q) \in PricesNear(k + 6)
<1> DEFINE x == q.exact
           d == Magnitude(p.ticks - p.exact)
<1>1. p \in Prices /\ p.ticks \in Nat /\ p.exact \in Nat /\ x \in Nat
  BY DEF PricesNear, Prices
<1>2. d \in Nat /\ Precision * d <= k * p.exact
  BY <1>1 DEF PricesNear, Near, Magnitude
<1>3. Magnitude(p.ticks * x - p.exact * x) = d * x
  <2>1. CASE p.ticks >= p.exact
    <3> DEFINE z == p.ticks - p.exact
    <3>1. z \in Nat /\ d = z /\ p.ticks = p.exact + z
      BY <1>1, <2>1 DEF Magnitude
    <3> HIDE DEF z
    <3>2. p.ticks * x = p.exact * x + z * x /\ z * x \in Nat /\ p.exact * x \in Nat
      BY <1>1, <3>1
    <3>3. QED
      BY <3>1, <3>2 DEF Magnitude
  <2>2. CASE p.ticks < p.exact
    <3> DEFINE z == p.exact - p.ticks
    <3>1. z \in Nat /\ d = z /\ p.exact = p.ticks + z
      BY <1>1, <2>2 DEF Magnitude
    <3> HIDE DEF z
    <3>2. p.exact * x = p.ticks * x + z * x /\ z * x \in Nat /\ p.ticks * x \in Nat
      BY <1>1, <3>1
    <3>3. QED
      BY <3>1, <3>2 DEF Magnitude
  <2>3. QED
    BY <1>1, <2>1, <2>2
<1> HIDE DEF d, x
<1>4. Precision * (d * x) <= k * (p.exact * x)
  <2>1. Precision * d \in Int /\ k * p.exact \in Int
    BY <1>1, <1>2, MoneyAssumption
  <2>2. x * (Precision * d) <= x * (k * p.exact)
    BY <1>1, <1>2, <2>1, Scaled
  <2>3. x * (Precision * d) = Precision * (d * x) /\ x * (k * p.exact) = k * (p.exact * x)
    BY <1>1, <1>2, MoneyAssumption
  <2>4. QED
    BY <2>2, <2>3
<1>5. p.ticks * x \in Nat /\ p.exact * x \in Nat
  BY <1>1
<1> DEFINE t == p.ticks * x
           e == p.exact * x
<1>6. t \in Nat /\ e \in Nat /\ Precision * Magnitude(t - e) <= k * e
  BY <1>3, <1>4, <1>5
<1>7. Times(p, q) = Combined(p, q, t, e)
  BY DEF Times, x
<1> HIDE DEF t, e
<1>8. QED
  BY <1>1, <1>6, <1>7, CombinedIsNear

LEMMA PlusIsNear ==
  ASSUME NEW k \in Nat, 5 * k <= Precision, NEW p \in PricesNear(k), NEW q \in PricesNear(k)
  PROVE  Plus(p, q) \in PricesNear(k + 6)
<1> DEFINE t == p.ticks + q.ticks
           e == p.exact + q.exact
           c == Magnitude(p.ticks - p.exact)
           d == Magnitude(q.ticks - q.exact)
<1>1. /\ p \in Prices /\ p.ticks \in Nat /\ p.exact \in Nat
      /\ q \in Prices /\ q.ticks \in Nat /\ q.exact \in Nat
      /\ c \in Nat /\ d \in Nat
  BY DEF PricesNear, Prices, Magnitude
<1>2. Precision * c <= k * p.exact /\ Precision * d <= k * q.exact
  BY DEF PricesNear, Near
<1>3. Magnitude(t - e) \in Nat /\ Magnitude(t - e) <= c + d
  BY <1>1 DEF Magnitude
<1> HIDE DEF c, d
<1>4. Precision * Magnitude(t - e) <= Precision * (c + d)
  BY <1>1, <1>3, Scaled, MoneyAssumption
<1>5. Precision * (c + d) = Precision * c + Precision * d /\ k * e = k * p.exact + k * q.exact
  BY <1>1, MoneyAssumption
<1>6. /\ Precision * Magnitude(t - e) \in Int /\ Precision * c \in Int /\ Precision * d \in Int
      /\ k * p.exact \in Int /\ k * q.exact \in Int /\ t \in Nat /\ e \in Nat
  BY <1>1, <1>3, MoneyAssumption
<1>7. Precision * Magnitude(t - e) <= k * e
  BY <1>2, <1>4, <1>5, <1>6
<1>8. Plus(p, q) = Combined(p, q, t, e)
  BY DEF Plus
<1> HIDE DEF t, e
<1>9. QED
  BY <1>1, <1>6, <1>7, <1>8, CombinedIsNear

LEMMA MinusIsNear ==
  ASSUME NEW k \in Nat, 5 * k <= Precision, NEW p \in PricesNear(k), NEW q \in PricesNear(k)
  PROVE  /\ Minus(p, q) \in Quotes
         /\ Precision * Magnitude(Minus(p, q).ticks - Minus(p, q).exact)
              <= (k + 6) * (p.exact + q.exact)
<1> DEFINE t == p.ticks - q.ticks
           e == p.exact - q.exact
           g == p.exact + q.exact
           c == Magnitude(p.ticks - p.exact)
           d == Magnitude(q.ticks - q.exact)
<1>1. /\ p \in Prices /\ p.ticks \in Nat /\ p.exact \in Nat
      /\ q \in Prices /\ q.ticks \in Nat /\ q.exact \in Nat
      /\ c \in Nat /\ d \in Nat
  BY DEF PricesNear, Prices, Magnitude
<1>2. Precision * c <= k * p.exact /\ Precision * d <= k * q.exact
  BY DEF PricesNear, Near
<1>3. /\ Magnitude(t - e) \in Nat /\ Magnitude(t - e) <= c + d
      /\ Magnitude(e) <= g /\ t \in Int /\ e \in Int /\ g \in Nat
  BY <1>1 DEF Magnitude
<1> HIDE DEF c, d
<1>4. Precision * Magnitude(t - e) <= Precision * (c + d)
  BY <1>1, <1>3, Scaled, MoneyAssumption
<1>5. Precision * (c + d) = Precision * c + Precision * d /\ k * g = k * p.exact + k * q.exact
  BY <1>1, MoneyAssumption
<1>6. /\ Precision * Magnitude(t - e) \in Int /\ Precision * c \in Int /\ Precision * d \in Int
      /\ k * p.exact \in Int /\ k * q.exact \in Int
  BY <1>1, <1>3, MoneyAssumption
<1>7. Precision * Magnitude(t - e) <= k * g
  BY <1>2, <1>4, <1>5, <1>6
<1>8. Minus(p, q) = Combined(p, q, t, e)
  BY DEF Minus
<1>9. CASE p.fault # NoFault \/ q.fault # NoFault
  <2>1. /\ Minus(p, q) \in Prices
        /\ Minus(p, q).ticks = 0 /\ Minus(p, q).exact = 0
    BY <1>1, <1>8, <1>9 DEF Combined, Prices
  <2>2. Magnitude(0 - 0) = 0 /\ Precision * 0 = 0 /\ (k + 6) * g >= 0
    BY <1>3, MoneyAssumption DEF Magnitude
  <2>3. QED
    BY <2>1, <2>2 DEF Prices, Quotes
<1>10. CASE p.fault = NoFault /\ q.fault = NoFault
  <2>1. Minus(p, q) = Quote(ContextRound(t), e)
    BY <1>8, <1>10 DEF Combined
  <2> HIDE DEF t, e, g
  <2>2. ContextRound(t) \in Int /\ Precision * Magnitude(ContextRound(t) - e) <= (k + 6) * g
    BY <1>3, <1>7, ContextRoundIs, RoundedOnceMore
  <2>3. QED
    BY <1>3, <2>1, <2>2 DEF Quote, Quotes, g
<1>11. QED
  BY <1>9, <1>10

LEMMA RateIsPrice ==
  ASSUME region \in DOMAIN Rates, NEW service, NEW key
  PROVE  RateOf(service, key) \in PricesNear(0)
<1>1. CASE key \in {Absent, Unknown}
  BY <1>1, FaultyIsPrice, ExactIsNear DEF RateOf, Reasons
<1>2. CASE /\ key \notin {Absent, Unknown}
           /\ service \in DOMAIN Rates[region]
           /\ key \in DOMAIN Rates[region][service]
  <2>1. Rates[region][service][key] \in Nat
    BY <1>2, RatesAssumption
  <2>2. RateOf(service, key) = Priced(Rates[region][service][key])
    BY <1>2 DEF RateOf
  <2>3. QED
    BY <2>1, <2>2, PricedIsPrice, ExactIsNear
<1>3. CASE /\ key \notin {Absent, Unknown}
           /\ ~(service \in DOMAIN Rates[region] /\ key \in DOMAIN Rates[region][service])
  BY <1>3, FaultyIsPrice, ExactIsNear DEF RateOf, Reasons
<1>4. QED
  BY <1>1, <1>2, <1>3

\* The prices of one side of a change, after three roundings at most.
LEMMA MonthlyCostIsPrice ==
  ASSUME region \in DOMAIN Rates, NEW type, NEW attrs \in Attributes \cup {Null}
  PROVE  MonthlyCost(type, attrs) \in PricesNear(18)
<1>1. CASE attrs = Null
  BY <1>1, FaultyIsPrice, ExactIsNear DEF MonthlyCost, Reasons
<1>2. CASE attrs # Null
  <2>1. attrs.size \in Int /\ attrs.multi_az \in BOOLEAN
    BY <1>2 DEF Attributes
  <2>2. /\ PricesNear(6) \subseteq PricesNear(12) /\ PricesNear(6) \subseteq PricesNear(18)
        /\ 5 * 0 <= Precision /\ 5 * 6 <= Precision /\ 5 * 12 <= Precision
    BY NearerIsNear, MoneyAssumption
  <2>3. GigaBytes(attrs.size) \in Prices
        /\ GigaBytes(attrs.size).ticks = GigaBytes(attrs.size).exact
    BY <2>1, PricedIsPrice, FaultyIsPrice DEF GigaBytes, Reasons
  <2>4. \A service : PerGB(service, attrs) \in PricesNear(6)
    <3> TAKE service
    <3>1. Times(RateOf(service, OrDefault(attrs.storage, "gp2")), GigaBytes(attrs.size))
            \in PricesNear(0 + 6)
      BY <2>2, <2>3, RateIsPrice, TimesIsNear
    <3>2. QED
      BY <3>1 DEF PerGB
  <2>5. \A service, key : PerMonth(RateOf(service, key)) \in PricesNear(6)
    <3> TAKE service, key
    <3>1. Priced(HoursPerMonth) \in Prices
          /\ Priced(HoursPerMonth).ticks = Priced(HoursPerMonth).exact
      BY MoneyAssumption, PricedIsPrice
    <3>2. Times(RateOf(service, key), Priced(HoursPerMonth)) \in PricesNear(0 + 6)
      BY <2>2, <3>1, RateIsPrice, TimesIsNear
    <3>3. QED
      BY <3>2 DEF PerMonth
  <2> DEFINE zones == Priced(IF attrs.multi_az THEN 2 ELSE 1)
             instance == PerMonth(RateOf("aws_db_instance.instance", attrs.key))
             storage == PerGB("aws_db_instance.storage", attrs)
  <2>6. zones \in Prices /\ zones.ticks = zones.exact
    BY PricedIsPrice
  <2>7. Faulty("unsupported_type") \in PricesNear(18)
    BY FaultyIsPrice, ExactIsNear DEF Reasons
  <2>8. instance \in PricesNear(6) /\ storage \in PricesNear(12)
    BY <2>2, <2>4, <2>5
  <2> HIDE DEF zones, instance, storage
  <2>9. Plus(Times(instance, zones), storage) \in PricesNear(18)
    <3>1. Times(instance, zones) \in PricesNear(6 + 6)
      BY <2>2, <2>6, <2>8, TimesIsNear
    <3>2. Plus(Times(instance, zones), storage) \in PricesNear(12 + 6)
      BY <2>2, <2>8, <3>1, PlusIsNear
    <3>3. QED
      BY <3>2
  <2>10. QED
    BY <1>2, <2>2, <2>4, <2>5, <2>7, <2>9 DEF MonthlyCost, zones, instance, storage
<1>3. QED
  BY <1>1, <1>2

LEMMA DeltaIsQuote ==
  ASSUME region \in DOMAIN Rates, NEW change \in Changes
  PROVE  /\ Delta(change) \in Quotes
         /\ ClassOf(change) = "create" => Delta(change).ticks >= 0
         /\ ClassOf(change) = "delete" => Delta(change).ticks <= 0
         /\ Gross(change) \in Nat
         /\ Precision * Magnitude(Delta(change).ticks - Delta(change).exact) <= 25 * Gross(change)
<1>1. change.before \in Attributes \cup {Null} /\ change.after \in Attributes \cup {Null}
  BY DEF Changes
<1> DEFINE b == MonthlyCost(change.type, change.before)
           a == MonthlyCost(change.type, change.after)
<1>2. a \in PricesNear(18) /\ b \in PricesNear(18)
  BY <1>1, MonthlyCostIsPrice
<1>3. Gross(change) = b.exact + a.exact
  BY DEF Gross
<1>4. ClassOf(change) = "create" => Delta(change) = a
  BY DEF Delta
<1>5. ClassOf(change) = "delete" => Delta(change) = Negated(b)
  BY DEF Delta
<1>6. ClassOf(change) \notin {"create", "delete"} => Delta(change) = Minus(a, b)
  BY DEF Delta
<1> HIDE DEF a, b
<1>7. /\ a \in Prices /\ a.ticks \in Nat /\ a.exact \in Nat
      /\ b \in Prices /\ b.ticks \in Nat /\ b.exact \in Nat
  BY <1>2 DEF PricesNear, Prices
<1>8. Gross(change) \in Nat
  BY <1>3, <1>7
<1>9. CASE ClassOf(change) = "create"
  <2>1. Precision * Magnitude(a.ticks - a.exact) <= 18 * a.exact
    BY <1>2 DEF PricesNear, Near
  <2>2. Precision * Magnitude(a.ticks - a.exact) \in Int
    BY <1>7, MoneyAssumption DEF Magnitude
  <2>3. Precision * Magnitude(a.ticks - a.exact) <= 25 * Gross(change)
    BY <1>3, <1>7, <2>1, <2>2
  <2>4. QED
    BY <1>4, <1>7, <1>8, <1>9, <2>3 DEF Prices, Quotes
<1>10. CASE ClassOf(change) = "delete"
  <2>1. Precision * Magnitude(b.ticks - b.exact) <= 18 * b.exact
    BY <1>2 DEF PricesNear, Near
  <2>2. Precision * Magnitude(b.ticks - b.exact) \in Int
    BY <1>7, MoneyAssumption DEF Magnitude
  <2>3. Negated(b) = [fault |-> b.fault, ticks |-> -b.ticks, exact |-> -b.exact]
    BY DEF Negated
  <2>4. Magnitude((-b.ticks) - (-b.exact)) = Magnitude(b.ticks - b.exact)
    BY <1>7 DEF Magnitude
  <2>5. Precision * Magnitude(b.ticks - b.exact) <= 25 * Gross(change)
    BY <1>3, <1>7, <2>1, <2>2
  <2>6. QED
    BY <1>5, <1>7, <1>8, <1>10, <2>3, <2>4, <2>5 DEF Prices, Quotes
<1>11. CASE ClassOf(change) \notin {"create", "delete"}
  <2>1. /\ Minus(a, b) \in Quotes
        /\ Precision * Magnitude(Minus(a, b).ticks - Minus(a, b).exact)
             <= (18 + 6) * (a.exact + b.exact)
    BY <1>2, MinusIsNear, MoneyAssumption
  <2>2. Precision * Magnitude(Minus(a, b).ticks - Minus(a, b).exact) \in Int
    BY <2>1, MoneyAssumption DEF Quotes, Magnitude
  <2>3. QED
    BY <1>3, <1>6, <1>7, <1>8, <1>11, <2>1, <2>2
<1>12. QED
  BY <1>9, <1>10, <1>11

\* Rounding keeps the side of zero an amount is on, zero included.
LEMMA RoundingKeepsSign ==
  ASSUME NEW ticks \in Int
  PROVE  /\ RoundHalfUp(ticks) \in Int
         /\ ticks >= 0 => RoundHalfUp(ticks) >= 0
         /\ ticks <= 0 => RoundHalfUp(ticks) <= 0
<1> DEFINE cents == (Magnitude(ticks) + (TicksPerCent \div 2)) \div TicksPerCent
<1>1. Magnitude(ticks) \in Nat
  BY DEF Magnitude
<1>2. cents \in Nat /\ (ticks = 0 => cents = 0)
  <2>1. Magnitude(ticks) + (TicksPerCent \div 2) \in Nat
    BY <1>1, Halves
  <2>2. ticks = 0 => Magnitude(ticks) + (TicksPerCent \div 2) < TicksPerCent
    BY Halves DEF Magnitude
  <2>3. QED
    BY <2>1, <2>2, QuotientIsNat, MoneyAssumption
<1>3. RoundHalfUp(ticks) = IF ticks < 0 THEN -cents ELSE cents
  BY DEF RoundHalfUp
<1> HIDE DEF cents
<1>4. QED
  BY <1>2, <1>3

-----------------------------------------------------------------------------
LEMMA ChangesOfPlans ==
  ASSUME plan \in Plans, NEW i \in DOMAIN plan
  PROVE  /\ plan \in Seq(Changes) /\ Len(plan) \in Nat
         /\ i \in 1 .. Len(plan) /\ plan[i] \in Changes
  BY PlansAssumption

\* What a change contributes: a whole number of cents on the side of zero its
\* class says, or a reason the verdict schema lists.
LEMMA LinesAndFaults ==
  ASSUME region \in DOMAIN Rates, NEW change \in Changes
  PROVE  /\ FaultOf(change) \in Reasons \cup {NoFault}
         /\ LineCents(change) \in Int
         /\ ClassOf(change) = "create" => LineCents(change) >= 0
         /\ ClassOf(change) = "delete" => LineCents(change) <= 0
<1>1. Delta(change).fault \in Reasons \cup {NoFault} /\ Delta(change).ticks \in Int
  BY DeltaIsQuote DEF Quotes
<1>2. FaultOf(change) \in Reasons \cup {NoFault}
  BY <1>1 DEF FaultOf, Reasons
<1>3. QED
  BY <1>1, <1>2, DeltaIsQuote, RoundingKeepsSign DEF LineCents

\* What the loop is given: a plan and a region it has rates for.
Begun == plan \in Plans /\ region \in DOMAIN Rates /\ LoopInit

LEMMA InitBegins == Init => Begun
  BY DEF Init, Begun

LEMMA TypesAreInductive ==
  /\ Begun => TypeOK
  /\ TypeOK /\ [Next]_vars => TypeOK'
<1>1. Begun => TypeOK
  <2> SUFFICES ASSUME Begun PROVE TypeOK
    OBVIOUS
  <2>1. Len(plan) \in Nat
    BY PlansAssumption DEF Begun
  <2>2. QED
    BY <2>1 DEF Begun, LoopInit, TypeOK, LoopTypeOK
<1>2. TypeOK /\ [Next]_vars => TypeOK'
  <2> SUFFICES ASSUME TypeOK, [Next]_vars PROVE TypeOK'
    OBVIOUS
  <2> USE DEF TypeOK, LoopTypeOK
  <2>1. Len(plan) \in Nat /\ next \in Nat
    BY PlansAssumption
  <2>2. ASSUME NEW i \in DOMAIN plan, SkipExcluded(i) PROVE TypeOK'
    BY <2>1, <2>2, ChangesOfPlans DEF SkipExcluded, Visiting
  <2>3. ASSUME NEW i \in DOMAIN plan, RecordUnpriced(i) PROVE TypeOK'
    <3>1. i \in 1 .. Len(plan) /\ FaultOf(plan[i]) \in Reasons
      BY <2>3, ChangesOfPlans, LinesAndFaults DEF RecordUnpriced
    <3>2. unpriced' \in Seq([change : Nat, reason : Reasons])
      BY <2>3, <3>1 DEF RecordUnpriced
    <3>3. QED
      BY <2>1, <2>3, <3>1, <3>2 DEF RecordUnpriced, Visiting
  <2>4. ASSUME NEW i \in DOMAIN plan, Price(i) PROVE TypeOK'
    <3>1. i \in 1 .. Len(plan) /\ LineCents(plan[i]) \in Int
      BY ChangesOfPlans, LinesAndFaults
    <3>2. breakdown' \in Seq([change : Nat, cents : Int])
      BY <2>4, <3>1 DEF Price
    <3>3. total' \in Int
      <4>1. total + LineCents(plan[i]) \in Int
        BY <3>1
      <4>2. QED
        BY <2>4, <4>1, ContextRoundIs DEF Price
    <3>4. QED
      BY <2>1, <2>4, <3>1, <3>2, <3>3 DEF Price, Visiting
  <2>5. ASSUME NEW i \in DOMAIN plan, RaiseOnLine(i) PROVE TypeOK'
    BY <2>5 DEF RaiseOnLine
  <2>6. CASE Report
    BY <2>6 DEF Report
  <2>7. CASE UNCHANGED vars
    BY <2>7 DEF vars
  <2>8. QED
    BY <2>2, <2>3, <2>4, <2>5, <2>6, <2>7 DEF Next, Step
<1>3. QED
  BY <1>1, <1>2

\* The variables of the loop always hold what the code's types say; in
\* particular every unpriced change carries a reason of the verdict schema.
THEOREM TypeCorrect == Spec => []TypeOK
  BY InitBegins, TypesAreInductive, PTL DEF Spec

\* No created resource ever lowers the total and no deleted one raises it,
\* whatever sizes and price keys the plan holds (R14, BUG-3).
THEOREM SignsAlwaysFollowActions == Spec => []SignsFollowActions
<1>1. Init => SignsFollowActions
  BY DEF Init, LoopInit, SignsFollowActions
<1>2. TypeOK /\ SignsFollowActions /\ [Next]_vars => SignsFollowActions'
  <2> SUFFICES ASSUME TypeOK, SignsFollowActions, [Next]_vars PROVE SignsFollowActions'
    OBVIOUS
  <2>1. ASSUME NEW i \in DOMAIN plan, Price(i) PROVE SignsFollowActions'
    <3>1. breakdown \in Seq([change : Nat, cents : Int])
      BY DEF TypeOK, LoopTypeOK
    <3>2. /\ LineCents(plan[i]) \in Int
          /\ ClassOf(plan[i]) = "create" => LineCents(plan[i]) >= 0
          /\ ClassOf(plan[i]) = "delete" => LineCents(plan[i]) <= 0
      BY ChangesOfPlans, LinesAndFaults DEF TypeOK
    <3>3. plan' = plan
      BY <2>1 DEF Price
    <3>4. \A n \in DOMAIN breakdown' :
            \/ n \in DOMAIN breakdown /\ breakdown'[n] = breakdown[n]
            \/ breakdown'[n] = [change |-> i, cents |-> LineCents(plan[i])]
      BY <2>1, <3>1, <3>2 DEF Price
    <3>5. QED
      BY <3>2, <3>3, <3>4 DEF SignsFollowActions, ClassOf
  <2>2. CASE UNCHANGED <<plan, breakdown>>
    BY <2>2 DEF SignsFollowActions, ClassOf
  <2>3. QED
    BY <2>1, <2>2 DEF Next, Step, vars, SkipExcluded, RecordUnpriced, RaiseOnLine, Report
<1>3. QED
  BY <1>1, <1>2, TypeCorrect, PTL DEF Spec

-----------------------------------------------------------------------------
(***************************************************************************)
(* Nothing is dropped.  Accounted is inductive beside TypeOK because all   *)
(* positions it lists lie before next.                                     *)
(***************************************************************************)
Rises(s) == \A m, n \in DOMAIN s : m < n => s[m] < s[n]

LEMMA ElementsOf ==
  ASSUME NEW S, NEW s \in Seq(S)
  PROVE  DOMAIN s = 1 .. Len(s) /\ Len(s) \in Nat /\ \A n \in DOMAIN s : s[n] \in S
  OBVIOUS

\* What appending an element beyond all others does to a rising sequence.
LEMMA AppendBeyond ==
  ASSUME NEW s \in Seq(Nat), NEW x \in Nat, Rises(s), \A y \in Range(s) : y < x
  PROVE  Rises(Append(s, x)) /\ Range(Append(s, x)) = Range(s) \cup {x}
<1> DEFINE t == Append(s, x)
<1>1. /\ DOMAIN s = 1 .. Len(s) /\ Len(s) \in Nat
      /\ DOMAIN t = 1 .. Len(s) + 1
      /\ \A n \in DOMAIN s : t[n] = s[n] /\ s[n] \in Nat
      /\ t[Len(s) + 1] = x
  OBVIOUS
<1> HIDE DEF t
<1>2. \A n \in DOMAIN s : s[n] < x
  BY DEF Range
<1>3. Rises(t)
  <2> SUFFICES ASSUME NEW m \in DOMAIN t, NEW n \in DOMAIN t, m < n
               PROVE  t[m] < t[n]
    BY DEF Rises
  <2>1. m \in DOMAIN s
    BY <1>1
  <2>2. CASE n \in DOMAIN s
    BY <1>1, <2>1, <2>2 DEF Rises
  <2>3. CASE n = Len(s) + 1
    BY <1>1, <1>2, <2>1, <2>3
  <2>4. QED
    BY <1>1, <2>2, <2>3
<1>4. Range(t) = Range(s) \cup {x}
  BY <1>1 DEF Range
<1>5. QED
  BY <1>3, <1>4 DEF t

Lines   == [n \in DOMAIN breakdown |-> breakdown[n].change]
Entries == [n \in DOMAIN unpriced |-> unpriced[n].change]

LEMMA AccountsAreInductive ==
  /\ Begun => Accounted
  /\ TypeOK /\ Accounted /\ [Next]_vars => Accounted'
<1> DEFINE Before(k) == {i \in Classified(plan) : i < k}
<1>1. Begun => Accounted
  <2> SUFFICES ASSUME Begun PROVE Accounted
    OBVIOUS
  <2>1. breakdown = <<>> /\ unpriced = <<>> /\ next = 1
    BY DEF Begun, LoopInit
  <2>2. \A i \in DOMAIN plan : i \in Nat /\ i >= 1
    BY PlansAssumption DEF Begun
  <2>3. Before(next) = {}
    BY <2>1, <2>2 DEF Classified
  <2>4. QED
    BY <2>1, <2>3 DEF Accounted, Range
<1>2. TypeOK /\ Accounted /\ [Next]_vars => Accounted'
  <2> SUFFICES ASSUME TypeOK, Accounted, [Next]_vars PROVE Accounted'
    OBVIOUS
  <2>1. /\ next \in Nat
        /\ breakdown \in Seq([change : Nat, cents : Int])
        /\ unpriced \in Seq([change : Nat, reason : Reasons])
        /\ \A i \in DOMAIN plan : i \in Nat
    BY PlansAssumption DEF TypeOK, LoopTypeOK
  <2>2. Lines \in Seq(Nat) /\ Entries \in Seq(Nat)
    <3>1. \A n \in DOMAIN breakdown : breakdown[n] \in [change : Nat, cents : Int]
      BY <2>1, ElementsOf
    <3>2. \A n \in DOMAIN unpriced : unpriced[n] \in [change : Nat, reason : Reasons]
      BY <2>1, ElementsOf
    <3>3. DOMAIN breakdown = 1 .. Len(breakdown) /\ DOMAIN unpriced = 1 .. Len(unpriced)
      BY <2>1
    <3>4. QED
      BY <2>1, <3>1, <3>2, <3>3 DEF Lines, Entries
  <2>3. /\ Rises(Lines) /\ Rises(Entries)
        /\ Range(Lines) \cap Range(Entries) = {}
        /\ Range(Lines) \cup Range(Entries) = Before(next)
    BY DEF Accounted, Lines, Entries, Rises
  <2> DEFINE AllListed ==
               /\ Rises(Lines') /\ Rises(Entries')
               /\ Range(Lines') \cap Range(Entries') = {}
               /\ Range(Lines') \cup Range(Entries') = {j \in Classified(plan)' : j < next'}
  <2> SUFFICES AllListed
    BY DEF Accounted, Lines, Entries, Rises
  <2>4. \A y \in Range(Lines) \cup Range(Entries) : y < next
    BY <2>3
  <2>5. ASSUME NEW i \in DOMAIN plan, SkipExcluded(i) PROVE AllListed
    <3>1. Before(next) = {j \in Classified(plan) : j < next + 1}
      BY <2>1, <2>5 DEF SkipExcluded, Visiting, Classified, ActionClass, Excluded
    <3>2. Classified(plan)' = Classified(plan)
      BY <2>5 DEF SkipExcluded, Classified, ClassOf
    <3>3. QED
      BY <2>3, <2>5, <3>1, <3>2 DEF SkipExcluded, Lines, Entries
  <2>6. ASSUME NEW i \in DOMAIN plan, RecordUnpriced(i) PROVE AllListed
    <3>1. Before(next) \cup {i} = {j \in Classified(plan) : j < next + 1}
      BY <2>1, <2>6 DEF RecordUnpriced, Visiting, Classified
    <3>2. Classified(plan)' = Classified(plan)
      BY <2>6 DEF RecordUnpriced, Classified, ClassOf
    <3>3. Lines' = Lines /\ Entries' = Append(Entries, next)
      BY <2>1, <2>6 DEF RecordUnpriced, Visiting, Lines, Entries
    <3>4. /\ Rises(Append(Entries, next))
          /\ Range(Append(Entries, next)) = Range(Entries) \cup {next}
      BY <2>1, <2>2, <2>3, <2>4, AppendBeyond
    <3>5. next \notin Range(Lines) /\ next' = next + 1
      BY <2>1, <2>4, <2>6 DEF RecordUnpriced
    <3>6. i = next
      BY <2>6 DEF RecordUnpriced, Visiting
    <3>7. /\ Range(Lines') \cap Range(Entries') = {}
          /\ Range(Lines') \cup Range(Entries') = Before(next) \cup {i}
      BY <2>3, <3>3, <3>4, <3>5, <3>6
    <3>8. QED
      BY <2>3, <3>1, <3>2, <3>3, <3>4, <3>5, <3>7
  <2>7. ASSUME NEW i \in DOMAIN plan, Price(i) PROVE AllListed
    <3>1. Before(next) \cup {i} = {j \in Classified(plan) : j < next + 1}
      BY <2>1, <2>7 DEF Price, Visiting, Classified
    <3>2. Classified(plan)' = Classified(plan)
      BY <2>7 DEF Price, Classified, ClassOf
    <3>3. Entries' = Entries /\ Lines' = Append(Lines, next)
      BY <2>1, <2>7 DEF Price, Visiting, Lines, Entries
    <3>4. /\ Rises(Append(Lines, next))
          /\ Range(Append(Lines, next)) = Range(Lines) \cup {next}
      BY <2>1, <2>2, <2>3, <2>4, AppendBeyond
    <3>5. next \notin Range(Entries) /\ next' = next + 1
      BY <2>1, <2>4, <2>7 DEF Price
    <3>6. i = next
      BY <2>7 DEF Price, Visiting
    <3>7. /\ Range(Lines') \cap Range(Entries') = {}
          /\ Range(Lines') \cup Range(Entries') = Before(next) \cup {i}
      BY <2>3, <3>3, <3>4, <3>5, <3>6
    <3>8. QED
      BY <2>3, <3>1, <3>2, <3>3, <3>4, <3>5, <3>7
  <2>8. CASE UNCHANGED <<plan, next, breakdown, unpriced>>
    BY <2>3, <2>8 DEF Classified, ClassOf, Lines, Entries
  <2>9. QED
    BY <2>5, <2>6, <2>7, <2>8 DEF Next, Step, vars, RaiseOnLine, Report
<1>3. QED
  BY <1>1, <1>2

\* Each classified change the loop has passed is in the report exactly once, as
\* a line or as an unpriced entry, in plan order (R7).
THEOREM EveryChangeAccounted == Spec => []Accounted
  BY InitBegins, AccountsAreInductive, TypeCorrect, PTL DEF Spec

-----------------------------------------------------------------------------
(***************************************************************************)
(* Money.  The sums of the properties, over the positions of the plan, and *)
(* the inductive invariant: what the loop has added up so far is the sum   *)
(* over the priced positions it has passed.                                *)
(***************************************************************************)
CentsOf     == [i \in DOMAIN plan |-> LineCents(plan[i])]
MagnitudeOf == [i \in DOMAIN plan |-> Magnitude(LineCents(plan[i]))]
ExactOf     == [i \in DOMAIN plan |-> Delta(plan[i]).exact]
GrossOf     == [i \in DOMAIN plan |-> Gross(plan[i])]
LineSum     == SumOver(LAMBDA n : breakdown[n].cents, DOMAIN breakdown)

PricedBefore(k) == {i \in PricedPositions : i < k}

\* A total is as close as RoundingIsBounded says to the exact amount of so many
\* lines for which that much was priced in all.
Bounded(cents, exact, lines, gross) ==
    2 * Precision * Magnitude(TicksPerCent * cents - exact)
        <= Precision * TicksPerCent * lines + 50 * gross

Sums ==
    SumsRepresentable =>
        /\ total = SumOn(CentsOf, PricedBefore(next))
        /\ total = LineSum
        /\ Bounded(total, SumOn(ExactOf, PricedBefore(next)), Len(breakdown),
                   SumOn(GrossOf, PricedBefore(next)))

LEMMA PositionsAreFinite ==
  ASSUME plan \in Plans
  PROVE  /\ IsFiniteSet(DOMAIN plan)
         /\ PricedPositions \in SUBSET DOMAIN plan
         /\ \A k : PricedBefore(k) \in SUBSET PricedPositions
<1>1. DOMAIN plan = 1 .. Len(plan) /\ Len(plan) \in Nat
  BY PlansAssumption
<1>2. QED
  BY <1>1, FS_Interval DEF PricedPositions, PricedBefore, Classified

LEMMA TermsAreNumbers ==
  ASSUME plan \in Plans, region \in DOMAIN Rates
  PROVE  /\ CentsOf \in [DOMAIN plan -> Int]
         /\ MagnitudeOf \in [DOMAIN plan -> Nat]
         /\ ExactOf \in [DOMAIN plan -> Int]
         /\ GrossOf \in [DOMAIN plan -> Int]
<1>1. \A i \in DOMAIN plan : /\ LineCents(plan[i]) \in Int
                            /\ Delta(plan[i]).exact \in Int /\ Gross(plan[i]) \in Int
  BY ChangesOfPlans, LinesAndFaults, DeltaIsQuote DEF Quotes
<1>2. \A i \in DOMAIN plan : Magnitude(LineCents(plan[i])) \in Nat
  BY <1>1 DEF Magnitude
<1>3. QED
  BY <1>1, <1>2 DEF CentsOf, MagnitudeOf, ExactOf, GrossOf

\* The sums the properties are written with.
LEMMA SumsOverPositions ==
  ASSUME NEW T \in SUBSET DOMAIN plan
  PROVE  /\ SumOver(LAMBDA i : LineCents(plan[i]), T) = SumOn(CentsOf, T)
         /\ SumOver(LAMBDA i : Magnitude(LineCents(plan[i])), T) = SumOn(MagnitudeOf, T)
         /\ SumOver(LAMBDA i : Delta(plan[i]).exact, T) = SumOn(ExactOf, T)
         /\ SumOver(LAMBDA i : Gross(plan[i]), T) = SumOn(GrossOf, T)
<1>1. [i \in T |-> LineCents(plan[i])] = [i \in T |-> CentsOf[i]]
  BY DEF CentsOf
<1>2. [i \in T |-> Magnitude(LineCents(plan[i]))] = [i \in T |-> MagnitudeOf[i]]
  BY DEF MagnitudeOf
<1>3. [i \in T |-> Delta(plan[i]).exact] = [i \in T |-> ExactOf[i]]
  BY DEF ExactOf
<1>4. [i \in T |-> Gross(plan[i])] = [i \in T |-> GrossOf[i]]
  BY DEF GrossOf
<1>5. QED
  BY <1>1, <1>2, <1>3, <1>4 DEF SumOver, SumOn

\* While no partial sum can leave the context, adding in it is exact.
LEMMA AddingIsExact ==
  ASSUME plan \in Plans, region \in DOMAIN Rates, SumsRepresentable,
         NEW T \in SUBSET PricedPositions
  PROVE  ContextRound(SumOn(CentsOf, T)) = SumOn(CentsOf, T)
<1> DEFINE P == PricedPositions
           s == SumOn(CentsOf, T)
<1>1. /\ IsFiniteSet(DOMAIN plan) /\ P \in SUBSET DOMAIN plan /\ T \in SUBSET DOMAIN plan
      /\ IsFiniteSet(P)
  BY PositionsAreFinite, FS_Subset
<1>2. -SumOn(MagnitudeOf, T) <= s /\ s <= SumOn(MagnitudeOf, T)
  <2>1. \A i \in DOMAIN plan : -MagnitudeOf[i] <= CentsOf[i] /\ CentsOf[i] <= MagnitudeOf[i]
    BY TermsAreNumbers DEF MagnitudeOf, CentsOf, Magnitude
  <2>2. MagnitudeOf \in [DOMAIN plan -> Int]
    BY TermsAreNumbers
  <2>3. QED
    BY <1>1, <2>1, <2>2, TermsAreNumbers, SumIsBounded
<1>3. SumOn(MagnitudeOf, T) <= SumOn(MagnitudeOf, P)
  <2> DEFINE m == [i \in P |-> MagnitudeOf[i]]
  <2>1. m \in [P -> Nat]
    BY <1>1, TermsAreNumbers
  <2>2. SumOn(m, T) <= SumOn(m, P)
    <3> HIDE DEF m, P
    <3>1. T \in SUBSET P
      BY DEF P
    <3>2. QED
      BY <1>1, <2>1, <3>1, SumGrows
  <2>3. [i \in T |-> m[i]] = [i \in T |-> MagnitudeOf[i]]
        /\ [i \in P |-> m[i]] = [i \in P |-> MagnitudeOf[i]]
    OBVIOUS
  <2>4. QED
    BY <2>2, <2>3 DEF SumOn
<1>4. SumOn(MagnitudeOf, P) <= MaxCents
  BY <1>1, SumsOverPositions DEF SumsRepresentable
<1>5. s \in Int /\ SumOn(MagnitudeOf, T) \in Int /\ SumOn(MagnitudeOf, P) \in Int
  <2>1. MagnitudeOf \in [DOMAIN plan -> Int]
    BY TermsAreNumbers
  <2>2. QED
    BY <1>1, <2>1, TermsAreNumbers, SumIsInt
<1> HIDE DEF s, P
<1>6. s \in Int /\ Magnitude(s) < Precision
  BY <1>2, <1>3, <1>4, <1>5, MoneyAssumption DEF MaxCents, Magnitude
<1>7. QED
  BY <1>6, ContextRoundIs DEF s

\* Prices are of the region and the plan, and neither is written.
LEMMA SameSums ==
  ASSUME plan' = plan, region' = region
  PROVE  /\ CentsOf' = CentsOf /\ ExactOf' = ExactOf /\ GrossOf' = GrossOf
         /\ PricedPositions' = PricedPositions
         /\ SumsRepresentable' = SumsRepresentable
<1>1. \A service, key : RateOf(service, key)' = RateOf(service, key)
  BY DEF RateOf
<1>2. \A type, attrs : MonthlyCost(type, attrs)' = MonthlyCost(type, attrs)
  BY <1>1 DEF MonthlyCost, PerGB, PerMonth
<1>3. \A change : /\ Delta(change)' = Delta(change)
                  /\ FaultOf(change)' = FaultOf(change)
                  /\ LineCents(change)' = LineCents(change)
                  /\ Gross(change)' = Gross(change)
  BY <1>2 DEF Delta, FaultOf, LineCents, Gross
<1>4. /\ [i \in DOMAIN plan |-> LineCents(plan[i])]' = [i \in DOMAIN plan |-> LineCents(plan[i])]
      /\ [i \in DOMAIN plan |-> Delta(plan[i]).exact]' = [i \in DOMAIN plan |-> Delta(plan[i]).exact]
      /\ [i \in DOMAIN plan |-> Gross(plan[i])]' = [i \in DOMAIN plan |-> Gross(plan[i])]
  BY <1>3
<1>5. PricedPositions' = PricedPositions
  BY <1>3 DEF PricedPositions, Classified, ClassOf
<1>6. SumsRepresentable' = SumsRepresentable
  BY <1>3, <1>5 DEF SumsRepresentable, SumOver
<1>7. QED
  BY <1>4, <1>5, <1>6 DEF CentsOf, ExactOf, GrossOf

\* A line is within half a cent of what it rounds.
LEMMA RoundingIsClose ==
  ASSUME NEW ticks \in Int
  PROVE  2 * Magnitude(TicksPerCent * RoundHalfUp(ticks) - ticks) <= TicksPerCent
<1> DEFINE h == TicksPerCent \div 2
           m == Magnitude(ticks)
           cents == (m + h) \div TicksPerCent
           r == (m + h) % TicksPerCent
<1>1. TicksPerCent \in Nat /\ TicksPerCent > 0 /\ h \in Nat /\ TicksPerCent = 2 * h
  BY MoneyAssumption
<1>2. m \in Nat
  BY DEF Magnitude
<1>3. /\ m + h = TicksPerCent * cents + r
      /\ r \in 0 .. TicksPerCent - 1 /\ cents \in Nat
  <2>1. m + h \in Nat
    BY <1>1, <1>2
  <2> DEFINE n == m + h
  <2> HIDE DEF m, h
  <2>2. n \in Nat /\ TicksPerCent \in Nat \ {0}
    BY <1>1, <2>1
  <2> HIDE DEF n
  <2>3. /\ n = TicksPerCent * (n \div TicksPerCent) + (n % TicksPerCent)
        /\ n % TicksPerCent \in 0 .. TicksPerCent - 1
    BY <2>2
  <2>4. n \div TicksPerCent \in Nat
    BY <2>2, QuotientIsNat
  <2>5. QED
    BY <2>3, <2>4 DEF n
<1>4. RoundHalfUp(ticks) = IF ticks < 0 THEN -cents ELSE cents
  BY DEF RoundHalfUp
<1>5. ticks = IF ticks < 0 THEN -m ELSE m
  BY DEF Magnitude
<1> HIDE DEF h, m, cents, r
<1> DEFINE p == TicksPerCent * cents
<1>6. p \in Int /\ TicksPerCent * (-cents) = -p
  BY <1>1, <1>3
<1>7. p - m = h - r
  BY <1>1, <1>2, <1>3, <1>6
<1>8. TicksPerCent * RoundHalfUp(ticks) = IF ticks < 0 THEN -p ELSE p
  BY <1>4, <1>6
<1> HIDE DEF p
<1>9. QED
  BY <1>1, <1>2, <1>3, <1>5, <1>6, <1>7, <1>8 DEF Magnitude

\* What a line adds to the sum of the lines.
LEMMA SumOfAppended ==
  ASSUME NEW b \in Seq([change : Nat, cents : Int]), NEW e \in [change : Nat, cents : Int]
  PROVE  SumOver(LAMBDA n : Append(b, e)[n].cents, DOMAIN Append(b, e))
           = SumOver(LAMBDA n : b[n].cents, DOMAIN b) + e.cents
<1> DEFINE t == Append(b, e)
           S == 1 .. Len(b) + 1
           f == [n \in S |-> t[n].cents]
<1>1. /\ Len(b) \in Nat /\ DOMAIN b = 1 .. Len(b) /\ DOMAIN t = S
      /\ \A n \in DOMAIN b : t[n] = b[n] /\ b[n].cents \in Int
      /\ t[Len(b) + 1] = e /\ e.cents \in Int
  <2>1. \A n \in DOMAIN b : b[n] \in [change : Nat, cents : Int]
    BY ElementsOf
  <2>2. QED
    BY <2>1
<1> HIDE DEF t
<1>2. IsFiniteSet(S) /\ f \in [S -> Int] /\ f[Len(b) + 1] = e.cents
  <2>1. \A n \in S : n \in DOMAIN b \/ n = Len(b) + 1
    BY <1>1
  <2>2. \A n \in S : t[n].cents \in Int
    BY <1>1, <2>1
  <2>3. IsFiniteSet(S)
    BY <1>1, FS_Interval
  <2>4. QED
    BY <1>1, <2>2, <2>3
<1>3. DOMAIN b \in SUBSET S /\ Len(b) + 1 \in S \ DOMAIN b /\ (DOMAIN b) \cup {Len(b) + 1} = S
  BY <1>1
<1>4. SumOn(f, (DOMAIN b) \cup {Len(b) + 1}) = SumOn(f, DOMAIN b) + f[Len(b) + 1]
  <2> DEFINE x == Len(b) + 1
             T == DOMAIN b
  <2>1. T \in SUBSET S /\ x \in S \ T
    BY <1>3
  <2> HIDE DEF f, S, x, T
  <2>2. SumOn(f, T \cup {x}) = SumOn(f, T) + f[x]
    BY <1>2, <2>1, SumOfOneMore
  <2>3. QED
    BY <2>2 DEF x, T
<1>5. [n \in S |-> f[n]] = [n \in DOMAIN t |-> t[n].cents]
  BY <1>1
<1>6. [n \in DOMAIN b |-> f[n]] = [n \in DOMAIN b |-> b[n].cents]
  BY <1>1
<1>7. QED
  BY <1>2, <1>3, <1>4, <1>5, <1>6 DEF SumOver, SumOn, t

\* What one line more adds to the bound.
LEMMA BoundedOneMore ==
  ASSUME NEW cents \in Int, NEW exact \in Int, NEW lines \in Nat, NEW gross \in Int,
         Bounded(cents, exact, lines, gross),
         NEW line \in Int, NEW ticks \in Int, NEW e \in Int, NEW g \in Int,
         2 * Magnitude(TicksPerCent * line - ticks) <= TicksPerCent,
         Precision * Magnitude(ticks - e) <= 25 * g
  PROVE  Bounded(cents + line, exact + e, lines + 1, gross + g)
<1> DEFINE a == TicksPerCent * cents
           p == TicksPerCent * line
           x == Magnitude(a - exact)
           y == Magnitude(p - ticks)
           z == Magnitude(ticks - e)
           w == Magnitude((a + p) - (exact + e))
<1>1. TicksPerCent \in Nat /\ Precision \in Nat
  BY MoneyAssumption
<1>2. a \in Int /\ p \in Int /\ TicksPerCent * (cents + line) = a + p
  BY <1>1
<1> HIDE DEF a, p
<1>3. x \in Nat /\ y \in Nat /\ z \in Nat /\ w \in Nat /\ w <= x + y + z
  BY <1>2 DEF Magnitude
<1>4. 2 * Precision * x <= Precision * TicksPerCent * lines + 50 * gross
  BY DEF Bounded, a
<1>5. Precision * (2 * y) <= Precision * TicksPerCent
  <2>1. 2 * y <= TicksPerCent
    BY DEF p
  <2> HIDE DEF y
  <2>2. QED
    BY <1>1, <1>3, <2>1, Scaled
<1> HIDE DEF x, y, z, w
<1>6. Precision * z <= 25 * g
  BY DEF z
<1>7. Precision * w <= Precision * (x + y + z)
  BY <1>1, <1>3, Scaled
<1> DEFINE px == Precision * x
           py == Precision * y
           pz == Precision * z
           pw == Precision * w
           pt == Precision * TicksPerCent
           pl == pt * lines
<1>8. /\ px \in Int /\ py \in Int /\ pz \in Int /\ pw \in Int /\ pt \in Int /\ pl \in Int
      /\ Precision * (x + y + z) = px + py + pz
      /\ Precision * (2 * y) = 2 * py
      /\ 2 * Precision * x = 2 * px /\ 2 * Precision * w = 2 * pw
      /\ Precision * TicksPerCent * lines = pl
      /\ Precision * TicksPerCent * (lines + 1) = pl + pt
  BY <1>1, <1>3
<1>9. 2 * px <= pl + 50 * gross /\ 2 * py <= pt /\ pz <= 25 * g /\ pw <= px + py + pz
  BY <1>4, <1>5, <1>6, <1>7, <1>8
<1>10. 2 * pw <= (pl + pt) + 50 * (gross + g)
  <2> HIDE DEF px, py, pz, pw, pt, pl
  <2>1. QED
    BY <1>8, <1>9
<1>11. 2 * Precision * w <= Precision * TicksPerCent * (lines + 1) + 50 * (gross + g)
  BY <1>8, <1>10
<1>12. QED
  BY <1>2, <1>11 DEF Bounded, w

LEMMA SumsAreInductive ==
  /\ Begun => Sums
  /\ TypeOK /\ Sums /\ [Next]_vars => Sums'
<1>1. Begun => Sums
  <2> SUFFICES ASSUME Begun PROVE Sums
    OBVIOUS
  <2>1. next = 1 /\ total = 0 /\ breakdown = <<>>
    BY DEF Begun, LoopInit
  <2>2. PricedBefore(next) = {}
    <3>1. \A i \in DOMAIN plan : i \in Nat /\ i >= 1
      BY PlansAssumption DEF Begun
    <3>2. QED
      BY <2>1, <3>1 DEF PricedBefore, PricedPositions, Classified
  <2>3. SumOn(CentsOf, {}) = 0 /\ SumOn(ExactOf, {}) = 0 /\ SumOn(GrossOf, {}) = 0
    BY SumOfNone
  <2>4. LineSum = 0
    <3>1. LineSum = SumOn([n \in {} |-> 0], {})
      <4>1. DOMAIN breakdown = {}
        BY <2>1
      <4>2. [n \in DOMAIN breakdown |-> breakdown[n].cents] = [x \in {} |-> [n \in {} |-> 0][x]]
        BY <4>1
      <4>3. QED
        BY <4>2 DEF LineSum, SumOver, SumOn
    <3>2. QED
      BY <3>1, SumOfNone
  <2>5. /\ SumOn(CentsOf, PricedBefore(next)) = 0
        /\ SumOn(ExactOf, PricedBefore(next)) = 0
        /\ SumOn(GrossOf, PricedBefore(next)) = 0
    BY <2>2, <2>3
  <2>6. Len(breakdown) = 0
    BY <2>1
  <2>7. Bounded(0, 0, 0, 0)
    <3>1. TicksPerCent * 0 = 0 /\ Magnitude(0 - 0) = 0
      BY MoneyAssumption DEF Magnitude
    <3>2. 2 * Precision * 0 = 0 /\ Precision * TicksPerCent * 0 + 50 * 0 = 0
      BY MoneyAssumption
    <3>3. QED
      BY <3>1, <3>2 DEF Bounded
  <2>8. Bounded(total, SumOn(ExactOf, PricedBefore(next)), Len(breakdown),
                SumOn(GrossOf, PricedBefore(next)))
    BY <2>1, <2>5, <2>6, <2>7
  <2>9. total = SumOn(CentsOf, PricedBefore(next)) /\ total = LineSum
    BY <2>1, <2>4, <2>5
  <2>10. QED
    BY <2>8, <2>9 DEF Sums
<1>2. TypeOK /\ Sums /\ [Next]_vars => Sums'
  <2> SUFFICES ASSUME TypeOK, Sums, [Next]_vars, SumsRepresentable' PROVE Sums'
    BY DEF Sums
  <2>1. /\ plan \in Plans /\ region \in DOMAIN Rates /\ next \in Nat /\ total \in Int
        /\ breakdown \in Seq([change : Nat, cents : Int])
        /\ \A i \in DOMAIN plan : i \in Nat
    BY PlansAssumption DEF TypeOK, LoopTypeOK
  <2>2. plan' = plan /\ region' = region
    BY DEF Next, Step, vars, SkipExcluded, RecordUnpriced, Price, RaiseOnLine, Report
  <2>3. SumsRepresentable /\ CentsOf' = CentsOf /\ ExactOf' = ExactOf
        /\ GrossOf' = GrossOf
        /\ PricedPositions' = PricedPositions
    BY <2>2, SameSums
  <2>4. /\ total = SumOn(CentsOf, PricedBefore(next))
        /\ total = LineSum
        /\ Bounded(total, SumOn(ExactOf, PricedBefore(next)), Len(breakdown),
                   SumOn(GrossOf, PricedBefore(next)))
    BY <2>3 DEF Sums
  <2>5. PricedBefore(next)' = {i \in PricedPositions : i < next'}
    BY <2>3 DEF PricedBefore
  \* A step that prices nothing.
  <2>6. ASSUME total' = total, breakdown' = breakdown,
               {i \in PricedPositions : i < next'} = PricedBefore(next)
        PROVE  Sums'
    <3>1. LineSum' = LineSum
      BY <2>6 DEF LineSum, SumOver
    <3>2. SumOn(CentsOf, PricedBefore(next))' = SumOn(CentsOf, PricedBefore(next))
          /\ SumOn(ExactOf, PricedBefore(next))' = SumOn(ExactOf, PricedBefore(next))
          /\ SumOn(GrossOf, PricedBefore(next))' = SumOn(GrossOf, PricedBefore(next))
      BY <2>3, <2>5, <2>6 DEF SumOn
    <3>3. QED
      BY <2>4, <2>6, <3>1, <3>2 DEF Sums, Bounded, Magnitude
  <2>7. ASSUME NEW i \in DOMAIN plan, SkipExcluded(i) PROVE Sums'
    <3>1. next \notin PricedPositions /\ next' = next + 1
      BY <2>7 DEF SkipExcluded, Visiting, PricedPositions, Classified, ActionClass, Excluded
    <3>2. {j \in PricedPositions : j < next'} = PricedBefore(next)
      BY <2>1, <3>1 DEF PricedBefore, PricedPositions, Classified
    <3>3. QED
      BY <2>6, <2>7, <3>2 DEF SkipExcluded
  <2>8. ASSUME NEW i \in DOMAIN plan, RecordUnpriced(i) PROVE Sums'
    <3>1. next \notin PricedPositions /\ next' = next + 1
      BY <2>8 DEF RecordUnpriced, Visiting, PricedPositions
    <3>2. {j \in PricedPositions : j < next'} = PricedBefore(next)
      BY <2>1, <3>1 DEF PricedBefore, PricedPositions, Classified
    <3>3. QED
      BY <2>6, <2>8, <3>2 DEF RecordUnpriced
  <2>9. ASSUME NEW i \in DOMAIN plan, Price(i) PROVE Sums'
    <3> DEFINE line == LineCents(plan[i])
               ticks == Delta(plan[i]).ticks
               exact == Delta(plan[i]).exact
               gross == Gross(plan[i])
               T == PricedBefore(next)
    <3>1. i = next /\ i \in PricedPositions /\ next' = next + 1
      BY <2>9 DEF Price, Visiting, PricedPositions, Classified
    <3>2. {j \in PricedPositions : j < next'} = T \cup {i}
      BY <2>1, <3>1 DEF PricedBefore, PricedPositions, Classified
    <3>3. /\ IsFiniteSet(DOMAIN plan) /\ T \in SUBSET DOMAIN plan /\ i \in (DOMAIN plan) \ T
          /\ T \cup {i} \in SUBSET PricedPositions
      BY <3>1, <2>1, PositionsAreFinite DEF PricedBefore
    <3>4. /\ line \in Int /\ ticks \in Int /\ exact \in Int /\ gross \in Int
          /\ CentsOf[i] = line /\ ExactOf[i] = exact /\ GrossOf[i] = gross
          /\ Precision * Magnitude(ticks - exact) <= 25 * gross
      <4>1. plan[i] \in Changes
        BY <2>1, ChangesOfPlans
      <4>2. QED
        BY <2>1, <4>1, LinesAndFaults, DeltaIsQuote DEF Quotes, CentsOf, ExactOf, GrossOf
    <3> HIDE DEF T, line, ticks, exact, gross
    <3>5. /\ SumOn(CentsOf, T \cup {i}) = total + line
          /\ SumOn(ExactOf, T \cup {i}) = SumOn(ExactOf, T) + exact
          /\ SumOn(GrossOf, T \cup {i}) = SumOn(GrossOf, T) + gross
          /\ SumOn(ExactOf, T) \in Int /\ SumOn(GrossOf, T) \in Int
      <4>1. /\ SumOn(CentsOf, T \cup {i}) = SumOn(CentsOf, T) + CentsOf[i]
            /\ SumOn(ExactOf, T \cup {i}) = SumOn(ExactOf, T) + ExactOf[i]
            /\ SumOn(GrossOf, T \cup {i}) = SumOn(GrossOf, T) + GrossOf[i]
            /\ SumOn(ExactOf, T) \in Int /\ SumOn(GrossOf, T) \in Int
        <5> DEFINE D == DOMAIN plan
        <5>1. CentsOf \in [D -> Int] /\ ExactOf \in [D -> Int] /\ GrossOf \in [D -> Int]
          BY <2>1, TermsAreNumbers
        <5>2. IsFiniteSet(D) /\ T \in SUBSET D /\ i \in D \ T
          BY <3>3
        <5> HIDE DEF D
        <5>3. QED
          BY <5>1, <5>2, SumOfOneMore
      <4>2. QED
        BY <2>4, <3>4, <4>1 DEF T
    <3>6. total' = total + line
      <4>1. ContextRound(SumOn(CentsOf, T \cup {i})) = SumOn(CentsOf, T \cup {i})
        BY <2>1, <2>3, <3>3, AddingIsExact
      <4>2. QED
        BY <2>9, <3>5, <4>1 DEF Price, line
    <3>7. LineSum' = total + line
      <4> DEFINE e == [change |-> i, cents |-> line]
      <4>1. e \in [change : Nat, cents : Int] /\ e.cents = line
        BY <2>1, <3>4
      <4>2. breakdown' = Append(breakdown, e)
        BY <2>9 DEF Price, line
      <4> HIDE DEF e
      <4>3. LineSum' = SumOver(LAMBDA n : Append(breakdown, e)[n].cents, DOMAIN Append(breakdown, e))
        BY <4>2 DEF LineSum, SumOver
      <4>4. QED
        BY <2>1, <2>4, <4>1, <4>3, SumOfAppended DEF LineSum
    <3>8. SumOn(CentsOf, PricedBefore(next))' = SumOn(CentsOf, T \cup {i})
          /\ SumOn(ExactOf, PricedBefore(next))' = SumOn(ExactOf, T \cup {i})
          /\ SumOn(GrossOf, PricedBefore(next))' = SumOn(GrossOf, T \cup {i})
      BY <2>3, <2>5, <3>2 DEF SumOn
    <3>9. Len(breakdown') = Len(breakdown) + 1 /\ Len(breakdown) \in Nat
      BY <2>1, <2>9 DEF Price
    <3>10. Bounded(total + line, SumOn(ExactOf, T) + exact, Len(breakdown) + 1,
                   SumOn(GrossOf, T) + gross)
      <4>1. 2 * Magnitude(TicksPerCent * line - ticks) <= TicksPerCent
        BY <3>4, RoundingIsClose DEF line, ticks, LineCents
      <4>2. Bounded(total, SumOn(ExactOf, T), Len(breakdown), SumOn(GrossOf, T))
        BY <2>4 DEF T
      <4>3. QED
        BY <2>1, <3>4, <3>5, <3>9, <4>1, <4>2, BoundedOneMore
    <3>11. QED
      BY <3>5, <3>6, <3>7, <3>8, <3>9, <3>10 DEF Sums, Bounded, Magnitude
  <2>10. CASE UNCHANGED <<total, breakdown, next>>
    BY <2>6, <2>10 DEF PricedBefore
  <2>11. QED
    BY <2>7, <2>8, <2>9, <2>10 DEF Next, Step, vars, RaiseOnLine, Report
<1>3. QED
  BY <1>1, <1>2

LEMMA SumsHold == Spec => []Sums
  BY InitBegins, SumsAreInductive, TypeCorrect, PTL DEF Spec

\* Reporting is the loop's last step, and everything priced is behind it.
AllPassed == status = "reported" => next = Len(plan) + 1

LEMMA PassingIsInductive ==
  /\ Begun => AllPassed
  /\ AllPassed /\ [Next]_vars => AllPassed'
<1>1. Begun => AllPassed
  BY DEF Begun, LoopInit, AllPassed
<1>2. AllPassed /\ [Next]_vars => AllPassed'
  BY DEF AllPassed, Next, Step, vars, Visiting, SkipExcluded, RecordUnpriced, Price,
         RaiseOnLine, Report, AtEnd
<1>3. QED
  BY <1>1, <1>2

LEMMA ReportedAtEnd == Spec => []AllPassed
  BY InitBegins, PassingIsInductive, PTL DEF Spec

LEMMA AllPassedIsAllPriced ==
  ASSUME TypeOK, AllPassed, status = "reported"
  PROVE  PricedBefore(next) = PricedPositions
<1>1. next = Len(plan) + 1 /\ Len(plan) \in Nat /\ DOMAIN plan = 1 .. Len(plan)
  BY PlansAssumption DEF AllPassed, TypeOK
<1>2. QED
  BY <1>1 DEF PricedBefore, PricedPositions, Classified

\* The total the verdict is about is the sum of the lines the report shows,
\* however many lines there are and however often a sum was rounded to the
\* context on the way (R5, R6).
THEOREM TotalIsAlwaysSumOfLines == Spec => []TotalIsSumOfLines
<1>1. Sums => TotalIsSumOfLines
  BY DEF Sums, TotalIsSumOfLines, LineSum
<1>2. QED
  BY <1>1, SumsHold, PTL

\* Half a cent a line and 25 parts in Precision of all that was priced, at most,
\* lie between the total and the exact costs, whatever sizes the plan holds.
THEOREM RoundingIsAlwaysBounded == Spec => []RoundingIsBounded
<1>1. TypeOK /\ Sums /\ AllPassed => RoundingIsBounded
  <2> SUFFICES ASSUME TypeOK, Sums, AllPassed, status = "reported", SumsRepresentable
               PROVE  Bounded(total, SumOver(LAMBDA i : Delta(plan[i]).exact, PricedPositions),
                              Len(breakdown), SumOver(LAMBDA i : Gross(plan[i]), PricedPositions))
    BY DEF RoundingIsBounded, Bounded
  <2>1. PricedPositions \in SUBSET DOMAIN plan
    BY PositionsAreFinite DEF TypeOK
  <2>2. /\ SumOver(LAMBDA i : Delta(plan[i]).exact, PricedPositions) = SumOn(ExactOf, PricedPositions)
        /\ SumOver(LAMBDA i : Gross(plan[i]), PricedPositions) = SumOn(GrossOf, PricedPositions)
    BY <2>1, SumsOverPositions
  <2>3. QED
    BY <2>2, AllPassedIsAllPriced DEF Sums
<1>2. QED
  BY <1>1, SumsHold, ReportedAtEnd, TypeCorrect, PTL

-----------------------------------------------------------------------------
(***************************************************************************)
(* Undoing a change.                                                       *)
(***************************************************************************)
LEMMA UndoneClass ==
  ASSUME NEW change \in Changes, ClassOf(change) \in ActionClass
  PROVE  /\ ClassOf(change) = "create" => ClassOf(Undo(change)) = "delete"
         /\ ClassOf(change) = "delete" => ClassOf(Undo(change)) = "create"
         /\ ClassOf(change) \in {"update", "replace"} => ClassOf(Undo(change)) = ClassOf(change)
<1> DEFINE acts == Undo(change).actions
<1>1. acts = CASE ClassOf(change) = "create" -> <<"delete">>
               [] ClassOf(change) = "delete" -> <<"create">>
               [] OTHER -> Reverse(change.actions)
  BY DEF Undo, Changes
<1>2. ClassOf(Undo(change)) = ClassifyActions(acts)
  BY DEF ClassOf
<1> HIDE DEF acts
<1>3. ASSUME ClassOf(change) = "create" PROVE ClassOf(Undo(change)) = "delete"
  BY <1>1, <1>2, <1>3 DEF ClassifyActions
<1>4. ASSUME ClassOf(change) = "delete" PROVE ClassOf(Undo(change)) = "create"
  BY <1>1, <1>2, <1>4 DEF ClassifyActions
<1>5. ASSUME ClassOf(change) = "update" PROVE ClassOf(Undo(change)) = "update"
  <2>1. change.actions = <<"update">>
    BY <1>5 DEF ClassOf, ClassifyActions, Excluded, Unrecognized
  <2>2. Reverse(<<"update">>) = <<"update">>
    BY DEF Reverse
  <2>3. acts = <<"update">>
    BY <1>1, <1>5, <2>1, <2>2
  <2>4. QED
    BY <1>2, <2>3 DEF ClassifyActions
<1>6. ASSUME ClassOf(change) = "replace" PROVE ClassOf(Undo(change)) = "replace"
  <2>1. change.actions \in {<<"create", "delete">>, <<"delete", "create">>}
    BY <1>6 DEF ClassOf, ClassifyActions, Excluded, Unrecognized
  <2>2. /\ Reverse(<<"create", "delete">>) = <<"delete", "create">>
        /\ Reverse(<<"delete", "create">>) = <<"create", "delete">>
    BY DEF Reverse
  <2>3. acts \in {<<"create", "delete">>, <<"delete", "create">>}
    BY <1>1, <1>6, <2>1, <2>2
  <2>4. QED
    BY <1>2, <2>3 DEF ClassifyActions
<1>7. QED
  BY <1>3, <1>4, <1>5, <1>6 DEF ActionClass

LEMMA DifferenceOfPrices ==
  ASSUME NEW p \in Prices, NEW q \in Prices
  PROVE  /\ Minus(p, q).fault = NoFault <=> (p.fault = NoFault /\ q.fault = NoFault)
         /\ Minus(p, q).fault = NoFault => Minus(p, q).ticks = ContextRound(p.ticks - q.ticks)
<1>1. CASE p.fault # NoFault
  BY <1>1 DEF Minus, Combined
<1>2. CASE p.fault = NoFault /\ q.fault # NoFault
  BY <1>2 DEF Minus, Combined
<1>3. CASE p.fault = NoFault /\ q.fault = NoFault
  BY <1>3 DEF Minus, Combined, Quote
<1>4. QED
  BY <1>1, <1>2, <1>3

\* Ties are rounded away from zero, so the two sides of zero are alike.
LEMMA RoundingIsOdd ==
  ASSUME NEW ticks \in Int
  PROVE  RoundHalfUp(-ticks) = -RoundHalfUp(ticks)
<1>1. Magnitude(-ticks) = Magnitude(ticks)
  BY DEF Magnitude
<1> DEFINE cents == (Magnitude(ticks) + (TicksPerCent \div 2)) \div TicksPerCent
<1>2. /\ RoundHalfUp(ticks) = IF ticks < 0 THEN -cents ELSE cents
      /\ RoundHalfUp(-ticks) = IF -ticks < 0 THEN -cents ELSE cents
  BY <1>1 DEF RoundHalfUp
<1>3. cents \in Int
  BY MoneyAssumption DEF Magnitude
<1>4. ticks = 0 => RoundHalfUp(ticks) = 0
  BY RoundingKeepsSign
<1> HIDE DEF cents
<1>5. QED
  BY <1>2, <1>3, <1>4

LEMMA UndoneDelta ==
  ASSUME region \in DOMAIN Rates, NEW change \in Changes, ClassOf(change) \in ActionClass
  PROVE  /\ FaultOf(Undo(change)) = NoFault <=> FaultOf(change) = NoFault
         /\ FaultOf(change) = NoFault => LineCents(Undo(change)) = -LineCents(change)
<1> DEFINE u == Undo(change)
           a == MonthlyCost(change.type, change.after)
           b == MonthlyCost(change.type, change.before)
<1>1. u.type = change.type /\ u.before = change.after /\ u.after = change.before
  BY DEF Undo, Changes
<1>2. a \in Prices /\ b \in Prices
  BY MonthlyCostIsPrice DEF Changes, PricesNear
<1>3. a.ticks \in Int /\ b.ticks \in Int
  BY <1>2 DEF Prices
<1>4. /\ Delta(u).fault = NoFault <=> Delta(change).fault = NoFault
      /\ Delta(change).fault = NoFault => Delta(u).ticks = -Delta(change).ticks
  <2>1. CASE ClassOf(change) = "create"
    <3>1. Delta(change) = a /\ Delta(u) = Negated(a)
      BY <1>1, <2>1, UndoneClass DEF Delta
    <3>2. QED
      BY <3>1 DEF Negated
  <2>2. CASE ClassOf(change) = "delete"
    <3>1. Delta(change) = Negated(b) /\ Delta(u) = b
      BY <1>1, <2>2, UndoneClass DEF Delta
    <3>2. QED
      BY <1>3, <3>1 DEF Negated
  <2>3. CASE ClassOf(change) \in {"update", "replace"}
    <3>1. Delta(change) = Minus(a, b) /\ Delta(u) = Minus(b, a)
      BY <1>1, <2>3, UndoneClass DEF Delta
    <3>2. ContextRound(b.ticks - a.ticks) = -ContextRound(a.ticks - b.ticks)
      <4>1. a.ticks - b.ticks \in Int /\ b.ticks - a.ticks = -(a.ticks - b.ticks)
        BY <1>3
      <4>2. QED
        BY <4>1, ContextRoundIs
    <3> HIDE DEF a, b, u
    <3>3. QED
      BY <1>2, <3>1, <3>2, DifferenceOfPrices
  <2>4. QED
    BY <2>1, <2>2, <2>3 DEF ActionClass
<1>5. FaultOf(u) = NoFault <=> FaultOf(change) = NoFault
  BY <1>1, <1>4 DEF FaultOf
<1>6. FaultOf(change) = NoFault => Delta(change).fault = NoFault
  BY DEF FaultOf, NoFault
<1>7. Delta(change).ticks \in Int
  BY DeltaIsQuote DEF Quotes
<1>8. QED
  BY <1>4, <1>5, <1>6, <1>7, RoundingIsOdd DEF LineCents

\* The plan that undoes a plan prices the same changes and totals the opposite
\* amount: no rounding is left over between the two reports (R5, R6).
THEOREM UndoingAlwaysCostsTheOpposite == Spec => []UndoCostsTheOpposite
<1>1. TypeOK /\ Sums /\ AllPassed => UndoCostsTheOpposite
  <2> SUFFICES ASSUME TypeOK, Sums, AllPassed, status = "reported", SumsRepresentable
               PROVE  /\ total = -SumOver(LAMBDA i : LineCents(Undo(plan[i])), PricedPositions)
                      /\ \A i \in Classified(plan) :
                            (FaultOf(Undo(plan[i])) = NoFault) = (i \in PricedPositions)
    BY DEF UndoCostsTheOpposite
  <2> DEFINE S == PricedPositions
             f == [i \in S |-> LineCents(plan[i])]
             e == [i \in S |-> LineCents(Undo(plan[i]))]
  <2>1. /\ plan \in Plans /\ region \in DOMAIN Rates
        /\ S \in SUBSET DOMAIN plan /\ IsFiniteSet(S)
    BY PositionsAreFinite, FS_Subset DEF TypeOK
  <2>2. \A i \in Classified(plan) :
            plan[i] \in Changes /\ ClassOf(plan[i]) \in ActionClass /\ LineCents(plan[i]) \in Int
    BY <2>1, ChangesOfPlans, LinesAndFaults DEF Classified
  <2>3. \A i \in Classified(plan) :
            /\ FaultOf(Undo(plan[i])) = NoFault <=> FaultOf(plan[i]) = NoFault
            /\ FaultOf(plan[i]) = NoFault => LineCents(Undo(plan[i])) = -LineCents(plan[i])
    BY <2>1, <2>2, UndoneDelta
  <2>4. \A i \in S : f[i] \in Int /\ e[i] = -f[i]
    BY <2>2, <2>3 DEF PricedPositions
  <2>5. f \in [S -> Int] /\ e \in [S -> Int]
    BY <2>4
  <2>6. SumOn(e, S) = -SumOn(f, S)
    <3> HIDE DEF S, e, f
    <3>1. QED
      BY <2>1, <2>4, <2>5, SumOfOpposites
  <2>7. [i \in S |-> e[i]] = [i \in S |-> LineCents(Undo(plan[i]))]
        /\ [i \in S |-> f[i]] = [i \in S |-> CentsOf[i]]
    BY <2>1 DEF CentsOf
  <2>8. total = SumOn(f, S)
    BY <2>7, AllPassedIsAllPriced DEF Sums, SumOn
  <2>9. SumOn(f, S) \in Int
    <3> HIDE DEF S, f
    <3>1. QED
      BY <2>1, <2>5, SumIsInt
  <2>10. total = -SumOver(LAMBDA i : LineCents(Undo(plan[i])), PricedPositions)
    BY <2>6, <2>7, <2>8, <2>9 DEF SumOver, SumOn
  <2>11. \A i \in Classified(plan) :
            (FaultOf(Undo(plan[i])) = NoFault) = (i \in PricedPositions)
    BY <2>3 DEF PricedPositions
  <2>12. QED
    BY <2>10, <2>11
<1>2. QED
  BY <1>1, SumsHold, ReportedAtEnd, TypeCorrect, PTL

-----------------------------------------------------------------------------
(***************************************************************************)
(* The loop as a part of a run, which starts it and reads what it leaves.  *)
(***************************************************************************)

\* A change is a line if it has a price, and an unpriced entry if it has none.
ListedRightly ==
  /\ \A n \in DOMAIN breakdown : breakdown[n].change \in PricedPositions
  /\ \A n \in DOMAIN unpriced : unpriced[n].change \notin PricedPositions

LEMMA ListingIsInductive ==
  /\ Begun => ListedRightly
  /\ TypeOK /\ ListedRightly /\ [Next]_vars => ListedRightly'
<1>1. Begun => ListedRightly
  BY DEF Begun, LoopInit, ListedRightly
<1>2. TypeOK /\ ListedRightly /\ [Next]_vars => ListedRightly'
  <2> SUFFICES ASSUME TypeOK, ListedRightly, [Next]_vars PROVE ListedRightly'
    OBVIOUS
  <2>1. UNCHANGED <<plan, region>>
    BY DEF Next, Step, vars, SkipExcluded, RecordUnpriced, Price, RaiseOnLine, Report
  <2>2. PricedPositions' = PricedPositions
    BY <2>1, SameSums
  <2>3. /\ breakdown \in Seq([change : Nat, cents : Int])
        /\ unpriced \in Seq([change : Nat, reason : Reasons])
    BY DEF TypeOK, LoopTypeOK
  <2>4. ASSUME NEW i \in DOMAIN plan, RecordUnpriced(i) PROVE ListedRightly'
    <3>1. /\ unpriced' = Append(unpriced, [change |-> i, reason |-> FaultOf(plan[i])])
          /\ breakdown' = breakdown /\ i \notin PricedPositions
      BY <2>4 DEF RecordUnpriced, PricedPositions
    <3>2. \A n \in DOMAIN unpriced' : (n \in DOMAIN unpriced /\ unpriced'[n] = unpriced[n])
                                       \/ unpriced'[n].change = i
      BY <2>3, <3>1
    <3>3. QED
      BY <2>2, <3>1, <3>2 DEF ListedRightly
  <2>5. ASSUME NEW i \in DOMAIN plan, Price(i) PROVE ListedRightly'
    <3>1. /\ breakdown' = Append(breakdown, [change |-> i, cents |-> LineCents(plan[i])])
          /\ unpriced' = unpriced /\ i \in PricedPositions
      BY <2>5 DEF Price, PricedPositions, Classified
    <3>2. \A n \in DOMAIN breakdown' : (n \in DOMAIN breakdown /\ breakdown'[n] = breakdown[n])
                                        \/ breakdown'[n].change = i
      BY <2>3, <3>1
    <3>3. QED
      BY <2>2, <3>1, <3>2 DEF ListedRightly
  <2>6. CASE UNCHANGED <<breakdown, unpriced>>
    BY <2>2, <2>6 DEF ListedRightly
  <2>7. QED
    BY <2>4, <2>5, <2>6 DEF Next, Step, vars, SkipExcluded, RaiseOnLine, Report
<1>3. QED
  BY <1>1, <1>2

LoopInv == TypeOK /\ Accounted /\ Sums /\ AllPassed /\ ListedRightly

\* The loop keeps its invariant from the moment it is given a plan and a region.
LEMMA LoopIsInductive ==
  /\ Begun => LoopInv
  /\ LoopInv /\ [Next]_vars => LoopInv'
  BY TypesAreInductive, AccountsAreInductive, SumsAreInductive, PassingIsInductive,
     ListingIsInductive DEF LoopInv

LEMMA SequenceOf ==
  ASSUME NEW S, NEW n \in Nat, NEW s \in [1 .. n -> S]
  PROVE  s \in Seq(S) /\ Len(s) = n
  OBVIOUS

LEMMA RisingCounts ==
  ASSUME NEW s \in Seq(Nat), Rises(s)
  PROVE  IsFiniteSet(Range(s)) /\ Cardinality(Range(s)) = Len(s)
<1>1. s \in [1 .. Len(s) -> Range(s)] /\ Len(s) \in Nat
  BY DEF Range
<1>2. \A m, n \in 1 .. Len(s) : s[m] = s[n] => m = n
  <2>1. \A m, n \in 1 .. Len(s) : m < n => s[m] < s[n]
    BY DEF Rises
  <2>2. \A m \in 1 .. Len(s) : s[m] \in Nat
    OBVIOUS
  <2>3. QED
    BY <2>1, <2>2
<1>3. s \in Bijection(1 .. Len(s), Range(s))
  BY <1>1, <1>2 DEF Bijection, Injection, Surjection, IsInjective, Range
<1>4. ExistsBijection(1 .. Len(s), Range(s))
  BY <1>3 DEF ExistsBijection
<1>5. QED
  BY <1>1, <1>4, FS_CountingElements, FS_NatBijection

\* What is left when it has reported: the exact sum of the lines, and an entry
\* for each classified change, among the unpriced ones if it has no price.
LEMMA ReportedLoop ==
  ASSUME LoopInv, status = "reported"
  PROVE  /\ SumsRepresentable =>
              total = SumOver(LAMBDA i : LineCents(plan[i]), PricedPositions)
         /\ Len(breakdown) \in Nat /\ Len(unpriced) \in Nat
         /\ Len(breakdown) + Len(unpriced) = Cardinality(Classified(plan))
         /\ unpriced # <<>> <=> Classified(plan) \ PricedPositions # {}
<1> USE DEF LoopInv
<1>1. SumsRepresentable => total = SumOver(LAMBDA i : LineCents(plan[i]), PricedPositions)
  <2>1. PricedBefore(next) = PricedPositions
    BY AllPassedIsAllPriced
  <2>2. PricedPositions \in SUBSET DOMAIN plan
    BY PositionsAreFinite DEF TypeOK
  <2>3. SumOver(LAMBDA i : LineCents(plan[i]), PricedPositions) = SumOn(CentsOf, PricedPositions)
    BY <2>2, SumsOverPositions
  <2>4. QED
    BY <2>1, <2>3 DEF Sums
<1>2. /\ breakdown \in Seq([change : Nat, cents : Int])
      /\ unpriced \in Seq([change : Nat, reason : Reasons])
      /\ Len(breakdown) \in Nat /\ Len(unpriced) \in Nat
  BY DEF TypeOK, LoopTypeOK
<1>3. /\ Lines \in Seq(Nat) /\ Len(Lines) = Len(breakdown)
      /\ Entries \in Seq(Nat) /\ Len(Entries) = Len(unpriced)
  <2>1. /\ DOMAIN breakdown = 1 .. Len(breakdown)
        /\ \A n \in DOMAIN breakdown : breakdown[n] \in [change : Nat, cents : Int]
    BY <1>2, ElementsOf
  <2>2. /\ DOMAIN unpriced = 1 .. Len(unpriced)
        /\ \A n \in DOMAIN unpriced : unpriced[n] \in [change : Nat, reason : Reasons]
    BY <1>2, ElementsOf
  <2>3. Lines \in [1 .. Len(breakdown) -> Nat] /\ Entries \in [1 .. Len(unpriced) -> Nat]
    BY <2>1, <2>2 DEF Lines, Entries
  <2>4. QED
    BY <1>2, <2>3, SequenceOf
<1>4. /\ Rises(Lines) /\ Rises(Entries)
      /\ Range(Lines) \cap Range(Entries) = {}
      /\ Range(Lines) \cup Range(Entries) = {i \in Classified(plan) : i < next}
  BY DEF Accounted, Lines, Entries, Rises
<1>5. {i \in Classified(plan) : i < next} = Classified(plan)
  <2>1. next = Len(plan) + 1 /\ Len(plan) \in Nat /\ DOMAIN plan = 1 .. Len(plan)
    BY PlansAssumption DEF AllPassed, TypeOK
  <2>2. QED
    BY <2>1 DEF Classified
<1>6. Len(breakdown) + Len(unpriced) = Cardinality(Classified(plan))
  <2>1. /\ IsFiniteSet(Range(Lines)) /\ Cardinality(Range(Lines)) = Len(breakdown)
        /\ IsFiniteSet(Range(Entries)) /\ Cardinality(Range(Entries)) = Len(unpriced)
    BY <1>3, <1>4, RisingCounts
  <2>2. Cardinality(Range(Lines) \cup Range(Entries)) =
           Len(breakdown) + Len(unpriced) - Cardinality(Range(Lines) \cap Range(Entries))
    BY <2>1, FS_Union
  <2>3. Cardinality(Range(Lines) \cap Range(Entries)) = 0
    BY <1>4, FS_EmptySet
  <2>4. Cardinality(Range(Lines) \cup Range(Entries)) = Cardinality(Classified(plan))
    BY <1>4, <1>5
  <2>5. QED
    BY <1>2, <2>2, <2>3, <2>4
<1>7. unpriced # <<>> <=> Classified(plan) \ PricedPositions # {}
  <2>1. ASSUME unpriced # <<>> PROVE Classified(plan) \ PricedPositions # {}
    <3>1. 1 \in DOMAIN unpriced
      BY <1>2, <2>1
    <3>2. unpriced[1].change \in Range(Entries)
      BY <3>1 DEF Range, Entries
    <3>3. QED
      BY <1>4, <1>5, <3>1, <3>2 DEF ListedRightly
  <2>2. ASSUME NEW i \in Classified(plan) \ PricedPositions PROVE unpriced # <<>>
    <3>1. i \in Range(Lines) \cup Range(Entries)
      BY <1>4, <1>5, <2>2
    <3>2. i \notin Range(Lines)
      BY <2>2 DEF Range, Lines, ListedRightly
    <3>3. PICK n \in DOMAIN Entries : Entries[n] = i
      BY <3>1, <3>2 DEF Range
    <3>4. n \in DOMAIN unpriced
      BY <3>3 DEF Entries
    <3>5. QED
      BY <3>4
  <2>3. QED
    BY <2>1, <2>2
<1>8. QED
  BY <1>1, <1>2, <1>6, <1>7

-----------------------------------------------------------------------------
\* The loop passes a change at each step, or ends.
LEMMA EstimateAdvances ==
  /\ TypeOK => ChangesLeft \in 0 .. Len(plan) + 1
  /\ TypeOK /\ Step => ChangesLeft' \in Int /\ ChangesLeft' < ChangesLeft
<1> SUFFICES ASSUME TypeOK
             PROVE  /\ ChangesLeft \in 0 .. Len(plan) + 1
                    /\ Step => ChangesLeft' \in Int /\ ChangesLeft' < ChangesLeft
  OBVIOUS
<1>1. Len(plan) \in Nat /\ next \in 1 .. Len(plan) + 1
  BY PlansAssumption DEF TypeOK, LoopTypeOK
<1>2. ChangesLeft \in 0 .. Len(plan) + 1
  BY <1>1 DEF ChangesLeft
<1>3. ASSUME Step PROVE ChangesLeft' \in Int /\ ChangesLeft' < ChangesLeft
  <2>1. /\ plan' = plan /\ status = "running"
        /\ \/ next' = next + 1 /\ status' = status
           \/ next' = next /\ status' # "running"
    BY <1>3 DEF Step, SkipExcluded, RecordUnpriced, Price, RaiseOnLine, Report, Visiting, AtEnd
  <2>2. QED
    BY <1>1, <2>1 DEF ChangesLeft
<1>4. QED
  BY <1>2, <1>3
=============================================================================
