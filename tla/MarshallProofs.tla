--------------------------- MODULE MarshallProofs ---------------------------
(***************************************************************************)
(* Proofs about Marshall, for every size of a byte, every capacity of a    *)
(* new buffer, every set of values and headers and any number of           *)
(* arguments.                                                              *)
(***************************************************************************)
EXTENDS Marshall, SequenceTheorems, WellFoundedInduction, TLAPS

-----------------------------------------------------------------------------
(***************************************************************************)
(* Induction, for a set of numbers, and functions defined by it.           *)
(***************************************************************************)

\* A set that has 0, and with a number its successor, has all numbers: else
\* there is a least number that it lacks.
LEMMA SetInduction ==
    ASSUME NEW S, 0 \in S, \A n \in Nat : n \in S => n + 1 \in S
    PROVE  \A n \in Nat : n \in S
<1> DEFINE gaps == {n \in Nat : n \notin S}
<1>1. SUFFICES ASSUME gaps # {} PROVE FALSE
  BY <1>1
<1>2. IsWellFoundedOn(OpToRel(<, Nat), Nat) /\ gaps \subseteq Nat
  BY NatLessThanWellFounded, Zenon
<1>3. PICK x \in gaps : \A y \in gaps : ~ (<<y, x>> \in OpToRel(<, Nat))
  BY <1>1, <1>2, WFMin, Zenon
<1>4. \A y \in gaps : ~ (y < x)
  BY <1>3, Zenon DEF OpToRel
<1>5. x \in Nat \ {0} /\ x \notin S
  BY <1>3
<1>6. x - 1 \in Nat /\ x - 1 < x /\ (x - 1) + 1 = x
  BY <1>5
<1>7. x - 1 \notin gaps
  BY <1>4, <1>6
<1> QED
  BY <1>5, <1>6, <1>7

\* A function f with its value at 0, and how each value follows from the one
\* before it.
Recursive(f, S, a, g) ==
    /\ f \in [Nat -> S] /\ f[0] = a
    /\ \A i \in Nat : f[i + 1] = g[i + 1][f[i]]

\* These define a function.
LEMMA PrimitiveRecursion ==
    ASSUME NEW S, NEW a \in S, NEW g \in [Nat -> [S -> S]]
    PROVE  \E f : Recursive(f, S, a, g)
<1> DEFINE Upto(n, f) == f[0] = a /\ \A i \in 0..n - 1 : f[i + 1] = g[i + 1][f[i]]
           good == {n \in Nat : \E f \in [0..n -> S] : Upto(n, f)}
<1>1. 0 \in good
  <2>1. [i \in 0..0 |-> a] \in [0..0 -> S] /\ Upto(0, [i \in 0..0 |-> a])
    OBVIOUS
  <2> QED
    BY <2>1
<1>2. ASSUME NEW n \in Nat, n \in good PROVE n + 1 \in good
  <2>1. PICK f \in [0..n -> S] : Upto(n, f)
    BY <1>2
  <2> DEFINE h == [i \in 0..n + 1 |-> IF i <= n THEN f[i] ELSE g[n + 1][f[n]]]
  <2>2. f[n] \in S /\ g[n + 1][f[n]] \in S
    OBVIOUS
  <2>3. h \in [0..n + 1 -> S]
    BY <2>2
  <2>4. h[0] = a
    BY <2>1
  <2>5. ASSUME NEW i \in 0..n PROVE h[i + 1] = g[i + 1][h[i]]
    <3>1. CASE i = n
      BY <3>1
    <3>2. CASE i # n
      <4>1. i \in 0..n - 1 /\ i + 1 \in 0..n + 1 /\ i + 1 <= n /\ i <= n /\ i \in 0..n + 1
        BY <3>2
      <4>2. h[i + 1] = f[i + 1] /\ h[i] = f[i]
        BY <4>1
      <4> QED
        BY <4>1, <4>2, <2>1
    <3> QED
      BY <3>1, <3>2
  <2>6. (n + 1) - 1 = n
    OBVIOUS
  <2>7. Upto(n + 1, h)
    BY <2>4, <2>5, <2>6
  <2>8. \E e \in [0..n + 1 -> S] : Upto(n + 1, e)
    <3> HIDE DEF h, Upto
    <3> QED
      BY <2>3, <2>7, Zenon
  <2> HIDE DEF h, Upto
  <2> QED
    BY <2>8
<1>3. \A n \in Nat : n \in good
  <2> HIDE DEF good
  <2> QED
    BY <1>1, <1>2, SetInduction
<1>4. ASSUME NEW n \in Nat, NEW k \in Nat, NEW e \in [0..n -> S], NEW f \in [0..k -> S],
             Upto(n, e), Upto(k, f)
      PROVE  \A i \in Nat : i <= n /\ i <= k => e[i] = f[i]
  <2> DEFINE same == {i \in Nat : i <= n /\ i <= k => e[i] = f[i]}
  <2>1. 0 \in same
    BY <1>4
  <2>2. ASSUME NEW i \in Nat, i \in same PROVE i + 1 \in same
    <3>1. SUFFICES ASSUME i + 1 <= n, i + 1 <= k PROVE e[i + 1] = f[i + 1]
      OBVIOUS
    <3>2. i \in 0..n - 1 /\ i \in 0..k - 1 /\ i <= n /\ i <= k
      BY <3>1
    <3>3. e[i] = f[i]
      BY <2>2, <3>2
    <3> QED
      BY <3>2, <3>3, <1>4
  <2>3. \A i \in Nat : i \in same
    <3> HIDE DEF same
    <3> QED
      BY <2>1, <2>2, SetInduction
  <2> QED
    BY <2>3
<1> DEFINE part(n) == CHOOSE f \in [0..n -> S] : Upto(n, f)
           F == [n \in Nat |-> part(n)[n]]
<1>5. \A n \in Nat : part(n) \in [0..n -> S] /\ Upto(n, part(n))
  BY <1>3
<1>6. F \in [Nat -> S] /\ F[0] = a
  <2>1. \A n \in Nat : n \in 0..n
    OBVIOUS
  <2>2. \A n \in Nat : part(n)[n] \in S
    <3> HIDE DEF part
    <3> QED
      BY <1>5, <2>1
  <2>3. part(0)[0] = a
    <3> HIDE DEF part
    <3> QED
      BY <1>5
  <2> HIDE DEF part
  <2> QED
    BY <2>2, <2>3
<1>7. ASSUME NEW i \in Nat PROVE F[i + 1] = g[i + 1][F[i]]
  <2>1. Upto(i, part(i)) /\ Upto(i + 1, part(i + 1)) /\ part(i) \in [0..i -> S]
        /\ part(i + 1) \in [0..i + 1 -> S]
    <3> HIDE DEF part, Upto
    <3>1. i + 1 \in Nat
      OBVIOUS
    <3> QED
      BY <1>5, <3>1
  <2>2. part(i)[i] = part(i + 1)[i]
    <3> HIDE DEF part, Upto
    <3>1. i <= i /\ i <= i + 1 /\ i + 1 \in Nat
      OBVIOUS
    <3> QED
      BY <2>1, <1>4, <3>1
  <2>3. part(i + 1)[i + 1] = g[i + 1][part(i + 1)[i]]
    <3>1. i \in 0..(i + 1) - 1
      OBVIOUS
    <3> HIDE DEF part
    <3> QED
      BY <2>1, <3>1
  <2> HIDE DEF part
  <2> QED
    BY <2>2, <2>3
<1> HIDE DEF F
<1> QED
  BY <1>6, <1>7 DEF Recursive

-----------------------------------------------------------------------------
(***************************************************************************)
(* Products and quotients.                                                 *)
(***************************************************************************)
LEMMA MulMono ==
    ASSUME NEW a \in Nat, NEW c \in Nat, NEW b \in Nat, a < c
    PROVE  a * b + b <= c * b
<1>1. PICK d \in Nat : c = a + 1 + d
  <2>1. c - a - 1 \in Nat /\ c = a + 1 + (c - a - 1)
    OBVIOUS
  <2> QED
    BY <2>1
<1>2. c * b = a * b + b + d * b
  BY <1>1
<1>3. d * b \in Nat /\ a * b \in Nat
  OBVIOUS
<1> QED
  BY <1>2, <1>3

\* Quotient and remainder, for a positive divisor.
LEMMA DivMod ==
    ASSUME NEW q \in Nat, NEW b \in Nat \ {0}
    PROVE  q \div b \in Nat /\ q % b \in 0..b - 1 /\ q = (q \div b) * b + (q % b)
  OBVIOUS

\* There is one quotient and one remainder.
LEMMA DivUnique ==
    ASSUME NEW a \in Nat, NEW b \in Nat \ {0}, NEW r \in 0..b - 1
    PROVE  (a * b + r) \div b = a /\ (a * b + r) % b = r
<1> DEFINE n == a * b + r
           x == n \div b
           y == n % b
<1>1. n \in Nat /\ a * b \in Nat
  OBVIOUS
<1>2. x \in Nat /\ y \in 0..b - 1 /\ n = x * b + y
  <2> HIDE DEF n
  <2> QED
    BY <1>1, DivMod
<1> HIDE DEF x, y
<1>3. ~ (x < a)
  <2>1. SUFFICES ASSUME x < a PROVE FALSE
    OBVIOUS
  <2>2. x * b + b <= a * b
    BY <2>1, <1>2, MulMono
  <2>3. x * b \in Nat
    BY <1>2
  <2> QED
    BY <2>2, <2>3, <1>1, <1>2
<1>4. ~ (a < x)
  <2>1. SUFFICES ASSUME a < x PROVE FALSE
    OBVIOUS
  <2>2. a * b + b <= x * b
    BY <2>1, <1>2, MulMono
  <2>3. x * b \in Nat
    BY <1>2
  <2> QED
    BY <2>2, <2>3, <1>1, <1>2
<1>5. x = a
  BY <1>2, <1>3, <1>4
<1>6. y = r
  BY <1>1, <1>2, <1>5
<1> QED
  BY <1>5, <1>6 DEF x, y

\* A quotient is below k if the number is below k divisors.
LEMMA DivBelow ==
    ASSUME NEW q \in Nat, NEW b \in Nat \ {0}, NEW c \in Nat, q < b * c
    PROVE  q \div b < c
<1>1. q \div b \in Nat /\ q % b \in 0..b - 1 /\ q = (q \div b) * b + (q % b)
  BY DivMod
<1> DEFINE x == q \div b
           y == q % b
<1>2. x \in Nat /\ y \in 0..b - 1 /\ q = x * b + y
  BY <1>1
<1> HIDE DEF x, y
<1>3. ~ (c < x) /\ c # x
  <2>1. CASE c < x
    <3>1. c * b + b <= x * b /\ c * b = b * c /\ c * b \in Nat /\ x * b \in Nat
      BY <2>1, <1>2, MulMono
    <3> QED
      BY <3>1, <1>2
  <2>2. CASE c = x
    <3>1. c * b = b * c /\ c * b \in Nat /\ x * b = c * b
      BY <2>2, <1>2
    <3> QED
      BY <3>1, <1>2
  <2> QED
    BY <2>1, <2>2
<1> QED
  BY <1>2, <1>3 DEF x

\* One digit more: the bound of a number grows by the factor Base.
LEMMA HornerBelow ==
    ASSUME NEW a \in Nat, NEW c \in Nat, NEW b \in Nat \ {0}, NEW r \in 0..b - 1, a < c
    PROVE  a * b + r < b * c
<1>1. a * b + b <= c * b /\ c * b = b * c /\ a * b \in Nat /\ c * b \in Nat
  BY MulMono
<1> QED
  BY <1>1

\* A number below the modulus is its own remainder.
LEMMA ModSmall ==
    ASSUME NEW a \in Nat, NEW b \in Nat \ {0}, a < b
    PROVE  a % b = a
  OBVIOUS

\* A remainder is not above the number.
LEMMA ModBelow ==
    ASSUME NEW a \in Nat, NEW b \in Nat \ {0}
    PROVE  a % b <= a /\ a % b \in Nat
<1>1. a \div b \in Nat /\ a % b \in 0..b - 1 /\ a = (a \div b) * b + (a % b)
  BY DivMod
<1> DEFINE x == a \div b
           y == a % b
<1>2. x \in Nat /\ y \in 0..b - 1 /\ a = x * b + y
  BY <1>1
<1> HIDE DEF x, y
<1>3. x * b \in Nat 
  BY <1>2
<1> QED
  BY <1>2, <1>3 DEF y

-----------------------------------------------------------------------------
(***************************************************************************)
(* Numbers and their bytes.                                                *)
(***************************************************************************)
LEMMA PowerDef ==
    /\ Power \in [Nat -> Nat \ {0}] /\ Power[0] = 1
    /\ \A k \in Nat : Power[k + 1] = Base * Power[k]
<1> DEFINE S == Nat \ {0}
           g == [i \in Nat |-> [q \in S |-> Base * q]]
<1>1. g \in [Nat -> [S -> S]] /\ 1 \in S
  BY MarshallAssumption
<1>2. PICK f : Recursive(f, S, 1, g)
  <2> HIDE DEF g, S
  <2> QED
    BY <1>1, PrimitiveRecursion, Zenon
<1>3. f \in [Nat -> S] /\ f[0] = 1 /\ \A i \in Nat : f[i + 1] = Base * f[i]
  <2>1. f \in [Nat -> S] /\ f[0] = 1 /\ \A i \in Nat : f[i + 1] = g[i + 1][f[i]]
    <3> HIDE DEF S, g
    <3> QED
      BY <1>2, Zenon DEF Recursive
  <2>2. \A i \in Nat, q \in S : g[i + 1][q] = Base * q
    OBVIOUS
  <2> QED
    BY <2>1, <2>2
<1>4. f = [k \in Nat |-> IF k = 0 THEN 1 ELSE Base * f[k - 1]]
  <2>1. ASSUME NEW k \in Nat PROVE f[k] = IF k = 0 THEN 1 ELSE Base * f[k - 1]
    <3>1. CASE k # 0
      <4>1. k - 1 \in Nat /\ (k - 1) + 1 = k
        BY <3>1
      <4> QED
        BY <4>1, <1>3, <3>1
    <3> QED
      BY <3>1, <1>3
  <2> QED
    BY <2>1, <1>3
<1>5. Power = [k \in Nat |-> IF k = 0 THEN 1 ELSE Base * Power[k - 1]]
  BY <1>4 DEF Power
<1> DEFINE P == Power
<1>6. P = [k \in Nat |-> IF k = 0 THEN 1 ELSE Base * P[k - 1]]
  BY <1>5
<1>7. P[0] = 1 /\ \A k \in Nat : P[k + 1] = Base * P[k]
  <2> HIDE DEF P
  <2>1. P[0] = 1
    BY <1>6
  <2>2. ASSUME NEW k \in Nat PROVE P[k + 1] = Base * P[k]
    <3>1. k + 1 \in Nat /\ k + 1 # 0 /\ (k + 1) - 1 = k
      OBVIOUS
    <3> QED
      BY <3>1, <1>6
  <2> QED
    BY <2>1, <2>2
<1> DEFINE pos == {k \in Nat : P[k] \in S}
<1>8. 0 \in pos
  BY <1>7
<1>9. ASSUME NEW k \in Nat, k \in pos PROVE k + 1 \in pos
  <2>1. P[k] \in Nat \ {0} /\ Base \in Nat \ {0}
    BY <1>9, MarshallAssumption
  <2>2. P[k + 1] = Base * P[k]
    BY <1>7
  <2> HIDE DEF P
  <2>3. P[k + 1] \in Nat \ {0}
    BY <2>1, <2>2
  <2> QED
    BY <2>3
<1>10. \A k \in Nat : k \in pos
  <2> HIDE DEF pos
  <2> QED
    BY <1>8, <1>9, SetInduction
<1>11. P \in [Nat -> S]
  <2> HIDE DEF P
  <2>1. \A k \in Nat : P[k] \in S
    BY <1>10
  <2>2. DOMAIN P = Nat /\ P = [k \in Nat |-> P[k]]
    BY <1>6
  <2> HIDE DEF S
  <2> QED
    BY <2>1, <2>2
<1> QED
  BY <1>7, <1>11

\* Shifting right by one byte more is one division more.
LEMMA ShrDef ==
    ASSUME NEW v \in Nat
    PROVE  /\ Shr(v, 0) = v /\ \A k \in Nat : Shr(v, k) \in Nat
           /\ \A k \in Nat : Shr(v, k + 1) = Shr(v, k) \div Base
<1> DEFINE g == [i \in Nat |-> [q \in Nat |-> q \div Base]]
<1>1. g \in [Nat -> [Nat -> Nat]]
  BY MarshallAssumption
<1>2. PICK f : Recursive(f, Nat, v, g)
  <2> HIDE DEF g
  <2> QED
    BY <1>1, PrimitiveRecursion
<1>3. f \in [Nat -> Nat] /\ f[0] = v /\ \A i \in Nat : f[i + 1] = f[i] \div Base
  <2>1. f \in [Nat -> Nat] /\ f[0] = v /\ \A i \in Nat : f[i + 1] = g[i + 1][f[i]]
    <3> HIDE DEF g
    <3> QED
      BY <1>2, Zenon DEF Recursive
  <2>2. \A i \in Nat, q \in Nat : g[i + 1][q] = q \div Base
    OBVIOUS
  <2> QED
    BY <2>1, <2>2
<1>4. f = [k \in Nat |-> IF k = 0 THEN v ELSE f[k - 1] \div Base]
  <2>1. ASSUME NEW k \in Nat PROVE f[k] = IF k = 0 THEN v ELSE f[k - 1] \div Base
    <3>1. CASE k # 0
      <4>1. k - 1 \in Nat /\ (k - 1) + 1 = k
        BY <3>1
      <4> QED
        BY <4>1, <1>3, <3>1
    <3> QED
      BY <3>1, <1>3
  <2> QED
    BY <2>1, <1>3
<1>5. PICK c : /\ c = [k \in Nat |-> IF k = 0 THEN v ELSE c[k - 1] \div Base]
               /\ \A k \in Nat : Shr(v, k) = c[k]
  BY <1>4 DEF Shr
<1>6. c[0] = v /\ \A k \in Nat : c[k + 1] = c[k] \div Base
  <2>1. c[0] = v
    BY <1>5
  <2>2. ASSUME NEW k \in Nat PROVE c[k + 1] = c[k] \div Base
    <3>1. k + 1 \in Nat /\ k + 1 # 0 /\ (k + 1) - 1 = k
      OBVIOUS
    <3> QED
      BY <3>1, <1>5
  <2> QED
    BY <2>1, <2>2
<1> DEFINE num == {k \in Nat : c[k] \in Nat}
<1>7. 0 \in num
  BY <1>6
<1>8. ASSUME NEW k \in Nat, k \in num PROVE k + 1 \in num
  <2>1. c[k] \in Nat /\ Base \in Nat \ {0} /\ c[k + 1] = c[k] \div Base
    BY <1>6, <1>8, MarshallAssumption
  <2>2. c[k + 1] \in Nat
    BY <2>1
  <2> QED
    BY <2>2
<1>9. \A k \in Nat : k \in num
  <2> HIDE DEF num
  <2> QED
    BY <1>7, <1>8, SetInduction
<1>10. \A k \in Nat : k + 1 \in Nat
  OBVIOUS
<1> QED
  BY <1>5, <1>6, <1>9, <1>10

\* The number of a sequence of bytes, by its last byte.
LEMMA NumberDef ==
    ASSUME NEW p \in Seq(Nat)
    PROVE  \E f \in [0..Len(p) -> Nat] :
              /\ f[0] = 0 /\ \A i \in 1..Len(p) : f[i] = f[i - 1] * Base + p[i]
              /\ Number(p) = f[Len(p)]
<1> DEFINE n == Len(p)
           g == [i \in Nat |-> [q \in Nat |-> IF i \in 1..n THEN q * Base + p[i] ELSE q]]
<1>1. n \in Nat /\ \A i \in 1..n : p[i] \in Nat
  OBVIOUS
<1>2. g \in [Nat -> [Nat -> Nat]]
  <2>1. ASSUME NEW i \in Nat, NEW q \in Nat
        PROVE  (IF i \in 1..n THEN q * Base + p[i] ELSE q) \in Nat
    <3>1. q * Base \in Nat
      BY MarshallAssumption
    <3> HIDE DEF n
    <3> QED
      BY <3>1, <1>1
  <2> HIDE DEF n
  <2> QED
    BY <2>1
<1>3. PICK f : Recursive(f, Nat, 0, g)
  <2> HIDE DEF g
  <2> QED
    BY <1>2, PrimitiveRecursion
<1>4. f \in [Nat -> Nat] /\ f[0] = 0 /\ \A i \in Nat : f[i + 1] = g[i + 1][f[i]]
  <2> HIDE DEF g
  <2> QED
    BY <1>3, Zenon DEF Recursive
<1>5. \A i \in 1..n, q \in Nat : g[i][q] = q * Base + p[i]
  <2> HIDE DEF n
  <2> QED
    BY <1>1
<1>6. ASSUME NEW i \in 1..n PROVE f[i] = f[i - 1] * Base + p[i]
  <2>1. i - 1 \in Nat /\ (i - 1) + 1 = i
    BY <1>1
  <2>2. f[i - 1] \in Nat /\ f[i] = g[i][f[i - 1]]
    <3> HIDE DEF g, n
    <3> QED
      BY <2>1, <1>4
  <2> HIDE DEF g, n
  <2> QED
    BY <2>2, <1>5
<1> HIDE DEF g
<1> DEFINE e == [i \in 0..n |-> f[i]]
<1>7. /\ e \in [0..n -> Nat] /\ e[0] = 0
      /\ \A i \in 1..n : e[i] = e[i - 1] * Base + p[i]
  <2>1. \A i \in 0..n : f[i] \in Nat
    BY <1>1, <1>4
  <2>2. \A i \in 1..n : i \in 0..n /\ i - 1 \in 0..n /\ e[i] = f[i] /\ e[i - 1] = f[i - 1]
    BY <1>1
  <2>3. 0 \in 0..n
    BY <1>1
  <2> HIDE DEF n
  <2> QED
    BY <2>1, <2>2, <2>3, <1>4, <1>6
<1>8. e = [i \in 0..n |-> IF i = 0 THEN 0 ELSE e[i - 1] * Base + p[i]]
  <2>1. ASSUME NEW i \in 0..n PROVE e[i] = IF i = 0 THEN 0 ELSE e[i - 1] * Base + p[i]
    <3>1. i # 0 => i \in 1..n
      BY <1>1
    <3> HIDE DEF e, n
    <3> QED
      BY <1>7, <3>1
  <2> HIDE DEF n
  <2> QED
    BY <2>1
<1> HIDE DEF e
<1>9. PICK c : /\ c = [i \in 0..n |-> IF i = 0 THEN 0 ELSE c[i - 1] * Base + p[i]]
               /\ Number(p) = c[n]
  BY <1>8 DEF Number
<1> HIDE DEF n
<1>10. c[0] = 0 /\ \A i \in 1..n : c[i] = c[i - 1] * Base + p[i]
  <2>1. 0 \in 0..n /\ \A i \in 1..n : i \in 0..n /\ i # 0
    BY <1>1
  <2> QED
    BY <2>1, <1>9
<1> DEFINE num == {i \in Nat : i <= n => c[i] \in Nat}
<1>11. 0 \in num
  BY <1>10
<1>12. ASSUME NEW i \in Nat, i \in num PROVE i + 1 \in num
  <2>1. SUFFICES ASSUME i + 1 <= n PROVE c[i + 1] \in Nat
    OBVIOUS
  <2>2. i + 1 \in 1..n /\ (i + 1) - 1 = i /\ i <= n
    BY <2>1, <1>1
  <2>3. c[i] \in Nat /\ c[i + 1] = c[i] * Base + p[i + 1] /\ p[i + 1] \in Nat
    BY <2>2, <1>1, <1>10, <1>12
  <2>4. c[i] * Base \in Nat
    BY <2>3, MarshallAssumption
  <2> QED
    BY <2>3, <2>4
<1>13. \A i \in Nat : i \in num
  <2> HIDE DEF num
  <2> QED
    BY <1>11, <1>12, SetInduction
<1>14. c \in [0..n -> Nat]
  <2>1. \A i \in 0..n : c[i] \in Nat
    BY <1>1, <1>13
  <2>2. DOMAIN c = 0..n /\ c = [i \in 0..n |-> c[i]]
    BY <1>9
  <2> QED
    BY <2>1, <2>2
<1> QED
  BY <1>9, <1>10, <1>14 DEF n

\* Any function that puts the bytes together in that way ends with the number.
LEMMA NumberIs ==
    ASSUME NEW p \in Seq(Nat), NEW e \in [0..Len(p) -> Nat], e[0] = 0,
           \A i \in 1..Len(p) : e[i] = e[i - 1] * Base + p[i]
    PROVE  Number(p) = e[Len(p)]
<1> DEFINE n == Len(p)
<1>1. n \in Nat
  OBVIOUS
<1>2. PICK f \in [0..n -> Nat] :
              /\ f[0] = 0 /\ \A i \in 1..n : f[i] = f[i - 1] * Base + p[i]
              /\ Number(p) = f[n]
  BY NumberDef
<1> HIDE DEF n
<1> DEFINE same == {i \in Nat : i <= n => e[i] = f[i]}
<1>3. 0 \in same
  BY <1>2
<1>4. ASSUME NEW i \in Nat, i \in same PROVE i + 1 \in same
  <2>1. SUFFICES ASSUME i + 1 <= n PROVE e[i + 1] = f[i + 1]
    OBVIOUS
  <2>2. i + 1 \in 1..n /\ (i + 1) - 1 = i /\ i <= n
    BY <2>1, <1>1
  <2>3. e[i] = f[i]
    BY <2>2, <1>4
  <2>4. e[i + 1] = e[i] * Base + p[i + 1]
    BY <2>2 DEF n
  <2>5. f[i + 1] = f[i] * Base + p[i + 1]
    BY <2>2, <1>2
  <2> QED
    BY <2>3, <2>4, <2>5
<1>5. \A i \in Nat : i \in same
  <2> HIDE DEF same
  <2> QED
    BY <1>3, <1>4, SetInduction
<1>6. e[n] = f[n]
  BY <1>1, <1>5
<1> QED
  BY <1>2, <1>6 DEF n

\* A sequence of bytes is one of numbers, and one of cells of a buffer.
LEMMA ByteSeq ==
    ASSUME NEW p \in Seq(Byte)
    PROVE  p \in Seq(Nat) /\ p \in Seq(Cell)
<1>1. Byte \subseteq Nat /\ Byte \subseteq Cell
  BY MarshallAssumption DEF Byte, Cell
<1> QED
  BY <1>1, SeqMonotonic, Zenon

\* The big-endian form of a value is a sequence of bytes of its width.
LEMMA BigEndianType ==
    ASSUME NEW v \in Nat, NEW w \in Nat
    PROVE  BigEndian(v, w) \in Seq(Byte) /\ Len(BigEndian(v, w)) = w
<1>1. ASSUME NEW i \in 1..w PROVE Shr(v, w - i) % Base \in Byte
  <2>1. w - i \in Nat
    OBVIOUS
  <2>2. Shr(v, w - i) \in Nat
    BY <2>1, ShrDef
  <2> QED
    BY <2>2, DivMod, MarshallAssumption DEF Byte
<1>2. BigEndian(v, w) \in [1..w -> Byte]
  BY <1>1 DEF BigEndian
<1> HIDE DEF BigEndian
<1> QED
  BY <1>2

\* A number of w bytes is shifted away by w bytes.
LEMMA ShrFits ==
    ASSUME NEW w \in Nat, NEW v \in Nat, v < Power[w]
    PROVE  Shr(v, w) = 0
<1> DEFINE fits == {k \in Nat : k <= w => Shr(v, k) < Power[w - k]}
<1>1. 0 \in fits
  <2>1. w - 0 = w /\ Shr(v, 0) = v
    BY ShrDef
  <2> QED
    BY <2>1
<1>2. ASSUME NEW k \in Nat, k \in fits PROVE k + 1 \in fits
  <2>1. SUFFICES ASSUME k + 1 <= w PROVE Shr(v, k + 1) < Power[w - (k + 1)]
    OBVIOUS
  <2> DEFINE r == w - (k + 1)
             q == Shr(v, k)
  <2>2. r \in Nat /\ r + 1 = w - k /\ k <= w
    BY <2>1
  <2>3. q \in Nat /\ Shr(v, k + 1) = q \div Base /\ q < Power[w - k]
    BY <2>2, <1>2, ShrDef
  <2>4. Power[w - k] = Base * Power[r] /\ Power[r] \in Nat
    <3> HIDE DEF r
    <3> QED
      BY <2>2, PowerDef
  <2> HIDE DEF q, r
  <2>5. q \div Base < Power[r]
    BY <2>3, <2>4, DivBelow, MarshallAssumption
  <2> QED
    BY <2>3, <2>5 DEF r
<1>3. \A k \in Nat : k \in fits
  <2> HIDE DEF fits
  <2> QED
    BY <1>1, <1>2, SetInduction
<1>4. Shr(v, w) < Power[w - w] /\ w - w = 0
  BY <1>3
<1>5. Shr(v, w) \in Nat /\ Power[0] = 1
  BY ShrDef, PowerDef
<1> QED
  BY <1>4, <1>5

\* unpack gives the number that pack was given.
LEMMA NumberOfBytes ==
    ASSUME NEW w \in Nat, NEW v \in Nat, v < Power[w]
    PROVE  Number(BigEndian(v, w)) = v
<1> DEFINE p == BigEndian(v, w)
           e == [i \in 0..w |-> Shr(v, w - i)]
<1>1. p \in Seq(Byte) /\ Len(p) = w
  BY BigEndianType
<1>2. p \in Seq(Nat)
  <2> HIDE DEF p
  <2> QED
    BY <1>1, ByteSeq
<1>3. \A i \in 0..w : w - i \in Nat
  OBVIOUS
<1>4. e \in [0..w -> Nat]
  BY <1>3, ShrDef
<1>5. e[0] = 0
  <2>1. w - 0 = w /\ 0 \in 0..w
    OBVIOUS
  <2> QED
    BY <2>1, ShrFits
<1>6. ASSUME NEW i \in 1..w PROVE e[i] = e[i - 1] * Base + p[i]
  <2> DEFINE k == w - i
             q == Shr(v, k)
  <2>1. k \in Nat /\ w - (i - 1) = k + 1 /\ i \in 0..w /\ i - 1 \in 0..w
    OBVIOUS
  <2>2. e[i] = q /\ e[i - 1] = Shr(v, k + 1)
    BY <2>1
  <2>3. p[i] = q % Base
    BY DEF BigEndian
  <2>4. q \in Nat /\ Shr(v, k + 1) = q \div Base
    <3> HIDE DEF k
    <3> QED
      BY <2>1, ShrDef
  <2> HIDE DEF k, q, e, p
  <2>5. q = (q \div Base) * Base + (q % Base)
    BY <2>4, DivMod, MarshallAssumption
  <2> QED
    BY <2>2, <2>3, <2>4, <2>5
<1>7. e[w] = v
  <2>1. w - w = 0 /\ w \in 0..w
    OBVIOUS
  <2> QED
    BY <2>1, ShrDef
<1> HIDE DEF p, e
<1>8. Number(p) = e[w]
  BY <1>1, <1>2, <1>4, <1>5, <1>6, NumberIs
<1> QED
  BY <1>7, <1>8 DEF p

\* A number put together from bytes is below the power of its width, and its
\* bytes are the ones it was put together from.
LEMMA BytesOfNumber ==
    ASSUME NEW p \in Seq(Byte)
    PROVE  /\ Number(p) \in Nat /\ Number(p) < Power[Len(p)]
           /\ BigEndian(Number(p), Len(p)) = p
<1> DEFINE n == Len(p)
<1>1. n \in Nat /\ p \in Seq(Nat) /\ \A i \in 1..n : p[i] \in 0..Base - 1
  <2>1. \A i \in 1..n : p[i] \in Byte
    OBVIOUS
  <2> QED
    BY <2>1, ByteSeq DEF Byte
<1>2. PICK f \in [0..n -> Nat] :
              /\ f[0] = 0 /\ \A i \in 1..n : f[i] = f[i - 1] * Base + p[i]
              /\ Number(p) = f[n]
  BY <1>1, NumberDef
<1> HIDE DEF n
<1>3. ASSUME NEW i \in Nat, i + 1 <= n
      PROVE  /\ f[i] \in Nat /\ f[i + 1] \in Nat /\ p[i + 1] \in 0..Base - 1
             /\ f[i + 1] = f[i] * Base + p[i + 1]
  <2>1. i + 1 \in 1..n /\ (i + 1) - 1 = i /\ i \in 0..n /\ i + 1 \in 0..n
    BY <1>1, <1>3
  <2> QED
    BY <2>1, <1>1, <1>2
<1> DEFINE small == {i \in Nat : i <= n => f[i] < Power[i]}
<1>4. 0 \in small
  BY <1>2, PowerDef
<1>5. ASSUME NEW i \in Nat, i \in small PROVE i + 1 \in small
  <2>1. SUFFICES ASSUME i + 1 <= n PROVE f[i + 1] < Power[i + 1]
    OBVIOUS
  <2>2. f[i] < Power[i]
    BY <2>1, <1>1, <1>5
  <2>3. Power[i + 1] = Base * Power[i] /\ Power[i] \in Nat
    BY PowerDef
  <2>4. f[i] * Base + p[i + 1] < Base * Power[i]
    BY <2>1, <2>2, <2>3, <1>3, HornerBelow, MarshallAssumption
  <2> QED
    BY <2>1, <2>3, <2>4, <1>3
<1>6. \A i \in Nat : i \in small
  <2> HIDE DEF small
  <2> QED
    BY <1>4, <1>5, SetInduction
<1>7. f[n] \in Nat /\ f[n] < Power[n]
  <2>1. n \in 0..n /\ n <= n
    BY <1>1
  <2> QED
    BY <2>1, <1>1, <1>6
<1> DEFINE v == f[n]
           shifts == {k \in Nat : k <= n => Shr(v, k) = f[n - k]}
<1>8. 0 \in shifts
  <2>1. n - 0 = n
    BY <1>1
  <2> QED
    BY <2>1, <1>7, ShrDef
<1>9. ASSUME NEW k \in Nat, k \in shifts PROVE k + 1 \in shifts
  <2>1. SUFFICES ASSUME k + 1 <= n PROVE Shr(v, k + 1) = f[n - (k + 1)]
    OBVIOUS
  <2> DEFINE i == n - (k + 1)
  <2>2. i \in Nat /\ i + 1 <= n /\ i + 1 = n - k /\ k <= n
    BY <2>1, <1>1
  <2>3. Shr(v, k) = f[i + 1]
    BY <2>2, <1>9
  <2>4. Shr(v, k + 1) = f[i + 1] \div Base
    <3> HIDE DEF v, i
    <3>1. v \in Nat
      BY <1>7 DEF v
    <3>2. Shr(v, k + 1) = Shr(v, k) \div Base
      BY <3>1, ShrDef, Zenon
    <3> QED
      BY <2>3, <3>2, Zenon
  <2> HIDE DEF i
  <2>5. f[i + 1] = f[i] * Base + p[i + 1] /\ f[i] \in Nat /\ p[i + 1] \in 0..Base - 1
    BY <2>2, <1>3
  <2>6. (f[i] * Base + p[i + 1]) \div Base = f[i]
    BY <2>5, DivUnique, MarshallAssumption
  <2> QED
    BY <2>4, <2>5, <2>6 DEF i
<1>10. \A k \in Nat : k \in shifts
  <2> HIDE DEF shifts
  <2> QED
    BY <1>8, <1>9, SetInduction
<1>11. ASSUME NEW j \in 1..n PROVE Shr(v, n - j) % Base = p[j]
  <2> DEFINE i == j - 1
  <2>1. i \in Nat /\ i + 1 = j /\ i + 1 <= n /\ n - j \in Nat /\ n - j <= n /\ n - (n - j) = j
    BY <1>1
  <2>2. Shr(v, n - j) = f[i + 1]
    BY <2>1, <1>10
  <2> HIDE DEF i
  <2>3. f[i + 1] = f[i] * Base + p[i + 1] /\ f[i] \in Nat /\ p[i + 1] \in 0..Base - 1
    BY <2>1, <1>3
  <2>4. (f[i] * Base + p[i + 1]) % Base = p[i + 1]
    BY <2>3, DivUnique, MarshallAssumption
  <2> QED
    BY <2>1, <2>2, <2>3, <2>4
<1>12. BigEndian(v, n) = p
  <2>1. BigEndian(v, n) \in Seq(Byte) /\ Len(BigEndian(v, n)) = n
    BY <1>1, <1>7, BigEndianType
  <2>2. \A j \in 1..n : BigEndian(v, n)[j] = p[j]
    BY <1>11 DEF BigEndian
  <2> HIDE DEF v
  <2> QED
    BY <2>1, <2>2, SeqEqual DEF n
<1> QED
  BY <1>2, <1>7, <1>12 DEF n

-----------------------------------------------------------------------------
(***************************************************************************)
(* A marshall object.                                                      *)
(***************************************************************************)

\* The capacity that rawbyte leaves is enough for what is in the buffer, if it
\* was before: only a full buffer needs to grow, and it doubles.
LEMMA RawByteDef ==
    ASSUME NEW x, NEW p, Len(p) \in Nat,
           x.ind \in Nat, Capa(x) \in Nat \ {0}, x.ind <= Capa(x)
    PROVE  \E n \in Nat :
              /\ n >= Capa(x) /\ n >= x.ind + Len(p)
              /\ RawByte(x, p) = [buf |-> Store(Grow(x.buf, n), x.ind, p), ind |-> x.ind + Len(p)]
<1> DEFINE a == Capa(x)
           k == x.ind
           Next1(i, q) == IF k + i - 1 >= q THEN 2 * q ELSE q
           g == [i \in Nat |-> [q \in Nat |-> Next1(i, q)]]
<1>1. a \in Nat \ {0} /\ k \in Nat /\ k <= a
  OBVIOUS
<1> HIDE DEF a, k
<1>2. g \in [Nat -> [Nat -> Nat]]
  BY <1>1
<1>3. PICK f : Recursive(f, Nat, a, g)
  <2> HIDE DEF g
  <2> QED
    BY <1>1, <1>2, PrimitiveRecursion
<1>4. f \in [Nat -> Nat] /\ f[0] = a /\ \A i \in Nat : f[i + 1] = Next1(i + 1, f[i])
  <2>1. f \in [Nat -> Nat] /\ f[0] = a /\ \A i \in Nat : f[i + 1] = g[i + 1][f[i]]
    <3> HIDE DEF g
    <3> QED
      BY <1>3, Zenon DEF Recursive
  <2>2. \A i \in Nat, q \in Nat : g[i + 1][q] = Next1(i + 1, q)
    <3> HIDE DEF Next1
    <3> QED
      OBVIOUS
  <2> HIDE DEF g, Next1
  <2> QED
    BY <2>1, <2>2
<1>5. f = [i \in Nat |-> IF i = 0 THEN a ELSE Next1(i, f[i - 1])]
  <2>1. ASSUME NEW i \in Nat PROVE f[i] = IF i = 0 THEN a ELSE Next1(i, f[i - 1])
    <3> HIDE DEF Next1
    <3>1. CASE i # 0
      <4>1. i - 1 \in Nat /\ (i - 1) + 1 = i
        BY <3>1
      <4> QED
        BY <4>1, <1>4, <3>1
    <3> QED
      BY <3>1, <1>4
  <2> HIDE DEF Next1
  <2> QED
    BY <2>1, <1>4
<1>6. PICK c : /\ c = [i \in Nat |-> IF i = 0 THEN a ELSE Next1(i, c[i - 1])]
               /\ RawByte(x, p) = [buf |-> Store(Grow(x.buf, c[Len(p)]), x.ind, p),
                                   ind |-> x.ind + Len(p)]
  BY <1>5 DEF RawByte, a, k
<1>7. c[0] = a /\ \A i \in Nat : c[i + 1] = Next1(i + 1, c[i])
  <2> HIDE DEF Next1
  <2>1. c[0] = a
    BY <1>6
  <2>2. ASSUME NEW i \in Nat PROVE c[i + 1] = Next1(i + 1, c[i])
    <3>1. i + 1 \in Nat /\ i + 1 # 0 /\ (i + 1) - 1 = i
      OBVIOUS
    <3> QED
      BY <3>1, <1>6
  <2> QED
    BY <2>1, <2>2
<1> DEFINE room == {i \in Nat : c[i] \in Nat /\ c[i] >= a /\ c[i] >= k + i}
<1>8. 0 \in room
  <2>1. c[0] = a
    BY <1>7
  <2> QED
    BY <2>1, <1>1
<1>9. ASSUME NEW i \in Nat, i \in room PROVE i + 1 \in room
  <2>1. c[i] \in Nat /\ c[i] >= a /\ c[i] >= k + i /\ c[i + 1] = Next1(i + 1, c[i])
    BY <1>7, <1>9
  <2>2. c[i + 1] \in Nat /\ c[i + 1] >= a /\ c[i + 1] >= k + (i + 1)
    BY <2>1, <1>1
  <2> QED
    BY <2>2
<1>10. \A i \in Nat : i \in room
  <2> HIDE DEF room
  <2> QED
    BY <1>8, <1>9, SetInduction
<1>11. c[Len(p)] \in Nat /\ c[Len(p)] >= a /\ c[Len(p)] >= k + Len(p)
  BY <1>10
<1> QED
  BY <1>6, <1>11 DEF a, k

-----------------------------------------------------------------------------
(***************************************************************************)
(* The concatenation of a sequence of sequences of bytes.                  *)
(***************************************************************************)
IsFlattening(f, ss) ==
    /\ f \in [0..Len(ss) -> Seq(Byte)] /\ f[0] = <<>>
    /\ \A i \in 1..Len(ss) : f[i] = f[i - 1] \o ss[i]

\* The partial concatenations are sequences.
LEMMA FlatteningFacts ==
    ASSUME NEW ss \in Seq(Seq(Byte)), NEW f, IsFlattening(f, ss)
    PROVE  /\ Len(ss) \in Nat /\ f[0] = <<>>
           /\ \A i \in 0..Len(ss) : f[i] \in Seq(Byte)
           /\ \A i \in 1..Len(ss) : f[i] = f[i - 1] \o ss[i]
           /\ \A i \in 1..Len(ss) : ss[i] \in Seq(Byte)
<1> DEFINE B == Seq(Byte)
<1>1. ss \in Seq(B)
  OBVIOUS
<1> HIDE DEF B
<1>2. Len(ss) \in Nat /\ \A i \in 1..Len(ss) : ss[i] \in B
  BY <1>1
<1>3. /\ f \in [0..Len(ss) -> B] /\ f[0] = <<>>
      /\ \A i \in 1..Len(ss) : f[i] = f[i - 1] \o ss[i]
  BY DEF IsFlattening, B
<1>4. \A i \in 0..Len(ss) : f[i] \in B
  BY <1>3
<1> QED
  BY <1>2, <1>3, <1>4 DEF B

\* Concatenation, element by element.
LEMMA Concat ==
    ASSUME NEW s \in Seq(Byte), NEW t \in Seq(Byte)
    PROVE  /\ s \o t \in Seq(Byte) /\ Len(s) \in Nat /\ Len(t) \in Nat
           /\ Len(s \o t) = Len(s) + Len(t)
           /\ \A j \in 1..Len(s) : (s \o t)[j] = s[j]
           /\ \A j \in 1..Len(t) : (s \o t)[Len(s) + j] = t[j]
<1>1. Len(s) \in Nat /\ Len(t) \in Nat
  OBVIOUS
<1>2. /\ s \o t \in Seq(Byte) /\ Len(s \o t) = Len(s) + Len(t)
      /\ \A i \in 1..Len(s) + Len(t) :
            (s \o t)[i] = IF i <= Len(s) THEN s[i] ELSE t[i - Len(s)]
  BY ConcatProperties
<1> DEFINE a == Len(s)
           b == Len(t)
           r == s \o t
<1> HIDE DEF a, b, r
<1>3. a \in Nat /\ b \in Nat /\ \A i \in 1..a + b : r[i] = IF i <= a THEN s[i] ELSE t[i - a]
  BY <1>1, <1>2 DEF a, b, r
<1>4. (\A j \in 1..a : r[j] = s[j]) /\ (\A j \in 1..b : r[a + j] = t[j])
  BY <1>3
<1> QED
  BY <1>1, <1>2, <1>4 DEF a, b, r

\* Flattening one sequence more appends it.
LEMMA FlattenDef ==
    ASSUME NEW ss \in Seq(Seq(Byte))
    PROVE  \E f : IsFlattening(f, ss) /\ FlattenSeq(ss) = f[Len(ss)]
<1> DEFINE n == Len(ss)
           B == Seq(Byte)
           g == [i \in Nat |-> [q \in B |-> IF i \in 1..n THEN q \o ss[i] ELSE q]]
<1>1. n \in Nat /\ (\A i \in 1..n : ss[i] \in B) /\ <<>> \in B
  OBVIOUS
<1>2. g \in [Nat -> [B -> B]]
  <2>1. ASSUME NEW i \in Nat, NEW q \in B
        PROVE  (IF i \in 1..n THEN q \o ss[i] ELSE q) \in B
    <3>1. CASE i \in 1..n
      BY <3>1, <1>1, ConcatProperties
    <3> HIDE DEF n, B
    <3> QED
      BY <3>1
  <2> HIDE DEF n, B
  <2> QED
    BY <2>1
<1>3. PICK f : Recursive(f, B, <<>>, g)
  <2> HIDE DEF g, B
  <2> QED
    BY <1>1, <1>2, PrimitiveRecursion, Zenon
<1>4. f \in [Nat -> B] /\ f[0] = <<>> /\ \A i \in Nat : f[i + 1] = g[i + 1][f[i]]
  <2> HIDE DEF g, B
  <2> QED
    BY <1>3, Zenon DEF Recursive
<1>5. ASSUME NEW i \in 1..n, NEW q \in B PROVE g[i][q] = q \o ss[i]
  <2> HIDE DEF n, B
  <2>1. i \in Nat
    BY <1>1
  <2>2. g[i] = [e \in B |-> IF i \in 1..n THEN e \o ss[i] ELSE e]
    BY <2>1, Zenon
  <2> HIDE DEF g
  <2> QED
    BY <2>2, Zenon
<1>6. ASSUME NEW i \in 1..n PROVE f[i] = f[i - 1] \o ss[i] /\ f[i - 1] \in B
  <2>1. i - 1 \in Nat /\ (i - 1) + 1 = i
    BY <1>1
  <2>2. f[i - 1] \in B /\ f[i] = g[i][f[i - 1]]
    <3> HIDE DEF g, n, B
    <3> QED
      BY <2>1, <1>4
  <2> HIDE DEF g, n, B
  <2> QED
    BY <2>2, <1>5
<1> HIDE DEF g
<1>7. CASE n = 0
  <2> DEFINE e == [i \in 0..0 |-> <<>>]
  <2>1. e \in [0..0 -> B] /\ e[0] = <<>>
    BY <1>1
  <2>2. IsFlattening(e, ss)
    BY <2>1, <1>7 DEF IsFlattening
  <2>3. ss = <<>>
    BY <1>7
  <2>4. FlattenSeq(ss) = ss
    BY <1>7 DEF FlattenSeq
  <2>5. FlattenSeq(ss) = e[Len(ss)]
    BY <2>1, <2>3, <2>4, <1>7
  <2> HIDE DEF e
  <2> QED
    BY <2>2, <2>5
<1>8. CASE n # 0
  <2> DEFINE e == [i \in 1..n |-> f[i]]
  <2>1. e = [i \in 1..n |-> IF i = 1 THEN ss[i] ELSE e[i - 1] \o ss[i]]
    <3>1. ASSUME NEW i \in 1..n PROVE e[i] = IF i = 1 THEN ss[i] ELSE e[i - 1] \o ss[i]
      <4>1. CASE i = 1
        <5>1. f[1] = <<>> \o ss[1] /\ ss[1] \in Seq(Byte)
          <6>1. 1 \in 1..n /\ 1 - 1 = 0
            BY <4>1
          <6>2. f[1] = f[1 - 1] \o ss[1]
            BY <6>1, <1>6
          <6> QED
            BY <6>1, <6>2, <1>1, <1>4
        <5>2. <<>> \o ss[1] = ss[1]
          BY <5>1, ConcatEmptySeq
        <5> HIDE DEF n
        <5> QED
          BY <4>1, <5>1, <5>2
      <4>2. CASE i # 1
        <5>1. i - 1 \in 1..n
          BY <4>2, <1>1
        <5> HIDE DEF n
        <5> QED
          BY <4>2, <5>1, <1>6
      <4> QED
        BY <4>1, <4>2
    <3> HIDE DEF n
    <3> QED
      BY <3>1
  <2> HIDE DEF e
  <2>2. PICK c : /\ c = [i \in 1..n |-> IF i = 1 THEN ss[i] ELSE c[i - 1] \o ss[i]]
                 /\ FlattenSeq(ss) = c[n]
    BY <2>1, <1>8 DEF FlattenSeq
  <2> DEFINE d == [i \in 0..n |-> IF i = 0 THEN <<>> ELSE c[i]]
             seqs == {i \in Nat : i <= n => d[i] \in Seq(Byte)}
  <2>3. d[0] = <<>> /\ \A i \in 1..n : d[i] = c[i]
    BY <1>1
  <2>4. ASSUME NEW i \in Nat, i + 1 <= n, d[i] \in Seq(Byte)
        PROVE  d[i + 1] = d[i] \o ss[i + 1] /\ d[i + 1] \in Seq(Byte)
    <3>1. i + 1 \in 1..n /\ (i + 1) - 1 = i /\ ss[i + 1] \in Seq(Byte)
      BY <1>1, <2>4
    <3>2. CASE i = 0
      <4>1. c[1] = ss[1]
        BY <2>2, <3>1, <3>2
      <4>2. <<>> \o ss[1] = ss[1]
        BY <3>1, <3>2, ConcatEmptySeq
      <4> HIDE DEF d, n
      <4> QED
        BY <4>1, <4>2, <3>1, <3>2, <2>3
    <3>3. CASE i # 0
      <4>1. i \in 1..n /\ i + 1 # 1
        BY <3>3, <2>4, <1>1
      <4>2. c[i + 1] = c[i] \o ss[i + 1]
        BY <2>2, <3>1, <4>1
      <4> HIDE DEF d, n
      <4>3. d[i + 1] = d[i] \o ss[i + 1]
        BY <4>1, <4>2, <3>1, <2>3
      <4> QED
        BY <4>3, <3>1, <2>4, ConcatProperties
    <3> QED
      BY <3>2, <3>3
  <2>5. 0 \in seqs
    BY <2>3
  <2>6. ASSUME NEW i \in Nat, i \in seqs PROVE i + 1 \in seqs
    <3> HIDE DEF d
    <3>1. SUFFICES ASSUME i + 1 <= n PROVE d[i + 1] \in Seq(Byte)
      OBVIOUS
    <3>2. i <= n
      BY <3>1, <1>1
    <3> QED
      BY <3>1, <3>2, <2>4, <2>6
  <2>7. \A i \in Nat : i \in seqs
    <3> HIDE DEF seqs
    <3> QED
      BY <2>5, <2>6, SetInduction
  <2>8. \A i \in 0..n : d[i] \in Seq(Byte)
    <3> HIDE DEF d
    <3> QED
      BY <1>1, <2>7
  <2>9. d \in [0..n -> Seq(Byte)]
    <3>1. DOMAIN d = 0..n /\ d = [i \in 0..n |-> d[i]]
      OBVIOUS
    <3> HIDE DEF d, n
    <3> QED
      BY <2>8, <3>1
  <2>10. \A i \in 1..n : d[i] = d[i - 1] \o ss[i]
    <3>1. ASSUME NEW i \in 1..n PROVE d[i] = d[i - 1] \o ss[i]
      <4>1. i - 1 \in Nat /\ (i - 1) + 1 = i /\ i - 1 \in 0..n /\ (i - 1) + 1 <= n
        BY <1>1
      <4> HIDE DEF d, n
      <4> QED
        BY <4>1, <2>4, <2>8
    <3> QED
      BY <3>1
  <2>11. FlattenSeq(ss) = d[n]
    <3>1. n \in 1..n
      BY <1>1, <1>8
    <3> HIDE DEF d, n
    <3> QED
      BY <3>1, <2>2, <2>3
  <2> HIDE DEF d
  <2> QED
    BY <2>3, <2>9, <2>10, <2>11 DEF IsFlattening
<1> QED
  BY <1>7, <1>8

\* What the first sequences come to does not depend on the others, ...
LEMMA FlattenSame ==
    ASSUME NEW ss \in Seq(Seq(Byte)), NEW tt \in Seq(Seq(Byte)), NEW e, NEW f,
           IsFlattening(e, ss), IsFlattening(f, tt),
           NEW k \in Nat, k <= Len(ss), k <= Len(tt), \A i \in 1..k : ss[i] = tt[i]
    PROVE  \A i \in 0..k : e[i] = f[i]
<1> DEFINE same == {i \in Nat : i <= k => e[i] = f[i]}
<1>1. 0 \in same
  BY DEF IsFlattening
<1>2. ASSUME NEW i \in Nat, i \in same PROVE i + 1 \in same
  <2>1. SUFFICES ASSUME i + 1 <= k PROVE e[i + 1] = f[i + 1]
    OBVIOUS
  <2>2. i + 1 \in 1..k /\ i + 1 \in 1..Len(ss) /\ i + 1 \in 1..Len(tt) /\ (i + 1) - 1 = i /\ i <= k
    BY <2>1
  <2>3. e[i + 1] = e[i] \o ss[i + 1] /\ f[i + 1] = f[i] \o tt[i + 1]
    BY <2>2 DEF IsFlattening
  <2>4. e[i] = f[i] /\ ss[i + 1] = tt[i + 1]
    BY <2>2, <1>2
  <2> QED
    BY <2>3, <2>4
<1>3. \A i \in Nat : i \in same
  <2> HIDE DEF same
  <2> QED
    BY <1>1, <1>2, SetInduction
<1> QED
  BY <1>3

\* ... and is the beginning of what all of them come to.
LEMMA FlattenBegins ==
    ASSUME NEW ss \in Seq(Seq(Byte)), NEW f, IsFlattening(f, ss), NEW k \in 0..Len(ss)
    PROVE  \A i \in 0..Len(ss) : k <= i =>
              Len(f[k]) <= Len(f[i]) /\ \A j \in 1..Len(f[k]) : f[i][j] = f[k][j]
<1> DEFINE n == Len(ss)
           Begins(i) == Len(f[k]) <= Len(f[i]) /\ \A j \in 1..Len(f[k]) : f[i][j] = f[k][j]
           good == {i \in Nat : k <= i /\ i <= n => Begins(i)}
<1>1. /\ n \in Nat /\ k \in 0..n /\ \A i \in 0..n : f[i] \in Seq(Byte)
      /\ \A i \in 1..n : f[i] = f[i - 1] \o ss[i] /\ ss[i] \in Seq(Byte)
  BY FlatteningFacts
<1> HIDE DEF n
<1>2. Begins(k)
  <2>1. Len(f[k]) \in Nat
    BY <1>1
  <2> QED
    BY <2>1
<1>3. 0 \in good
  <2>1. k <= 0 => k = 0
    BY <1>1
  <2> HIDE DEF Begins
  <2> QED
    BY <2>1, <1>2
<1>4. ASSUME NEW i \in Nat, i \in good PROVE i + 1 \in good
  <2>1. SUFFICES ASSUME k <= i + 1, i + 1 <= n PROVE Begins(i + 1)
    OBVIOUS
  <2>2. CASE k = i + 1
    <3> HIDE DEF Begins
    <3> QED
      BY <2>2, <1>2
  <2>3. CASE k # i + 1
    <3>1. k <= i /\ i <= n /\ i + 1 \in 1..n /\ (i + 1) - 1 = i /\ i \in 0..n
      BY <2>1, <2>3, <1>1
    <3>2. Begins(i)
      <4> HIDE DEF Begins
      <4> QED
        BY <3>1, <1>4
    <3>3. f[i + 1] = f[i] \o ss[i + 1] /\ f[i] \in Seq(Byte) /\ ss[i + 1] \in Seq(Byte)
      BY <3>1, <1>1
    <3> DEFINE a == f[k]
               b == f[i]
               d == f[i + 1]
               h == ss[i + 1]
    <3>4. /\ Len(d) = Len(b) + Len(h) /\ Len(b) \in Nat /\ Len(h) \in Nat
          /\ \A j \in 1..Len(b) : d[j] = b[j]
      <4>1. d = b \o h /\ b \in Seq(Byte) /\ h \in Seq(Byte)
        BY <3>3
      <4> HIDE DEF b, d, h
      <4> QED
        BY <4>1, Concat
    <3>5. Len(a) \in Nat
      BY <1>1
    <3>6. Len(a) <= Len(b) /\ \A j \in 1..Len(a) : b[j] = a[j]
      BY <3>2
    <3> HIDE DEF a, b, d, h
    <3>7. Len(a) <= Len(d) /\ \A j \in 1..Len(a) : d[j] = a[j]
      BY <3>4, <3>5, <3>6
    <3> QED
      BY <3>7 DEF a, b, d
  <2> QED
    BY <2>2, <2>3
<1>5. \A i \in Nat : i \in good
  <2> HIDE DEF good
  <2> QED
    BY <1>3, <1>4, SetInduction
<1>6. \A i \in 0..n : k <= i => Begins(i)
  <2> HIDE DEF Begins
  <2> QED
    BY <1>1, <1>5
<1> QED
  BY <1>6 DEF n

\* Flattening nothing gives nothing.
LEMMA FlattenEmpty == FlattenSeq(<<>>) = <<>>
<1>1. <<>> \in Seq(Seq(Byte)) /\ Len(<<>>) = 0
  OBVIOUS
<1>2. PICK f : IsFlattening(f, <<>>) /\ FlattenSeq(<<>>) = f[Len(<<>>)]
  BY <1>1, FlattenDef, Zenon
<1> QED
  BY <1>1, <1>2 DEF IsFlattening

\* One sequence more is appended.
LEMMA FlattenAppend ==
    ASSUME NEW ss \in Seq(Seq(Byte)), NEW s \in Seq(Byte),
           NEW tt \in Seq(Seq(Byte)), Len(tt) = Len(ss) + 1,
           \A i \in 1..Len(ss) : tt[i] = ss[i], tt[Len(ss) + 1] = s
    PROVE  /\ FlattenSeq(ss) \in Seq(Byte) /\ FlattenSeq(tt) \in Seq(Byte)
           /\ FlattenSeq(tt) = FlattenSeq(ss) \o s
<1> DEFINE n == Len(ss)
<1>1. n \in Nat /\ Len(tt) = n + 1 /\ n + 1 \in 1..n + 1 /\ (n + 1) - 1 = n /\ n \in 0..n
      /\ n + 1 \in 0..n + 1 /\ n <= n /\ n <= n + 1
  OBVIOUS
<1>2. PICK e : IsFlattening(e, ss) /\ FlattenSeq(ss) = e[n]
  BY FlattenDef
<1>3. PICK f : IsFlattening(f, tt) /\ FlattenSeq(tt) = f[n + 1]
  BY FlattenDef
<1>4. e[n] = f[n]
  <2>1. \A i \in 0..n : e[i] = f[i]
    <3> HIDE DEF n
    <3>1. n <= Len(ss) /\ n <= Len(tt) /\ \A i \in 1..n : ss[i] = tt[i]
      BY <1>1 DEF n
    <3> QED
      BY <3>1, <1>1, <1>2, <1>3, FlattenSame
  <2> QED
    BY <2>1, <1>1
<1>5. f[n + 1] = f[n] \o s /\ f[n + 1] \in Seq(Byte) /\ e[n] \in Seq(Byte)
  <2>1. /\ \A i \in 0..n : e[i] \in Seq(Byte)
        /\ \A i \in 0..n + 1 : f[i] \in Seq(Byte)
        /\ \A i \in 1..n + 1 : f[i] = f[i - 1] \o tt[i]
    <3>1. \A i \in 0..n : e[i] \in Seq(Byte)
      BY <1>2, FlatteningFacts
    <3>2. /\ \A i \in 0..Len(tt) : f[i] \in Seq(Byte)
          /\ \A i \in 1..Len(tt) : f[i] = f[i - 1] \o tt[i]
      BY <1>3, FlatteningFacts
    <3> HIDE DEF n
    <3> QED
      BY <3>1, <3>2, <1>1
  <2>2. tt[n + 1] = s
    OBVIOUS
  <2> HIDE DEF n
  <2> QED
    BY <2>1, <2>2, <1>1
<1> QED
  BY <1>2, <1>3, <1>4, <1>5

\* The next sequence is found where the first ones end.
LEMMA FlattenNext ==
    ASSUME NEW ss \in Seq(Seq(Byte)), NEW tt \in Seq(Seq(Byte)), Len(tt) < Len(ss),
           \A i \in 1..Len(tt) : tt[i] = ss[i]
    PROVE  /\ FlattenSeq(ss) \in Seq(Byte) /\ FlattenSeq(tt) \in Seq(Byte)
           /\ ss[Len(tt) + 1] \in Seq(Byte)
           /\ Len(FlattenSeq(tt)) + Len(ss[Len(tt) + 1]) <= Len(FlattenSeq(ss))
           /\ \A j \in 1..Len(ss[Len(tt) + 1]) :
                 FlattenSeq(ss)[Len(FlattenSeq(tt)) + j] = ss[Len(tt) + 1][j]
<1> DEFINE n == Len(ss)
           k == Len(tt)
<1>1. /\ n \in Nat /\ k \in Nat /\ k \in 0..n /\ k + 1 \in 1..n /\ k + 1 \in 0..n
      /\ (k + 1) - 1 = k /\ n \in 0..n /\ k <= n /\ k <= k /\ k + 1 <= n /\ k \in 0..k
  OBVIOUS
<1>2. PICK e : IsFlattening(e, tt) /\ FlattenSeq(tt) = e[k]
  BY FlattenDef
<1>3. PICK f : IsFlattening(f, ss) /\ FlattenSeq(ss) = f[n]
  BY FlattenDef
<1>4. e[k] = f[k]
  <2>1. \A i \in 0..k : e[i] = f[i]
    <3> HIDE DEF n, k
    <3>1. k <= Len(ss) /\ k <= Len(tt) /\ \A i \in 1..k : tt[i] = ss[i]
      BY <1>1 DEF n, k
    <3> QED
      BY <3>1, <1>1, <1>2, <1>3, FlattenSame
  <2> QED
    BY <2>1, <1>1
<1>5. /\ f[k + 1] = f[k] \o ss[k + 1] /\ f[k + 1] \in Seq(Byte) /\ f[k] \in Seq(Byte)
      /\ f[n] \in Seq(Byte) /\ ss[k + 1] \in Seq(Byte)
  <2>1. /\ \A i \in 0..n : f[i] \in Seq(Byte)
        /\ \A i \in 1..n : f[i] = f[i - 1] \o ss[i] /\ ss[i] \in Seq(Byte)
    BY <1>3, FlatteningFacts
  <2> HIDE DEF n, k
  <2> QED
    BY <2>1, <1>1
<1>6. Len(f[k + 1]) <= Len(f[n]) /\ \A j \in 1..Len(f[k + 1]) : f[n][j] = f[k + 1][j]
  <2> HIDE DEF n, k
  <2> QED
    BY <1>1, <1>3, FlattenBegins DEF n
<1> DEFINE a == f[k]
           b == ss[k + 1]
           d == f[k + 1]
<1>7. /\ Len(d) = Len(a) + Len(b) /\ Len(a) \in Nat /\ Len(b) \in Nat
      /\ \A j \in 1..Len(b) : d[Len(a) + j] = b[j]
  <2>1. d = a \o b /\ a \in Seq(Byte) /\ b \in Seq(Byte)
    BY <1>5
  <2> HIDE DEF a, b, d
  <2> QED
    BY <2>1, Concat
<1>8. \A j \in 1..Len(b) : f[n][Len(a) + j] = b[j]
  <2>1. \A j \in 1..Len(d) : f[n][j] = d[j]
    BY <1>6
  <2> HIDE DEF a, b, d, n
  <2>2. ASSUME NEW j \in 1..Len(b) PROVE f[n][Len(a) + j] = b[j]
    <3>1. Len(a) + j \in 1..Len(d)
      BY <1>7
    <3>2. f[n][Len(a) + j] = d[Len(a) + j]
      BY <2>1, <3>1, Zenon
    <3> QED
      BY <1>7, <3>2, Zenon
  <2> QED
    BY <2>2
<1> QED
  BY <1>2, <1>3, <1>4, <1>5, <1>6, <1>7, <1>8

-----------------------------------------------------------------------------
(***************************************************************************)
(* What a marshall object holds after an operation.                        *)
(***************************************************************************)

\* A marshall object whose index is within its buffer.
Sound(x) ==
    /\ x.buf \in Seq(Cell) /\ x.ind \in Nat
    /\ Len(x.buf) > 0 /\ x.ind <= Len(x.buf)

\* y is x with the bytes p added at its end: those before the end, and those
\* beyond what was added, stay.
Added(x, p, y) ==
    /\ Sound(y) /\ y.ind = x.ind + Len(p) /\ Len(x.buf) <= Len(y.buf)
    /\ \A i \in 1..Len(x.buf) : i <= x.ind \/ y.ind < i => y.buf[i] = x.buf[i]
    /\ \A j \in 1..Len(p) : y.buf[x.ind + j] = p[j]

\* Growing the buffer and storing bytes at the index adds them.
LEMMA StoreAdds ==
    ASSUME NEW x, Sound(x), NEW p \in Seq(Byte), NEW n \in Nat,
           n >= Len(x.buf), n >= x.ind + Len(p)
    PROVE  Added(x, p, [buf |-> Store(Grow(x.buf, n), x.ind, p), ind |-> x.ind + Len(p)])
<1> DEFINE b == x.buf
           k == x.ind
           c == Grow(b, n)
           d == Store(c, k, p)
           l == Len(p)
<1>1. /\ b \in Seq(Cell) /\ Len(b) \in Nat \ {0} /\ n >= Len(b) /\ n >= k + l
      /\ k \in Nat /\ k <= Len(b) /\ l \in Nat
  BY DEF Sound
<1>2. p \in Seq(Cell) /\ \A j \in 1..l : p[j] \in Cell
  <2>1. p \in Seq(Cell)
    BY ByteSeq
  <2> QED
    BY <2>1
<1>3. \A i \in 1..Len(b) : b[i] \in Cell
  BY <1>1
<1> HIDE DEF b, k, l
<1>4. /\ c \in [1..n -> Cell] /\ Len(c) = n
      /\ \A i \in 1..Len(b) : c[i] = b[i]
  <2>1. \A i \in 1..n : (IF i <= Len(b) THEN b[i] ELSE Junk) \in Cell
    BY <1>1, <1>3 DEF Cell
  <2>2. c \in [1..n -> Cell]
    BY <2>1 DEF Grow
  <2>3. \A i \in 1..Len(b) : c[i] = b[i]
    BY <1>1 DEF Grow
  <2>4. Len(c) = n
    <3> HIDE DEF c
    <3> QED
      BY <2>2
  <2> QED
    BY <2>2, <2>3, <2>4
<1> HIDE DEF c
<1>5. /\ d = [i \in 1..n |-> IF i \in k + 1..k + l THEN p[i - k] ELSE c[i]]
  BY <1>4 DEF Store, l
<1>6. d \in [1..n -> Cell]
  <2>1. ASSUME NEW i \in 1..n
        PROVE  (IF i \in k + 1..k + l THEN p[i - k] ELSE c[i]) \in Cell
    <3>1. CASE i \in k + 1..k + l
      <4>1. i - k \in 1..l
        BY <3>1, <1>1
      <4> QED
        BY <3>1, <4>1, <1>2
    <3>2. CASE i \notin k + 1..k + l
      BY <3>2, <1>4
    <3> QED
      BY <3>1, <3>2
  <2> QED
    BY <1>5, <2>1
<1>7. \A j \in 1..l : d[k + j] = p[j]
  <2>1. ASSUME NEW j \in 1..l PROVE d[k + j] = p[j]
    <3>1. k + j \in 1..n /\ k + j \in k + 1..k + l /\ (k + j) - k = j
      BY <1>1
    <3> QED
      BY <3>1, <1>5
  <2> QED
    BY <2>1
<1>8. \A i \in 1..Len(b) : i <= k \/ k + l < i => d[i] = b[i]
  <2>1. ASSUME NEW i \in 1..Len(b), i <= k \/ k + l < i PROVE d[i] = b[i]
    <3>1. i \in 1..n /\ i \notin k + 1..k + l
      BY <1>1, <2>1
    <3> QED
      BY <3>1, <1>4, <1>5
  <2> QED
    BY <2>1
<1> HIDE DEF d
<1>9. d \in Seq(Cell) /\ Len(d) = n
  BY <1>6
<1> DEFINE y == [buf |-> d, ind |-> k + l]
<1>10. y.buf = d /\ y.ind = k + l
  OBVIOUS
<1> HIDE DEF y
<1>11. Added(x, p, y)
  BY <1>1, <1>7, <1>8, <1>9, <1>10 DEF Added, Sound, b, k, l
<1> QED
  BY <1>11 DEF y, d, c, b, k, l

\* marshall::rawbyte adds one byte.
LEMMA RawByteAdds ==
    ASSUME NEW x, Sound(x), NEW p \in Seq(Byte)
    PROVE  Added(x, p, RawByte(x, p))
<1>1. Len(p) \in Nat /\ x.ind \in Nat /\ Capa(x) \in Nat \ {0} /\ x.ind <= Capa(x)
  BY DEF Sound, Capa
<1>2. PICK n \in Nat :
          /\ n >= Capa(x) /\ n >= x.ind + Len(p)
          /\ RawByte(x, p) = [buf |-> Store(Grow(x.buf, n), x.ind, p), ind |-> x.ind + Len(p)]
  BY <1>1, RawByteDef
<1>3. n >= Len(x.buf)
  BY <1>2 DEF Capa
<1>4. Added(x, p, [buf |-> Store(Grow(x.buf, n), x.ind, p), ind |-> x.ind + Len(p)])
  BY <1>2, <1>3, StoreAdds
<1> QED
  BY <1>2, <1>4

\* The capacity that rawbytes takes is enough as well.
LEMMA RawBytesAdds ==
    ASSUME NEW x, Sound(x), NEW p \in Seq(Byte)
    PROVE  Added(x, p, RawBytes(x, p))
<1> DEFINE k == x.ind
           a == Capa(x)
           l == Len(p)
           n == IF k + l <= a THEN a ELSE IF a > l THEN 2 * a ELSE a + l
<1>1. k \in Nat /\ a \in Nat /\ a > 0 /\ k <= a /\ l \in Nat /\ a = Len(x.buf)
  BY DEF Sound, Capa
<1>2. RawBytes(x, p) = [buf |-> Store(Grow(x.buf, n), k, p), ind |-> k + l]
  BY DEF RawBytes
<1> HIDE DEF k, a, l
<1>3. n \in Nat /\ n >= a /\ n >= k + l
  BY <1>1
<1> HIDE DEF n
<1>4. n >= Len(x.buf) /\ n >= x.ind + Len(p)
  BY <1>1, <1>3 DEF k, l
<1>5. Added(x, p, [buf |-> Store(Grow(x.buf, n), x.ind, p), ind |-> x.ind + Len(p)])
  BY <1>3, <1>4, StoreAdds
<1> QED
  BY <1>2, <1>5 DEF k, l

\* Adding bytes twice is adding their concatenation.
LEMMA AddedTwice ==
    ASSUME NEW x, NEW y, NEW z, Sound(x), NEW p \in Seq(Byte), NEW q \in Seq(Byte),
           Added(x, p, y), Added(y, q, z)
    PROVE  Added(x, p \o q, z)
<1> DEFINE l == Len(p)
           k == Len(q)
           r == p \o q
<1>1. /\ l \in Nat /\ k \in Nat /\ Len(r) = l + k
      /\ (\A j \in 1..l : r[j] = p[j]) /\ (\A j \in 1..k : r[l + j] = q[j])
  BY Concat
<1> HIDE DEF l, k, r
<1>2. /\ x.ind \in Nat /\ Len(x.buf) \in Nat /\ Len(y.buf) \in Nat
      /\ y.ind = x.ind + l /\ z.ind = y.ind + k /\ x.ind <= Len(x.buf)
      /\ Len(x.buf) <= Len(y.buf) /\ Len(y.buf) <= Len(z.buf) /\ Len(z.buf) \in Nat
      /\ y.ind <= Len(y.buf) /\ Sound(z)
  BY LenProperties DEF Added, Sound, l, k
<1>3. /\ \A i \in 1..Len(x.buf) : i <= x.ind \/ y.ind < i => y.buf[i] = x.buf[i]
      /\ \A i \in 1..Len(y.buf) : i <= y.ind \/ z.ind < i => z.buf[i] = y.buf[i]
      /\ \A j \in 1..l : y.buf[x.ind + j] = p[j]
      /\ \A j \in 1..k : z.buf[y.ind + j] = q[j]
  BY DEF Added, l, k
<1>4. ASSUME NEW i \in 1..Len(x.buf), i <= x.ind \/ z.ind < i PROVE z.buf[i] = x.buf[i]
  <2>1. i \in 1..Len(y.buf) /\ (i <= x.ind \/ y.ind < i) /\ (i <= y.ind \/ z.ind < i)
    BY <1>1, <1>2, <1>4, SMTT(60)
  <2>2. z.buf[i] = y.buf[i] /\ y.buf[i] = x.buf[i]
    BY <2>1, <1>3, <1>4, Zenon
  <2> QED
    BY <2>2
<1>5. ASSUME NEW j \in 1..l + k PROVE z.buf[x.ind + j] = r[j]
  <2>1. CASE j <= l
    <3>1. j \in 1..l /\ x.ind + j \in 1..Len(y.buf) /\ x.ind + j <= y.ind
      BY <2>1, <1>1, <1>2, SMTT(60)
    <3>2. z.buf[x.ind + j] = y.buf[x.ind + j]
      BY <3>1, <1>3, Zenon
    <3>3. y.buf[x.ind + j] = p[j] /\ r[j] = p[j]
      BY <3>1, <1>1, <1>3, Zenon
    <3> QED
      BY <3>2, <3>3
  <2>2. CASE ~ (j <= l)
    <3>1. j - l \in 1..k /\ y.ind + (j - l) = x.ind + j /\ l + (j - l) = j
      BY <2>2, <1>1, <1>2
    <3>2. z.buf[y.ind + (j - l)] = q[j - l] /\ r[l + (j - l)] = q[j - l]
      BY <3>1, <1>1, <1>3, Zenon
    <3> QED
      BY <3>1, <3>2
  <2> QED
    BY <2>1, <2>2
<1>6. Len(x.buf) <= Len(z.buf) /\ z.ind = x.ind + (l + k)
  BY <1>1, <1>2, SMTT(60)
<1>7. z.ind = x.ind + Len(r) /\ \A j \in 1..Len(r) : z.buf[x.ind + j] = r[j]
  BY <1>1, <1>5, <1>6
<1>8. \A i \in 1..Len(x.buf) : i <= x.ind \/ z.ind < i => z.buf[i] = x.buf[i]
  BY <1>4
<1>9. Added(x, r, z)
  BY <1>2, <1>6, <1>7, <1>8, Zenon DEF Added
<1> QED
  BY <1>9 DEF r

-----------------------------------------------------------------------------
(***************************************************************************)
(* Typed values and their encoding.                                        *)
(***************************************************************************)
Item == UNION {{[type |-> t, v |-> w] : w \in ValuesOf(t)} : t \in Type}

\* What an argument is made of.
LEMMA ItemFacts ==
    ASSUME NEW x \in Item
    PROVE  x.type \in Type /\ x.v \in ValuesOf(x.type) /\ x = [type |-> x.type, v |-> x.v]
<1>1. PICK t \in Type : x \in {[type |-> t, v |-> w] : w \in ValuesOf(t)}
  BY DEF Item
<1>2. PICK w \in ValuesOf(t) : x = [type |-> t, v |-> w]
  BY <1>1
<1> QED
  BY <1>2

\* A value of a type that is used, with that type, is an argument.
LEMMA IsItem ==
    ASSUME NEW t \in Type, NEW w \in ValuesOf(t)
    PROVE  [type |-> t, v |-> w] \in Item
  BY DEF Item

\* The types, and the widths of those that are numbers.
LEMMA TypeFacts ==
    ASSUME NEW t \in Type
    PROVE  /\ t \in {"char", "short", "int", "ull", "string", "vector"}
           /\ t \notin {"string", "vector"} => Width[t] \in {1, 2, 4, 8}
  BY MarshallAssumption DEF Width

\* Unsigned ints are the numbers of as many bytes as an int has.
LEMMA UintFacts ==
    /\ UintMod \in Nat \ {0} /\ UintMod = Power[SizeofInt]
    /\ \A n \in Uint : n \in Nat /\ n < Power[SizeofInt]
<1>1. UintMod \in Nat \ {0}
  BY PowerDef DEF UintMod, SizeofInt
<1> QED
  BY <1>1 DEF Uint, UintMod

\* What the values of each type are.
LEMMA ValueFacts ==
    ASSUME NEW t \in Type, NEW w \in ValuesOf(t)
    PROVE  /\ t \in {"string", "vector"} =>
                 w \in Seq(Byte) /\ Len(w) \in Nat /\ Len(w) < Power[SizeofInt]
           /\ t \notin {"string", "vector"} => w \in Nat /\ w < Power[Width[t]]
<1>1. CASE t \in {"string", "vector"}
  <2>1. w \in Seq(Byte) /\ Len(w) \in Uint
    BY <1>1 DEF ValuesOf
  <2> QED
    BY <2>1, <1>1, UintFacts
<1>2. CASE t \notin {"string", "vector"}
  <2>1. w \in 0..Power[Width[t]] - 1
    BY <1>2 DEF ValuesOf
  <2>2. Width[t] \in Nat
    BY <1>2, TypeFacts
  <2>3. Power[Width[t]] \in Nat
    BY <2>2, PowerDef
  <2> QED
    BY <2>1, <2>3, <1>2
<1> QED
  BY <1>1, <1>2

\* The encoding of a value is a sequence of bytes.
LEMMA CodeType ==
    ASSUME NEW x \in Item
    PROVE  Code(x) \in Seq(Byte)
<1>1. x.type \in Type /\ x.v \in ValuesOf(x.type)
  BY ItemFacts
<1>2. CASE x.type \in {"string", "vector"}
  <2>1. x.v \in Seq(Byte) /\ Len(x.v) \in Nat
    BY <1>1, <1>2, ValueFacts
  <2>2. BigEndian(Len(x.v), SizeofInt) \in Seq(Byte)
    BY <2>1, BigEndianType DEF SizeofInt
  <2>3. BigEndian(Len(x.v), SizeofInt) \o x.v \in Seq(Byte)
    BY <2>1, <2>2, Concat
  <2> QED
    BY <2>3, <1>2 DEF Code
<1>3. CASE x.type \notin {"string", "vector"}
  <2>1. x.v \in Nat /\ Width[x.type] \in Nat
    BY <1>1, <1>3, ValueFacts, TypeFacts
  <2> QED
    BY <2>1, <1>3, BigEndianType DEF Code
<1> QED
  BY <1>2, <1>3

\* operator<< adds the encoding of its value.
LEMMA ShiftInAdds ==
    ASSUME NEW x, Sound(x), NEW t \in Type, NEW w \in ValuesOf(t)
    PROVE  Added(x, Code([type |-> t, v |-> w]), ShiftIn(x, t, w))
<1>1. CASE t \in {"string", "vector"}
  <2> DEFINE p == BigEndian(Len(w), SizeofInt)
             y == RawByte(x, p)
  <2>1. w \in Seq(Byte) /\ Len(w) \in Nat
    BY <1>1, ValueFacts
  <2>2. p \in Seq(Byte)
    BY <2>1, BigEndianType DEF SizeofInt
  <2>3. Code([type |-> t, v |-> w]) = p \o w
    BY <1>1 DEF Code
  <2>4. ShiftIn(x, t, w) = RawBytes(y, w) \/ ShiftIn(x, t, w) = RawByte(y, w)
    BY <1>1 DEF ShiftIn
  <2> HIDE DEF p
  <2>5. Added(x, p, y)
    BY <2>2, RawByteAdds
  <2> HIDE DEF y
  <2>6. Sound(y)
    BY <2>5 DEF Added
  <2>7. Added(y, w, RawBytes(y, w)) /\ Added(y, w, RawByte(y, w))
    BY <2>1, <2>6, RawByteAdds, RawBytesAdds
  <2>8. Added(y, w, ShiftIn(x, t, w))
    BY <2>4, <2>7
  <2>9. Added(x, p \o w, ShiftIn(x, t, w))
    BY <2>1, <2>2, <2>5, <2>8, AddedTwice
  <2> QED
    BY <2>3, <2>9
<1>2. CASE t \notin {"string", "vector"}
  <2> DEFINE p == BigEndian(w, Width[t])
  <2>1. w \in Nat /\ Width[t] \in Nat
    BY <1>2, ValueFacts, TypeFacts
  <2>2. p \in Seq(Byte)
    BY <2>1, BigEndianType
  <2>3. Code([type |-> t, v |-> w]) = p
    BY <1>2 DEF Code
  <2>4. ShiftIn(x, t, w) = RawByte(x, p)
    BY <1>2 DEF ShiftIn
  <2> HIDE DEF p
  <2> QED
    BY <2>2, <2>3, <2>4, RawByteAdds
<1> QED
  BY <1>1, <1>2

\* The encodings of arguments, one for each.
LEMMA CodesAre ==
    ASSUME NEW xs \in Seq(Item)
    PROVE  \E ss \in Seq(Seq(Byte)) :
              /\ Encoding(xs) = FlattenSeq(ss) /\ Len(ss) = Len(xs)
              /\ \A i \in 1..Len(xs) : ss[i] = Code(xs[i])
<1> DEFINE ss == [i \in DOMAIN xs |-> Code(xs[i])]
           B == Seq(Byte)
<1>1. DOMAIN xs = 1..Len(xs) /\ Len(xs) \in Nat /\ \A i \in 1..Len(xs) : xs[i] \in Item
  OBVIOUS
<1>2. \A i \in 1..Len(xs) : Code(xs[i]) \in B
  BY <1>1, CodeType
<1> HIDE DEF B
<1>3. ss \in [1..Len(xs) -> B] /\ \A i \in 1..Len(xs) : ss[i] = Code(xs[i])
  BY <1>1, <1>2
<1>4. Encoding(xs) = FlattenSeq(ss)
  BY DEF Encoding
<1> HIDE DEF ss
<1>5. ss \in Seq(B) /\ Len(ss) = Len(xs)
  BY <1>1, <1>3
<1> QED
  BY <1>3, <1>4, <1>5 DEF B

\* One argument more adds its encoding at the end.
LEMMA EncodingAppend ==
    ASSUME NEW xs \in Seq(Item), NEW x \in Item
    PROVE  /\ Encoding(xs) \in Seq(Byte) /\ Code(x) \in Seq(Byte)
           /\ Encoding(Append(xs, x)) = Encoding(xs) \o Code(x)
<1> DEFINE ys == Append(xs, x)
           n == Len(xs)
<1>1. /\ ys \in Seq(Item) /\ Len(ys) = n + 1 /\ n \in Nat /\ ys[n + 1] = x
      /\ \A i \in 1..n : ys[i] = xs[i]
  BY AppendProperties
<1> HIDE DEF ys, n
<1>2. PICK ss \in Seq(Seq(Byte)) :
              /\ Encoding(xs) = FlattenSeq(ss) /\ Len(ss) = n
              /\ \A i \in 1..n : ss[i] = Code(xs[i])
  BY CodesAre DEF n
<1>3. PICK tt \in Seq(Seq(Byte)) :
              /\ Encoding(ys) = FlattenSeq(tt) /\ Len(tt) = n + 1
              /\ \A i \in 1..n + 1 : tt[i] = Code(ys[i])
  <2>1. \E tt \in Seq(Seq(Byte)) :
              /\ Encoding(ys) = FlattenSeq(tt) /\ Len(tt) = Len(ys)
              /\ \A i \in 1..Len(ys) : tt[i] = Code(ys[i])
    BY <1>1, CodesAre
  <2> QED
    BY <2>1, <1>1
<1>4. Code(x) \in Seq(Byte)
  BY CodeType
<1>5. \A i \in 1..n : tt[i] = ss[i]
  <2>1. \A i \in 1..n : i \in 1..n + 1
    BY <1>1
  <2> QED
    BY <2>1, <1>1, <1>2, <1>3
<1>6. tt[n + 1] = Code(x)
  <2>1. n + 1 \in 1..n + 1
    BY <1>1
  <2> QED
    BY <2>1, <1>1, <1>3
<1>7. FlattenSeq(ss) \in Seq(Byte) /\ FlattenSeq(tt) = FlattenSeq(ss) \o Code(x)
  BY <1>2, <1>3, <1>4, <1>5, <1>6, FlattenAppend
<1> QED
  BY <1>2, <1>3, <1>4, <1>7 DEF ys

\* The encoding of arguments is a sequence of bytes.
LEMMA EncodingType ==
    ASSUME NEW xs \in Seq(Item)
    PROVE  Encoding(xs) \in Seq(Byte) /\ Len(Encoding(xs)) \in Nat
<1>1. PICK ss \in Seq(Seq(Byte)) : Encoding(xs) = FlattenSeq(ss)
  BY CodesAre, Zenon
<1>2. PICK f : IsFlattening(f, ss) /\ FlattenSeq(ss) = f[Len(ss)]
  BY FlattenDef, Zenon
<1>3. Len(ss) \in Nat /\ \A i \in 0..Len(ss) : f[i] \in Seq(Byte)
  BY <1>2, FlatteningFacts, Zenon
<1>4. FlattenSeq(ss) \in Seq(Byte)
  <2>1. Len(ss) \in 0..Len(ss)
    BY <1>3
  <2> QED
    BY <1>2, <1>3, <2>1, Zenon
<1>5. Encoding(xs) \in Seq(Byte)
  BY <1>1, <1>4, Zenon
<1> QED
  BY <1>5, LenProperties, Zenon

\* No arguments, no bytes.
LEMMA EncodingEmpty == Encoding(<<>>) = <<>>
<1>1. [i \in DOMAIN <<>> |-> Code(<<>>[i])] = <<>>
  OBVIOUS
<1> QED
  BY <1>1, FlattenEmpty DEF Encoding

\* The code of the next value is found where that of the first ones ends.
LEMMA EncodingNext ==
    ASSUME NEW xs \in Seq(Item), NEW ys \in Seq(Item), Len(ys) < Len(xs),
           \A i \in 1..Len(ys) : ys[i] = xs[i]
    PROVE  LET k == Len(Encoding(ys))
               c == Code(xs[Len(ys) + 1])
           IN  /\ k \in Nat /\ c \in Seq(Byte) /\ k + Len(c) <= Len(Encoding(xs))
               /\ \A j \in 1..Len(c) : Encoding(xs)[k + j] = c[j]
<1> DEFINE n == Len(ys)
<1>1. n \in Nat /\ n < Len(xs) /\ Len(xs) \in Nat /\ \A i \in 1..n : i \in 1..Len(xs)
  OBVIOUS
<1> HIDE DEF n
<1>2. PICK ss \in Seq(Seq(Byte)) :
              /\ Encoding(xs) = FlattenSeq(ss) /\ Len(ss) = Len(xs)
              /\ \A i \in 1..Len(xs) : ss[i] = Code(xs[i])
  BY CodesAre
<1>3. PICK tt \in Seq(Seq(Byte)) :
              /\ Encoding(ys) = FlattenSeq(tt) /\ Len(tt) = n
              /\ \A i \in 1..n : tt[i] = Code(ys[i])
  BY CodesAre DEF n
<1>4. \A i \in 1..n : tt[i] = ss[i]
  <2>1. \A i \in 1..n : ys[i] = xs[i]
    BY DEF n
  <2> QED
    BY <2>1, <1>1, <1>2, <1>3
<1>5. n + 1 \in 1..Len(xs)
  BY <1>1
<1>6. ss[n + 1] = Code(xs[n + 1])
  BY <1>2, <1>5
<1>7. /\ FlattenSeq(ss) \in Seq(Byte) /\ FlattenSeq(tt) \in Seq(Byte)
      /\ ss[n + 1] \in Seq(Byte)
      /\ Len(FlattenSeq(tt)) + Len(ss[n + 1]) <= Len(FlattenSeq(ss))
      /\ \A j \in 1..Len(ss[n + 1]) :
            FlattenSeq(ss)[Len(FlattenSeq(tt)) + j] = ss[n + 1][j]
  BY <1>1, <1>2, <1>3, <1>4, FlattenNext
<1>8. Len(Encoding(ys)) \in Nat
  BY <1>3, <1>7
<1> QED
  BY <1>2, <1>3, <1>6, <1>7, <1>8 DEF n

-----------------------------------------------------------------------------
(***************************************************************************)
(* The header.                                                             *)
(***************************************************************************)
LEMMA FlattenBlocks ==
    ASSUME NEW ss \in Seq(Seq(Byte)), \A i \in 1..Len(ss) : Len(ss[i]) = SizeofInt
    PROVE  /\ FlattenSeq(ss) \in Seq(Byte) /\ Len(FlattenSeq(ss)) = SizeofInt * Len(ss)
           /\ \A i \in 1..Len(ss), j \in 1..SizeofInt :
                 FlattenSeq(ss)[SizeofInt * (i - 1) + j] = ss[i][j]
<1> DEFINE n == Len(ss)
<1>1. PICK f : IsFlattening(f, ss) /\ FlattenSeq(ss) = f[n]
  BY FlattenDef
<1>2. /\ n \in Nat /\ f[0] = <<>> /\ \A i \in 0..n : f[i] \in Seq(Byte)
      /\ \A i \in 1..n : f[i] = f[i - 1] \o ss[i] /\ ss[i] \in Seq(Byte)
      /\ \A i \in 1..n : Len(ss[i]) = 4
  BY <1>1, FlatteningFacts DEF SizeofInt
<1> HIDE DEF n
<1>3. ASSUME NEW i \in 1..n
      PROVE  /\ Len(f[i]) = Len(f[i - 1]) + 4 /\ Len(f[i - 1]) \in Nat
             /\ \A j \in 1..4 : f[i][Len(f[i - 1]) + j] = ss[i][j]
  <2> DEFINE a == f[i - 1]
             b == ss[i]
             d == f[i]
  <2>1. i - 1 \in 0..n
    BY <1>2
  <2>2. d = a \o b /\ a \in Seq(Byte) /\ b \in Seq(Byte) /\ Len(b) = 4
    BY <2>1, <1>2
  <2> HIDE DEF a, b, d
  <2>3. Len(d) = Len(a) + Len(b) /\ Len(a) \in Nat /\ \A j \in 1..Len(b) : d[Len(a) + j] = b[j]
    BY <2>2, Concat
  <2>4. Len(d) = Len(a) + 4 /\ Len(a) \in Nat /\ \A j \in 1..4 : d[Len(a) + j] = b[j]
    BY <2>2, <2>3
  <2> QED
    BY <2>4 DEF a, b, d
<1> DEFINE good == {i \in Nat : i <= n => Len(f[i]) = 4 * i}
<1>4. 0 \in good
  BY <1>2
<1>5. ASSUME NEW i \in Nat, i \in good PROVE i + 1 \in good
  <2>1. SUFFICES ASSUME i + 1 <= n PROVE Len(f[i + 1]) = 4 * (i + 1)
    OBVIOUS
  <2>2. i + 1 \in 1..n /\ (i + 1) - 1 = i /\ i <= n
    BY <2>1, <1>2
  <2>3. Len(f[i + 1]) = Len(f[i]) + 4 /\ Len(f[i]) = 4 * i
    BY <2>2, <1>3, <1>5
  <2> QED
    BY <2>3
<1>6. \A i \in Nat : i \in good
  <2> HIDE DEF good
  <2> QED
    BY <1>4, <1>5, SetInduction
<1>7. \A i \in 0..n : Len(f[i]) = 4 * i
  BY <1>2, <1>6
<1>8. ASSUME NEW i \in 1..n, NEW j \in 1..4 PROVE f[n][4 * (i - 1) + j] = ss[i][j]
  <2>1. i - 1 \in 0..n /\ i \in 0..n /\ n \in 0..n /\ i <= n
    BY <1>2
  <2>2. f[i][4 * (i - 1) + j] = ss[i][j]
    BY <2>1, <1>3, <1>7
  <2>3. 4 * (i - 1) + j \in 1..Len(f[i])
    BY <2>1, <1>7
  <2>4. \A l \in 1..Len(f[i]) : f[n][l] = f[i][l]
    <3>1. i \in 0..Len(ss) /\ n \in 0..Len(ss)
      BY <2>1 DEF n
    <3> QED
      BY <2>1, <3>1, <1>1, FlattenBegins
  <2> QED
    BY <2>2, <2>3, <2>4
<1>9. f[n] \in Seq(Byte) /\ Len(f[n]) = 4 * n
  BY <1>2, <1>7
<1> QED
  BY <1>1, <1>8, <1>9 DEF n, SizeofInt

\* The fields are where they are looked for, and the arguments stay.
Packed(x, h, y) ==
    /\ Sound(y) /\ y.ind = x.ind
    /\ \A i \in RPC_HEADER_SZ + 1..x.ind : y.buf[i] = x.buf[i]
    /\ \A i \in 1..Len(h), j \in 1..SizeofInt :
          y.buf[i * SizeofInt + j] = BigEndian(h[i], SizeofInt)[j]

\* pack_req_header and pack_reply_header write their fields and leave the arguments.
LEMMA PackHeaderPacks ==
    ASSUME NEW x, Sound(x), x.ind >= RPC_HEADER_SZ, NEW h \in Seq(Uint), Len(h) <= 5
    PROVE  Packed(x, h, PackHeader(x, h))
<1> DEFINE B == Seq(Byte)
           n == Len(h)
           ss == [i \in DOMAIN h |-> BigEndian(h[i], SizeofInt)]
           p == FlattenSeq(ss)
           z == [buf |-> x.buf, ind |-> SizeofInt]
           w == RawByte(z, p)
           y == PackHeader(x, h)
<1>1. DOMAIN h = 1..n /\ n \in 0..5 /\ \A i \in 1..n : h[i] \in Uint
  <2>1. DOMAIN h = 1..n /\ n \in Nat /\ n <= 5
    OBVIOUS
  <2>2. \A i \in 1..n : h[i] \in Uint
    OBVIOUS
  <2> HIDE DEF n
  <2> QED
    BY <2>1, <2>2
<1>2. \A i \in 1..n : BigEndian(h[i], SizeofInt) \in B /\ Len(BigEndian(h[i], SizeofInt)) = SizeofInt
  <2>1. \A i \in 1..n : h[i] \in Nat
    BY <1>1, UintFacts
  <2> QED
    BY <2>1, BigEndianType DEF SizeofInt
<1> HIDE DEF B, n
<1>3. ss \in [1..n -> B] /\ \A i \in 1..n : ss[i] = BigEndian(h[i], SizeofInt)
  BY <1>1, <1>2
<1> HIDE DEF ss
<1>4. ss \in Seq(B) /\ Len(ss) = n
  BY <1>1, <1>3
<1>5. /\ p \in Seq(Byte) /\ Len(p) = 4 * n
      /\ \A i \in 1..n, j \in 1..4 : p[4 * (i - 1) + j] = BigEndian(h[i], SizeofInt)[j]
  <2>1. \A i \in 1..Len(ss) : Len(ss[i]) = SizeofInt
    BY <1>2, <1>3, <1>4
  <2>2. ss \in Seq(Seq(Byte))
    BY <1>4 DEF B
  <2>3. /\ p \in Seq(Byte) /\ Len(p) = SizeofInt * Len(ss)
        /\ \A i \in 1..Len(ss), j \in 1..SizeofInt : p[SizeofInt * (i - 1) + j] = ss[i][j]
    BY <2>1, <2>2, FlattenBlocks, Zenon
  <2> HIDE DEF p
  <2>4. SizeofInt = 4 /\ n \in Nat
    BY <1>1 DEF SizeofInt
  <2>5. p \in Seq(Byte) /\ Len(p) = 4 * n
    BY <2>3, <2>4, <1>4
  <2>6. ASSUME NEW i \in 1..n, NEW j \in 1..4
        PROVE  p[4 * (i - 1) + j] = BigEndian(h[i], SizeofInt)[j]
    <3>1. p[4 * (i - 1) + j] = ss[i][j]
      BY <2>3, <2>4, <1>4, Zenon
    <3>2. ss[i] = BigEndian(h[i], SizeofInt)
      BY <1>3, Zenon
    <3> QED
      BY <3>1, <3>2
  <2> QED
    BY <2>5, <2>6
<1> HIDE DEF p
<1>6. /\ x.buf \in Seq(Cell) /\ x.ind \in Nat /\ Len(x.buf) \in Nat /\ x.ind <= Len(x.buf)
      /\ x.ind >= 24
  BY DEF Sound, RPC_HEADER_SZ, SizeofInt
<1>7. z.buf = x.buf /\ z.ind = 4
  BY DEF SizeofInt
<1>8. y.buf = w.buf /\ y.ind = x.ind
  BY DEF PackHeader, p, ss
<1> HIDE DEF z, y
<1>9. Sound(z)
  BY <1>6, <1>7 DEF Sound
<1>10. Added(z, p, w)
  BY <1>5, <1>9, RawByteAdds
<1> HIDE DEF w
<1>11. /\ w.buf \in Seq(Cell) /\ Len(w.buf) \in Nat /\ Len(x.buf) <= Len(w.buf) /\ w.ind = 4 + 4 * n
       /\ \A i \in 1..Len(x.buf) : i <= 4 \/ w.ind < i => w.buf[i] = x.buf[i]
       /\ \A j \in 1..4 * n : w.buf[4 + j] = p[j]
  BY <1>5, <1>7, <1>10 DEF Added, Sound
<1>12. Sound(y)
  BY <1>6, <1>8, <1>11 DEF Sound
<1>13. ASSUME NEW i \in 25..x.ind PROVE y.buf[i] = x.buf[i]
  <2>1. i \in 1..Len(x.buf) /\ w.ind < i
    BY <1>1, <1>6, <1>11
  <2> QED
    BY <2>1, <1>8, <1>11
<1>14. ASSUME NEW i \in 1..n, NEW j \in 1..4 PROVE y.buf[i * 4 + j] = BigEndian(h[i], SizeofInt)[j]
  <2> DEFINE l == 4 * (i - 1) + j
  <2>1. l \in 1..4 * n /\ 4 + l = i * 4 + j
    BY <1>1
  <2>2. p[l] = BigEndian(h[i], SizeofInt)[j]
    BY <1>5
  <2> HIDE DEF l
  <2>3. w.buf[4 + l] = p[l]
    BY <2>1, <1>11
  <2> QED
    BY <2>1, <2>2, <2>3, <1>8
<1>15. RPC_HEADER_SZ + 1 = 25 /\ SizeofInt = 4
  BY DEF RPC_HEADER_SZ, SizeofInt
<1>16. Packed(x, h, y)
  BY <1>8, <1>12, <1>13, <1>14, <1>15 DEF Packed, n
<1> QED
  BY <1>16 DEF y

\* What is sent of it.
LEMMA PduIs ==
    ASSUME NEW x, Sound(x), x.ind >= RPC_HEADER_SZ
    PROVE  /\ Pdu(x) \in Seq(Cell) /\ Len(Pdu(x)) = x.ind
           /\ \A i \in SizeofInt + 1..x.ind : Pdu(x)[i] = x.buf[i]
<1> DEFINE a == BigEndian(x.ind, SizeofInt)
           b == SubSeq(x.buf, 5, x.ind)
           k == x.ind
<1>1. /\ x.buf \in Seq(Cell) /\ k \in Nat /\ Len(x.buf) \in Nat /\ k <= Len(x.buf)
      /\ k >= 24 /\ SizeofInt = 4
  BY DEF Sound, RPC_HEADER_SZ, SizeofInt
<1>2. a \in Seq(Cell) /\ Len(a) = 4
  <2>1. a \in Seq(Byte) /\ Len(a) = 4
    BY <1>1, BigEndianType DEF SizeofInt
  <2> HIDE DEF a
  <2> QED
    BY <2>1, ByteSeq
<1>3. \A i \in 5..k : x.buf[i] \in Cell
  BY <1>1
<1>4. b \in Seq(Cell) /\ Len(b) = k - 4 /\ \A i \in 1..k - 4 : b[i] = x.buf[4 + i]
  <2>1. /\ b \in Seq(Cell) /\ Len(b) = (IF 5 <= k THEN k - 5 + 1 ELSE 0)
        /\ \A i \in 1..k - 5 + 1 : b[i] = x.buf[5 + i - 1]
    <3>1. 5 \in Int /\ k \in Int
      BY <1>1
    <3> QED
      BY <3>1, <1>3, SubSeqProperties
  <2>2. k - 5 + 1 = k - 4 /\ 5 <= k /\ \A i \in 1..k - 4 : 5 + i - 1 = 4 + i
    BY <1>1
  <2> HIDE DEF b, k
  <2> QED
    BY <2>1, <2>2
<1>5. Pdu(x) = a \o b
  BY DEF Pdu, SizeofInt
<1> HIDE DEF a, b, k
<1>6. /\ a \o b \in Seq(Cell) /\ Len(a \o b) = Len(a) + Len(b)
      /\ \A i \in 1..Len(a) + Len(b) : (a \o b)[i] = IF i <= Len(a) THEN a[i] ELSE b[i - Len(a)]
  BY <1>2, <1>4, ConcatProperties
<1>7. ASSUME NEW i \in 5..k PROVE (a \o b)[i] = x.buf[i]
  <2>1. i \in 1..4 + (k - 4) /\ ~ (i <= 4) /\ i - 4 \in 1..k - 4 /\ 4 + (i - 4) = i
    BY <1>1
  <2>2. (a \o b)[i] = b[i - 4]
    BY <2>1, <1>2, <1>4, <1>6
  <2> QED
    BY <2>1, <2>2, <1>4
<1>8. Len(a \o b) = k
  BY <1>1, <1>2, <1>4, <1>6
<1>9. SizeofInt + 1 = 5
  BY <1>1
<1> QED
  BY <1>5, <1>6, <1>7, <1>8, <1>9 DEF k

-----------------------------------------------------------------------------
(***************************************************************************)
(* An unmarshall object.                                                   *)
(***************************************************************************)

\* What follows the header was written.
Readable(x) ==
    /\ x \in [buf : Seq(Cell), ind : Nat, ok : BOOLEAN, fault : BOOLEAN]
    /\ RPC_HEADER_SZ <= x.ind /\ x.ind <= Len(x.buf)
    /\ \A i \in RPC_HEADER_SZ + 1..Len(x.buf) : x.buf[i] \in Byte

\* The bytes c are the next ones.
Ahead(x, c) ==
    x.ind + Len(c) <= Len(x.buf) /\ \A j \in 1..Len(c) : x.buf[x.ind + j] = c[j]

\* The smaller of two numbers.
LEMMA MinTwo ==
    ASSUME NEW a \in Nat, NEW b \in Nat
    PROVE  Min({a, b}) = IF a <= b THEN a ELSE b
<1>1. \E z \in {a, b} : \A y \in {a, b} : z <= y
  OBVIOUS
<1>2. Min({a, b}) \in {a, b} /\ \A y \in {a, b} : Min({a, b}) <= y
  BY <1>1 DEF Min
<1> QED
  BY <1>2

\* What an unmarshall object is made of.
LEMMA ReadableFacts ==
    ASSUME NEW x, Readable(x)
    PROVE  /\ x.ind \in Nat /\ Len(x.buf) \in Nat /\ Sz(x) = Len(x.buf)
           /\ x.ind <= Len(x.buf) /\ Sz(x) - x.ind \in Nat
           /\ x.ok \in BOOLEAN /\ x.fault \in BOOLEAN /\ x.buf \in Seq(Cell)
           /\ \A i \in Nat : x.ind < i /\ i <= Len(x.buf) => x.buf[i] \in Byte
<1>1. x.ind \in Nat /\ x.buf \in Seq(Cell) /\ x.ok \in BOOLEAN /\ x.fault \in BOOLEAN
  BY DEF Readable
<1>2. Len(x.buf) \in Nat
  BY <1>1
<1>3. 24 <= x.ind /\ x.ind <= Len(x.buf) /\ \A i \in 25..Len(x.buf) : x.buf[i] \in Byte
  BY DEF Readable, RPC_HEADER_SZ, SizeofInt
<1>4. \A i \in Nat : x.ind < i /\ i <= Len(x.buf) => i \in 25..Len(x.buf)
  BY <1>1, <1>2, <1>3
<1> QED
  BY <1>1, <1>2, <1>3, <1>4 DEF Sz

\* An object that differs in its index and its flags only stays readable.
Moved(x, k, b, f) == [x EXCEPT !.ind = k, !.ok = b, !.fault = f]

\* Moving the index within the buffer, or failing, keeps it readable.
LEMMA StaysReadable ==
    ASSUME NEW x, Readable(x), NEW k \in Nat, x.ind <= k, k <= Len(x.buf), NEW b \in BOOLEAN,
           NEW f \in BOOLEAN, NEW y, y = Moved(x, k, b, f)
    PROVE  Readable(y) /\ y.buf = x.buf /\ y.ind = k /\ y.ok = b /\ y.fault = f
<1>1. x \in [buf : Seq(Cell), ind : Nat, ok : BOOLEAN, fault : BOOLEAN]
  BY DEF Readable
<1>2. /\ y \in [buf : Seq(Cell), ind : Nat, ok : BOOLEAN, fault : BOOLEAN]
      /\ y.buf = x.buf /\ y.ind = k /\ y.ok = b /\ y.fault = f
  BY <1>1 DEF Moved
<1>3. RPC_HEADER_SZ <= k
  <2>1. RPC_HEADER_SZ <= x.ind /\ RPC_HEADER_SZ \in Nat /\ x.ind \in Nat
    BY DEF Readable, RPC_HEADER_SZ, SizeofInt
  <2> QED
    BY <2>1
<1> QED
  BY <1>2, <1>3 DEF Readable

\* An object on the same buffer with an index further on is readable.
LEMMA ReadableSame ==
    ASSUME NEW x, Readable(x), NEW y, y.buf = x.buf, x.ind <= y.ind, y.ind <= Len(x.buf),
           y \in [buf : Seq(Cell), ind : Nat, ok : BOOLEAN, fault : BOOLEAN]
    PROVE  Readable(y)
<1>1. RPC_HEADER_SZ <= y.ind
  <2>1. RPC_HEADER_SZ <= x.ind /\ RPC_HEADER_SZ \in Nat /\ x.ind \in Nat /\ y.ind \in Nat
    BY DEF Readable, RPC_HEADER_SZ, SizeofInt
  <2> QED
    BY <2>1
<1> QED
  BY <1>1 DEF Readable

\* w calls of rawbyte find a number whose bytes were ahead, or run out.
LEMMA ReadNumberIs ==
    ASSUME NEW x, Readable(x), NEW w \in Nat
    PROVE  LET r == ReadNumber(x, w)
           IN  /\ Readable(r.u) /\ r.u.buf = x.buf /\ r.u.fault = x.fault
               /\ r.u.ok = (x.ok /\ x.ind + w <= Len(x.buf))
               /\ r.v \in Nat /\ r.v < Power[w]
               /\ x.ind + w <= Len(x.buf) => r.u.ind = x.ind + w /\ Ahead(x, BigEndian(r.v, w))
<1> DEFINE r == ReadNumber(x, w)
           k == x.ind
           s == Len(x.buf)
           n == Min({w, Sz(x) - x.ind})
           p == [i \in 1..w |-> IF i <= n THEN x.buf[x.ind + i] ELSE 0]
<1>1. /\ k \in Nat /\ s \in Nat /\ k <= s /\ x.ok \in BOOLEAN /\ x.fault \in BOOLEAN
      /\ \A i \in Nat : k < i /\ i <= s => x.buf[i] \in Byte
  BY ReadableFacts
<1>2. n \in Nat /\ n <= w /\ k + n <= s /\ (n = w <=> k + w <= s)
  <2>1. Sz(x) - x.ind \in Nat /\ Sz(x) - x.ind = s - k
    BY ReadableFacts
  <2>2. n = IF w <= s - k THEN w ELSE s - k
    BY <2>1, MinTwo
  <2> HIDE DEF n, s, k
  <2> QED
    BY <2>2, <1>1
<1>3. r.u = [x EXCEPT !.ind = @ + n, !.ok = @ /\ n = w] /\ r.v = Number(p)
  BY DEF ReadNumber
<1> HIDE DEF n
<1>4. p \in [1..w -> Byte]
  <2>1. 0 \in Byte
    BY MarshallAssumption DEF Byte
  <2>2. ASSUME NEW i \in 1..w PROVE (IF i <= n THEN x.buf[x.ind + i] ELSE 0) \in Byte
    <3>1. i <= n => k + i \in Nat /\ k < k + i /\ k + i <= s
      BY <1>1, <1>2
    <3> QED
      BY <3>1, <2>1, <1>1
  <2> QED
    BY <2>2
<1> HIDE DEF p
<1>5. p \in Seq(Byte) /\ Len(p) = w
  BY <1>4
<1>6. r.v \in Nat /\ r.v < Power[w] /\ BigEndian(r.v, w) = p
  BY <1>3, <1>5, BytesOfNumber
<1>7. r.u = [x EXCEPT !.ind = k + n, !.ok = (x.ok /\ n = w), !.fault = x.fault]
  <2>1. x \in [buf : Seq(Cell), ind : Nat, ok : BOOLEAN, fault : BOOLEAN]
    BY DEF Readable
  <2> HIDE DEF r
  <2> QED
    BY <1>3, <2>1
<1> HIDE DEF r
<1>8. Readable(r.u) /\ r.u.buf = x.buf /\ r.u.ind = k + n /\ r.u.ok = (x.ok /\ n = w) /\ r.u.fault = x.fault
  <2>1. (x.ok /\ n = w) \in BOOLEAN /\ k + n \in Nat /\ x.ind <= k + n /\ k + n <= Len(x.buf)
    BY <1>1, <1>2
  <2> DEFINE b == x.ok /\ n = w
             l == k + n
             f == x.fault
             z == r.u
  <2>2. /\ b \in BOOLEAN /\ l \in Nat /\ x.ind <= l /\ l <= Len(x.buf) /\ f \in BOOLEAN
        /\ z = Moved(x, l, b, f)
    BY <2>1, <1>1, <1>7 DEF Moved
  <2> HIDE DEF b, l, z, f
  <2>3. Readable(z) /\ z.buf = x.buf /\ z.ind = l /\ z.ok = b /\ z.fault = f
    BY <2>2, StaysReadable
  <2> QED
    BY <2>3 DEF b, l, z, f
<1>9. ASSUME k + w <= s PROVE r.u.ind = k + w /\ Ahead(x, p)
  <2>1. n = w
    BY <1>2, <1>9
  <2>2. \A j \in 1..w : p[j] = x.buf[x.ind + j]
    BY <2>1, <1>2 DEF p
  <2> QED
    BY <2>1, <2>2, <1>5, <1>8, <1>9 DEF Ahead
<1>10. r.u.ok = (x.ok /\ x.ind + w <= Len(x.buf))
  BY <1>2, <1>8
<1> QED
  BY <1>6, <1>8, <1>9, <1>10 DEF r

-----------------------------------------------------------------------------
(***************************************************************************)
(* operator>> of a type.  y is x after it, and w the value.                *)
(***************************************************************************)

\* The object is still readable and the value one of its type; an object that
\* is ok has read the code of the value; a code that is ahead is read; and bytes
\* outside the buffer are read only if the sum in rawbytes wraps.
Wraps(y) ==
    y.ind + Number(SubSeq(y.buf, y.ind - SizeofInt + 1, y.ind)) >= UintMod

ReadsCode(x, t, y, w) ==
    /\ Readable(y) /\ y.buf = x.buf /\ w \in ValuesOf(t)
    /\ y.ok /\ ~y.fault => /\ x.ok /\ Ahead(x, Code([type |-> t, v |-> w]))
                           /\ y.ind = x.ind + Len(Code([type |-> t, v |-> w]))
    /\ \A c \in ValuesOf(t) : x.ok /\ Ahead(x, Code([type |-> t, v |-> c])) =>
          y.ok /\ ~y.fault /\ w = c
    /\ y.fault => Wraps(y)

\* Bytes of the same length that are both ahead are the same.
LEMMA AheadSame ==
    ASSUME NEW x, Readable(x), NEW c \in Seq(Byte), NEW d \in Seq(Byte), Len(c) = Len(d),
           Ahead(x, c), Ahead(x, d)
    PROVE  c = d
<1>1. \A j \in 1..Len(c) : c[j] = d[j]
  BY DEF Ahead
<1> QED
  BY <1>1, SeqEqual

\* A number whose bytes are ahead is read, and the index passes them.
LEMMA NumberRead ==
    ASSUME NEW x, Readable(x), ~x.fault, NEW t \in Type, t \notin {"string", "vector"}
    PROVE  ReadsCode(x, t, ReadNumber(x, Width[t]).u, ReadNumber(x, Width[t]).v)
<1> DEFINE n == Width[t]
           r == ReadNumber(x, n)
           y == r.u
           w == r.v
<1>1. n \in Nat
  BY TypeFacts
<1>2. \A c \in Nat : c < Power[n] => c \in ValuesOf(t)
  <2>1. Power[n] \in Nat
    BY <1>1, PowerDef
  <2> QED
    BY <2>1 DEF ValuesOf
<1>3. \A c : Code([type |-> t, v |-> c]) = BigEndian(c, n)
  BY DEF Code
<1> HIDE DEF n
<1>4. /\ Readable(y) /\ y.buf = x.buf /\ y.fault = x.fault
      /\ y.ok = (x.ok /\ x.ind + n <= Len(x.buf))
      /\ w \in Nat /\ w < Power[n]
      /\ x.ind + n <= Len(x.buf) => y.ind = x.ind + n /\ Ahead(x, BigEndian(w, n))
  BY <1>1, ReadNumberIs
<1> HIDE DEF r, y, w
<1>5. w \in ValuesOf(t) /\ Len(BigEndian(w, n)) = n /\ BigEndian(w, n) \in Seq(Byte)
  BY <1>1, <1>2, <1>4, BigEndianType
<1>6. ASSUME NEW c \in ValuesOf(t), x.ok, Ahead(x, BigEndian(c, n))
      PROVE  y.ok /\ ~y.fault /\ w = c
  <2>1. c \in Nat /\ c < Power[n]
    BY ValueFacts DEF n
  <2>2. BigEndian(c, n) \in Seq(Byte) /\ Len(BigEndian(c, n)) = n
    BY <2>1, <1>1, BigEndianType
  <2>3. x.ind + n <= Len(x.buf)
    BY <2>2, <1>6 DEF Ahead
  <2>4. BigEndian(c, n) = BigEndian(w, n)
    BY <2>2, <2>3, <1>4, <1>5, <1>6, AheadSame
  <2>5. Number(BigEndian(c, n)) = c /\ Number(BigEndian(w, n)) = w
    BY <2>1, <1>1, <1>4, NumberOfBytes
  <2> QED
    BY <2>3, <2>4, <2>5, <1>4, <1>6
<1>7. ~y.fault
  BY <1>4
<1>8. y.ok => x.ok /\ Ahead(x, BigEndian(w, n)) /\ y.ind = x.ind + Len(BigEndian(w, n))
  BY <1>4, <1>5
<1>9. ReadsCode(x, t, y, w)
  BY <1>3, <1>4, <1>5, <1>6, <1>7, <1>8 DEF ReadsCode
<1> QED
  BY <1>9 DEF y, w, r, n

\* Bytes in two parts are ahead if the second is ahead behind the first.
LEMMA AheadConcat ==
    ASSUME NEW x, NEW z, Readable(x), Readable(z), NEW a \in Seq(Byte), NEW b \in Seq(Byte),
           z.buf = x.buf, z.ind = x.ind + Len(a)
    PROVE  Ahead(x, a \o b) <=> Ahead(x, a) /\ Ahead(z, b)
<1> DEFINE c == a \o b
           m1 == Len(a)
           m2 == Len(b)
           s == Len(x.buf)
           k == x.ind
<1>1. /\ m1 \in Nat /\ m2 \in Nat /\ Len(c) = m1 + m2
      /\ (\A j \in 1..m1 : c[j] = a[j]) /\ (\A j \in 1..m2 : c[m1 + j] = b[j])
  BY Concat
<1>2. k \in Nat /\ s \in Nat /\ z.ind = k + m1 /\ z.buf = x.buf
  BY ReadableFacts
<1> HIDE DEF c, m1, m2, s, k
<1>3. ASSUME Ahead(x, c) PROVE Ahead(x, a) /\ Ahead(z, b)
  <2>1. k + (m1 + m2) <= s /\ \A j \in 1..m1 + m2 : x.buf[k + j] = c[j]
    BY <1>1, <1>3 DEF Ahead, s, k
  <2>2. k + m1 <= s /\ \A j \in 1..m1 : x.buf[k + j] = a[j]
    BY <2>1, <1>1, <1>2
  <2>3. ASSUME NEW j \in 1..m2 PROVE x.buf[(k + m1) + j] = b[j]
    <3>1. m1 + j \in 1..m1 + m2 /\ k + (m1 + j) = (k + m1) + j
      BY <1>1, <1>2
    <3> QED
      BY <3>1, <2>1, <1>1
  <2>4. (k + m1) + m2 <= s
    BY <2>1, <1>1, <1>2
  <2> QED
    BY <2>2, <2>3, <2>4, <1>2 DEF Ahead, s, k, m1, m2
<1>4. ASSUME Ahead(x, a), Ahead(z, b) PROVE Ahead(x, c)
  <2>1. /\ (k + m1) + m2 <= s /\ \A j \in 1..m1 : x.buf[k + j] = a[j]
        /\ \A j \in 1..m2 : x.buf[(k + m1) + j] = b[j]
    BY <1>2, <1>4 DEF Ahead, s, k, m1, m2
  <2>2. ASSUME NEW j \in 1..m1 + m2 PROVE x.buf[k + j] = c[j]
    <3>1. CASE j <= m1
      <4>1. j \in 1..m1
        BY <3>1, <1>1
      <4> QED
        BY <4>1, <2>1, <1>1
    <3>2. CASE ~ (j <= m1)
      <4>1. j - m1 \in 1..m2 /\ m1 + (j - m1) = j /\ (k + m1) + (j - m1) = k + j
        BY <3>2, <1>1, <1>2
      <4>2. x.buf[(k + m1) + (j - m1)] = b[j - m1] /\ c[m1 + (j - m1)] = b[j - m1]
        BY <4>1, <2>1, <1>1
      <4> QED
        BY <4>1, <4>2
    <3> QED
      BY <3>1, <3>2
  <2>3. k + (m1 + m2) <= s
    BY <2>1, <1>1, <1>2
  <2> QED
    BY <2>2, <2>3, <1>1 DEF Ahead, s, k
<1> QED
  BY <1>3, <1>4 DEF c

\* The length of a string or of a vector.
LEMMA LengthRead ==
    ASSUME NEW x, Readable(x), NEW z, NEW l, z = ReadNumber(x, SizeofInt).u,
           l = ReadNumber(x, SizeofInt).v
    PROVE  /\ Readable(z) /\ z.buf = x.buf /\ z.fault = x.fault
           /\ l \in Nat /\ l < Power[SizeofInt]
           /\ z.ok => /\ x.ok /\ z.ind = x.ind + SizeofInt
                      /\ Ahead(x, BigEndian(l, SizeofInt))
           /\ \A c \in Seq(Byte) :
                 /\ x.ok /\ Len(c) < Power[SizeofInt]
                 /\ Ahead(x, BigEndian(Len(c), SizeofInt) \o c)
                 => z.ok /\ l = Len(c) /\ Ahead(z, c)
           /\ \A c \in Seq(Byte) :
                 z.ok /\ Len(c) = l /\ Ahead(z, c) => Ahead(x, BigEndian(l, SizeofInt) \o c)
<1> DEFINE n == SizeofInt
           a == BigEndian(l, n)
<1>1. n \in Nat
  BY DEF SizeofInt
<1> HIDE DEF n
<1>2. /\ Readable(z) /\ z.buf = x.buf /\ z.fault = x.fault
      /\ z.ok = (x.ok /\ x.ind + n <= Len(x.buf))
      /\ l \in Nat /\ l < Power[n]
      /\ x.ind + n <= Len(x.buf) => z.ind = x.ind + n /\ Ahead(x, a)
  BY <1>1, ReadNumberIs DEF n
<1>3. a \in Seq(Byte) /\ Len(a) = n
  BY <1>1, <1>2, BigEndianType
<1> HIDE DEF a
<1>4. z.ok => x.ok /\ z.ind = x.ind + n /\ Ahead(x, a)
  BY <1>2
<1>5. ASSUME NEW c \in Seq(Byte), x.ok, Len(c) < Power[n], Ahead(x, BigEndian(Len(c), n) \o c)
      PROVE  z.ok /\ l = Len(c) /\ Ahead(z, c)
  <2> DEFINE b == BigEndian(Len(c), n)
  <2>1. Len(c) \in Nat
    OBVIOUS
  <2>2. b \in Seq(Byte) /\ Len(b) = n
    BY <2>1, <1>1, BigEndianType
  <2>3. Number(b) = Len(c)
    BY <2>1, <1>1, <1>5, NumberOfBytes
  <2>4. Ahead(x, b \o c)
    BY <1>5
  <2> HIDE DEF b
  <2>5. x.ind + n <= Len(x.buf)
    <3>1. /\ Len(b \o c) = n + Len(c) /\ x.ind + Len(b \o c) <= Len(x.buf)
          /\ x.ind \in Nat /\ Len(x.buf) \in Nat
      BY <2>2, <2>4, Concat, ReadableFacts DEF Ahead
    <3> QED
      BY <3>1, <2>1, <1>1
  <2>6. Ahead(x, b) /\ Ahead(z, c)
    BY <2>2, <2>4, <2>5, <1>2, AheadConcat
  <2>7. b = a
    BY <2>2, <2>5, <2>6, <1>2, <1>3, AheadSame
  <2>8. Number(a) = l
    BY <1>1, <1>2, NumberOfBytes DEF a
  <2> QED
    BY <2>3, <2>5, <2>6, <2>7, <2>8, <1>2, <1>5
<1>6. ASSUME NEW c \in Seq(Byte), z.ok, Len(c) = l, Ahead(z, c) PROVE Ahead(x, a \o c)
  BY <1>2, <1>3, <1>4, <1>6, AheadConcat
<1> QED
  BY <1>2, <1>4, <1>5, <1>6 DEF n, a

\* The number that was read last is the one before the index.
LEMMA LastNumber ==
    ASSUME NEW x, Readable(x), NEW l \in Nat, l < Power[SizeofInt],
           Ahead(x, BigEndian(l, SizeofInt)), NEW k, k = x.ind + SizeofInt
    PROVE  Number(SubSeq(x.buf, k - SizeofInt + 1, k)) = l
<1> DEFINE a == BigEndian(l, SizeofInt)
           i == k - SizeofInt + 1
           b == SubSeq(x.buf, i, k)
<1>1. SizeofInt = 4 /\ SizeofInt \in Nat
  BY DEF SizeofInt
<1>2. a \in Seq(Byte) /\ Len(a) = 4
  BY <1>1, BigEndianType
<1>3. x.ind \in Nat /\ x.ind + 4 <= Len(x.buf) /\ \A j \in 1..4 : x.buf[x.ind + j] = a[j]
  BY <1>2, ReadableFacts DEF Ahead
<1> HIDE DEF a
<1>4. i = x.ind + 1 /\ k = x.ind + 4 /\ i \in Int /\ k \in Int
  BY <1>1, <1>3, SMTT(60)
<1> HIDE DEF i
<1>5. ASSUME NEW j \in i..k PROVE x.buf[j] \in Byte
  <2>1. j - x.ind \in 1..4 /\ x.ind + (j - x.ind) = j
    BY <1>3, <1>4, SMTT(60)
  <2>2. x.buf[x.ind + (j - x.ind)] = a[j - x.ind]
    BY <2>1, <1>3, Zenon
  <2>3. a[j - x.ind] \in Byte
    <3>1. j - x.ind \in 1..Len(a)
      BY <2>1, <1>2
    <3> QED
      BY <3>1, <1>2, ElementOfSeq, Zenon
  <2> QED
    BY <2>1, <2>2, <2>3
<1>6. /\ b \in Seq(Byte) /\ Len(b) = (IF i <= k THEN k - i + 1 ELSE 0)
      /\ \A j \in 1..k - i + 1 : b[j] = x.buf[i + j - 1]
  BY <1>4, <1>5, SubSeqProperties
<1> HIDE DEF b
<1>7. k - i + 1 = 4 /\ i <= k /\ \A j \in 1..4 : i + j - 1 = x.ind + j
  BY <1>3, <1>4, SMTT(60)
<1>8. Len(b) = 4 /\ \A j \in 1..4 : b[j] = a[j]
  <2>1. Len(b) = 4
    BY <1>6, <1>7
  <2>2. ASSUME NEW j \in 1..4 PROVE b[j] = a[j]
    <3>1. b[j] = x.buf[i + j - 1] /\ i + j - 1 = x.ind + j
      BY <1>6, <1>7, Zenon
    <3> QED
      BY <1>3, <3>1
  <2> QED
    BY <2>1, <2>2
<1>9. b = a
  BY <1>2, <1>6, <1>8, SeqEqual
<1>10. Number(a) = l
  BY <1>1, NumberOfBytes DEF a
<1> QED
  BY <1>9, <1>10 DEF b, i

\* The bytes that are copied out of the buffer.
LEMMA CopyOut ==
    ASSUME NEW z, Readable(z), NEW l \in Nat, z.ind + l <= Len(z.buf)
    PROVE  LET c == SubSeq(z.buf, z.ind + 1, z.ind + l)
           IN  c \in Seq(Byte) /\ Len(c) = l /\ Ahead(z, c)
<1> DEFINE k == z.ind
           i == k + 1
           e == k + l
           c == SubSeq(z.buf, i, e)
<1>1. k \in Nat /\ \A j \in Nat : k < j /\ j <= Len(z.buf) => z.buf[j] \in Byte
  BY ReadableFacts
<1>2. Len(z.buf) \in Nat /\ e <= Len(z.buf) /\ e = k + l
  BY ReadableFacts
<1> HIDE DEF k, e
<1>3. i \in Int /\ e \in Int /\ \A j \in i..e : z.buf[j] \in Byte
  BY <1>1, <1>2
<1> HIDE DEF i
<1>4. /\ c \in Seq(Byte) /\ Len(c) = (IF i <= e THEN e - i + 1 ELSE 0)
      /\ \A j \in 1..e - i + 1 : c[j] = z.buf[i + j - 1]
  BY <1>3, SubSeqProperties
<1> HIDE DEF c
<1>5. e - i + 1 = l /\ (i <= e <=> l # 0) /\ \A j \in 1..l : i + j - 1 = k + j
  BY <1>1, <1>2 DEF i
<1>6. Len(c) = l
  BY <1>4, <1>5
<1>7. \A j \in 1..l : z.buf[k + j] = c[j]
  BY <1>4, <1>5
<1>8. Ahead(z, c)
  BY <1>2, <1>6, <1>7 DEF Ahead, k
<1> QED
  BY <1>4, <1>6, <1>8 DEF c, i, e, k

\* operator>> of a string reads the bytes that operator<< wrote.
LEMMA StringRead ==
    ASSUME NEW x, Readable(x), ~x.fault, "string" \in Type,
           NEW y, NEW w, y = ReadString(x).u, w = ReadString(x).v
    PROVE  ReadsCode(x, "string", y, w)
<1> DEFINE t == "string"
           z == ReadNumber(x, SizeofInt).u
           l == ReadNumber(x, SizeofInt).v
           Rec == [buf : Seq(Cell), ind : Nat, ok : BOOLEAN, fault : BOOLEAN]
           Is(c) == Ahead(x, Code([type |-> t, v |-> c]))
<1>1. /\ Readable(z) /\ z.buf = x.buf /\ z.fault = x.fault
      /\ l \in Nat /\ l < Power[SizeofInt]
      /\ z.ok => x.ok /\ z.ind = x.ind + SizeofInt /\ Ahead(x, BigEndian(l, SizeofInt))
  BY LengthRead
<1>2. \A c \in Seq(Byte) :
         /\ x.ok /\ Len(c) < Power[SizeofInt]
         /\ Ahead(x, BigEndian(Len(c), SizeofInt) \o c)
         => z.ok /\ l = Len(c) /\ Ahead(z, c)
  BY LengthRead
<1>3. \A c \in Seq(Byte) :
         z.ok /\ Len(c) = l /\ Ahead(z, c) => Ahead(x, BigEndian(l, SizeofInt) \o c)
  BY LengthRead
<1>4. /\ ~z.ok => y = z /\ w = <<>>
      /\ z.ok /\ ~Fits(z, l) => y = [z EXCEPT !.ok = FALSE] /\ w = <<>>
      /\ z.ok /\ Fits(z, l) /\ z.ind + l > Sz(x) => y = [z EXCEPT !.fault = TRUE] /\ w = <<>>
      /\ z.ok /\ Fits(z, l) /\ ~ (z.ind + l > Sz(x)) =>
            y = [z EXCEPT !.ind = @ + l] /\ w = SubSeq(x.buf, z.ind + 1, z.ind + l)
  BY DEF ReadString
<1> HIDE DEF z, l
<1>5. /\ z.ind \in Nat /\ Len(z.buf) \in Nat /\ z.ind <= Len(z.buf) /\ Sz(x) = Len(z.buf)
      /\ Sz(z) = Len(z.buf) /\ ~z.fault /\ z \in Rec
  <2>1. /\ z.ind \in Nat /\ Len(z.buf) \in Nat /\ z.ind <= Len(z.buf) /\ Sz(x) = Len(x.buf)
        /\ Sz(z) = Len(z.buf)
    BY <1>1, ReadableFacts
  <2> QED
    BY <2>1, <1>1 DEF Readable
<1>6. \A c \in ValuesOf(t) : c \in Seq(Byte) /\ Len(c) < Power[SizeofInt]
  BY ValueFacts
<1>7. <<>> \in ValuesOf(t) /\ \A c \in Seq(Byte) : Len(c) = l => c \in ValuesOf(t)
  <2>1. 0 \in Uint /\ l \in Uint
    BY <1>1, UintFacts DEF Uint, UintMod
  <2> QED
    BY <2>1 DEF ValuesOf
<1>8. \A c : Code([type |-> t, v |-> c]) = BigEndian(Len(c), SizeofInt) \o c
  BY DEF Code
<1>9. UintMod \in Nat \ {0} /\ z.ind + l \in Nat
  BY <1>1, <1>5, UintFacts
\* A string that is ahead is not refused.
<1>10. ASSUME NEW c \in ValuesOf(t), x.ok, Is(c)
       PROVE  c \in Seq(Byte) /\ z.ok /\ l = Len(c) /\ Ahead(z, c) /\ ~ (z.ind + l > Sz(x)) /\ Fits(z, l)
  <2>1. c \in Seq(Byte) /\ z.ok /\ l = Len(c) /\ Ahead(z, c)
    BY <1>2, <1>6, <1>8, <1>10
  <2>2. z.ind + l <= Len(z.buf)
    BY <2>1 DEF Ahead
  <2> DEFINE e == z.ind + l
  <2>3. e \in Nat /\ e <= Len(z.buf) /\ Len(z.buf) \in Nat
    BY <2>2, <1>5, <1>9
  <2>4. ~ (z.ind + l > Sz(x))
    BY <2>3, <1>5
  <2> HIDE DEF e
  <2>5. e % UintMod <= e /\ e % UintMod \in Nat
    BY <2>3, <1>9, ModBelow
  <2>6. e % UintMod <= Len(z.buf)
    BY <2>3, <2>5
  <2> QED
    BY <2>1, <2>4, <2>6, <1>5 DEF Fits, e
<1> HIDE DEF Is
<1>11. SUFFICES /\ Readable(y) /\ y.buf = x.buf /\ w \in ValuesOf(t)
                /\ y.ok /\ ~y.fault => x.ok /\ Is(w) /\ y.ind = x.ind + Len(Code([type |-> t, v |-> w]))
                /\ \A c \in ValuesOf(t) : x.ok /\ Is(c) => y.ok /\ ~y.fault /\ w = c
                /\ y.fault => Wraps(y)
  BY DEF ReadsCode, Is
<1>12. CASE ~z.ok
  <2>1. y = z /\ w = <<>>
    BY <1>4, <1>12
  <2> QED
    BY <2>1, <1>1, <1>5, <1>7, <1>10, <1>12
<1>13. CASE z.ok /\ ~Fits(z, l)
  <2>1. y = [z EXCEPT !.ok = FALSE] /\ w = <<>>
    BY <1>4, <1>13
  <2>2. y \in Rec /\ y.buf = z.buf /\ y.ind = z.ind /\ ~y.ok /\ y.fault = z.fault
    BY <2>1, <1>5
  <2>3. Readable(y)
    BY <2>2, <1>1, <1>5, ReadableSame
  <2> QED
    BY <2>1, <2>2, <2>3, <1>1, <1>5, <1>7, <1>10, <1>13
<1>14. CASE z.ok /\ Fits(z, l) /\ z.ind + l > Sz(x)
  <2>1. y = [z EXCEPT !.fault = TRUE] /\ w = <<>>
    BY <1>4, <1>14
  <2>2. y \in Rec /\ y.buf = z.buf /\ y.ind = z.ind /\ y.ok = z.ok /\ y.fault
    BY <2>1, <1>5
  <2>3. Readable(y)
    BY <2>2, <1>1, <1>5, ReadableSame
  <2>4. Number(SubSeq(x.buf, z.ind - SizeofInt + 1, z.ind)) = l
    BY <1>1, <1>14, LastNumber
  <2>5. z.ind + l >= UintMod
    <3> DEFINE e == z.ind + l
    <3>1. e \in Nat /\ e > Len(z.buf) /\ e % UintMod <= Len(z.buf) /\ Len(z.buf) \in Nat
      BY <1>5, <1>9, <1>14 DEF Fits
    <3> HIDE DEF e
    <3>2. e < UintMod => e % UintMod = e
      BY <3>1, <1>9, ModSmall
    <3>3. e >= UintMod
      BY <3>1, <3>2, <1>9
    <3> QED
      BY <3>3 DEF e
  <2>6. Wraps(y)
    BY <2>2, <2>4, <2>5, <1>1 DEF Wraps
  <2> QED
    BY <2>1, <2>2, <2>3, <2>6, <1>1, <1>7, <1>10, <1>14
<1>15. CASE z.ok /\ Fits(z, l) /\ ~ (z.ind + l > Sz(x))
  <2>1. y = [z EXCEPT !.ind = @ + l] /\ w = SubSeq(x.buf, z.ind + 1, z.ind + l)
    BY <1>4, <1>15
  <2>2. z.ind + l \in Nat /\ z.ind <= z.ind + l /\ z.ind + l <= Len(z.buf)
    BY <1>1, <1>5, <1>9, <1>15
  <2>3. y \in Rec /\ y.buf = z.buf /\ y.ind = z.ind + l /\ y.ok = z.ok /\ y.fault = z.fault
    BY <2>1, <2>2, <1>5
  <2>4. w \in Seq(Byte) /\ Len(w) = l /\ Ahead(z, w)
    <3>1. w = SubSeq(z.buf, z.ind + 1, z.ind + l)
      BY <2>1, <1>1
    <3> QED
      BY <3>1, <2>2, <1>1, CopyOut
  <2>5. Readable(y)
    BY <2>2, <2>3, <1>1, ReadableSame
  <2>6. Is(w) /\ w \in ValuesOf(t)
    BY <2>4, <1>3, <1>7, <1>8, <1>15 DEF Is
  <2>7. Len(Code([type |-> t, v |-> w])) = SizeofInt + l
    <3>1. BigEndian(l, SizeofInt) \in Seq(Byte) /\ Len(BigEndian(l, SizeofInt)) = SizeofInt
      BY <1>1, BigEndianType DEF SizeofInt
    <3> QED
      BY <3>1, <2>4, <1>8, Concat
  <2>8. y.ind = x.ind + (SizeofInt + l)
    <3>1. z.ind = x.ind + SizeofInt /\ x.ind \in Nat /\ SizeofInt \in Nat
      BY <1>1, <1>15, ReadableFacts DEF SizeofInt
    <3> QED
      BY <3>1, <2>3, <1>1
  <2>9. ASSUME NEW c \in ValuesOf(t), x.ok, Is(c) PROVE w = c
    BY <2>9, <2>4, <1>1, <1>10, AheadSame
  <2> QED
    BY <2>3, <2>5, <2>6, <2>7, <2>8, <2>9, <1>1, <1>5, <1>15
<1> QED
  BY <1>12, <1>13, <1>14, <1>15

\* operator>> of a vector reads the elements that operator<< wrote.
LEMMA VectorRead ==
    ASSUME NEW x, Readable(x), ~x.fault, "vector" \in Type,
           NEW y, NEW w, y = ReadVector(x).u, w = ReadVector(x).v
    PROVE  ReadsCode(x, "vector", y, w)
<1> DEFINE t == "vector"
           z == ReadNumber(x, SizeofInt).u
           l == ReadNumber(x, SizeofInt).v
           n == Min({l, Sz(x) - z.ind})
           Rec == [buf : Seq(Cell), ind : Nat, ok : BOOLEAN, fault : BOOLEAN]
           Is(c) == Ahead(x, Code([type |-> t, v |-> c]))
<1>1. /\ Readable(z) /\ z.buf = x.buf /\ z.fault = x.fault
      /\ l \in Nat /\ l < Power[SizeofInt]
      /\ z.ok => x.ok /\ z.ind = x.ind + SizeofInt /\ Ahead(x, BigEndian(l, SizeofInt))
  BY LengthRead
<1>2. \A c \in Seq(Byte) :
         /\ x.ok /\ Len(c) < Power[SizeofInt]
         /\ Ahead(x, BigEndian(Len(c), SizeofInt) \o c)
         => z.ok /\ l = Len(c) /\ Ahead(z, c)
  BY LengthRead
<1>3. \A c \in Seq(Byte) :
         z.ok /\ Len(c) = l /\ Ahead(z, c) => Ahead(x, BigEndian(l, SizeofInt) \o c)
  BY LengthRead
<1>4. /\ y = [z EXCEPT !.ind = @ + n, !.ok = @ /\ n = l]
      /\ w = [i \in 1..l |-> IF i <= n THEN x.buf[z.ind + i] ELSE 0]
  BY DEF ReadVector
<1> HIDE DEF z, l
<1>5. /\ z.ind \in Nat /\ Len(z.buf) \in Nat /\ z.ind <= Len(z.buf) /\ Sz(x) = Len(z.buf)
      /\ ~z.fault /\ z \in Rec /\ Sz(x) - z.ind \in Nat
      /\ \A i \in Nat : z.ind < i /\ i <= Len(z.buf) => x.buf[i] \in Byte
  <2>1. /\ z.ind \in Nat /\ Len(z.buf) \in Nat /\ z.ind <= Len(z.buf) /\ Sz(x) = Len(x.buf)
        /\ Sz(z) = Len(z.buf) /\ Sz(z) - z.ind \in Nat
        /\ \A i \in Nat : z.ind < i /\ i <= Len(z.buf) => z.buf[i] \in Byte
    BY <1>1, ReadableFacts
  <2> QED
    BY <2>1, <1>1 DEF Readable
<1>6. n \in Nat /\ n <= l /\ z.ind + n <= Len(z.buf) /\ (n = l <=> z.ind + l <= Len(z.buf))
  <2> DEFINE r == Sz(x) - z.ind
  <2>1. r \in Nat /\ r = Len(z.buf) - z.ind
    BY <1>5
  <2> HIDE DEF r
  <2>2. Min({l, r}) = IF l <= r THEN l ELSE r
    BY <2>1, <1>1, MinTwo
  <2>3. n = IF l <= r THEN l ELSE r
    BY <2>2 DEF r
  <2> HIDE DEF n
  <2> QED
    BY <2>1, <2>3, <1>1, <1>5
<1> HIDE DEF n
<1>7. \A c \in ValuesOf(t) : c \in Seq(Byte) /\ Len(c) < Power[SizeofInt]
  BY ValueFacts
<1>8. \A c \in Seq(Byte) : Len(c) = l => c \in ValuesOf(t)
  <2>1. l \in Uint
    BY <1>1, UintFacts DEF Uint, UintMod
  <2> QED
    BY <2>1 DEF ValuesOf
<1>9. \A c : Code([type |-> t, v |-> c]) = BigEndian(Len(c), SizeofInt) \o c
  BY DEF Code
<1>10. w \in Seq(Byte) /\ Len(w) = l /\ \A i \in 1..l : i <= n => w[i] = z.buf[z.ind + i]
  <2>1. 0 \in Byte
    BY MarshallAssumption DEF Byte
  <2>2. ASSUME NEW i \in 1..l PROVE (IF i <= n THEN x.buf[z.ind + i] ELSE 0) \in Byte
    <3>1. i <= n => z.ind + i \in Nat /\ z.ind < z.ind + i /\ z.ind + i <= Len(z.buf)
      BY <1>1, <1>5, <1>6
    <3> QED
      BY <3>1, <2>1, <1>5
  <2>3. w \in [1..l -> Byte]
    BY <2>2, <1>4
  <2>4. \A i \in 1..l : i <= n => w[i] = z.buf[z.ind + i]
    BY <1>1, <1>4
  <2> QED
    BY <2>3, <2>4, <1>1
<1>11. y \in Rec /\ y.buf = z.buf /\ y.ind = z.ind + n /\ (y.ok <=> z.ok /\ n = l) /\ y.fault = z.fault
  <2> DEFINE b == z.ok /\ n = l
             e == z.ind + n
  <2>1. y = [z EXCEPT !.ind = e, !.ok = b]
    BY <1>4
  <2>2. b \in BOOLEAN /\ e \in Nat
    BY <1>5, <1>6
  <2> HIDE DEF b, e
  <2>3. y \in Rec /\ y.buf = z.buf /\ y.ind = e /\ y.ok = b /\ y.fault = z.fault
    BY <2>1, <2>2, <1>5
  <2>4. y.ok <=> b
    BY <2>3
  <2> QED
    BY <2>3, <2>4 DEF b, e
<1>12. Readable(y)
  <2>1. z.ind <= y.ind /\ y.ind <= Len(z.buf)
    BY <1>5, <1>6, <1>11
  <2> QED
    BY <2>1, <1>1, <1>11, ReadableSame
<1>13. ASSUME n = l PROVE Ahead(z, w)
  <2>1. z.ind + l <= Len(z.buf) /\ \A i \in 1..l : z.buf[z.ind + i] = w[i]
    BY <1>1, <1>6, <1>10, <1>13
  <2> QED
    BY <2>1, <1>10 DEF Ahead
<1>14. ASSUME NEW c \in ValuesOf(t), x.ok, Is(c) PROVE y.ok /\ w = c
  <2>1. c \in Seq(Byte) /\ z.ok /\ l = Len(c) /\ Ahead(z, c)
    BY <1>2, <1>7, <1>9, <1>14
  <2>2. n = l
    BY <2>1, <1>6 DEF Ahead
  <2>3. w = c
    BY <2>1, <2>2, <1>1, <1>10, <1>13, AheadSame
  <2> QED
    BY <2>1, <2>2, <2>3, <1>11
<1>15. ASSUME y.ok PROVE x.ok /\ Is(w) /\ y.ind = x.ind + Len(Code([type |-> t, v |-> w]))
  <2>1. z.ok /\ n = l
    BY <1>11, <1>15
  <2>2. Is(w) /\ x.ok
    BY <2>1, <1>1, <1>3, <1>9, <1>10, <1>13
  <2>3. Len(Code([type |-> t, v |-> w])) = SizeofInt + l
    <3>1. BigEndian(l, SizeofInt) \in Seq(Byte) /\ Len(BigEndian(l, SizeofInt)) = SizeofInt
      BY <1>1, BigEndianType DEF SizeofInt
    <3> QED
      BY <3>1, <1>9, <1>10, Concat
  <2>4. z.ind = x.ind + SizeofInt /\ x.ind \in Nat /\ SizeofInt \in Nat
    BY <2>1, <1>1, ReadableFacts DEF SizeofInt
  <2>5. y.ind = x.ind + (SizeofInt + l)
    BY <2>1, <2>4, <1>1, <1>11
  <2> QED
    BY <2>2, <2>3, <2>5
<1>16. w \in ValuesOf(t)
  BY <1>8, <1>10
<1> QED
  BY <1>1, <1>5, <1>11, <1>12, <1>14, <1>15, <1>16 DEF ReadsCode

\* operator>> inverts operator<<, for every type and value.
LEMMA ShiftOutReads ==
    ASSUME NEW x, Readable(x), ~x.fault, NEW t \in Type
    PROVE  ReadsCode(x, t, ShiftOut(x, t).u, ShiftOut(x, t).v)
<1>1. CASE t = "string"
  <2>1. ShiftOut(x, t) = ReadString(x)
    BY <1>1 DEF ShiftOut
  <2> QED
    BY <2>1, <1>1, StringRead
<1>2. CASE t = "vector"
  <2>1. ShiftOut(x, t) = ReadVector(x)
    BY <1>2 DEF ShiftOut
  <2> QED
    BY <2>1, <1>2, VectorRead
<1>3. CASE t \notin {"string", "vector"}
  <2>1. ShiftOut(x, t) = ReadNumber(x, Width[t])
    BY <1>3 DEF ShiftOut
  <2> QED
    BY <2>1, <1>3, NumberRead
<1> QED
  BY <1>1, <1>2, <1>3

-----------------------------------------------------------------------------
(***************************************************************************)
(* The inductive invariant.                                                *)
(***************************************************************************)
Locations ==
    {"call", "dispatch", "handler", "ran", "aborted", "reply", "result", "returned", "refused",
     "fault"}

Unmarshall == [buf : Seq(Cell), ind : Nat, ok : BOOLEAN, fault : BOOLEAN]

TypeInv ==
    /\ pc \in Locations
    /\ sent \in Seq(Item) /\ got \in Seq(Item) /\ Len(sent) <= MaxArgs /\ Len(got) <= MaxArgs
    /\ hdr \in Seq(Uint) /\ seen \in Seq(Uint)
    /\ u \in Unmarshall

\* The bytes of the values xs follow the header in a buffer; they are all that
\* was added to a marshall object, and all there is in a PDU.
Carries(buf, xs) ==
    \A j \in 1..Len(Encoding(xs)) : buf[RPC_HEADER_SZ + j] = Encoding(xs)[j]

Written(x, xs) ==
    Sound(x) /\ x.ind = RPC_HEADER_SZ + Len(Encoding(xs)) /\ Carries(x.buf, xs)

Unread(buf, xs) ==
    Len(buf) = RPC_HEADER_SZ + Len(Encoding(xs)) /\ Carries(buf, xs)

\* The fields of the header h are in the buffer.
Fields(buf, h) ==
    \A i \in 1..Len(h), j \in 1..SizeofInt :
        buf[i * SizeofInt + j] = BigEndian(h[i], SizeofInt)[j]

WriteInv == Written(m, sent)

CallInv ==
    pc = "call" => got = <<>> /\ ~u.fault

\* A PDU that was sent and not yet looked at.
PduInv ==
    pc \in {"dispatch", "reply"} =>
        /\ got = <<>> /\ u.ok /\ ~u.fault
        /\ Unread(u.buf, sent) /\ Fields(u.buf, hdr)

\* A reply has a result, or it reports a failure; call_m aborts over a result
\* only.
CountInv ==
    /\ pc \in {"dispatch", "handler", "ran"} => Len(hdr) = 5
    /\ pc = "ran" => got # <<>>
    /\ pc \in {"reply", "result"} =>
          /\ Len(hdr) = 2 /\ got = <<>>
          /\ IF Negative(hdr[2]) THEN sent = <<>> ELSE Len(sent) = 1
    /\ pc = "refused" /\ Len(hdr) = 2 => ~Negative(hdr[2])

\* What was read is the beginning of what was written, and with the types of the
\* writer it is what was written.
Reading(x, xs, ys) ==
    /\ Readable(x) /\ Len(x.buf) = RPC_HEADER_SZ + Len(Encoding(xs)) /\ Carries(x.buf, xs)
    /\ x.ok /\ ~x.fault =>
          x.ind = RPC_HEADER_SZ + Len(Encoding(ys)) /\ Carries(x.buf, ys)
    /\ Len(ys) <= Len(xs) /\ (\A i \in 1..Len(ys) : ys[i].type = xs[i].type) =>
          x.ok /\ ~x.fault /\ \A i \in 1..Len(ys) : ys[i] = xs[i]
    /\ x.fault => Wraps(x)

ReadInv ==
    pc \in {"handler", "ran", "aborted", "result", "returned", "refused", "fault"} =>
        /\ Reading(u, sent, got) /\ seen = hdr
        /\ u.fault <=> pc = "fault"
        /\ pc \in {"ran", "returned"} => OkDone(u)
        /\ pc = "refused" => ~OkDone(u)

MarshallInv == TypeInv /\ WriteInv /\ CallInv /\ PduInv /\ CountInv /\ ReadInv

-----------------------------------------------------------------------------
(***************************************************************************)
(* One value more that is read.                                            *)
(***************************************************************************)
LEMMA Extended ==
    ASSUME NEW S, NEW s \in Seq(S), NEW e \in S, NEW t, t = Append(s, e)
    PROVE  /\ t \in Seq(S) /\ Len(s) \in Nat /\ Len(t) = Len(s) + 1 /\ t[Len(s) + 1] = e
           /\ \A i \in 1..Len(s) : t[i] = s[i]
  BY AppendProperties

\* A buffer that carries bytes, and others behind them, carries their concatenation.
LEMMA CarriesMore ==
    ASSUME NEW buf, NEW a \in Seq(Byte), NEW c \in Seq(Byte),
           \A j \in 1..Len(a) : buf[RPC_HEADER_SZ + j] = a[j],
           \A j \in 1..Len(c) : buf[RPC_HEADER_SZ + Len(a) + j] = c[j]
    PROVE  /\ Len(a \o c) = Len(a) + Len(c)
           /\ \A j \in 1..Len(a \o c) : buf[RPC_HEADER_SZ + j] = (a \o c)[j]
  <1> DEFINE n == Len(a)
             k == Len(c)
             d == a \o c
  <1>1. /\ n \in Nat /\ k \in Nat /\ Len(d) = n + k /\ RPC_HEADER_SZ = 24
        /\ \A j \in 1..n + k : d[j] = IF j <= n THEN a[j] ELSE c[j - n]
    BY ConcatProperties, LenProperties DEF RPC_HEADER_SZ, SizeofInt
  <1> HIDE DEF n, k, d
  <1>2. /\ \A j \in 1..n : buf[24 + j] = a[j]
        /\ \A j \in 1..k : buf[24 + n + j] = c[j]
    BY <1>1 DEF n, k
  <1>3. ASSUME NEW j \in 1..n + k PROVE buf[24 + j] = d[j]
    <2>1. CASE j <= n
      BY <2>1, <1>1, <1>2
    <2>2. CASE ~ (j <= n)
      <3>1. j - n \in 1..k /\ 24 + n + (j - n) = 24 + j
        BY <2>2, <1>1
      <3> QED  BY <3>1, <2>2, <1>1, <1>2
    <2> QED  BY <2>1, <2>2
  <1> QED  BY <1>1, <1>3 DEF n, k, d

\* One argument more that is read keeps Reading.
LEMMA ReadingStep ==
    ASSUME NEW x, NEW xs \in Seq(Item), NEW ys \in Seq(Item), NEW t \in Type,
           Reading(x, xs, ys), ~x.fault,
           NEW y, NEW w, y = ShiftOut(x, t).u, w = ShiftOut(x, t).v
    PROVE  /\ [type |-> t, v |-> w] \in Item
           /\ Reading(y, xs, Append(ys, [type |-> t, v |-> w]))
  <1> DEFINE it == [type |-> t, v |-> w]
             c == Code(it)
             zs == Append(ys, it)
             n == Len(ys)
             a == Encoding(ys)
             e == Encoding(xs)
  <1>1. Readable(x) /\ Len(x.buf) = RPC_HEADER_SZ + Len(e) /\ Carries(x.buf, xs)
    BY DEF Reading
  <1>2. /\ Readable(y) /\ y.buf = x.buf /\ w \in ValuesOf(t)
        /\ y.ok /\ ~y.fault => x.ok /\ Ahead(x, c) /\ y.ind = x.ind + Len(c)
        /\ \A q \in ValuesOf(t) : x.ok /\ Ahead(x, Code([type |-> t, v |-> q])) =>
              y.ok /\ ~y.fault /\ w = q
        /\ y.fault => Wraps(y)
    BY <1>1, ShiftOutReads DEF ReadsCode
  <1>3. it \in Item
    BY <1>2, IsItem
  <1> HIDE DEF it
  <1>4. /\ zs \in Seq(Item) /\ n \in Nat /\ Len(zs) = n + 1 /\ zs[n + 1] = it
        /\ \A i \in 1..n : zs[i] = ys[i]
    BY <1>3, Extended
  <1>5. a \in Seq(Byte) /\ c \in Seq(Byte) /\ Encoding(zs) = a \o c
    BY <1>3, EncodingAppend
  <1>6. /\ Len(a) \in Nat /\ Len(c) \in Nat /\ RPC_HEADER_SZ = 24
        /\ x.ind \in Nat /\ Len(x.buf) \in Nat
    BY <1>1, <1>5, LenProperties, ReadableFacts DEF RPC_HEADER_SZ, SizeofInt
  <1> HIDE DEF c, zs, n, a
  <1>7. ASSUME y.ok /\ ~y.fault
        PROVE  y.ind = RPC_HEADER_SZ + Len(Encoding(zs)) /\ Carries(y.buf, zs)
    <2>1. x.ind = RPC_HEADER_SZ + Len(a) /\ \A j \in 1..Len(a) : x.buf[RPC_HEADER_SZ + j] = a[j]
      BY <1>2, <1>7 DEF Reading, Carries, a
    <2>2. \A j \in 1..Len(c) : x.buf[RPC_HEADER_SZ + Len(a) + j] = c[j]
      <3>1. Ahead(x, c)
        BY <1>2, <1>7
      <3> QED
        BY <2>1, <3>1, Zenon DEF Ahead
    <2>3. /\ Len(a \o c) = Len(a) + Len(c)
          /\ \A j \in 1..Len(a \o c) : x.buf[RPC_HEADER_SZ + j] = (a \o c)[j]
      BY <2>1, <2>2, <1>5, CarriesMore
    <2> QED  BY <2>1, <2>3, <1>2, <1>5, <1>6, <1>7, SMTT(60) DEF Carries
  <1>8. ASSUME Len(zs) <= Len(xs), \A i \in 1..Len(zs) : zs[i].type = xs[i].type
        PROVE  y.ok /\ ~y.fault /\ \A i \in 1..Len(zs) : zs[i] = xs[i]
    <2>1. Len(xs) \in Nat /\ n < Len(xs) /\ n + 1 \in 1..Len(xs) /\ n + 1 \in 1..Len(zs)
      BY <1>4, <1>8, LenProperties
    <2>2. n <= Len(xs) /\ \A i \in 1..n : ys[i].type = xs[i].type
      BY <1>4, <1>8, <2>1
    <2>3. x.ok /\ \A i \in 1..n : ys[i] = xs[i]
      BY <2>2 DEF Reading, n
    <2>4. x.ind = RPC_HEADER_SZ + Len(a)
      BY <2>3 DEF Reading, a
    <2> DEFINE d == Code(xs[n + 1])
               q == xs[n + 1].v
    <2>5. /\ d \in Seq(Byte) /\ Len(a) + Len(d) <= Len(e)
          /\ \A j \in 1..Len(d) : e[Len(a) + j] = d[j]
      BY <2>1, <2>3, EncodingNext DEF n, a
    <2>6. xs[n + 1] \in Item
      BY <2>1, ElementOfSeq
    <2>7. xs[n + 1] = [type |-> t, v |-> q] /\ q \in ValuesOf(t)
      <3>1. xs[n + 1].type = t
        BY <2>1, <1>4, <1>8 DEF it
      <3> HIDE DEF q
      <3>2. xs[n + 1].v = q
        BY DEF q
      <3> QED  BY <2>6, <3>1, <3>2, ItemFacts
    <2>8. Ahead(x, d)
      <3> HIDE DEF d, e
      <3>1. Len(d) \in Nat /\ Len(e) \in Nat /\ \A j \in 1..Len(e) : x.buf[24 + j] = e[j]
        BY <1>1, <1>6, <2>5, EncodingAppend, LenProperties, <1>3 DEF Carries, e
      <3>2. ASSUME NEW j \in 1..Len(d) PROVE x.buf[x.ind + j] = d[j]
        <4>1. Len(a) + j \in 1..Len(e) /\ x.ind + j = 24 + (Len(a) + j)
          BY <2>4, <2>5, <3>1, <1>6
        <4> QED  BY <4>1, <3>1, <2>5
      <3>3. x.ind + Len(d) <= Len(x.buf)
        BY <1>1, <1>6, <2>4, <2>5, <3>1 DEF e
      <3> QED  BY <3>2, <3>3 DEF Ahead
    <2>9. y.ok /\ ~y.fault /\ w = q
      BY <1>2, <2>3, <2>7, <2>8
    <2>10. zs[n + 1] = xs[n + 1]
      BY <1>4, <2>7, <2>9 DEF it
    <2>11. \A i \in 1..n + 1 : i \in 1..n \/ i = n + 1
      BY <1>4
    <2> QED  BY <1>4, <2>3, <2>9, <2>10, <2>11
  <1>9. Reading(y, xs, zs)
    BY <1>1, <1>2, <1>7, <1>8 DEF Reading
  <1> QED  BY <1>3, <1>9 DEF it, zs

-----------------------------------------------------------------------------
(***************************************************************************)
(* unpack_req_header and unpack_reply_header find the fields again.        *)
(***************************************************************************)
LEMMA FieldRead ==
    ASSUME NEW b \in Seq(Cell), NEW h \in Seq(Uint), Fields(b, h), NEW i \in 1..Len(h),
           NEW p \in [1..SizeofInt -> Cell],
           \A j \in 1..SizeofInt : p[j] = b[i * SizeofInt + j]
    PROVE  Number(p) = h[i]
  <1> DEFINE q == BigEndian(h[i], SizeofInt)
  <1>1. h[i] \in Nat /\ h[i] < Power[SizeofInt] /\ SizeofInt \in Nat
    <2>1. h[i] \in Uint
      BY ElementOfSeq
    <2> QED  BY <2>1, UintFacts DEF SizeofInt
  <1>2. q \in Seq(Byte) /\ Len(q) = SizeofInt
    BY <1>1, BigEndianType
  <1>3. \A j \in 1..SizeofInt : p[j] = q[j]
    BY DEF Fields
  <1>4. Number(q) = h[i]
    BY <1>1, NumberOfBytes
  <1> HIDE DEF q
  <1>5. q \in Seq(Cell)
    BY <1>2, ByteSeq
  <1>6. p \in Seq(Cell) /\ Len(p) = SizeofInt
    <2> DEFINE n == SizeofInt
               d == [j \in 1..n |-> p[j]]
    <2>1. p = d /\ n \in Nat /\ \A j \in 1..n : p[j] \in Cell
      BY <1>1
    <2> HIDE DEF n
    <2>2. d \in Seq(Cell) /\ Len(d) = n
      BY <2>1
    <2> QED  BY <2>1, <2>2 DEF n
  <1>7. p = q
    BY <1>2, <1>3, <1>5, <1>6, SeqEqual
  <1> QED  BY <1>4, <1>7

\* The index is set behind the header.
LEMMA Rewound ==
    ASSUME NEW x \in Unmarshall, NEW y, y = [x EXCEPT !.ind = RPC_HEADER_SZ, !.ok = TRUE]
    PROVE  /\ y \in Unmarshall /\ y.buf = x.buf /\ y.ind = RPC_HEADER_SZ
           /\ y.ok /\ y.fault = x.fault
  <1> DEFINE n == RPC_HEADER_SZ
             c == TRUE
  <1>1. n \in Nat /\ c \in BOOLEAN /\ y = [x EXCEPT !.ind = n, !.ok = c]
    BY DEF RPC_HEADER_SZ, SizeofInt
  <1> HIDE DEF n, c
  <1>2. y \in Unmarshall /\ y.buf = x.buf /\ y.ind = n /\ y.ok = c /\ y.fault = x.fault
    BY <1>1 DEF Unmarshall
  <1> QED  BY <1>2 DEF n, c

\* unpack_req_header and unpack_reply_header read the fields that were packed.
LEMMA UnpackHeaderIs ==
    ASSUME NEW x \in Unmarshall, x.ok, NEW n \in {2, 5}, NEW h \in Seq(Uint), Len(h) = n,
           Fields(x.buf, h), Len(x.buf) >= RPC_HEADER_SZ
    PROVE  LET r == UnpackHeader(x, n)
           IN  /\ r.h = h /\ r.u \in Unmarshall /\ r.u.buf = x.buf /\ r.u.ind = RPC_HEADER_SZ
               /\ r.u.ok /\ r.u.fault = x.fault
  <1> DEFINE r == UnpackHeader(x, n)
             F(i) == [j \in 1..SizeofInt |->
                       LET k == i * SizeofInt + j IN IF k <= Sz(x) THEN x.buf[k] ELSE 0]
             b == x.ok /\ Sz(x) >= (n + 1) * SizeofInt
  <1>1. x.buf \in Seq(Cell) /\ Len(x.buf) \in Nat /\ Len(x.buf) >= 24 /\ Sz(x) = Len(x.buf)
    BY LenProperties DEF Unmarshall, RPC_HEADER_SZ, SizeofInt, Sz
  <1>2. ASSUME NEW i \in 1..n PROVE Number(F(i)) = h[i]
    <2> DEFINE c == x.buf
               s == Sz(x)
               p == F(i)
    <2>1. /\ c \in Seq(Cell) /\ Len(c) \in Nat /\ Len(c) >= 24 /\ s = Len(c)
          /\ Fields(c, h) /\ i \in 1..Len(h)
      BY <1>1
    <2>2. p = [j \in 1..SizeofInt |->
                 IF i * SizeofInt + j <= s THEN c[i * SizeofInt + j] ELSE 0]
      OBVIOUS
    <2> HIDE DEF c, s, p, F
    <2>3. ASSUME NEW j \in 1..SizeofInt
          PROVE  p[j] = c[i * SizeofInt + j] /\ p[j] \in Cell
      <3>1. i * SizeofInt + j \in 1..Len(c) /\ i * SizeofInt + j <= s
        BY <2>1 DEF SizeofInt
      <3>2. p[j] = c[i * SizeofInt + j]
        BY <2>2, <3>1
      <3>3. c[i * SizeofInt + j] \in Cell
        BY <2>1, <3>1, ElementOfSeq
      <3> QED  BY <3>2, <3>3
    <2>4. p \in [1..SizeofInt -> Cell]
      BY <2>2, <2>3
    <2>5. Number(p) = h[i]
      <3>1. \A j \in 1..SizeofInt : p[j] = c[i * SizeofInt + j]
        BY <2>3
      <3> QED  BY <2>1, <2>4, <3>1, FieldRead, ZenonT(30)
    <2> QED  BY <2>5 DEF p
  <1>3. r.h = [i \in 1..n |-> Number(F(i))] /\ r.u = [x EXCEPT !.ind = RPC_HEADER_SZ, !.ok = b]
    BY DEF UnpackHeader
  <1>4. b = TRUE
    BY <1>1 DEF SizeofInt
  <1> HIDE DEF F, b, r
  <1>5. r.h = [i \in 1..n |-> h[i]]
    BY <1>2, <1>3
  <1>6. h = [i \in 1..n |-> h[i]]
    BY LenProperties
  <1>7. /\ r.u \in Unmarshall /\ r.u.buf = x.buf /\ r.u.ind = RPC_HEADER_SZ
        /\ r.u.ok /\ r.u.fault = x.fault
    <2> DEFINE y == r.u
    <2>1. y = [x EXCEPT !.ind = RPC_HEADER_SZ, !.ok = TRUE]
      BY <1>3, <1>4
    <2> HIDE DEF y
    <2>2. /\ y \in Unmarshall /\ y.buf = x.buf /\ y.ind = RPC_HEADER_SZ
          /\ y.ok /\ y.fault = x.fault
      BY <2>1, Rewound
    <2> QED  BY <2>2 DEF y
  <1> QED  BY <1>5, <1>6, <1>7 DEF r

\* take_in leaves such an object as it is.
LEMMA TakeInIs ==
    ASSUME NEW x \in Unmarshall, Len(x.buf) >= RPC_HEADER_SZ
    PROVE  /\ TakeIn(x) \in Unmarshall /\ TakeIn(x).buf = x.buf /\ TakeIn(x).ind = RPC_HEADER_SZ
           /\ TakeIn(x).ok /\ TakeIn(x).fault = x.fault
  <1>1. (Sz(x) >= RPC_HEADER_SZ) = TRUE
    BY DEF Sz
  <1> DEFINE b == Sz(x) >= RPC_HEADER_SZ
             y == TakeIn(x)
  <1>2. y = [x EXCEPT !.ind = RPC_HEADER_SZ, !.ok = b]
    BY DEF TakeIn
  <1>3. b = TRUE
    BY <1>1
  <1> HIDE DEF b, y
  <1>4. y = [x EXCEPT !.ind = RPC_HEADER_SZ, !.ok = TRUE]
    BY <1>2, <1>3
  <1>5. /\ y \in Unmarshall /\ y.buf = x.buf /\ y.ind = RPC_HEADER_SZ
        /\ y.ok /\ y.fault = x.fault
    BY <1>4, Rewound
  <1> QED  BY <1>5 DEF y

\* Behind the header nothing was read yet.
LEMMA ReadingStarts ==
    ASSUME NEW xs \in Seq(Item), NEW x \in Unmarshall, Unread(x.buf, xs),
           x.ind = RPC_HEADER_SZ, x.ok, ~x.fault
    PROVE  Reading(x, xs, <<>>)
  <1> DEFINE e == Encoding(xs)
             z == Encoding(<<>>)
  <1>1. e \in Seq(Byte) /\ z = <<>> /\ Len(<<>>) = 0
    BY EncodingType, EncodingEmpty
  <1>2. /\ x.buf \in Seq(Cell) /\ Len(x.buf) = 24 + Len(e) /\ RPC_HEADER_SZ = 24
        /\ \A j \in 1..Len(e) : x.buf[24 + j] = e[j]
    BY DEF Unread, Carries, Unmarshall, RPC_HEADER_SZ, SizeofInt
  <1> HIDE DEF e, z
  <1>3. Len(e) \in Nat /\ \A j \in 1..Len(e) : e[j] \in Byte
    BY <1>1, ElementOfSeq, LenProperties
  <1>4. ASSUME NEW i \in 24 + 1..Len(x.buf) PROVE x.buf[i] \in Byte
    <2>1. i - 24 \in 1..Len(e) /\ 24 + (i - 24) = i
      BY <1>2, <1>3
    <2> QED  BY <2>1, <1>2, <1>3
  <1>5. Readable(x)
    BY <1>2, <1>3, <1>4 DEF Readable, Unmarshall
  <1>6. Len(z) = 0 /\ Carries(x.buf, <<>>)
    BY <1>1 DEF Carries, z
  <1>7. x.ind = RPC_HEADER_SZ + Len(Encoding(<<>>))
    BY <1>2, <1>6 DEF z
  <1> QED  BY <1>1, <1>5, <1>6, <1>7 DEF Reading, Unread

-----------------------------------------------------------------------------
(***************************************************************************)
(* What is written, and what is sent.                                      *)
(***************************************************************************)
LEMMA NewWritten == Written(NewMarshall, <<>>)
  <1> DEFINE n == DEFAULT_RPC_SZ
             b == [i \in 1..n |-> Junk]
             e == Encoding(<<>>)
  <1>1. n \in Nat /\ n >= 24 /\ Junk \in Cell
    BY MarshallAssumption DEF RPC_HEADER_SZ, SizeofInt, Cell
  <1>2. NewMarshall = [buf |-> b, ind |-> 24]
    BY DEF NewMarshall, RPC_HEADER_SZ, SizeofInt
  <1>3. e = <<>>
    BY EncodingEmpty
  <1> HIDE DEF n, e
  <1>4. b \in Seq(Cell) /\ Len(b) = n
    BY <1>1
  <1> HIDE DEF b
  <1>5. Sound(NewMarshall) /\ NewMarshall.ind = 24
    BY <1>1, <1>2, <1>4 DEF Sound
  <1>6. Len(e) = 0
    BY <1>3
  <1> QED  BY <1>5, <1>6 DEF Written, Carries, e, RPC_HEADER_SZ, SizeofInt

\* operator<< of an argument extends what is written.
LEMMA ShiftInWrites ==
    ASSUME NEW x, NEW xs \in Seq(Item), Written(x, xs), NEW t \in Type, NEW w \in ValuesOf(t)
    PROVE  /\ Append(xs, [type |-> t, v |-> w]) \in Seq(Item)
           /\ Written(ShiftIn(x, t, w), Append(xs, [type |-> t, v |-> w]))
  <1> DEFINE it == [type |-> t, v |-> w]
             y == ShiftIn(x, t, w)
             a == Encoding(xs)
             c == Code(it)
             zs == Append(xs, it)
  <1>1. it \in Item
    BY IsItem
  <1>2. Sound(x) /\ x.ind = 24 + Len(a) /\ \A j \in 1..Len(a) : x.buf[24 + j] = a[j]
    BY DEF Written, Carries, RPC_HEADER_SZ, SizeofInt
  <1>3. Added(x, c, y)
    BY <1>2, ShiftInAdds
  <1> HIDE DEF it, y
  <1>4. zs \in Seq(Item)
    BY <1>1, Extended
  <1>5. a \in Seq(Byte) /\ c \in Seq(Byte) /\ Encoding(zs) = a \o c
    BY <1>1, EncodingAppend
  <1>6. Len(a) \in Nat /\ Len(c) \in Nat /\ x.ind \in Nat /\ x.ind <= Len(x.buf) /\ Len(x.buf) \in Nat
    BY <1>2, <1>5, LenProperties DEF Sound
  <1> HIDE DEF zs, c, a
  <1>7. \A j \in 1..Len(a) : y.buf[24 + j] = a[j]
    <2>1. ASSUME NEW j \in 1..Len(a) PROVE y.buf[24 + j] = a[j]
      <3>1. 24 + j \in 1..Len(x.buf) /\ 24 + j <= x.ind
        BY <1>2, <1>6
      <3>2. y.buf[24 + j] = x.buf[24 + j]
        BY <1>3, <3>1 DEF Added
      <3> QED  BY <1>2, <3>2
    <2> QED  BY <2>1
  <1>8. \A j \in 1..Len(c) : y.buf[24 + Len(a) + j] = c[j]
    BY <1>2, <1>3, Zenon DEF Added
  <1>9. /\ Len(a \o c) = Len(a) + Len(c)
        /\ \A j \in 1..Len(a \o c) : y.buf[24 + j] = (a \o c)[j]
    <2>1. RPC_HEADER_SZ = 24
      BY DEF RPC_HEADER_SZ, SizeofInt
    <2> QED  BY <1>5, <1>7, <1>8, <2>1, CarriesMore
  <1>10. Sound(y) /\ y.ind = 24 + (Len(a) + Len(c))
    BY <1>2, <1>3, <1>6 DEF Added
  <1>11. Written(y, zs)
    BY <1>5, <1>9, <1>10 DEF Written, Carries, RPC_HEADER_SZ, SizeofInt
  <1> QED  BY <1>4, <1>11 DEF zs, it, y

\* Packing the header leaves what is written, ready to be sent.
LEMMA PackWrites ==
    ASSUME NEW x, NEW xs \in Seq(Item), Written(x, xs), NEW h \in Seq(Uint), Len(h) <= 5,
           NEW y, y = PackHeader(x, h)
    PROVE  /\ Written(y, xs) /\ Pdu(y) \in Seq(Cell)
           /\ Unread(Pdu(y), xs) /\ Fields(Pdu(y), h)
  <1> DEFINE e == Encoding(xs)
             b == Pdu(y)
  <1>1. Sound(x) /\ x.ind = 24 + Len(e) /\ \A j \in 1..Len(e) : x.buf[24 + j] = e[j]
    BY DEF Written, Carries, RPC_HEADER_SZ, SizeofInt
  <1>2. e \in Seq(Byte) /\ Len(e) \in Nat
    BY EncodingType
  <1> HIDE DEF e
  <1>3. RPC_HEADER_SZ = 24 /\ SizeofInt = 4 /\ x.ind >= RPC_HEADER_SZ
    BY <1>1, <1>2 DEF RPC_HEADER_SZ, SizeofInt
  <1>4. Packed(x, h, y)
    BY <1>1, <1>3, PackHeaderPacks
  <1>5. /\ Sound(y) /\ y.ind = x.ind
        /\ \A i \in 25..x.ind : y.buf[i] = x.buf[i]
        /\ \A i \in 1..Len(h), j \in 1..4 : y.buf[i * 4 + j] = BigEndian(h[i], 4)[j]
    BY <1>3, <1>4 DEF Packed
  <1>6. \A j \in 1..Len(e) : y.buf[24 + j] = e[j]
    <2>1. ASSUME NEW j \in 1..Len(e) PROVE y.buf[24 + j] = e[j]
      <3>1. 24 + j \in 25..x.ind
        BY <1>1, <1>2
      <3> QED  BY <1>1, <1>5, <3>1
    <2> QED  BY <2>1
  <1>7. Written(y, xs)
    BY <1>1, <1>3, <1>5, <1>6 DEF Written, Carries, e
  <1>8. /\ b \in Seq(Cell) /\ Len(b) = y.ind
        /\ \A i \in 5..y.ind : b[i] = y.buf[i]
    BY <1>3, <1>5, PduIs
  <1> HIDE DEF b
  <1>9. ASSUME NEW j \in 1..Len(e) PROVE b[24 + j] = e[j]
    <2>1. 24 + j \in 5..y.ind
      BY <1>1, <1>2, <1>5
    <2> QED  BY <1>6, <1>8, <2>1
  <1>10. ASSUME NEW i \in 1..Len(h), NEW j \in 1..4 PROVE b[i * 4 + j] = BigEndian(h[i], 4)[j]
    <2>1. i * 4 + j \in 5..y.ind
      BY <1>1, <1>2, <1>5, LenProperties
    <2> QED  BY <1>5, <1>8, <2>1
  <1>11. Unread(b, xs)
    BY <1>1, <1>3, <1>5, <1>8, <1>9 DEF Unread, Carries, e
  <1>12. Fields(b, h)
    BY <1>3, <1>10 DEF Fields
  <1> QED  BY <1>7, <1>8, <1>11, <1>12 DEF b

-----------------------------------------------------------------------------
(***************************************************************************)
(* The invariant holds initially, and each action keeps it.                *)
(***************************************************************************)
LEMMA InitHolds == Init => MarshallInv
  <1> SUFFICES ASSUME Init PROVE MarshallInv
    OBVIOUS
  <1>1. <<>> \in Seq(Item) /\ <<>> \in Seq(Uint) /\ <<>> \in Seq(Cell) /\ Len(<<>>) = 0
    OBVIOUS
  <1>2. /\ pc = "call" /\ m = NewMarshall /\ sent = <<>> /\ got = <<>> /\ hdr = <<>>
        /\ seen = <<>> /\ u = [buf |-> <<>>, ind |-> 0, ok |-> TRUE, fault |-> FALSE]
    BY DEF Init, NewUnmarshall
  <1>3. u \in Unmarshall /\ ~u.fault
    BY <1>1, <1>2 DEF Unmarshall
  <1>4. TypeInv
    BY <1>1, <1>2, <1>3, MarshallAssumption DEF TypeInv, Locations
  <1>5. WriteInv
    BY <1>2, NewWritten DEF WriteInv
  <1> QED
    BY <1>2, <1>3, <1>4, <1>5 DEF MarshallInv, CallInv, PduInv, CountInv, ReadInv

\* An argument is marshalled.
LEMMA ShiftHolds ==
    ASSUME MarshallInv, NEW t \in Type, NEW w \in Values[t], Shift(t, w)
    PROVE  MarshallInv'
  <1>1. w \in ValuesOf(t)
    BY MarshallAssumption
  <1>2. /\ pc = "call" /\ pc' = pc /\ u' = u /\ got' = got /\ hdr' = hdr /\ seen' = seen
        /\ Len(sent) < MaxArgs /\ m' = ShiftIn(m, t, w)
        /\ sent' = Append(sent, [type |-> t, v |-> w])
    BY DEF Shift
  <1>3. TypeInv /\ WriteInv /\ got = <<>> /\ ~u.fault
    BY <1>2 DEF MarshallInv, CallInv
  <1>4. sent \in Seq(Item) /\ Written(m, sent)
    BY <1>3 DEF TypeInv, WriteInv
  <1>5. sent' \in Seq(Item) /\ Written(m', sent')
    BY <1>1, <1>2, <1>4, ShiftInWrites
  <1>6. Len(sent') <= MaxArgs
    <2>1. Len(sent') = Len(sent) + 1 /\ Len(sent) \in Nat
      <3>1. [type |-> t, v |-> w] \in Item
        BY <1>1, IsItem
      <3> QED  BY <1>2, <1>4, <3>1, Extended
    <2> QED  BY <1>2, <2>1, MarshallAssumption
  <1>7. TypeInv'
    BY <1>2, <1>3, <1>5, <1>6 DEF TypeInv
  <1>8. WriteInv'
    BY <1>5 DEF WriteInv
  <1> QED
    BY <1>2, <1>3, <1>7, <1>8 DEF MarshallInv, CallInv, PduInv, CountInv, ReadInv

\* The request is packed and sent.
LEMMA SendRequestHolds ==
    ASSUME MarshallInv, NEW h \in ReqHeader, SendRequest(h)
    PROVE  MarshallInv'
  <1>1. h \in Seq(Uint) /\ Len(h) = 5
    BY MarshallAssumption
  <1>2. /\ pc = "call" /\ pc' = "dispatch" /\ m' = PackHeader(m, h) /\ hdr' = h
        /\ u' = [buf |-> Pdu(m'), ind |-> 0, ok |-> TRUE, fault |-> FALSE]
        /\ sent' = sent /\ got' = got /\ seen' = seen
    BY DEF SendRequest, NewUnmarshall
  <1>3. TypeInv /\ Written(m, sent) /\ got = <<>>
    BY <1>2 DEF MarshallInv, WriteInv, CallInv
  <1>4. /\ Written(m', sent) /\ Pdu(m') \in Seq(Cell)
        /\ Unread(Pdu(m'), sent) /\ Fields(Pdu(m'), h)
    <2>1. sent \in Seq(Item) /\ Len(h) <= 5
      BY <1>1, <1>3 DEF TypeInv
    <2> QED  BY <1>1, <1>2, <1>3, <2>1, PackWrites, ZenonT(30)
  <1>5. u' \in Unmarshall /\ u'.buf = Pdu(m') /\ u'.ok /\ ~u'.fault
    BY <1>2, <1>4 DEF Unmarshall
  <1>6. TypeInv'
    BY <1>1, <1>2, <1>3, <1>5 DEF TypeInv, Locations
  <1>7. WriteInv'
    BY <1>2, <1>4 DEF WriteInv
  <1>8. PduInv'
    BY <1>2, <1>3, <1>4, <1>5 DEF PduInv
  <1> QED
    BY <1>1, <1>2, <1>6, <1>7, <1>8 DEF MarshallInv, CallInv, CountInv, ReadInv

\* The server unpacks the header.
LEMMA DispatchHolds ==
    ASSUME MarshallInv, Dispatch
    PROVE  MarshallInv'
  <1> DEFINE r == UnpackHeader(u, 5)
  <1>1. /\ pc = "dispatch" /\ u' = r.u /\ seen' = r.h
        /\ pc' = IF r.u.ok THEN "handler" ELSE "refused"
        /\ m' = m /\ sent' = sent /\ got' = got /\ hdr' = hdr
    BY DEF Dispatch
  <1>2. /\ TypeInv /\ WriteInv /\ got = <<>> /\ u.ok /\ ~u.fault
        /\ Unread(u.buf, sent) /\ Fields(u.buf, hdr) /\ Len(hdr) = 5
    BY <1>1 DEF MarshallInv, PduInv, CountInv
  <1>3. u \in Unmarshall /\ sent \in Seq(Item) /\ hdr \in Seq(Uint)
    BY <1>2 DEF TypeInv
  <1>4. Len(u.buf) >= RPC_HEADER_SZ
    BY <1>2, <1>3, EncodingType DEF Unread, RPC_HEADER_SZ, SizeofInt
  <1>5. /\ r.h = hdr /\ r.u \in Unmarshall /\ r.u.buf = u.buf /\ r.u.ind = RPC_HEADER_SZ
        /\ r.u.ok /\ r.u.fault = u.fault
    BY <1>2, <1>3, <1>4, UnpackHeaderIs
  <1> HIDE DEF r
  <1>6. Reading(u', sent, <<>>) /\ u' \in Unmarshall /\ pc' = "handler" /\ seen' = hdr /\ ~u'.fault
    <2>1. r.u \in Unmarshall /\ Unread(r.u.buf, sent) /\ r.u.ind = RPC_HEADER_SZ
      BY <1>2, <1>5
    <2>2. Reading(r.u, sent, <<>>)
      BY <1>2, <1>3, <1>5, <2>1, ReadingStarts
    <2> QED  BY <1>1, <1>2, <1>5, <2>2
  <1>7. TypeInv'
    BY <1>1, <1>2, <1>3, <1>6 DEF TypeInv, Locations
  <1>8. ReadInv'
    BY <1>1, <1>2, <1>6 DEF ReadInv
  <1> QED
    BY <1>1, <1>2, <1>6, <1>7, <1>8 DEF MarshallInv, CallInv, PduInv, CountInv, WriteInv

\* The handler unmarshalls an argument, of its own type.
LEMMA UnshiftHolds ==
    ASSUME MarshallInv, NEW t \in Type, Unshift(t)
    PROVE  MarshallInv'
  <1> DEFINE r == ShiftOut(u, t)
             y == r.u
             w == r.v
             it == [type |-> t, v |-> w]
  <1>1. /\ pc = "handler" /\ Len(got) < MaxArgs /\ u' = y /\ got' = Append(got, it)
        /\ pc' = IF y.fault THEN "fault" ELSE pc
        /\ m' = m /\ sent' = sent /\ hdr' = hdr /\ seen' = seen
    BY DEF Unshift
  <1>2. /\ TypeInv /\ WriteInv /\ Len(hdr) = 5 /\ Reading(u, sent, got) /\ ~u.fault /\ seen = hdr
    BY <1>1 DEF MarshallInv, CountInv, ReadInv
  <1>3. sent \in Seq(Item) /\ got \in Seq(Item)
    BY <1>2 DEF TypeInv
  <1>4. it \in Item /\ Reading(y, sent, Append(got, it))
    <2> DEFINE yy == ShiftOut(u, t).u
               ww == ShiftOut(u, t).v
    <2>1. yy = ShiftOut(u, t).u /\ ww = ShiftOut(u, t).v /\ y = yy /\ w = ww
      OBVIOUS
    <2> HIDE DEF yy, ww, r, y, w
    <2>2. [type |-> t, v |-> ww] \in Item /\ Reading(yy, sent, Append(got, [type |-> t, v |-> ww]))
      BY <1>2, <1>3, <2>1, ReadingStep, ZenonT(30)
    <2> QED  BY <2>1, <2>2
  <1> HIDE DEF y, it
  <1>5. got' \in Seq(Item) /\ Len(got') <= MaxArgs
    <2>1. got' \in Seq(Item) /\ Len(got') = Len(got) + 1 /\ Len(got) \in Nat
      BY <1>1, <1>3, <1>4, Extended
    <2> QED  BY <1>1, <2>1, MarshallAssumption
  <1>6. u' \in Unmarshall /\ u'.fault \in BOOLEAN
    BY <1>1, <1>4 DEF Reading, Readable, Unmarshall
  <1>7. TypeInv'
    BY <1>1, <1>2, <1>5, <1>6 DEF TypeInv, Locations
  <1>8. Reading(u', sent', got')
    BY <1>1, <1>4
  <1>9. ReadInv'
    BY <1>1, <1>2, <1>6, <1>8 DEF ReadInv
  <1>10. WriteInv'
    BY <1>1, <1>2 DEF WriteInv
  <1> QED
    BY <1>1, <1>2, <1>7, <1>9, <1>10 DEF MarshallInv, CallInv, PduInv, CountInv

\* The handler runs, or the arguments are refused.
LEMMA RunHolds ==
    ASSUME MarshallInv, Run
    PROVE  MarshallInv'
  <1>1. /\ pc = "handler" /\ got # <<>> /\ pc' = IF OkDone(u) THEN "ran" ELSE "refused"
        /\ m' = m /\ u' = u /\ sent' = sent /\ got' = got /\ hdr' = hdr /\ seen' = seen
    BY DEF Run
  <1>2. /\ TypeInv /\ WriteInv /\ Len(hdr) = 5 /\ Reading(u, sent, got) /\ ~u.fault /\ seen = hdr
    BY <1>1 DEF MarshallInv, CountInv, ReadInv
  <1>3. TypeInv'
    BY <1>1, <1>2 DEF TypeInv, Locations
  <1>4. WriteInv'
    BY <1>1, <1>2 DEF WriteInv
  <1>5. Reading(u', sent', got') /\ OkDone(u') = OkDone(u)
    BY <1>1, <1>2
  <1>6. ReadInv'
    BY <1>1, <1>2, <1>5 DEF ReadInv
  <1> QED
    BY <1>1, <1>2, <1>3, <1>4, <1>6 DEF MarshallInv, CallInv, PduInv, CountInv

\* What dispatch sends back: the values xs in x, which may be none, behind a
\* header.
Reply(x, xs, ret) ==
    /\ hdr' = <<seen[1], ret>> /\ m' = PackHeader(x, hdr') /\ u' = NewUnmarshall(Pdu(m'))
    /\ sent' = xs /\ got' = <<>> /\ seen' = <<>> /\ pc' = "reply"

Answer(xs, ret) == IF Negative(ret) THEN xs = <<>> ELSE Len(xs) = 1

LEMMA ReplyHolds ==
    ASSUME MarshallInv, pc \in {"handler", "ran"},
           NEW x, NEW xs \in Seq(Item), Written(x, xs), Len(xs) <= MaxArgs,
           NEW ret \in Uint, Answer(xs, ret), Reply(x, xs, ret)
    PROVE  MarshallInv'
  <1> DEFINE h == <<seen[1], ret>>
  <1>1. TypeInv /\ Len(hdr) = 5 /\ seen = hdr
    BY DEF MarshallInv, CountInv, ReadInv
  <1>2. h \in Seq(Uint) /\ Len(h) = 2 /\ h[2] = ret
    <2>1. seen[1] \in Uint
      <3>1. hdr \in Seq(Uint) /\ Len(hdr) = 5 /\ seen = hdr
        BY <1>1 DEF TypeInv
      <3>2. 1 \in 1..Len(hdr)
        BY <3>1
      <3>3. hdr[1] \in Uint
        BY <3>1, <3>2, ElementOfSeq
      <3> QED  BY <3>1, <3>3
    <2> QED  BY <2>1
  <1>3. /\ u' = [buf |-> Pdu(m'), ind |-> 0, ok |-> TRUE, fault |-> FALSE] /\ hdr' = h
        /\ m' = PackHeader(x, h)
        /\ sent' = xs /\ got' = <<>> /\ seen' = <<>> /\ pc' = "reply"
    BY DEF Reply, NewUnmarshall
  <1> HIDE DEF h
  <1>4. /\ Written(m', xs) /\ Pdu(m') \in Seq(Cell)
        /\ Unread(Pdu(m'), xs) /\ Fields(Pdu(m'), h)
    <2>1. h \in Seq(Uint) /\ Len(h) <= 5 /\ m' = PackHeader(x, h)
      BY <1>2, <1>3
    <2>2. xs \in Seq(Item) /\ Written(x, xs)
      OBVIOUS
    <2> QED  BY <2>1, <2>2, PackWrites, ZenonT(30)
  <1>5. u' \in Unmarshall /\ u'.buf = Pdu(m') /\ u'.ok /\ ~u'.fault
    BY <1>3, <1>4 DEF Unmarshall
  <1>6. TypeInv'
    <2>1. <<>> \in Seq(Item) /\ <<>> \in Seq(Uint) /\ Len(<<>>) = 0 /\ 0 <= MaxArgs
      BY MarshallAssumption
    <2> QED  BY <1>2, <1>3, <1>5, <2>1 DEF TypeInv, Locations
  <1>7. WriteInv'
    BY <1>3, <1>4 DEF WriteInv
  <1>8. PduInv'
    BY <1>3, <1>4, <1>5 DEF PduInv
  <1>9. CountInv'
    BY <1>2, <1>3 DEF CountInv, Answer
  <1> QED
    BY <1>3, <1>6, <1>7, <1>8, <1>9 DEF MarshallInv, CallInv, ReadInv

\* The result is marshalled and sent, or the server aborts.
LEMMA SendReplyHolds ==
    ASSUME MarshallInv, NEW t \in Type, NEW ret \in Ret, NEW w \in Values[t], SendReply(t, w, ret)
    PROVE  MarshallInv'
  <1>1. CASE Negative(ret)
    <2>1. /\ pc = "ran" /\ pc' = "aborted"
          /\ m' = m /\ u' = u /\ sent' = sent /\ got' = got /\ hdr' = hdr /\ seen' = seen
      BY <1>1 DEF SendReply
    <2> QED
      BY <2>1 DEF MarshallInv, TypeInv, Locations, WriteInv, CallInv, PduInv, CountInv, ReadInv
  <1>2. CASE ~Negative(ret)
    <2> DEFINE it == [type |-> t, v |-> w]
               x == ShiftIn(NewMarshall, t, w)
               xs == <<it>>
    <2>1. pc = "ran" /\ Reply(x, xs, ret)
      BY <1>2 DEF SendReply, Reply
    <2>2. w \in ValuesOf(t) /\ ret \in Uint
      BY MarshallAssumption
    <2>3. it \in Item
      BY <2>2, IsItem
    <2>4. Written(x, xs) /\ xs \in Seq(Item) /\ Len(xs) = 1
      <3>1. <<>> \in Seq(Item) /\ Append(<<>>, it) = xs
        OBVIOUS
      <3>2. Written(x, Append(<<>>, it))
        BY <2>2, <3>1, NewWritten, ShiftInWrites
      <3> HIDE DEF it, x
      <3> QED  BY <2>3, <3>1, <3>2
    <2>5. 1 <= MaxArgs
      <3>1. got # <<>> /\ got \in Seq(Item) /\ Len(got) <= MaxArgs
        BY <2>1 DEF MarshallInv, CountInv, TypeInv
      <3>2. Len(got) \in Nat /\ Len(got) # 0
        BY <3>1, LenProperties, EmptySeq
      <3> QED  BY <3>1, <3>2, MarshallAssumption
    <2> HIDE DEF it, x, xs
    <2> QED
      BY <1>2, <2>1, <2>2, <2>4, <2>5, ReplyHolds DEF Answer
  <1> QED
    BY <1>1, <1>2

\* The failures are negative ints.
LEMMA FailureFacts ==
    ASSUME NEW ret \in {atmostonce_failure, oldsrv_failure}
    PROVE  ret \in Uint /\ Negative(ret)
  <1>1. UintMod \in Nat /\ UintMod >= 16
    <2>1. Base \in Nat /\ Base >= 2
      BY MarshallAssumption
    <2>2. /\ Power[0] = 1 /\ \A k \in Nat : Power[k + 1] = Base * Power[k]
      BY PowerDef
    <2>3. Power[1] = Base
      BY <2>1, <2>2
    <2>4. Power[2] = Base * Base /\ Base * Base \in Nat /\ Base * Base >= 4
      <3>1. Power[1 + 1] = Base * Power[1]
        BY <2>2
      <3>2. Base * Base \in Nat /\ Base * Base >= 4
        BY <2>1
      <3> QED  BY <2>3, <3>1, <3>2
    <2>5. Power[3] = Base * Power[2] /\ Power[3] \in Nat /\ Power[3] >= 8
      <3>1. Power[2 + 1] = Base * Power[2]
        BY <2>2
      <3> DEFINE q == Power[2]
      <3>2. q \in Nat /\ q >= 4
        BY <2>4
      <3> HIDE DEF q
      <3>3. Base * q \in Nat /\ Base * q >= 8
        BY <2>1, <3>2
      <3> QED  BY <3>1, <3>3 DEF q
    <2>6. Power[4] \in Nat /\ Power[4] >= 16
      <3>1. Power[3 + 1] = Base * Power[3]
        BY <2>2
      <3> DEFINE q == Power[3]
      <3>2. q \in Nat /\ q >= 8
        BY <2>5
      <3> HIDE DEF q
      <3>3. Base * q \in Nat /\ Base * q >= 16
        BY <2>1, <3>2
      <3> QED  BY <3>1, <3>3 DEF q
    <2> QED  BY <2>6 DEF UintMod, SizeofInt
  <1> QED  BY <1>1 DEF atmostonce_failure, oldsrv_failure, Uint, Negative

\* The request is turned down.
LEMMA SendFailureHolds ==
    ASSUME MarshallInv, NEW ret \in {atmostonce_failure, oldsrv_failure}, SendFailure(ret)
    PROVE  MarshallInv'
  <1>1. pc = "handler" /\ Reply(NewMarshall, <<>>, ret)
    BY DEF SendFailure, Reply
  <1>2. <<>> \in Seq(Item) /\ Len(<<>>) <= MaxArgs /\ Written(NewMarshall, <<>>)
    BY NewWritten, MarshallAssumption
  <1>3. ret \in Uint /\ Negative(ret)
    BY FailureFacts
  <1> QED
    BY <1>1, <1>2, <1>3, ReplyHolds DEF Answer

\* The client unpacks the header of the reply.
LEMMA GotReplyHolds ==
    ASSUME MarshallInv, GotReply
    PROVE  MarshallInv'
  <1> DEFINE r == UnpackHeader(u, 2)
             x == r.u
  <1>1. /\ pc = "reply" /\ u' = TakeIn(x) /\ seen' = r.h
        /\ pc' = IF x.ok THEN "result" ELSE "refused"
        /\ m' = m /\ sent' = sent /\ got' = got /\ hdr' = hdr
    BY DEF GotReply
  <1>2. /\ TypeInv /\ WriteInv /\ got = <<>> /\ u.ok /\ ~u.fault
        /\ Unread(u.buf, sent) /\ Fields(u.buf, hdr) /\ Len(hdr) = 2
        /\ IF Negative(hdr[2]) THEN sent = <<>> ELSE Len(sent) = 1
    BY <1>1 DEF MarshallInv, PduInv, CountInv
  <1>3. u \in Unmarshall /\ sent \in Seq(Item) /\ hdr \in Seq(Uint)
    BY <1>2 DEF TypeInv
  <1>4. Len(u.buf) >= RPC_HEADER_SZ
    BY <1>2, <1>3, EncodingType DEF Unread, RPC_HEADER_SZ, SizeofInt
  <1>5. /\ r.h = hdr /\ x \in Unmarshall /\ x.buf = u.buf /\ x.ind = RPC_HEADER_SZ
        /\ x.ok /\ x.fault = u.fault
    BY <1>2, <1>3, <1>4, UnpackHeaderIs
  <1> HIDE DEF r, x
  <1>6. /\ u' \in Unmarshall /\ u'.buf = u.buf /\ u'.ind = RPC_HEADER_SZ
        /\ u'.ok /\ u'.fault = u.fault
    <2>1. /\ TakeIn(x) \in Unmarshall /\ TakeIn(x).buf = x.buf /\ TakeIn(x).ind = RPC_HEADER_SZ
          /\ TakeIn(x).ok /\ TakeIn(x).fault = x.fault
      BY <1>4, <1>5, TakeInIs
    <2> QED  BY <1>1, <1>5, <2>1
  <1>7. Reading(u', sent, <<>>)
    <2>1. Unread(u'.buf, sent) /\ ~u'.fault
      BY <1>2, <1>6
    <2> QED  BY <1>3, <1>6, <2>1, ReadingStarts, Zenon
  <1>8. pc' = "result" /\ seen' = hdr
    BY <1>1, <1>5
  <1>9. TypeInv'
    BY <1>1, <1>2, <1>3, <1>6, <1>8 DEF TypeInv, Locations
  <1>10. ReadInv'
    BY <1>1, <1>2, <1>6, <1>7, <1>8 DEF ReadInv
  <1> QED
    BY <1>1, <1>2, <1>8, <1>9, <1>10 DEF MarshallInv, CallInv, PduInv, CountInv, WriteInv

\* The client unmarshalls the result.
LEMMA ResultHolds ==
    ASSUME MarshallInv, NEW t \in Type, CallM(t), ~Negative(seen[2])
    PROVE  MarshallInv'
  <1> DEFINE r == ShiftOut(u, t)
             y == r.u
             w == r.v
             it == [type |-> t, v |-> w]
  <1>1. /\ pc = "result" /\ u' = y /\ got' = <<it>>
        /\ pc' = IF y.fault THEN "fault" ELSE IF OkDone(y) THEN "returned" ELSE "refused"
        /\ m' = m /\ sent' = sent /\ hdr' = hdr /\ seen' = seen
    BY DEF CallM
  <1>2. /\ TypeInv /\ WriteInv /\ Reading(u, sent, got) /\ ~u.fault /\ seen = hdr
        /\ Len(sent) = 1 /\ got = <<>> /\ ~Negative(hdr[2])
    BY <1>1 DEF MarshallInv, CountInv, ReadInv
  <1>3. sent \in Seq(Item) /\ got \in Seq(Item)
    BY <1>2 DEF TypeInv
  <1>4. it \in Item /\ Reading(y, sent, Append(got, it))
    <2> DEFINE yy == ShiftOut(u, t).u
               ww == ShiftOut(u, t).v
    <2>1. yy = ShiftOut(u, t).u /\ ww = ShiftOut(u, t).v /\ y = yy /\ w = ww
      OBVIOUS
    <2> HIDE DEF yy, ww, r, y, w
    <2>2. [type |-> t, v |-> ww] \in Item /\ Reading(yy, sent, Append(got, [type |-> t, v |-> ww]))
      BY <1>2, <1>3, <2>1, ReadingStep, ZenonT(30)
    <2> QED  BY <2>1, <2>2
  <1> HIDE DEF y, it
  <1>5. got' = Append(got, it) /\ got' \in Seq(Item) /\ Len(got') = 1
    BY <1>1, <1>2, <1>4
  <1>6. u' \in Unmarshall /\ u'.fault \in BOOLEAN
    BY <1>1, <1>4 DEF Reading, Readable, Unmarshall
  <1>7. Len(got') <= MaxArgs
    BY <1>2, <1>5 DEF TypeInv
  <1>8. TypeInv'
    BY <1>1, <1>2, <1>5, <1>6, <1>7 DEF TypeInv, Locations
  <1>9. Reading(u', sent', got') /\ OkDone(u') = OkDone(y) /\ u'.fault = y.fault
    BY <1>1, <1>4, <1>5
  <1>10. pc' \in {"fault", "returned", "refused"}
    BY <1>1
  <1>11. OkDone(u') \in BOOLEAN
    BY DEF OkDone
  <1>12. /\ (u'.fault <=> pc' = "fault") /\ (pc' = "returned" => OkDone(u'))
         /\ (pc' = "refused" => ~OkDone(u'))
    BY <1>1, <1>6, <1>9, <1>11
  <1>13. ReadInv'
    BY <1>1, <1>2, <1>9, <1>10, <1>12 DEF ReadInv
  <1>14. WriteInv'
    BY <1>1, <1>2 DEF WriteInv
  <1> QED
    BY <1>1, <1>2, <1>8, <1>10, <1>13, <1>14 DEF MarshallInv, CallInv, PduInv, CountInv

\* A failure is returned as it is.
LEMMA FailureHolds ==
    ASSUME MarshallInv, NEW t \in Type, CallM(t), Negative(seen[2])
    PROVE  MarshallInv'
  <1>1. /\ pc = "result" /\ pc' = "returned" /\ u' = u /\ got' = got
        /\ m' = m /\ sent' = sent /\ hdr' = hdr /\ seen' = seen
    BY DEF CallM
  <1>2. /\ TypeInv /\ WriteInv /\ Reading(u, sent, got) /\ ~u.fault /\ seen = hdr
        /\ sent = <<>> /\ got = <<>>
    BY <1>1 DEF MarshallInv, CountInv, ReadInv
  <1>3. OkDone(u)
    <2>1. u.ok /\ u.ind = RPC_HEADER_SZ + Len(Encoding(<<>>))
      BY <1>2 DEF Reading
    <2>2. Len(u.buf) = RPC_HEADER_SZ + Len(Encoding(<<>>))
      BY <1>2 DEF Reading
    <2> QED  BY <2>1, <2>2 DEF OkDone, Sz
  <1>4. TypeInv'
    BY <1>1, <1>2 DEF TypeInv, Locations
  <1>5. WriteInv'
    BY <1>1, <1>2 DEF WriteInv
  <1>6. ReadInv'
    BY <1>1, <1>2, <1>3 DEF ReadInv
  <1> QED
    BY <1>1, <1>4, <1>5, <1>6 DEF MarshallInv, CallInv, PduInv, CountInv

LEMMA CallMHolds ==
    ASSUME MarshallInv, NEW t \in Type, CallM(t)
    PROVE  MarshallInv'
  <1> QED  BY ResultHolds, FailureHolds

-----------------------------------------------------------------------------
(***************************************************************************)
(* The theorems.                                                           *)
(***************************************************************************)
LEMMA StepHolds == MarshallInv /\ [Next]_vars => MarshallInv'
  <1> SUFFICES ASSUME MarshallInv, [Next]_vars PROVE MarshallInv'
    OBVIOUS
  <1>1. CASE UNCHANGED vars
    BY <1>1 DEF vars, MarshallInv, TypeInv, WriteInv, CallInv, PduInv, CountInv, ReadInv
  <1>2. CASE \E type \in Type : \E v \in Values[type] : Shift(type, v)
    BY <1>2, ShiftHolds
  <1>3. CASE \E h \in ReqHeader : SendRequest(h)
    BY <1>3, SendRequestHolds
  <1>4. CASE Dispatch
    BY <1>4, DispatchHolds
  <1>5. CASE \E type \in Type : Unshift(type)
    BY <1>5, UnshiftHolds
  <1>6. CASE Run
    BY <1>6, RunHolds
  <1>7. CASE \E type \in Type, ret \in Ret : \E v \in Values[type] : SendReply(type, v, ret)
    BY <1>7, SendReplyHolds
  <1>8. CASE GotReply
    BY <1>8, GotReplyHolds
  <1>9. CASE \E type \in Type : CallM(type)
    BY <1>9, CallMHolds
  <1>10. CASE \E ret \in {atmostonce_failure, oldsrv_failure} : SendFailure(ret)
    BY <1>10, SendFailureHolds
  <1> QED
    BY <1>1, <1>2, <1>3, <1>4, <1>5, <1>6, <1>7, <1>8, <1>9, <1>10 DEF Next

\* The inductive invariant, of which the properties below are consequences.
THEOREM MarshallInvariant == Spec => []MarshallInv
  <1> QED  BY InitHolds, StepHolds, PTL DEF Spec

(***************************************************************************)
(* The buffers hold bytes, the values are of the types that are used, and  *)
(* the headers are made of unsigned ints.                                  *)
(***************************************************************************)
THEOREM TypeCorrect == Spec => []MarshallTypeOK
  <1>1. MarshallInv => MarshallTypeOK
    <2> SUFFICES ASSUME MarshallInv PROVE MarshallTypeOK
      OBVIOUS
    <2>1. TypeInv /\ Sound(m)
      BY DEF MarshallInv, WriteInv, Written
    <2>2. (\A i \in DOMAIN sent : sent[i].type \in Type)
          /\ (\A i \in DOMAIN got : got[i].type \in Type)
      <3>1. ASSUME NEW xs \in Seq(Item), NEW i \in DOMAIN xs PROVE xs[i].type \in Type
        <4>1. i \in 1..Len(xs)
          BY LenProperties
        <4> QED  BY <4>1, ElementOfSeq, ItemFacts
      <3> QED  BY <2>1, <3>1 DEF TypeInv
    <2>3. u.buf \in Seq(Cell) /\ u.ind \in Nat /\ u.ok \in BOOLEAN /\ u.fault \in BOOLEAN
      BY <2>1 DEF TypeInv, Unmarshall
    <2> QED  BY <2>1, <2>2, <2>3 DEF TypeInv, Sound, Locations, MarshallTypeOK
  <1> QED  BY <1>1, MarshallInvariant, PTL

(***************************************************************************)
(* rawbyte and rawbytes never write past the end of the buffer they grow,  *)
(* for values of any number and size.                                      *)
(***************************************************************************)
THEOREM NoOverrunHolds == Spec => []NoOverrun
  <1>1. MarshallInv => NoOverrun
    BY DEF MarshallInv, WriteInv, Written, Sound, NoOverrun, Capa
  <1> QED  BY <1>1, MarshallInvariant, PTL

(***************************************************************************)
(* Bytes outside the buffer are read only if the test of rawbytes wraps.   *)
(***************************************************************************)
THEOREM FaultIsWrapHolds == Spec => []FaultIsWrap
  <1>1. MarshallInv => FaultIsWrap
    <2> SUFFICES ASSUME MarshallInv, u.fault PROVE Wraps(u)
      BY DEF FaultIsWrap, Wraps
    <2>1. pc \in {"handler", "ran", "aborted", "result", "returned", "refused", "fault"}
      BY DEF MarshallInv, TypeInv, Locations, CallInv, PduInv
    <2> QED  BY <2>1 DEF MarshallInv, ReadInv, Reading
  <1> QED  BY <1>1, MarshallInvariant, PTL

\* Sequences of the same types agree element by element.
LEMMA SameTypes ==
    ASSUME NEW xs \in Seq(Item), NEW ys \in Seq(Item), Types(ys) = Types(xs)
    PROVE  Len(ys) = Len(xs) /\ \A i \in 1..Len(ys) : ys[i].type = xs[i].type
  <1>1. DOMAIN xs = 1..Len(xs) /\ DOMAIN ys = 1..Len(ys) /\ Len(xs) \in Nat /\ Len(ys) \in Nat
    BY LenProperties
  <1>2. DOMAIN Types(xs) = DOMAIN xs /\ DOMAIN Types(ys) = DOMAIN ys
    BY DEF Types
  <1>3. 1..Len(xs) = 1..Len(ys)
    BY <1>1, <1>2
  <1>4. Len(xs) = Len(ys)
    <2> DEFINE n == Len(xs)
               k == Len(ys)
    <2>1. n \in Nat /\ k \in Nat /\ 1..n = 1..k
      BY <1>1, <1>3
    <2> HIDE DEF n, k
    <2>2. (n \in 1..n <=> n \in 1..k) /\ (k \in 1..n <=> k \in 1..k)
      BY <2>1, Zenon
    <2>3. n = k
      BY <2>1, <2>2, SMTT(30)
    <2> QED  BY <2>3 DEF n, k
  <1>5. ASSUME NEW i \in 1..Len(ys) PROVE ys[i].type = xs[i].type
    <2>1. Types(ys)[i] = ys[i].type /\ Types(xs)[i] = xs[i].type
      BY <1>1, <1>3 DEF Types
    <2> QED  BY <2>1
  <1> QED  BY <1>4, <1>5

(***************************************************************************)
(* A handler runs, and a call returns, with the header and with the bytes  *)
(* of the values that the other side wrote, and with those values if the   *)
(* types are the same.                                                     *)
(***************************************************************************)
THEOREM ReadsWhatWasWrittenHolds == Spec => []ReadsWhatWasWritten
  <1>1. MarshallInv => ReadsWhatWasWritten
    <2> SUFFICES ASSUME MarshallInv, pc \in {"ran", "returned"}
                 PROVE  /\ seen = hdr
                        /\ Encoding(got) = Encoding(sent)
                        /\ Types(got) = Types(sent) => got = sent
      BY DEF ReadsWhatWasWritten
    <2> DEFINE a == Encoding(got)
               b == Encoding(sent)
    <2>1. Reading(u, sent, got) /\ seen = hdr /\ ~u.fault /\ u.ok /\ u.ind = Len(u.buf)
      BY DEF MarshallInv, ReadInv, OkDone, Sz
    <2>2. sent \in Seq(Item) /\ got \in Seq(Item)
      BY DEF MarshallInv, TypeInv
    <2>3. a \in Seq(Byte) /\ b \in Seq(Byte) /\ Len(a) \in Nat /\ Len(b) \in Nat
      BY <2>2, EncodingType
    <2>4. /\ Len(u.buf) = 24 + Len(b) /\ u.ind = 24 + Len(a)
          /\ \A j \in 1..Len(a) : u.buf[24 + j] = a[j]
          /\ \A j \in 1..Len(b) : u.buf[24 + j] = b[j]
      BY <2>1 DEF Reading, Carries, RPC_HEADER_SZ, SizeofInt
    <2> HIDE DEF a, b
    <2>5. Len(a) = Len(b)
      BY <2>1, <2>3, <2>4
    <2>6. \A j \in 1..Len(a) : a[j] = b[j]
      BY <2>4, <2>5
    <2>7. a = b
      BY <2>3, <2>5, <2>6, SeqEqual
    <2>8. ASSUME Types(got) = Types(sent) PROVE got = sent
      <3>1. Len(got) = Len(sent) /\ \A i \in 1..Len(got) : got[i].type = sent[i].type
        BY <2>2, <2>8, SameTypes
      <3>2. Len(got) <= Len(sent)
        BY <2>2, <3>1, LenProperties
      <3>3. \A i \in 1..Len(got) : got[i] = sent[i]
        BY <2>1, <3>1, <3>2 DEF Reading
      <3> QED  BY <2>2, <3>1, <3>3, SeqEqual
    <2> QED  BY <2>1, <2>7, <2>8 DEF a, b
  <1> QED  BY <1>1, MarshallInvariant, PTL

(***************************************************************************)
(* The server aborts on unmarshal_args_failure, the client on              *)
(* unmarshal_reply_failure, and a string is read outside the buffer, only  *)
(* if the types of the two sides differ; a reply that reports a failure is *)
(* never the reason.                                                       *)
(***************************************************************************)
THEOREM RefusalIsMismatchHolds == Spec => []RefusalIsMismatch
  <1>1. MarshallInv => RefusalIsMismatch
    <2> SUFFICES ASSUME MarshallInv PROVE RefusalIsMismatch
      OBVIOUS
    <2>1. sent \in Seq(Item) /\ got \in Seq(Item)
      BY DEF MarshallInv, TypeInv
    <2>2. ASSUME pc = "refused", Types(got) = Types(sent) PROVE FALSE
      <3>1. Reading(u, sent, got) /\ ~OkDone(u)
        BY <2>2 DEF MarshallInv, ReadInv
      <3>2. Len(got) = Len(sent) /\ \A i \in 1..Len(got) : got[i].type = sent[i].type
        BY <2>1, <2>2, SameTypes
      <3>3. Len(got) <= Len(sent)
        BY <2>1, <3>2, LenProperties
      <3>4. u.ok /\ ~u.fault /\ \A i \in 1..Len(got) : got[i] = sent[i]
        BY <3>1, <3>2, <3>3 DEF Reading
      <3>5. got = sent
        BY <2>1, <3>2, <3>4, SeqEqual
      <3>6. u.ind = Len(u.buf)
        BY <3>1, <3>4, <3>5 DEF Reading
      <3> QED  BY <3>1, <3>4, <3>6 DEF OkDone, Sz
    <2>3. ASSUME pc = "fault", IsPrefix(Types(got), Types(sent)) PROVE FALSE
      <3> DEFINE s == Types(got)
                 t == Types(sent)
      <3>1. Reading(u, sent, got) /\ u.fault
        BY <2>3 DEF MarshallInv, ReadInv
      <3>2. s \in Seq(Type) /\ Len(s) = Len(got) /\ t \in Seq(Type) /\ Len(t) = Len(sent)
        <4>1. ASSUME NEW xs \in Seq(Item) PROVE Types(xs) \in Seq(Type) /\ Len(Types(xs)) = Len(xs)
          <5> DEFINE n == Len(xs)
          <5>1. n \in Nat /\ DOMAIN xs = 1..n
            BY LenProperties
          <5>2. \A i \in 1..n : xs[i].type \in Type
            BY ElementOfSeq, ItemFacts
          <5> HIDE DEF n
          <5>3. Types(xs) = [i \in 1..n |-> xs[i].type]
            BY <5>1 DEF Types
          <5>4. Types(xs) \in Seq(Type) /\ Len(Types(xs)) = n
            BY <5>1, <5>2, <5>3
          <5> QED  BY <5>4 DEF n
        <4> QED  BY <2>1, <4>1
      <3>3. Len(s) <= Len(t) /\ s = SubSeq(t, 1, Len(s))
        BY <2>3, <3>2 DEF IsPrefix
      <3>4. ASSUME NEW i \in 1..Len(got) PROVE got[i].type = sent[i].type
        <4>1. s[i] = got[i].type /\ t[i] = sent[i].type
          BY <2>1, <3>2, <3>3, LenProperties DEF Types
        <4> HIDE DEF s, t
        <4>2. SubSeq(t, 1, Len(s))[i] = t[i]
          BY <3>2, <3>3, LenProperties, SubSeqProperties
        <4> QED  BY <3>3, <4>1, <4>2
      <3> QED  BY <3>1, <3>2, <3>3, <3>4 DEF Reading
    <2>4. pc = "refused" /\ Len(hdr) = 2 => ~Negative(hdr[2])
      BY DEF MarshallInv, CountInv
    <2> QED  BY <2>2, <2>3, <2>4 DEF RefusalIsMismatch
  <1> QED  BY <1>1, MarshallInvariant, PTL
=============================================================================
