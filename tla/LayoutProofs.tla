---------------------------- MODULE LayoutProofs ----------------------------
(***************************************************************************)
(* The table of the page for any number of arrays, drives, volumes,        *)
(* patterns and sessions: the number of lines of an array is the least     *)
(* that suits, and every cell is divided by its parts.                     *)
(***************************************************************************)
EXTENDS Layout, FiniteSetTheorems, SequenceTheorems, WellFoundedInduction, TLAPS

-----------------------------------------------------------------------------
(***************************************************************************)
(* Division                                                                *)
(***************************************************************************)
Positive == Nat \ {0}

\* d divides n.
Divides(d, n) == \E k \in Nat : n = d * k

\* A set of numbers that is not empty has a least one.
LEMMA LeastNumber ==
    ASSUME NEW T \in SUBSET Nat, T # {}
    PROVE  \E x \in T : \A y \in T : x <= y
<1>1. PICK x \in T : \A y \in T : ~(<<y, x>> \in OpToRel(<, Nat))
  BY NatLessThanWellFounded, WFMin
<1>2. \A y \in T : ~(y < x)
  BY <1>1 DEF OpToRel
<1> QED
  BY <1>2

\* What \div and % are.
LEMMA DivMod ==
    ASSUME NEW x \in Nat, NEW y \in Positive
    PROVE  /\ x \div y \in Nat /\ x % y \in Nat /\ x % y < y
           /\ x = y * (x \div y) + (x % y)
BY DEF Positive

LEMMA TimesType ==
    ASSUME NEW x \in Nat, NEW y \in Nat
    PROVE  x * y \in Nat
OBVIOUS

LEMMA TimesComm ==
    ASSUME NEW x \in Int, NEW y \in Int
    PROVE  x * y = y * x
OBVIOUS

LEMMA TimesAssoc ==
    ASSUME NEW x \in Int, NEW y \in Int, NEW z \in Int
    PROVE  (x * y) * z = x * (y * z)
OBVIOUS

LEMMA TimesPlus ==
    ASSUME NEW x \in Int, NEW y \in Int, NEW z \in Int
    PROVE  x * (y + z) = x * y + x * z /\ x * (y - z) = x * y - x * z
OBVIOUS

LEMMA TimesPositive ==
    ASSUME NEW x \in Positive, NEW y \in Positive
    PROVE  x * y \in Positive /\ x <= x * y /\ y <= x * y
BY DEF Positive

LEMMA TimesCancel ==
    ASSUME NEW x \in Positive, NEW y \in Int, NEW z \in Int
    PROVE  /\ x * y = x * z => y = z
           /\ x * y < x * z => y < z
           /\ y < z => x * y + x <= x * z
BY DEF Positive

\* Division without remainder.
LEMMA DivExact ==
    ASSUME NEW d \in Positive, NEW k \in Nat
    PROVE  (d * k) \div d = k /\ (d * k) % d = 0
<1> DEFINE n == d * k
           q == n \div d
           r == n % d
<1>1. n \in Nat /\ q \in Nat /\ r \in Nat /\ r < d /\ n = d * q + r
  BY TimesType, DivMod DEF Positive
<1> HIDE DEF q, r
<1>2. ~(q < k)
  BY <1>1, TimesCancel DEF Positive
<1>3. ~(k < q)
  BY <1>1, TimesCancel DEF Positive
<1>4. q = k
  BY <1>1, <1>2, <1>3
<1>5. r = 0
  BY <1>1, <1>4 DEF Positive
<1> QED
  BY <1>4, <1>5 DEF q, r, n

\* Divides is what % says.
LEMMA DividesMod ==
    ASSUME NEW d \in Positive, NEW n \in Nat
    PROVE  Divides(d, n) <=> n % d = 0
<1>1. ASSUME Divides(d, n) PROVE n % d = 0
  BY <1>1, DivExact DEF Divides
<1>2. ASSUME n % d = 0 PROVE Divides(d, n)
  <2>1. n = d * (n \div d) + 0 /\ n \div d \in Nat
    BY <1>2, DivMod, Zenon
  <2>2. d * (n \div d) \in Nat
    BY <2>1, TimesType DEF Positive
  <2>3. n = d * (n \div d)
    BY <2>1, <2>2
  <2> QED
    BY <2>1, <2>3 DEF Divides
<1> QED
  BY <1>1, <1>2

LEMMA DividesSelf ==
    ASSUME NEW d \in Nat
    PROVE  Divides(d, d) /\ Divides(d, 0) /\ Divides(1, d)
<1>1. d = d * 1 /\ 0 = d * 0 /\ d = 1 * d
  OBVIOUS
<1> QED
  BY <1>1 DEF Divides

LEMMA DividesTimes ==
    ASSUME NEW d \in Nat, NEW n \in Nat, NEW m \in Nat, Divides(d, n)
    PROVE  Divides(d, n * m) /\ Divides(d, m * n)
<1>1. PICK k \in Nat : n = d * k
  BY DEF Divides
<1>2. n * m = d * (k * m) /\ k * m \in Nat /\ m * n = n * m
  BY <1>1, TimesAssoc, TimesType, TimesComm
<1> QED
  BY <1>2 DEF Divides

LEMMA DividesTrans ==
    ASSUME NEW c \in Nat, NEW d \in Nat, NEW n \in Nat, Divides(c, d), Divides(d, n)
    PROVE  Divides(c, n)
<1>1. PICK k \in Nat : n = d * k
  BY DEF Divides
<1> QED
  BY <1>1, DividesTimes

LEMMA DividesSum ==
    ASSUME NEW d \in Nat, NEW n \in Nat, NEW m \in Nat, Divides(d, n)
    PROVE  Divides(d, m) <=> Divides(d, n + m)
<1>1. PICK k \in Nat : n = d * k
  BY DEF Divides
<1>2. ASSUME Divides(d, m) PROVE Divides(d, n + m)
  <2>1. PICK l \in Nat : m = d * l
    BY <1>2 DEF Divides
  <2>2. n + m = d * (k + l) /\ k + l \in Nat
    BY <1>1, <2>1, TimesPlus
  <2> QED
    BY <2>2 DEF Divides
<1>3. ASSUME Divides(d, n + m) PROVE Divides(d, m)
  <2>1. PICK l \in Nat : n + m = d * l
    BY <1>3 DEF Divides
  <2>2. CASE d = 0
    <3>1. n = 0 /\ n + m = 0
      BY <1>1, <2>1, <2>2
    <3> QED
      BY <1>3, <3>1
  <2>3. CASE d # 0
    <3>1. d \in Positive
      BY <2>3 DEF Positive
    <3>2. k <= l
      BY <1>1, <2>1, <3>1, TimesCancel
    <3>3. m = d * (l - k) /\ l - k \in Nat
      BY <1>1, <2>1, <3>2, TimesPlus
    <3> QED
      BY <3>3 DEF Divides
  <2> QED
    BY <2>2, <2>3
<1> QED
  BY <1>2, <1>3

\* A divisor of a positive number is positive and not larger.
LEMMA DividesBound ==
    ASSUME NEW d \in Nat, NEW n \in Positive, Divides(d, n)
    PROVE  d \in Positive /\ d <= n /\ n \div d \in Positive /\ n = d * (n \div d)
<1>1. PICK k \in Nat : n = d * k
  BY DEF Divides
<1>2. d # 0 /\ k # 0
  BY <1>1 DEF Positive
<1>3. d \in Positive /\ k \in Positive
  BY <1>2 DEF Positive
<1>4. n \div d = k
  BY <1>1, <1>3, DivExact DEF Positive
<1> QED
  BY <1>1, <1>3, <1>4, TimesPositive

LEMMA DividesAntisymmetric ==
    ASSUME NEW d \in Nat, NEW n \in Nat, Divides(d, n), Divides(n, d)
    PROVE  d = n
<1>1. CASE n = 0
  BY <1>1 DEF Divides
<1>2. CASE d = 0
  BY <1>2 DEF Divides
<1>3. CASE n # 0 /\ d # 0
  BY <1>3, DividesBound DEF Positive
<1> QED
  BY <1>1, <1>2, <1>3

-----------------------------------------------------------------------------
(***************************************************************************)
(* gcd and lcm                                                             *)
(***************************************************************************)
Common(x, y) == {d \in Nat : Divides(d, x) /\ Divides(d, y)}

\* Euclid: a division leaves the common divisors.
LEMMA CommonMod ==
    ASSUME NEW x \in Nat, NEW y \in Positive
    PROVE  Common(x, y) = Common(y, x % y)
<1> DEFINE q == x \div y
           r == x % y
           n == y * q
<1>1. q \in Nat /\ r \in Nat /\ n \in Nat /\ x = n + r /\ y \in Nat
  BY DivMod, TimesType DEF Positive
<1> HIDE DEF q, r
<1>2. ASSUME NEW d \in Nat, Divides(d, y) PROVE Divides(d, r) <=> Divides(d, x)
  <2>1. Divides(d, n)
    BY <1>1, <1>2, DividesTimes
  <2> HIDE DEF n
  <2> QED
    BY <1>1, <2>1, DividesSum
<1>3. Common(x, y) = Common(y, r)
  BY <1>2 DEF Common
<1> QED
  BY <1>3 DEF r

\* The numbers the function gcd is recursive in: there is such a function,
\* because the common divisors determine their greatest.
LEMMA GcdEquation ==
    \A x, y \in Nat : gcd[<<x, y>>] = IF y = 0 THEN x ELSE gcd[<<y, x % y>>]
<1> DEFINE Greatest(x, y) == CHOOSE g \in Nat : {d \in Nat : Divides(d, g)} = Common(x, y)
           Step(f, p) == IF p[2] = 0 THEN p[1] ELSE f[<<p[2], p[1] % p[2]>>]
           Recursive(f) == f = [p \in Nat \X Nat |-> Step(f, p)]
           g == [p \in Nat \X Nat |-> Greatest(p[1], p[2])]
<1>1. ASSUME NEW x \in Nat PROVE Greatest(x, 0) = x
  <2>1. {d \in Nat : Divides(d, x)} = Common(x, 0)
    BY DividesSelf DEF Common
  <2>2. ASSUME NEW n \in Nat, {d \in Nat : Divides(d, n)} = Common(x, 0) PROVE n = x
    <3>1. {d \in Nat : Divides(d, n)} = {d \in Nat : Divides(d, x)}
      BY <2>1, <2>2
    <3>2. Divides(n, n) /\ Divides(x, x)
      BY DividesSelf
    <3>3. Divides(n, x) /\ Divides(x, n)
      BY <3>1, <3>2
    <3> QED
      BY <3>3, DividesAntisymmetric
  <2> QED
    BY <2>1, <2>2
<1>2. ASSUME NEW x \in Nat, NEW y \in Positive PROVE Greatest(x, y) = Greatest(y, x % y)
  BY CommonMod
<1>3. ASSUME NEW p \in Nat \X Nat PROVE Greatest(p[1], p[2]) = Step(g, p)
  <2>1. PICK x \in Nat, y \in Nat : p = <<x, y>> /\ p[1] = x /\ p[2] = y
    OBVIOUS
  <2>2. CASE y = 0
    BY <1>1, <2>1, <2>2
  <2>3. CASE y # 0
    <3>1. y \in Positive
      BY <2>3 DEF Positive
    <3>2. x % y \in Nat
      BY <3>1, DivMod
    <3>3. g[<<y, x % y>>] = Greatest(y, x % y)
      BY <3>2
    <3> HIDE DEF g, Greatest
    <3> QED
      BY <1>2, <2>1, <2>3, <3>1, <3>3
  <2> QED
    BY <2>2, <2>3
<1>4. Recursive(g)
  <2> HIDE DEF Step, Greatest
  <2> QED
    BY <1>3
<1>5. Recursive(gcd)
  <2>1. gcd = CHOOSE f : Recursive(f)
    BY DEF gcd
  <2> HIDE DEF g, Recursive
  <2> QED
    BY <1>4, <2>1
<1>6. ASSUME NEW x \in Nat, NEW y \in Nat
      PROVE  gcd[<<x, y>>] = IF y = 0 THEN x ELSE gcd[<<y, x % y>>]
  <2>1. gcd[<<x, y>>] = Step(gcd, <<x, y>>)
    BY <1>5
  <2> QED
    BY <2>1
<1> QED
  BY <1>6

\* g is a combination of x and y.
Combines(g, x, y) == \E a, b \in Int : g = a * x + b * y

\* gcd is a divisor of both numbers, and a combination of them, so that every
\* common divisor divides it.
LEMMA GcdProperty ==
    ASSUME NEW x \in Nat, NEW y \in Nat
    PROVE  LET g == gcd[<<x, y>>]
           IN  g \in Nat /\ Divides(g, x) /\ Divides(g, y) /\ Combines(g, x, y)
<1> DEFINE Good(u, v) == LET g == gcd[<<u, v>>]
                         IN  g \in Nat /\ Divides(g, u) /\ Divides(g, v) /\ Combines(g, u, v)
           T == {v \in Nat : \E u \in Nat : ~Good(u, v)}
<1>1. ASSUME NEW u \in Nat PROVE Good(u, 0)
  <2>1. gcd[<<u, 0>>] = u
    BY GcdEquation
  <2>2. u = 1 * u + 0 * 0
    OBVIOUS
  <2>3. Combines(u, u, 0)
    BY <2>2 DEF Combines
  <2> QED
    BY <2>1, <2>3, DividesSelf
<1>2. ASSUME NEW u \in Nat, NEW v \in Positive, Good(v, u % v) PROVE Good(u, v)
  <2> DEFINE g == gcd[<<u, v>>]
             q == u \div v
             r == u % v
  <2>1. q \in Nat /\ r \in Nat /\ u = v * q + r /\ v \in Nat
    BY DivMod DEF Positive
  <2>2. g = gcd[<<v, r>>]
    BY GcdEquation DEF Positive
  <2>3. g \in Nat /\ Divides(g, v) /\ Divides(g, r) /\ Combines(g, v, r)
    BY <1>2, <2>2
  <2>4. g \in Common(v, r)
    BY <2>3 DEF Common
  <2>5. g \in Common(u, v)
    BY <2>4, CommonMod
  <2> HIDE DEF g, q, r
  <2>6. PICK a \in Int, b \in Int : g = a * v + b * r
    BY <2>3 DEF Combines
  <2>7. b * u = b * (v * q) + b * r
    BY <2>1, TimesPlus, TimesType
  <2>8. b * (v * q) = (b * q) * v
    BY <2>1
  <2>9. (a - b * q) * v = a * v - (b * q) * v
    BY <2>1
  <2>10. g = b * u + (a - b * q) * v /\ a - b * q \in Int
    <3>1. /\ a * v \in Int /\ b * r \in Int /\ b * q \in Int /\ (b * q) * v \in Int /\ b * u \in Int
          /\ a - b * q \in Int /\ (a - b * q) * v \in Int
      BY <2>1
    <3> QED
      BY <2>6, <2>7, <2>8, <2>9, <3>1
  <2>11. Combines(g, u, v)
    BY <2>10 DEF Combines
  <2> QED
    BY <2>3, <2>5, <2>11 DEF Common, g
<1> HIDE DEF Good
<1>3. T = {}
  <2> SUFFICES ASSUME T # {} PROVE FALSE
    OBVIOUS
  <2>1. T \in SUBSET Nat
    OBVIOUS
  <2>2. PICK v \in T : \A w \in T : v <= w
    <3> HIDE DEF T
    <3> QED
      BY <2>1, LeastNumber
  <2>3. PICK u \in Nat : ~Good(u, v)
    OBVIOUS
  <2>4. v \in Positive
    BY <1>1, <2>3 DEF Positive
  <2>5. u % v \in Nat /\ u % v < v
    BY <2>4, DivMod
  <2>6. u % v \notin T
    BY <2>2, <2>4, <2>5 DEF Positive
  <2>7. Good(v, u % v)
    BY <2>5, <2>6
  <2> QED
    BY <1>2, <2>3, <2>4, <2>7
<1>4. Good(x, y)
  BY <1>3
<1> QED
  BY <1>4 DEF Good

\* lcm is a common multiple and divides all others.
LEMMA LcmProperty ==
    ASSUME NEW x \in Positive, NEW y \in Positive
    PROVE  /\ lcm(x, y) \in Positive /\ Divides(x, lcm(x, y)) /\ Divides(y, lcm(x, y))
           /\ \A n \in Nat : Divides(x, n) /\ Divides(y, n) => Divides(lcm(x, y), n)
<1> DEFINE g == gcd[<<x, y>>]
           l == lcm(x, y)
<1>0. x \in Nat /\ y \in Nat /\ x # 0 /\ y # 0
  BY DEF Positive
<1>1. g \in Nat /\ Divides(g, x) /\ Divides(g, y) /\ Combines(g, x, y)
  BY <1>0, GcdProperty
<1>2. l = (x * y) \div g
  BY <1>0 DEF lcm
<1> HIDE DEF g, l
<1>3. PICK a \in Positive, b \in Positive : x = g * a /\ y = g * b
  BY <1>0, <1>1, DividesBound
<1>4. g \in Positive /\ g \in Int /\ a \in Int /\ b \in Int
  BY <1>0, <1>1, <1>3, DividesBound DEF Positive
<1>5. x * y = g * (a * y) /\ a * y \in Nat /\ a * y \in Positive
  BY <1>0, <1>3, <1>4, TimesAssoc, TimesPositive DEF Positive
<1>6. l = a * y
  BY <1>2, <1>4, <1>5, DivExact
<1>7. l = x * b
  BY <1>3, <1>4, <1>6
<1>8. l \in Positive /\ Divides(x, l) /\ Divides(y, l)
  <2>1. Divides(x, l)
    BY <1>3, <1>7 DEF Divides, Positive
  <2>2. l = y * a
    BY <1>0, <1>4, <1>6
  <2>3. Divides(y, l)
    BY <1>3, <2>2 DEF Divides, Positive
  <2> QED
    BY <1>5, <1>6, <2>1, <2>3
<1>9. ASSUME NEW n \in Nat, Divides(x, n), Divides(y, n) PROVE Divides(l, n)
  <2>1. PICK i \in Nat, j \in Nat : n = x * i /\ n = y * j
    BY <1>9 DEF Divides
  <2>2. PICK c \in Int, d \in Int : g = c * x + d * y
    BY <1>1 DEF Combines
  <2> DEFINE z == c * j + d * i
  <2>3. z \in Int /\ l \in Int /\ x * y \in Int /\ x * y = g * l
    BY <1>0, <1>4, <1>5, <1>6, <1>8 DEF Positive
  <2>4. g * n = (x * y) * z
    <3>1. g * n = (c * x) * n + (d * y) * n
      <4>1. c * x \in Int /\ d * y \in Int
        BY <1>0, <2>2
      <4> QED
        BY <2>2, <4>1
    <3>2. (c * x) * n = (x * y) * (c * j)
      <4>1. (c * x) * n = (c * x) * (y * j)
        BY <2>1
      <4> QED
        BY <1>0, <4>1
    <3>3. (d * y) * n = (x * y) * (d * i)
      <4>1. (d * y) * n = (d * y) * (x * i)
        BY <2>1
      <4> QED
        BY <1>0, <4>1
    <3>4. c * j \in Int /\ d * i \in Int
      BY <2>1
    <3> QED
      BY <2>3, <3>1, <3>2, <3>3, <3>4, TimesPlus
  <2>5. g * n = g * (l * z)
    BY <1>4, <2>3, <2>4, TimesAssoc
  <2> HIDE DEF z
  <2>6. n = l * z
    <3>1. l * z \in Int /\ n \in Int
      BY <2>3
    <3> QED
      BY <1>4, <2>5, <3>1, TimesCancel
  <2>7. z >= 0
    <3>1. SUFFICES ASSUME z < 0 PROVE FALSE
      BY <2>3
    <3>2. l * z + l <= l * 0
      BY <1>8, <2>3, <3>1, TimesCancel
    <3>3. l > 0 /\ l * 0 = 0 /\ l * z \in Int
      BY <1>8, <2>3 DEF Positive
    <3> QED
      BY <2>3, <2>6, <3>2, <3>3
  <2> QED
    BY <2>3, <2>6, <2>7 DEF Divides
<1> QED
  BY <1>8, <1>9 DEF l

-----------------------------------------------------------------------------
(***************************************************************************)
(* The loops over volumes and patterns                                     *)
(***************************************************************************)

\* What holds before a loop and is kept by each pass holds after every pass.
LEMMA Passes ==
    ASSUME NEW n \in Nat, NEW S, 0 \in S, \A k \in 1..n : k - 1 \in S => k \in S
    PROVE  \A k \in 0..n : k \in S
<1> DEFINE T == {k \in 0..n : k \notin S}
<1> SUFFICES ASSUME T # {} PROVE FALSE
  OBVIOUS
<1>1. T \in SUBSET Nat
  OBVIOUS
<1>2. PICK k \in T : \A j \in T : k <= j
  <2> HIDE DEF T
  <2> QED
    BY <1>1, LeastNumber
<1>3. k \in 1..n /\ k - 1 \in 0..n /\ ~(k <= k - 1)
  OBVIOUS
<1>4. k - 1 \in S
  BY <1>2, <1>3
<1> QED
  BY <1>3, <1>4

\* A loop of n passes from base, of which the k-th makes F[k][v] of v.
Run(n, V, base, F) ==
    {f \in [0..n -> V] : f[0] = base /\ \A k \in 1..n : f[k] = F[k][f[k - 1]]}

LEMMA LoopRuns ==
    ASSUME NEW n \in Nat, NEW V, NEW base \in V, NEW F \in [1..n -> [V -> V]]
    PROVE  Run(n, V, base, F) # {}
<1> DEFINE Runs(f, j) == f[0] = base /\ \A k \in 1..j : f[k] = F[k][f[k - 1]]
           S == {j \in 0..n : \E f \in [0..j -> V] : Runs(f, j)}
<1>1. 0 \in S
  <2> DEFINE f == [k \in 0..0 |-> base]
  <2>1. f \in [0..0 -> V] /\ Runs(f, 0)
    OBVIOUS
  <2> HIDE DEF f, Runs
  <2> QED
    BY <2>1
<1>2. ASSUME NEW j \in 1..n, j - 1 \in S PROVE j \in S
  <2>1. PICK f \in [0..(j - 1) -> V] : Runs(f, j - 1)
    BY <1>2
  <2> DEFINE g == [k \in 0..j |-> IF k = j THEN F[j][f[j - 1]] ELSE f[k]]
  <2>2. f[j - 1] \in V /\ F[j][f[j - 1]] \in V
    OBVIOUS
  <2>3. g \in [0..j -> V]
    BY <2>2
  <2>4. g[0] = base /\ g[j - 1] = f[j - 1] /\ g[j] = F[j][f[j - 1]]
    BY <2>1
  <2>5. \A k \in 1..(j - 1) : g[k] = f[k] /\ g[k - 1] = f[k - 1]
    OBVIOUS
  <2> HIDE DEF g
  <2>6. Runs(g, j)
    <3>1. ASSUME NEW k \in 1..j PROVE g[k] = F[k][g[k - 1]]
      <4>1. CASE k = j
        BY <2>4, <4>1
      <4>2. CASE k # j
        <5>1. k \in 1..(j - 1)
          BY <4>2
        <5> QED
          BY <2>1, <2>5, <5>1
      <4> QED
        BY <4>1, <4>2
    <3> QED
      BY <2>4, <3>1
  <2> HIDE DEF Runs
  <2> QED
    BY <2>3, <2>6
<1>3. n \in S
  <2> HIDE DEF S
  <2>1. \A k \in 0..n : k \in S
    BY <1>1, <1>2, Passes
  <2> QED
    BY <2>1
<1> QED
  BY <1>3 DEF Run

\* l is the least common multiple of the positive numbers in K: it is a
\* multiple of them all and divides every other.
IsLcm(K, l) ==
    /\ l \in Positive /\ \A k \in K : Divides(k, l)
    /\ \A n \in Nat : (\A k \in K : Divides(k, n)) => Divides(l, n)

LEMMA IsLcmOne == IsLcm({}, 1)
BY DividesSelf DEF IsLcm, Positive

LEMMA IsLcmSelf ==
    ASSUME NEW l \in Positive
    PROVE  IsLcm({l}, l)
BY DividesSelf DEF IsLcm, Positive

\* One more number.
LEMMA IsLcmAdd ==
    ASSUME NEW K \in SUBSET Positive, NEW l, IsLcm(K, l), NEW x \in Positive
    PROVE  IsLcm(K \cup {x}, lcm(x, l))
<1> DEFINE m == lcm(x, l)
<1>1. /\ m \in Positive /\ Divides(x, m) /\ Divides(l, m)
      /\ \A n \in Nat : Divides(x, n) /\ Divides(l, n) => Divides(m, n)
  BY LcmProperty DEF IsLcm
<1>2. \A k \in K : Divides(k, m)
  BY <1>1, DividesTrans DEF IsLcm, Positive
<1> HIDE DEF m
<1>3. IsLcm(K \cup {x}, m)
  BY <1>1, <1>2 DEF IsLcm
<1> QED
  BY <1>3 DEF m

\* An LCM of an LCM and others.
LEMMA IsLcmOf ==
    ASSUME NEW K, NEW l, IsLcm(K, l), NEW M, NEW m, IsLcm({l} \cup M, m),
           K \in SUBSET Positive
    PROVE  IsLcm(K \cup M, m)
<1>1. \A k \in K : Divides(k, m)
  BY DividesTrans DEF IsLcm, Positive
<1> QED
  BY <1>1 DEF IsLcm

\* The numbers in s that are not 0.
Numbers(s) == {s[i] : i \in DOMAIN s} \ {0}

LEMMA LcmOfProperty ==
    ASSUME NEW s \in Seq(Nat), NEW base \in Positive
    PROVE  IsLcm({base} \cup Numbers(s), lcm_of(s, base))
<1> DEFINE n == Len(s)
           F == [k \in 1..n |-> [v \in Positive |-> IF s[k] = 0 THEN v ELSE lcm(s[k], v)]]
           Step(f, k) == IF k = 0 THEN base
                         ELSE IF s[k] = 0 THEN f[k - 1] ELSE lcm(s[k], f[k - 1])
           Recursive(f) == f = [k \in 0..n |-> Step(f, k)]
           max == CHOOSE f : Recursive(f)
<1>1. n \in Nat /\ DOMAIN s = 1..n /\ \A k \in 1..n : s[k] \in Nat
  OBVIOUS
<1>2. lcm_of(s, base) = max[n]
  BY DEF lcm_of
<1> HIDE DEF n
<1>3. F \in [1..n -> [Positive -> Positive]]
  BY <1>1, LcmProperty DEF Positive
<1>4. \E f : Recursive(f)
  <2>1. PICK f \in [0..n -> Positive] : f[0] = base /\ \A k \in 1..n : f[k] = F[k][f[k - 1]]
    <3> HIDE DEF F
    <3>1. Run(n, Positive, base, F) # {}
      BY <1>1, <1>3, LoopRuns
    <3> QED
      BY <3>1 DEF Run
  <2>2. ASSUME NEW k \in 0..n PROVE f[k] = Step(f, k)
    <3>1. CASE k = 0
      BY <2>1, <3>1
    <3>2. CASE k # 0
      <4>1. k \in 1..n /\ f[k - 1] \in Positive
        BY <1>1, <3>2
      <4> QED
        BY <2>1, <3>2, <4>1
    <3> QED
      BY <3>1, <3>2
  <2>3. Recursive(f)
    <3> HIDE DEF Step
    <3> QED
      BY <2>2
  <2> QED
    BY <2>3
<1>5. Recursive(max)
  <2> HIDE DEF Recursive
  <2> QED
    BY <1>4
<1> HIDE DEF max
<1>6. ASSUME NEW k \in 0..n PROVE max[k] = Step(max, k)
  <2> HIDE DEF Step
  <2> QED
    BY <1>5
<1> DEFINE Before(k) == {base} \cup ({s[i] : i \in 1..k} \ {0})
           S == {k \in 0..n : IsLcm(Before(k), max[k])}
<1>7. 0 \in S
  <2>1. max[0] = base /\ Before(0) = {base} /\ 0 \in 0..n
    BY <1>1, <1>6
  <2> QED
    BY <2>1, IsLcmSelf
<1>8. ASSUME NEW k \in 1..n, k - 1 \in S PROVE k \in S
  <2>1. /\ k \in 0..n /\ k # 0 /\ IsLcm(Before(k - 1), max[k - 1])
        /\ \A i \in 1..k : i = k \/ i \in 1..(k - 1)
        /\ \A i \in 1..(k - 1) : i \in 1..k
    BY <1>1, <1>8
  <2>2. max[k] = IF s[k] = 0 THEN max[k - 1] ELSE lcm(s[k], max[k - 1])
    BY <1>6, <2>1
  <2>3. CASE s[k] = 0
    <3>1. Before(k) = Before(k - 1)
      BY <2>1, <2>3
    <3> QED
      BY <2>1, <2>2, <2>3, <3>1
  <2>4. CASE s[k] # 0
    <3>1. Before(k) = Before(k - 1) \cup {s[k]}
      BY <2>1, <2>4
    <3>2. Before(k - 1) \in SUBSET Positive /\ s[k] \in Positive
      BY <1>1, <2>4 DEF Positive
    <3> HIDE DEF Before
    <3> QED
      BY <2>1, <2>2, <2>4, <3>1, <3>2, IsLcmAdd
  <2> QED
    BY <2>3, <2>4
<1>9. n \in S
  <2> HIDE DEF S
  <2>1. \A k \in 0..n : k \in S
    BY <1>1, <1>7, <1>8, Passes
  <2> QED
    BY <1>1, <2>1
<1>10. Before(n) = {base} \cup Numbers(s)
  BY <1>1 DEF Numbers
<1> QED
  BY <1>2, <1>9, <1>10

LEMMA IsLcmWithoutOne ==
    ASSUME NEW K, NEW l, IsLcm({1} \cup K, l)
    PROVE  IsLcm(K, l)
BY DividesSelf DEF IsLcm

\* How many patterns the volumes have that have any, and sessions those.
Quantities(vs) == {Len(vs[v]) : v \in DOMAIN vs} \ {0}
Sessions(vs) == UNION {Numbers(vs[v]) : v \in DOMAIN vs}

LEMMA PatternsLcm ==
    ASSUME NEW vs \in Seq(Seq(Nat))
    PROVE  IsLcm(Quantities(vs), access_patterns_quantity_max(vs))
<1> DEFINE s == [i \in DOMAIN vs |-> Len(vs[i])]
<1>1. s \in Seq(Nat) /\ DOMAIN s = DOMAIN vs /\ \A i \in DOMAIN vs : s[i] = Len(vs[i])
  <2>1. \A i \in DOMAIN vs : Len(vs[i]) \in Nat
    OBVIOUS
  <2>2. DOMAIN vs = 1..Len(vs) /\ Len(vs) \in Nat
    OBVIOUS
  <2>3. s \in [1..Len(vs) -> Nat]
    BY <2>1, <2>2
  <2>4. s \in Seq(Nat)
    BY <2>2, <2>3, SeqDef
  <2> QED
    BY <2>4
<1>2. Numbers(s) = Quantities(vs)
  BY <1>1 DEF Numbers, Quantities
<1>3. access_patterns_quantity_max(vs) = lcm_of(s, 1)
  BY DEF access_patterns_quantity_max
<1> HIDE DEF s
<1>4. IsLcm({1} \cup Numbers(s), lcm_of(s, 1))
  BY <1>1, LcmOfProperty DEF Positive
<1> QED
  BY <1>2, <1>3, <1>4, IsLcmWithoutOne

LEMMA SessionsLcm ==
    ASSUME NEW vs \in Seq(Seq(Nat))
    PROVE  IsLcm(Sessions(vs), sessions_quantity_max(vs))
<1> DEFINE n == Len(vs)
           F == [k \in 1..n |-> [v \in Positive |-> lcm_of(vs[k], v)]]
           Step(f, k) == IF k = 0 THEN 1 ELSE lcm_of(vs[k], f[k - 1])
           Recursive(f) == f = [k \in 0..n |-> Step(f, k)]
           max == CHOOSE f : Recursive(f)
<1>1. n \in Nat /\ DOMAIN vs = 1..n /\ \A k \in 1..n : vs[k] \in Seq(Nat)
  OBVIOUS
<1>2. sessions_quantity_max(vs) = max[n]
  BY DEF sessions_quantity_max
<1> HIDE DEF n
<1>3. F \in [1..n -> [Positive -> Positive]]
  <2>1. \A k \in 1..n : \A v \in Positive : lcm_of(vs[k], v) \in Positive
    BY <1>1, LcmOfProperty DEF IsLcm
  <2> QED
    BY <2>1
<1>4. \E f : Recursive(f)
  <2>1. PICK f \in [0..n -> Positive] : f[0] = 1 /\ \A k \in 1..n : f[k] = F[k][f[k - 1]]
    <3> HIDE DEF F
    <3>1. Run(n, Positive, 1, F) # {}
      <4>1. 1 \in Positive
        BY DEF Positive
      <4> QED
        BY <1>1, <1>3, <4>1, LoopRuns
    <3> QED
      BY <3>1 DEF Run
  <2>2. ASSUME NEW k \in 0..n PROVE f[k] = Step(f, k)
    <3>1. CASE k = 0
      BY <2>1, <3>1
    <3>2. CASE k # 0
      <4>1. k \in 1..n /\ f[k - 1] \in Positive
        BY <1>1, <3>2
      <4> QED
        BY <2>1, <3>2, <4>1
    <3> QED
      BY <3>1, <3>2
  <2>3. Recursive(f)
    <3> HIDE DEF Step
    <3> QED
      BY <2>2
  <2> QED
    BY <2>3
<1>5. Recursive(max)
  <2> HIDE DEF Recursive
  <2> QED
    BY <1>4
<1> HIDE DEF max
<1>6. ASSUME NEW k \in 0..n PROVE max[k] = Step(max, k)
  <2> HIDE DEF Step
  <2> QED
    BY <1>5
<1> DEFINE Before(k) == UNION {Numbers(vs[i]) : i \in 1..k}
           S == {k \in 0..n : IsLcm(Before(k), max[k])}
<1>7. 0 \in S
  <2>1. max[0] = 1 /\ Before(0) = {} /\ 0 \in 0..n
    BY <1>1, <1>6
  <2> QED
    BY <2>1, IsLcmOne
<1>8. ASSUME NEW k \in 1..n, k - 1 \in S PROVE k \in S
  <2>1. /\ k \in 0..n /\ k # 0 /\ IsLcm(Before(k - 1), max[k - 1])
        /\ \A i \in 1..k : i = k \/ i \in 1..(k - 1)
        /\ \A i \in 1..(k - 1) : i \in 1..k
    BY <1>1, <1>8
  <2>2. max[k] = lcm_of(vs[k], max[k - 1]) /\ max[k - 1] \in Positive
    BY <1>6, <2>1 DEF IsLcm
  <2>3. IsLcm({max[k - 1]} \cup Numbers(vs[k]), max[k])
    BY <1>1, <2>2, LcmOfProperty
  <2>4. Before(k) = Before(k - 1) \cup Numbers(vs[k])
    <3>1. ASSUME NEW x \in Before(k) PROVE x \in Before(k - 1) \cup Numbers(vs[k])
      <4>1. PICK i \in 1..k : x \in Numbers(vs[i])
        OBVIOUS
      <4>2. i = k \/ i \in 1..(k - 1)
        BY <2>1
      <4> QED
        BY <4>1, <4>2
    <3>2. ASSUME NEW x \in Before(k - 1) PROVE x \in Before(k)
      <4>1. PICK i \in 1..(k - 1) : x \in Numbers(vs[i])
        OBVIOUS
      <4>2. i \in 1..k
        BY <2>1
      <4> QED
        BY <4>1, <4>2
    <3>3. \A x \in Numbers(vs[k]) : x \in Before(k)
      <4>1. k \in 1..k
        BY <1>1
      <4> QED
        BY <4>1
    <3> HIDE DEF Before
    <3> QED
      BY <3>1, <3>2, <3>3
  <2>5. Before(k - 1) \in SUBSET Positive
    <3>1. \A i \in 1..(k - 1) : vs[i] \in Seq(Nat)
      BY <1>1, <1>8
    <3>2. \A i \in 1..(k - 1) : Numbers(vs[i]) \in SUBSET Positive
      <4> TAKE i \in 1..(k - 1)
      <4>1. \A j \in DOMAIN vs[i] : vs[i][j] \in Nat
        BY <3>1
      <4> QED
        BY <4>1 DEF Numbers, Positive
    <3> HIDE DEF Numbers
    <3> QED
      BY <3>2
  <2> HIDE DEF Before
  <2>6. IsLcm(Before(k), max[k])
    BY <2>1, <2>3, <2>4, <2>5, IsLcmOf
  <2> QED
    BY <2>1, <2>6
<1>9. n \in S
  <2> HIDE DEF S
  <2>1. \A k \in 0..n : k \in S
    BY <1>1, <1>7, <1>8, Passes
  <2> QED
    BY <1>1, <2>1
<1>10. Before(n) = Sessions(vs)
  BY <1>1 DEF Sessions
<1> QED
  BY <1>2, <1>9, <1>10

-----------------------------------------------------------------------------
(***************************************************************************)
(* The number of lines                                                     *)
(***************************************************************************)

\* An array has drives, finitely many, and a sequence of volumes.
LEMMA ArrayFacts ==
    ASSUME NEW a \in Array
    PROVE  /\ IsFiniteSet(physicals(a)) /\ Cardinality(physicals(a)) \in Positive
           /\ a.logical_volumes \in Seq(Seq(Nat))
<1>1. /\ a.slaves \in SUBSET Drives /\ a.cached_by \in SUBSET Drives /\ a.slaves # {}
      /\ a.raid_disks \in 1..MaxRaidDisks
      /\ a.logical_volumes \in UNION {[1..k -> Volumes] : k \in 0..MaxVolumes}
  BY DEF Array
<1>2. IsFiniteSet(Drives)
  <2> DEFINE N == 1..99
  <2>1. IsFiniteSet(N)
    <3>1. \A i, j \in Int : IsFiniteSet(i..j)
      BY FS_Interval
    <3>2. 1 \in Int /\ 99 \in Int
      OBVIOUS
    <3> QED
      BY <3>1, <3>2, Zenon
  <2>2. Drives \in SUBSET N
    BY DrivesAssumption
  <2> HIDE DEF N
  <2> QED
    BY <2>1, <2>2, FS_Subset
<1>3. IsFiniteSet(a.slaves) /\ IsFiniteSet(Members(a))
  <2>1. Members(a) \in SUBSET Drives
    BY <1>1 DEF Members
  <2> QED
    BY <1>1, <1>2, <2>1, FS_Subset
<1>4. IsFiniteSet({Slot(i) : i \in (Cardinality(a.slaves) + 1)..a.raid_disks})
  <2> DEFINE I == (Cardinality(a.slaves) + 1)..a.raid_disks
             f == [i \in I |-> Slot(i)]
             R == {Slot(i) : i \in I}
  <2>1. Cardinality(a.slaves) \in Nat
    BY <1>3, FS_CardinalityType
  <2>2. IsFiniteSet(I)
    <3>1. Cardinality(a.slaves) + 1 \in Int /\ a.raid_disks \in Int
      BY <1>1, <2>1, BoundsAssumption
    <3> QED
      BY <3>1, FS_Interval
  <2>3. f \in Surjection(I, R)
    BY DEF Surjection
  <2> HIDE DEF I, f, R
  <2>4. IsFiniteSet(R)
    BY <2>2, <2>3, FS_Surjection
  <2> QED
    BY <2>4 DEF R, I
<1>5. IsFiniteSet(physicals(a))
  BY <1>3, <1>4, FS_Union DEF physicals
<1>6. Cardinality(physicals(a)) \in Positive
  <2>1. physicals(a) # {}
    BY <1>1 DEF physicals, Members
  <2>2. Cardinality(physicals(a)) \in Nat /\ Cardinality(physicals(a)) # 0
    BY <1>5, <2>1, FS_CardinalityType, FS_EmptySet
  <2> QED
    BY <2>2 DEF Positive
<1>7. a.logical_volumes \in Seq(Seq(Nat))
  <2>1. PICK k \in 0..MaxVolumes : a.logical_volumes \in [1..k -> Volumes]
    BY <1>1
  <2>2. k \in Nat /\ a.logical_volumes \in [1..k -> Seq(Nat)]
    BY <2>1, BoundsAssumption, VolumesAssumption
  <2> QED
    BY <2>2, SeqDef
<1> QED
  BY <1>5, <1>6, <1>7

\* The number of lines is the LCM of the drives and of the product.
LEMMA LinesLcm ==
    ASSUME NEW a \in Array
    PROVE  LET vs == a.logical_volumes
               d == Cardinality(physicals(a))
           IN  /\ lines_quantity(a) \in Positive /\ Divides(d, lines_quantity(a))
               /\ vs # <<>> =>
                    /\ Len(vs) \in Positive
                    /\ IsLcm(Quantities(vs), access_patterns_quantity_max(vs))
                    /\ IsLcm(Sessions(vs), sessions_quantity_max(vs))
                    /\ IsLcm({d, Len(vs) * access_patterns_quantity_max(vs) * sessions_quantity_max(vs)},
                             lines_quantity(a))
<1> DEFINE vs == a.logical_volumes
           d == Cardinality(physicals(a))
           A == access_patterns_quantity_max(vs)
           S == sessions_quantity_max(vs)
           n == Len(vs) * A * S
<1>1. d \in Positive /\ vs \in Seq(Seq(Nat))
  BY ArrayFacts
<1>2. IsLcm(Quantities(vs), A) /\ IsLcm(Sessions(vs), S)
  BY <1>1, PatternsLcm, SessionsLcm
<1>3. lines_quantity(a) = IF vs = <<>> THEN d ELSE lcm(d, n)
  BY DEF lines_quantity
<1>4. CASE vs = <<>>
  BY <1>1, <1>3, <1>4, DividesSelf DEF Positive
<1>5. CASE vs # <<>>
  <2>1. Len(vs) \in Positive
    <3>1. Len(vs) \in Nat /\ Len(vs) # 0
      BY <1>1, <1>5, EmptySeq
    <3> QED
      BY <3>1 DEF Positive
  <2>2. A \in Positive /\ S \in Positive
    BY <1>2 DEF IsLcm
  <2>3. n \in Positive
    BY <2>1, <2>2, TimesPositive
  <2> HIDE DEF n, d, vs
  <2>4. IsLcm({n} \cup {d}, lcm(d, n))
    <3>1. {n} \in SUBSET Positive /\ IsLcm({n}, n)
      BY <2>3, IsLcmSelf
    <3> QED
      BY <1>1, <3>1, IsLcmAdd
  <2>5. IsLcm({d, n}, lines_quantity(a)) /\ d \in {n} \cup {d}
    <3>1. {n} \cup {d} = {d, n}
      OBVIOUS
    <3> QED
      BY <1>3, <1>5, <2>4, <3>1
  <2>6. lines_quantity(a) \in Positive /\ Divides(d, lines_quantity(a))
    BY <2>5 DEF IsLcm
  <2> QED
    BY <1>2, <1>5, <2>1, <2>5, <2>6 DEF n, d, vs
<1> QED
  BY <1>4, <1>5

\* The LCM is the least common multiple.
LEMMA LeastLcm ==
    ASSUME NEW K \in SUBSET Positive, NEW l, IsLcm(K, l)
    PROVE  Least(K, l)
<1>1. l \in Positive /\ l \in Nat /\ K \in SUBSET Nat
  BY DEF IsLcm, Positive
<1>2. Multiple(K, l)
  BY <1>1, DividesMod DEF IsLcm, Multiple
<1>3. ASSUME NEW m \in 1..(l - 1), Multiple(K, m) PROVE FALSE
  <2>1. m \in Nat /\ m \in Positive /\ m < l
    BY <1>1 DEF Positive
  <2>2. \A k \in K : Divides(k, m)
    BY <1>3, <2>1, DividesMod DEF Multiple
  <2>3. Divides(l, m)
    BY <2>1, <2>2 DEF IsLcm
  <2> QED
    BY <1>1, <2>1, <2>3, DividesBound
<1> QED
  BY <1>2, <1>3 DEF Least

\* LeastLines for one array.
LEMMA LeastLinesOf ==
    ASSUME NEW a \in Array, a.logical_volumes # <<>>
    PROVE  LET vs == a.logical_volumes
               lines == lines_quantity(a)
           IN  \E aps, ss \in 1..lines :
                  /\ Least({Len(vs[v]) : v \in DOMAIN vs} \ {0}, aps)
                  /\ Least((UNION {Range(vs[v]) : v \in DOMAIN vs}) \ {0}, ss)
                  /\ Least({Cardinality(physicals(a)), Len(vs) * aps * ss}, lines)
<1> DEFINE vs == a.logical_volumes
           d == Cardinality(physicals(a))
           n == Len(vs)
           A == access_patterns_quantity_max(vs)
           S == sessions_quantity_max(vs)
           lines == lines_quantity(a)
<1>1. d \in Positive /\ vs \in Seq(Seq(Nat))
  BY ArrayFacts
<1>2. /\ lines \in Positive /\ n \in Positive
      /\ IsLcm(Quantities(vs), A) /\ IsLcm(Sessions(vs), S) /\ IsLcm({d, n * A * S}, lines)
  BY LinesLcm
<1>3. Quantities(vs) \in SUBSET Positive /\ Sessions(vs) \in SUBSET Positive
  <2>1. \A v \in DOMAIN vs : vs[v] \in Seq(Nat)
    BY <1>1
  <2>2. \A v \in DOMAIN vs : Len(vs[v]) \in Nat
    BY <2>1
  <2>3. \A v \in DOMAIN vs : \A p \in DOMAIN vs[v] : vs[v][p] \in Nat
    BY <2>1
  <2> HIDE DEF vs
  <2> QED
    BY <2>2, <2>3 DEF Quantities, Sessions, Numbers, Positive
<1>4. Sessions(vs) = (UNION {Range(vs[v]) : v \in DOMAIN vs}) \ {0}
  BY DEF Sessions, Numbers, Range
<1>5. Quantities(vs) = {Len(vs[v]) : v \in DOMAIN vs} \ {0}
  BY DEF Quantities
<1> HIDE DEF vs, d, n, A, S, lines
<1>6. Least(Quantities(vs), A) /\ Least(Sessions(vs), S)
  BY <1>2, <1>3, LeastLcm
<1>7. A \in Positive /\ S \in Positive
  BY <1>2 DEF IsLcm
<1>8. n * A \in Positive /\ n * A * S \in Positive /\ A <= n * A /\ n * A <= n * A * S /\ S <= n * A * S
  <2>1. n * A \in Positive /\ A <= n * A
    BY <1>2, <1>7, TimesPositive
  <2> QED
    BY <1>7, <2>1, TimesPositive
<1>9. Least({d, n * A * S}, lines)
  <2>1. {d, n * A * S} \in SUBSET Positive
    BY <1>1, <1>8
  <2> QED
    BY <1>2, <2>1, LeastLcm
<1>10. n * A * S <= lines
  <2>1. Divides(n * A * S, lines)
    BY <1>2 DEF IsLcm
  <2> QED
    BY <1>2, <1>8, <2>1, DividesBound DEF Positive
<1>11. A \in 1..lines /\ S \in 1..lines
  <2> DEFINE x == n * A
             y == n * A * S
  <2>1. x \in Nat /\ y \in Nat /\ A <= x /\ x <= y /\ S <= y /\ y <= lines
    BY <1>8, <1>10 DEF Positive
  <2> HIDE DEF x, y
  <2> QED
    BY <1>2, <1>7, <2>1 DEF Positive
<1> QED
  BY <1>4, <1>5, <1>6, <1>9, <1>11 DEF vs, d, n, lines

\* The spans of an array with volumes: each volume a whole part of the
\* array's lines, each pattern one of its volume's, each session one of its
\* pattern's.
LEMMA Spans ==
    ASSUME NEW a \in Array, a.logical_volumes # <<>>
    PROVE  LET vs == a.logical_volumes
               lines == lines_quantity(a)
               span == lines \div Len(vs)
           IN  /\ Len(vs) \in Positive /\ Divides(Len(vs), lines) /\ span \in Positive
               /\ \A v \in DOMAIN vs : Len(vs[v]) # 0 =>
                    LET pspan == span \div Len(vs[v])
                    IN  /\ Divides(Len(vs[v]), span) /\ pspan \in Positive
                        /\ \A p \in DOMAIN vs[v] : vs[v][p] # 0 => Divides(vs[v][p], pspan)
<1> DEFINE vs == a.logical_volumes
           n == Len(vs)
           A == access_patterns_quantity_max(vs)
           S == sessions_quantity_max(vs)
           lines == lines_quantity(a)
           span == lines \div n
<1>1. vs \in Seq(Seq(Nat))
  BY ArrayFacts
<1>2. /\ lines \in Positive /\ n \in Positive
      /\ IsLcm(Quantities(vs), A) /\ IsLcm(Sessions(vs), S)
      /\ IsLcm({Cardinality(physicals(a)), n * A * S}, lines)
  BY LinesLcm
<1>3. \A v \in DOMAIN vs : Len(vs[v]) \in Nat /\ \A p \in DOMAIN vs[v] : vs[v][p] \in Nat
  BY <1>1
<1>4. \A v \in DOMAIN vs : Len(vs[v]) # 0 => Len(vs[v]) \in Quantities(vs)
  BY DEF Quantities
<1>5. \A v \in DOMAIN vs : \A p \in DOMAIN vs[v] : vs[v][p] # 0 => vs[v][p] \in Sessions(vs)
  BY DEF Sessions, Numbers
<1> HIDE DEF vs, n, A, S, lines
<1>6. A \in Positive /\ S \in Positive /\ Divides(n * A * S, lines)
  BY <1>2 DEF IsLcm
<1>7. PICK k \in Nat : lines = (n * A * S) * k
  BY <1>6 DEF Divides
<1>8. n \in Nat /\ A \in Nat /\ S \in Nat /\ lines \in Nat
  BY <1>2, <1>6 DEF Positive
<1>9. lines = n * (A * (S * k)) /\ S * k \in Nat /\ A * (S * k) \in Nat
  <2>1. (n * A * S) * k = (n * A) * (S * k)
    BY <1>8, TimesAssoc, TimesType
  <2>2. (n * A) * (S * k) = n * (A * (S * k))
    BY <1>8, TimesAssoc, TimesType
  <2> QED
    BY <1>7, <1>8, <2>1, <2>2, TimesType
<1>10. Divides(n, lines)
  BY <1>9 DEF Divides
<1>11. span = A * (S * k) /\ span \in Positive
  <2>1. span \in Positive
    BY <1>2, <1>8, <1>10, DividesBound
  <2>2. span = A * (S * k)
    BY <1>2, <1>9, DivExact
  <2> QED
    BY <2>1, <2>2
<1> HIDE DEF span
<1>12. ASSUME NEW v \in DOMAIN vs, Len(vs[v]) # 0
       PROVE  LET pspan == span \div Len(vs[v])
              IN  /\ Divides(Len(vs[v]), span) /\ pspan \in Positive
                  /\ \A p \in DOMAIN vs[v] : vs[v][p] # 0 => Divides(vs[v][p], pspan)
  <2> DEFINE m == Len(vs[v])
             pspan == span \div m
  <2>1. m \in Nat /\ Divides(m, A)
    BY <1>2, <1>3, <1>4, <1>12 DEF IsLcm
  <2> HIDE DEF m
  <2>2. PICK j \in Nat : A = m * j
    BY <2>1 DEF Divides
  <2>3. span = m * (j * (S * k)) /\ j * (S * k) \in Nat
    BY <1>9, <1>11, <2>1, <2>2, TimesAssoc, TimesType
  <2>4. Divides(m, span)
    BY <2>3 DEF Divides
  <2>5. m \in Positive /\ pspan \in Positive
    BY <1>11, <2>1, <2>4, DividesBound
  <2>6. pspan = j * (S * k)
    BY <2>3, <2>5, DivExact
  <2> HIDE DEF pspan
  <2>7. ASSUME NEW p \in DOMAIN vs[v], vs[v][p] # 0 PROVE Divides(vs[v][p], pspan)
    <3>1. vs[v][p] \in Nat /\ Divides(vs[v][p], S)
      BY <1>2, <1>3, <1>5, <2>7 DEF IsLcm
    <3>2. Divides(vs[v][p], S * k)
      BY <1>8, <3>1, DividesTimes
    <3>3. Divides(vs[v][p], j * (S * k))
      BY <1>9, <2>2, <3>1, <3>2, DividesTimes
    <3> QED
      BY <2>6, <3>3
  <2> QED
    BY <2>4, <2>5, <2>7 DEF pspan, m
<1> QED
  BY <1>2, <1>10, <1>11, <1>12 DEF span, vs, n, lines

-----------------------------------------------------------------------------
(***************************************************************************)
(* Cells                                                                   *)
(***************************************************************************)
ColumnNames == {"logical", "logical_volume", "access_pattern", "session", "physical"}

Cell == [column: ColumnNames, object: Seq(Nat), line: Nat, rowspan: Positive]

LEMMA Columns ==
    /\ "logical" \in ColumnNames /\ "logical_volume" \in ColumnNames /\ "session" \in ColumnNames
    /\ "access_pattern" \in ColumnNames /\ "physical" \in ColumnNames
BY DEF ColumnNames

\* The cells of a column of objects divide the lines it is given.
LEMMA ColumnTiles ==
    ASSUME NEW column, NEW objects, NEW n \in Positive, Len(objects) = n, DOMAIN objects = 1..n,
           NEW first \in Nat, NEW lines \in Positive, Divides(n, lines)
    PROVE  /\ lines \div n \in Positive
           /\ Tile(Column(column, objects, first, lines), first..(first + lines - 1))
           /\ \A i \in 1..n : first + (i - 1) * (lines \div n) \in Nat
<1> DEFINE span == lines \div n
           line(i) == first + (i - 1) * span
           C == Column(column, objects, first, lines)
           cell(i) == [column |-> column, object |-> objects[i], line |-> line(i), rowspan |-> span]
<1>1. span \in Positive /\ lines = n * span /\ span \in Nat /\ n \in Nat /\ lines \in Nat
  BY DividesBound DEF Positive
<1>2. C = {cell(i) : i \in 1..n}
  BY DEF Column
<1> HIDE DEF span, C
<1>3. ASSUME NEW i \in 1..n
      PROVE  /\ line(i) \in Nat /\ first <= line(i) /\ line(i) + span <= first + lines
             /\ Lines(cell(i)) = line(i)..(line(i) + span - 1)
  <2>1. i - 1 \in Nat /\ i - 1 < n
    BY <1>1
  <2>2. (i - 1) * span \in Nat
    BY <1>1, <2>1, TimesType
  <2>3. span * (i - 1) + span <= span * n
    BY <1>1, <2>1, TimesCancel
  <2>4. span * (i - 1) = (i - 1) * span /\ span * n = n * span
    BY <1>1, <2>1, TimesComm
  <2>5. Lines(cell(i)) = line(i)..(line(i) + span - 1)
    BY DEF Lines
  <2> DEFINE z == (i - 1) * span
  <2>6. z \in Nat /\ z + span <= lines
    BY <1>1, <2>2, <2>3, <2>4
  <2> HIDE DEF z
  <2>7. first + z \in Nat /\ first <= first + z /\ first + z + span <= first + lines
    BY <1>1, <2>6
  <2> QED
    BY <2>5, <2>7 DEF z
<1>4. ASSUME NEW i \in 1..n, NEW j \in 1..n, i < j PROVE line(i) + span <= line(j)
  <2>1. span * (i - 1) + span <= span * (j - 1)
    BY <1>1, <1>4, TimesCancel
  <2>2. span * (i - 1) = (i - 1) * span /\ span * (j - 1) = (j - 1) * span
    BY <1>1, TimesComm
  <2>3. (i - 1) * span \in Int /\ (j - 1) * span \in Int
    BY <1>1
  <2> DEFINE y == (i - 1) * span
             z == (j - 1) * span
  <2>4. y + span <= z /\ y \in Int /\ z \in Int
    BY <2>1, <2>2, <2>3
  <2> HIDE DEF y, z
  <2>5. first + y + span <= first + z
    BY <1>1, <2>4
  <2> QED
    BY <2>5 DEF y, z
<1>5. ASSUME NEW x \in first..(first + lines - 1)
      PROVE  \E i \in 1..n : x \in line(i)..(line(i) + span - 1)
  <2> DEFINE y == x - first
             q == y \div span
             r == y % span
  <2>1. y \in Nat /\ y < lines /\ x = first + y
    BY <1>1
  <2> HIDE DEF y
  <2>2. q \in Nat /\ r \in Nat /\ r < span /\ y = span * q + r
    BY <1>1, <2>1, DivMod
  <2> HIDE DEF q, r
  <2>3. span * q \in Nat /\ span * n = n * span /\ span * q = q * span
    BY <1>1, <2>2, TimesType, TimesComm
  <2>4. span * q < span * n
    BY <1>1, <2>1, <2>2, <2>3
  <2>5. q < n
    BY <1>1, <2>2, <2>4, TimesCancel
  <2>6. q + 1 \in 1..n /\ line(q + 1) = first + q * span
    BY <1>1, <2>2, <2>5
  <2> DEFINE z == q * span
  <2>7. z \in Nat /\ x = first + z + r /\ line(q + 1) = first + z
    BY <2>1, <2>2, <2>3, <2>6
  <2> HIDE DEF z, line
  <2>8. x \in line(q + 1)..(line(q + 1) + span - 1)
    BY <1>1, <2>2, <2>7
  <2> QED
    BY <2>6, <2>8
<1> HIDE DEF line
<1>6. UNION {Lines(c) : c \in C} = first..(first + lines - 1)
  <2>1. ASSUME NEW x \in first..(first + lines - 1) PROVE x \in UNION {Lines(c) : c \in C}
    <3>1. PICK i \in 1..n : x \in line(i)..(line(i) + span - 1)
      BY <1>5
    <3>2. cell(i) \in C /\ x \in Lines(cell(i))
      BY <1>2, <1>3, <3>1
    <3> QED
      BY <3>2
  <2>2. ASSUME NEW x \in UNION {Lines(c) : c \in C} PROVE x \in first..(first + lines - 1)
    <3>1. PICK i \in 1..n : x \in Lines(cell(i))
      BY <1>2
    <3>2. /\ line(i) \in Nat /\ first <= line(i) /\ line(i) + span <= first + lines
          /\ x \in line(i)..(line(i) + span - 1)
      BY <1>3, <3>1
    <3> QED
      BY <1>1, <3>2
  <2> QED
    BY <2>1, <2>2
<1>7. ASSUME NEW c \in C, NEW d \in C, c # d PROVE Lines(c) \cap Lines(d) = {}
  <2>1. PICK i \in 1..n, j \in 1..n : c = cell(i) /\ d = cell(j)
    BY <1>2
  <2>2. i # j
    BY <1>7, <2>1
  <2>3. /\ Lines(c) = line(i)..(line(i) + span - 1) /\ Lines(d) = line(j)..(line(j) + span - 1)
        /\ line(i) \in Nat /\ line(j) \in Nat
    BY <1>3, <2>1
  <2>4. line(i) + span <= line(j) \/ line(j) + span <= line(i)
    BY <1>1, <1>4, <2>2
  <2> QED
    BY <1>1, <2>3, <2>4
<1> QED
  BY <1>1, <1>3, <1>6, <1>7 DEF C, span, line, Tile

LEMMA FrontAppend ==
    ASSUME NEW o \in Seq(Nat), NEW i \in Nat
    PROVE  /\ Append(o, i) \in Seq(Nat) /\ Len(Append(o, i)) = Len(o) + 1
           /\ Front(Append(o, i)) = o
           /\ Append(o, i)[Len(o) + 1] = i /\ \A j \in 1..Len(o) : Append(o, i)[j] = o[j]
<1> DEFINE s == Append(o, i)
<1>1. /\ s \in Seq(Nat) /\ Len(s) = Len(o) + 1 /\ s[Len(o) + 1] = i /\ Len(o) \in Nat
      /\ \A j \in 1..Len(o) : s[j] = o[j]
  BY AppendProperties
<1> HIDE DEF s
<1>2. Front(s) = SubSeq(s, 1, Len(o))
  <2>1. Len(s) - 1 = Len(o)
    BY <1>1
  <2> QED
    BY <2>1 DEF Front
<1>3. SubSeq(s, 1, Len(o)) = [j \in 1..Len(o) |-> s[j]]
  BY <1>1
<1>4. o = [j \in 1..Len(o) |-> o[j]]
  BY <1>1
<1>5. Front(s) = o
  BY <1>1, <1>2, <1>3, <1>4
<1> QED
  BY <1>1, <1>5 DEF s

\* The cells an object's n parts divide its cell into.
LEMMA DivideFacts ==
    ASSUME NEW c \in Cell, NEW column \in ColumnNames, NEW n \in Nat, n # 0 => Divides(n, c.rowspan)
    PROVE  LET D == Divide(c, column, n)
           IN  /\ n = 0 => D = {}
               /\ n # 0 => Tile(D, Lines(c))
               /\ \A d \in D : /\ d \in Cell /\ d.column = column
                               /\ d.rowspan = c.rowspan \div n
                               /\ \E i \in 1..n : d.object = Append(c.object, i)
               /\ \A d, e \in D : d.object = e.object => d = e
<1> DEFINE D == Divide(c, column, n)
           objects == [i \in 1..n |-> Append(c.object, i)]
           span == c.rowspan \div n
           cell(i) == [column |-> column, object |-> Append(c.object, i),
                       line |-> c.line + (i - 1) * span, rowspan |-> span]
<1>1. c.object \in Seq(Nat) /\ c.line \in Nat /\ c.rowspan \in Positive
  BY DEF Cell
<1>2. objects \in Seq(Seq(Nat)) /\ Len(objects) = n /\ DOMAIN objects = 1..n
  <2>1. objects \in [1..n -> Seq(Nat)]
    BY <1>1, FrontAppend
  <2>2. objects \in Seq(Seq(Nat))
    BY <2>1, SeqDef
  <2>3. DOMAIN objects = 1..n
    OBVIOUS
  <2>4. Len(objects) = n
    <3> HIDE DEF objects
    <3> QED
      BY <2>2, <2>3, LenProperties
  <2> QED
    BY <2>2, <2>3, <2>4
<1>3. D = Column(column, objects, c.line, c.rowspan)
  BY DEF Divide
<1>4. D = {cell(i) : i \in 1..n}
  <2>1. \A i \in 1..n : objects[i] = Append(c.object, i)
    OBVIOUS
  <2> HIDE DEF objects
  <2> QED
    BY <1>2, <1>3, <2>1 DEF Column
<1> HIDE DEF D, objects
<1>5. CASE n = 0
  BY <1>4, <1>5 DEF D
<1>6. CASE n # 0
  <2>1. n \in Positive
    BY <1>6 DEF Positive
  <2>2. /\ span \in Positive /\ Tile(D, c.line..(c.line + c.rowspan - 1))
        /\ \A i \in 1..n : c.line + (i - 1) * span \in Nat
    BY <1>1, <1>2, <1>3, <1>6, <2>1, ColumnTiles
  <2>3. Lines(c) = c.line..(c.line + c.rowspan - 1)
    BY DEF Lines
  <2> HIDE DEF span
  <2>4. ASSUME NEW i \in 1..n PROVE cell(i) \in Cell
    <3>1. Append(c.object, i) \in Seq(Nat)
      BY <1>1, FrontAppend
    <3> QED
      BY <2>2, <3>1 DEF Cell
  <2>5. ASSUME NEW i \in 1..n, NEW j \in 1..n, Append(c.object, i) = Append(c.object, j)
        PROVE  i = j
    <3>1. i \in Nat /\ j \in Nat
      OBVIOUS
    <3>2. Append(c.object, i)[Len(c.object) + 1] = i /\ Append(c.object, j)[Len(c.object) + 1] = j
      BY <1>1, <3>1, FrontAppend
    <3> QED
      BY <2>5, <3>2
  <2>6. ASSUME NEW d \in D
        PROVE  /\ d \in Cell /\ d.column = column /\ d.rowspan = span
               /\ \E i \in 1..n : d = cell(i) /\ d.object = Append(c.object, i)
    BY <1>4, <2>4
  <2>7. ASSUME NEW d \in D, NEW e \in D, d.object = e.object PROVE d = e
    <3>1. PICK i \in 1..n : d = cell(i) /\ d.object = Append(c.object, i)
      BY <2>6
    <3>2. PICK j \in 1..n : e = cell(j) /\ e.object = Append(c.object, j)
      BY <2>6
    <3>3. i = j
      BY <2>5, <2>7, <3>1, <3>2
    <3> QED
      BY <3>1, <3>2, <3>3
  <2> QED
    BY <1>6, <2>2, <2>3, <2>6, <2>7 DEF D, span
<1> QED
  BY <1>5, <1>6

\* Cells of objects with k numbers, of array l, one cell for each.
Level(P, l, k) ==
    /\ P \in SUBSET Cell
    /\ \A c \in P : Len(c.object) = k /\ c.object[1] = l
    /\ \A c, d \in P : c.object = d.object => c = d

\* The parts of the cells P, n[c] of cell c.
Parts(P, column, n) == UNION {Divide(c, column, n[c]) : c \in P}

\* Those of the cells T that show parts of what c shows.
ChildrenIn(T, c) == {d \in T : Front(d.object) = c.object}

\* Each cell of P is divided by n[c] cells of Q, which are a level.
Divided(P, Q, n, l, k, column) ==
    /\ Level(Q, l, k + 1)
    /\ \A d \in Q : d.column = column
    /\ \A d \in Q : \E c \in P : /\ n[c] # 0 /\ d.rowspan = c.rowspan \div n[c]
                                 /\ \E i \in 1..n[c] : d.object = Append(c.object, i)
    /\ \A c \in P : ChildrenIn(Q, c) # {} => Tile(ChildrenIn(Q, c), Lines(c))

\* When every cell of a level is divided by its parts, these make the next
\* level, and the parts of each cell are its children there.
LEMMA NextLevel ==
    ASSUME NEW P, NEW l \in Nat, NEW k \in Positive, Level(P, l, k), NEW column \in ColumnNames,
           NEW n \in [P -> Nat], \A c \in P : n[c] # 0 => Divides(n[c], c.rowspan)
    PROVE  Divided(P, Parts(P, column, n), n, l, k, column)
<1> DEFINE Q == Parts(P, column, n)
<1>1. \A d : d \in Q <=> \E c \in P : d \in Divide(c, column, n[c])
  BY DEF Parts
<1> HIDE DEF Q
<1>2. ASSUME NEW c \in P
      PROVE  LET D == Divide(c, column, n[c])
             IN  /\ c \in Cell /\ n[c] \in Nat
                 /\ n[c] = 0 => D = {}
                 /\ n[c] # 0 => Tile(D, Lines(c))
                 /\ \A d \in D : /\ d \in Cell /\ d.column = column
                                 /\ d.rowspan = c.rowspan \div n[c]
                                 /\ \E i \in 1..n[c] : d.object = Append(c.object, i)
                 /\ \A d, e \in D : d.object = e.object => d = e
  <2>1. c \in Cell /\ n[c] \in Nat /\ (n[c] # 0 => Divides(n[c], c.rowspan))
    BY DEF Level
  <2> DEFINE m == n[c]
  <2>2. m \in Nat /\ (m # 0 => Divides(m, c.rowspan))
    BY <2>1
  <2> HIDE DEF m
  <2>3. LET D == Divide(c, column, m)
        IN  /\ m = 0 => D = {}
            /\ m # 0 => Tile(D, Lines(c))
            /\ \A d \in D : /\ d \in Cell /\ d.column = column
                            /\ d.rowspan = c.rowspan \div m
                            /\ \E i \in 1..m : d.object = Append(c.object, i)
            /\ \A d, e \in D : d.object = e.object => d = e
    BY <2>1, <2>2, DivideFacts
  <2> QED
    BY <2>1, <2>3 DEF m
<1>3. ASSUME NEW c \in P, NEW d \in Divide(c, column, n[c])
      PROVE  /\ d \in Cell /\ d.column = column /\ d.rowspan = c.rowspan \div n[c] /\ n[c] # 0
             /\ \E i \in 1..n[c] : d.object = Append(c.object, i)
             /\ Len(d.object) = k + 1 /\ d.object[1] = l /\ Front(d.object) = c.object
  <2>1. /\ d \in Cell /\ d.column = column /\ d.rowspan = c.rowspan \div n[c] /\ n[c] # 0
        /\ \E i \in 1..n[c] : d.object = Append(c.object, i)
    BY <1>2
  <2>2. PICK i \in 1..n[c] : d.object = Append(c.object, i)
    BY <2>1
  <2>3. c.object \in Seq(Nat) /\ Len(c.object) = k /\ c.object[1] = l /\ i \in Nat
    BY <1>2 DEF Level, Cell
  <2>4. 1 \in 1..Len(c.object)
    BY <2>3 DEF Positive
  <2>5. Len(d.object) = k + 1 /\ d.object[1] = l /\ Front(d.object) = c.object
    <3> DEFINE o == c.object
    <3>1. o \in Seq(Nat) /\ Len(o) = k /\ o[1] = l /\ i \in Nat /\ 1 \in 1..Len(o)
      BY <2>3, <2>4
    <3> HIDE DEF o
    <3>2. /\ Len(Append(o, i)) = Len(o) + 1 /\ Front(Append(o, i)) = o
          /\ \A j \in 1..Len(o) : Append(o, i)[j] = o[j]
      BY <3>1, FrontAppend
    <3> QED
      BY <2>2, <3>1, <3>2 DEF o
  <2> QED
    BY <2>1, <2>5
<1>4. ASSUME NEW c \in P, NEW d \in Q, Front(d.object) = c.object PROVE d \in Divide(c, column, n[c])
  <2>1. PICK e \in P : d \in Divide(e, column, n[e])
    BY <1>1
  <2>2. e.object = c.object
    BY <1>3, <1>4, <2>1
  <2>3. e = c
    BY <2>2 DEF Level
  <2> QED
    BY <2>1, <2>3
<1>5. ASSUME NEW d \in Q, NEW e \in Q, d.object = e.object PROVE d = e
  <2>1. PICK c \in P : d \in Divide(c, column, n[c])
    BY <1>1
  <2>2. Front(e.object) = c.object
    BY <1>3, <1>5, <2>1
  <2>3. e \in Divide(c, column, n[c])
    BY <1>4, <2>2
  <2> QED
    BY <1>2, <1>5, <2>1, <2>3
<1>6. Level(Q, l, k + 1)
  BY <1>1, <1>3, <1>5 DEF Level
<1>7. ASSUME NEW d \in Q
      PROVE  /\ d.column = column
             /\ \E c \in P : /\ n[c] # 0 /\ d.rowspan = c.rowspan \div n[c]
                             /\ \E i \in 1..n[c] : d.object = Append(c.object, i)
  <2>1. PICK c \in P : d \in Divide(c, column, n[c])
    BY <1>1
  <2> QED
    BY <1>3, <2>1
<1>8. ASSUME NEW c \in P PROVE ChildrenIn(Q, c) # {} => Tile(ChildrenIn(Q, c), Lines(c))
  <2>1. ChildrenIn(Q, c) = Divide(c, column, n[c])
    BY <1>1, <1>3, <1>4 DEF ChildrenIn
  <2> QED
    BY <1>2, <2>1
<1> QED
  BY <1>6, <1>7, <1>8 DEF Q, Divided

LEMMA FrontFacts ==
    ASSUME NEW o \in Seq(Nat), Len(o) \in Positive
    PROVE  /\ Front(o) \in Seq(Nat) /\ Len(Front(o)) = Len(o) - 1
           /\ Front(o) = <<>> \/ Front(o)[1] = o[1]
<1>1. PICK n \in Nat : Len(o) = n + 1 /\ n = Len(o) - 1
  BY DEF Positive
<1>2. Front(o) = SubSeq(o, 1, n)
  BY <1>1 DEF Front
<1>3. \A i \in 1..n : o[i] \in Nat
  BY <1>1
<1>4. /\ SubSeq(o, 1, n) \in Seq(Nat) /\ Len(SubSeq(o, 1, n)) = IF 1 <= n THEN n - 1 + 1 ELSE 0
      /\ \A i \in 1..(n - 1 + 1) : SubSeq(o, 1, n)[i] = o[1 + i - 1]
  <2>1. 1 \in Int /\ n \in Int
    OBVIOUS
  <2> QED
    BY <1>3, <2>1, SubSeqProperties
<1>5. Front(o) \in Seq(Nat) /\ Len(Front(o)) = n
  BY <1>2, <1>4
<1>6. CASE n = 0
  BY <1>1, <1>5, <1>6, EmptySeq
<1>7. CASE n # 0
  <2>1. 1 \in 1..(n - 1 + 1) /\ 1 + 1 - 1 = 1
    BY <1>7
  <2> QED
    BY <1>1, <1>2, <1>4, <1>5, <2>1
<1> QED
  BY <1>6, <1>7

\* What a block holds besides drives, and its drives.
Tree(l, a, first) ==
    LET vs == a.logical_volumes
        logical == Column("logical", <<<<l>>>>, first, lines_quantity(a))
        volumes == UNION {Divide(c, "logical_volume", Len(vs)) : c \in logical}
        bound == UNION {Divide(c, "access_pattern", Len(vs[c.object[2]])) : c \in volumes}
    IN  logical \cup volumes \cup bound
        \cup UNION {Divide(c, "session", vs[c.object[2]][c.object[3]]) : c \in bound}

Beside(a, first) == Column("physical", Sorted(physicals(a)), first, lines_quantity(a))

LEMMA BlockParts ==
    ASSUME NEW l, NEW a, NEW first
    PROVE  Block(l, a, first) = Tree(l, a, first) \cup Beside(a, first)
BY DEF Block, Tree, Beside

\* The cell of array l.
LogicalCell(l, a, first) ==
    [column |-> "logical", object |-> <<l>>, line |-> first, rowspan |-> lines_quantity(a)]

\* A tree has one cell of the array, and its children tile every cell.
LEMMA TreeFacts ==
    ASSUME NEW a \in Array, NEW l \in Positive, NEW first \in Nat
    PROVE  LET T == Tree(l, a, first)
           IN  /\ T \in SUBSET Cell /\ LogicalCell(l, a, first) \in T
               /\ \A c \in T : /\ c.object[1] = l /\ Len(c.object) \in Positive /\ c.column # "physical"
                               /\ c.column = "logical" => c = LogicalCell(l, a, first)
               /\ \A c \in T : ChildrenIn(T, c) # {} => Tile(ChildrenIn(T, c), Lines(c))
<1> DEFINE vs == a.logical_volumes
           lines == lines_quantity(a)
           c0 == LogicalCell(l, a, first)
           P1 == Column("logical", <<<<l>>>>, first, lines)
           n1 == [c \in P1 |-> Len(vs)]
           P2 == UNION {Divide(c, "logical_volume", Len(vs)) : c \in P1}
           n2 == [c \in P2 |-> Len(vs[c.object[2]])]
           P3 == UNION {Divide(c, "access_pattern", Len(vs[c.object[2]])) : c \in P2}
           n3 == [c \in P3 |-> vs[c.object[2]][c.object[3]]]
           P4 == UNION {Divide(c, "session", vs[c.object[2]][c.object[3]]) : c \in P3}
<1>1. vs \in Seq(Seq(Nat)) /\ Len(vs) \in Nat /\ DOMAIN vs = 1..Len(vs) /\ lines \in Positive
  <2>1. vs \in Seq(Seq(Nat)) /\ lines \in Positive
    BY ArrayFacts, LinesLcm
  <2> HIDE DEF vs
  <2> QED
    BY <2>1
<1>2. /\ \A v \in DOMAIN vs : vs[v] \in Seq(Nat) /\ Len(vs[v]) \in Nat /\ DOMAIN vs[v] = 1..Len(vs[v])
      /\ \A v \in DOMAIN vs : \A p \in DOMAIN vs[v] : vs[v][p] \in Nat
  <2>1. \A s \in Seq(Nat) : Len(s) \in Nat /\ DOMAIN s = 1..Len(s) /\ \A p \in DOMAIN s : s[p] \in Nat
    OBVIOUS
  <2> HIDE DEF vs
  <2>2. \A v \in DOMAIN vs : vs[v] \in Seq(Nat)
    BY <1>1
  <2> QED
    BY <2>1, <2>2, Zenon
<1>3. Tree(l, a, first) = P1 \cup P2 \cup P3 \cup P4
  BY DEF Tree
<1>4. P1 = {c0}
  <2>1. Len(<<<<l>>>>) = 1 /\ DOMAIN <<<<l>>>> = {1} /\ <<<<l>>>>[1] = <<l>>
    OBVIOUS
  <2>2. lines \div 1 = lines /\ first + (1 - 1) * lines = first
    BY <1>1 DEF Positive
  <2> QED
    BY <2>1, <2>2 DEF Column, LogicalCell
<1>5. Len(vs) # 0 =>
          LET span == lines \div Len(vs)
          IN  /\ Divides(Len(vs), lines) /\ span \in Positive
              /\ \A v \in DOMAIN vs : Len(vs[v]) # 0 =>
                    /\ Divides(Len(vs[v]), span) /\ span \div Len(vs[v]) \in Positive
                    /\ \A p \in DOMAIN vs[v] : vs[v][p] # 0 => Divides(vs[v][p], span \div Len(vs[v]))
  <2>1. Len(vs) # 0 => vs # <<>>
    BY EmptySeq
  <2> QED
    BY <2>1, Spans
<1>6. c0 \in Cell /\ c0.object = <<l>> /\ c0.rowspan = lines /\ c0.column = "logical"
  <2> DEFINE o == <<l>>
             column == "logical"
  <2>1. o \in Seq(Nat) /\ lines \in Positive
    BY <1>1 DEF Positive
  <2>2. column \in ColumnNames
    BY Columns, Zenon
  <2>3. c0 = [column |-> column, object |-> o, line |-> first, rowspan |-> lines]
    BY DEF LogicalCell
  <2> HIDE DEF o, c0, lines, column
  <2>4. c0 \in Cell /\ c0.object = o /\ c0.rowspan = lines /\ c0.column = column
    BY <2>1, <2>2, <2>3 DEF Cell
  <2> QED
    BY <2>4 DEF o, column
<1> HIDE DEF vs, lines, c0, P1
<1>7. Level(P1, l, 1)
  BY <1>4, <1>6 DEF Level
<1>8. /\ Level(P2, l, 2) /\ \A d \in P2 : d.column = "logical_volume"
      /\ \A d \in P2 : /\ Len(vs) # 0 /\ d.rowspan = lines \div Len(vs)
                       /\ \E i \in 1..Len(vs) : d.object = Append(<<l>>, i)
      /\ \A c \in P1 : ChildrenIn(P2, c) # {} => Tile(ChildrenIn(P2, c), Lines(c))
  <2> DEFINE k == 1
             column == "logical_volume"
  <2>1. n1 \in [P1 -> Nat] /\ \A c \in P1 : n1[c] = Len(vs)
    BY <1>1
  <2>2. P2 = Parts(P1, column, n1)
    BY <2>1 DEF Parts
  <2> HIDE DEF n1
  <2>3. \A c \in P1 : n1[c] # 0 => Divides(n1[c], c.rowspan)
    BY <1>4, <1>5, <1>6, <2>1
  <2>4. k \in Positive /\ k + 1 = 2 /\ l \in Nat /\ Level(P1, l, k)
    BY <1>7 DEF Positive
  <2>5. column \in ColumnNames
    BY Columns, Zenon
  <2> HIDE DEF k, P2, column
  <2>6. Divided(P1, P2, n1, l, k, column)
    BY <2>1, <2>2, <2>3, <2>4, <2>5, NextLevel
  <2>7. Level(P2, l, 2)
    BY <2>4, <2>6 DEF Divided
  <2>8. (\A d \in P2 : d.column = column)
        /\ \A c \in P1 : ChildrenIn(P2, c) # {} => Tile(ChildrenIn(P2, c), Lines(c))
    BY <2>6, Zenon DEF Divided
  <2>9. ASSUME NEW d \in P2
        PROVE  /\ Len(vs) # 0 /\ d.rowspan = lines \div Len(vs)
               /\ \E i \in 1..Len(vs) : d.object = Append(<<l>>, i)
    <3>1. PICK c \in P1 : /\ n1[c] # 0 /\ d.rowspan = c.rowspan \div n1[c]
                          /\ \E i \in 1..n1[c] : d.object = Append(c.object, i)
      BY <2>6, Zenon DEF Divided
    <3>2. n1[c] = Len(vs) /\ c.object = <<l>> /\ c.rowspan = lines
      BY <1>4, <1>6, <2>1, Zenon
    <3> QED
      BY <3>1, <3>2, Zenon
  <2> QED
    BY <2>7, <2>8, <2>9, Zenon DEF column
<1> HIDE DEF P2
<1>9. ASSUME NEW c \in P2
      PROVE  /\ c.object[2] \in DOMAIN vs /\ c.rowspan = lines \div Len(vs) /\ Len(vs) # 0
             /\ c.object \in Seq(Nat) /\ Len(c.object) = 2
  <2>1. PICK i \in 1..Len(vs) : c.object = Append(<<l>>, i)
    BY <1>8
  <2>2. c.object[2] = i
    BY <1>1, <2>1
  <2> QED
    BY <1>1, <1>8, <2>2 DEF Level, Cell
<1>10. /\ Level(P3, l, 3) /\ \A d \in P3 : d.column = "access_pattern"
       /\ \A d \in P3 : LET v == d.object[2]
                        IN  /\ Len(vs) # 0 /\ v \in DOMAIN vs /\ Len(vs[v]) # 0
                            /\ d.rowspan = (lines \div Len(vs)) \div Len(vs[v])
                            /\ d.object[3] \in DOMAIN vs[v]
       /\ \A c \in P2 : ChildrenIn(P3, c) # {} => Tile(ChildrenIn(P3, c), Lines(c))
  <2> DEFINE k == 2
             column == "access_pattern"
  <2>1. n2 \in [P2 -> Nat] /\ \A c \in P2 : n2[c] = Len(vs[c.object[2]])
    BY <1>2, <1>9
  <2>2. P3 = Parts(P2, column, n2)
    BY <2>1 DEF Parts
  <2> HIDE DEF n2
  <2>3. \A c \in P2 : n2[c] # 0 => Divides(n2[c], c.rowspan)
    BY <1>5, <1>9, <2>1
  <2>4. k \in Positive /\ k + 1 = 3 /\ l \in Nat /\ Level(P2, l, k)
    BY <1>8 DEF Positive
  <2>5. column \in ColumnNames
    BY Columns, Zenon
  <2> HIDE DEF k, P3, column
  <2>6. Divided(P2, P3, n2, l, k, column)
    BY <2>1, <2>2, <2>3, <2>4, <2>5, NextLevel
  <2>7. ASSUME NEW d \in P3
        PROVE  LET v == d.object[2]
               IN  /\ Len(vs) # 0 /\ v \in DOMAIN vs /\ Len(vs[v]) # 0
                   /\ d.rowspan = (lines \div Len(vs)) \div Len(vs[v])
                   /\ d.object[3] \in DOMAIN vs[v]
    <3>1. PICK c \in P2 : /\ n2[c] # 0 /\ d.rowspan = c.rowspan \div n2[c]
                          /\ \E i \in 1..n2[c] : d.object = Append(c.object, i)
      BY <2>6 DEF Divided
    <3>2. PICK i \in 1..n2[c] : d.object = Append(c.object, i)
      BY <3>1
    <3>3. d.object[3] = i /\ d.object[2] = c.object[2]
      <4>1. c.object \in Seq(Nat) /\ Len(c.object) = 2 /\ i \in Nat
        BY <1>9, <2>1
      <4> DEFINE o == c.object
      <4>2. o \in Seq(Nat) /\ Len(o) = 2 /\ d.object = Append(o, i)
        BY <3>2, <4>1
      <4> HIDE DEF o
      <4>3. Append(o, i)[Len(o) + 1] = i /\ \A j \in 1..Len(o) : Append(o, i)[j] = o[j]
        BY <4>1, <4>2, FrontAppend
      <4>4. Append(o, i)[3] = i /\ Append(o, i)[2] = o[2]
        BY <4>2, <4>3
      <4> QED
        BY <4>2, <4>4 DEF o
    <3> QED
      BY <1>2, <1>9, <2>1, <3>1, <3>3
  <2> QED
    BY <2>4, <2>6, <2>7 DEF column, Divided
<1> HIDE DEF P3
<1>11. /\ Level(P4, l, 4) /\ \A d \in P4 : d.column = "session"
       /\ \A c \in P3 : ChildrenIn(P4, c) # {} => Tile(ChildrenIn(P4, c), Lines(c))
  <2> DEFINE k == 3
             column == "session"
  <2>1. n3 \in [P3 -> Nat] /\ \A c \in P3 : n3[c] = vs[c.object[2]][c.object[3]]
    BY <1>2, <1>10
  <2>2. P4 = Parts(P3, column, n3)
    BY <2>1 DEF Parts
  <2> HIDE DEF n3
  <2>3. \A c \in P3 : n3[c] # 0 => Divides(n3[c], c.rowspan)
    BY <1>5, <1>10, <2>1
  <2>4. k \in Positive /\ k + 1 = 4 /\ l \in Nat /\ Level(P3, l, k)
    BY <1>10 DEF Positive
  <2>5. column \in ColumnNames
    BY Columns, Zenon
  <2> HIDE DEF k, P4, column
  <2>6. Divided(P3, P4, n3, l, k, column)
    BY <2>1, <2>2, <2>3, <2>4, <2>5, NextLevel
  <2> QED
    BY <2>4, <2>6 DEF column, Divided
<1> HIDE DEF P4
<1> DEFINE T == Tree(l, a, first)
<1>12. T \in SUBSET Cell /\ c0 \in T
  BY <1>3, <1>4, <1>7, <1>8, <1>10, <1>11 DEF Level
<1>13. ASSUME NEW c \in T
       PROVE  /\ c.object[1] = l /\ Len(c.object) \in Positive /\ c.column # "physical"
              /\ c.column = "logical" => c = c0
  BY <1>3, <1>4, <1>6, <1>7, <1>8, <1>10, <1>11 DEF Level, Positive
<1>14. ASSUME NEW c \in T, NEW d \in T, Front(d.object) = c.object
       PROVE  Len(d.object) = Len(c.object) + 1
  <2>1. d.object \in Seq(Nat) /\ Len(d.object) \in Positive
    BY <1>12, <1>13 DEF Cell
  <2> DEFINE o == d.object
             p == c.object
  <2>2. o \in Seq(Nat) /\ Len(o) \in Positive /\ Front(o) = p
    BY <1>14, <2>1
  <2> HIDE DEF o, p
  <2>3. Len(p) = Len(o) - 1
    BY <2>2, FrontFacts
  <2>4. Len(o) = Len(p) + 1
    BY <2>2, <2>3 DEF Positive
  <2> QED
    BY <2>4 DEF o, p
<1>15. /\ \A c \in P1 : Len(c.object) = 1
       /\ \A c \in P2 : Len(c.object) = 2
       /\ \A c \in P3 : Len(c.object) = 3
       /\ \A c \in P4 : Len(c.object) = 4
  BY <1>7, <1>8, <1>10, <1>11 DEF Level
<1>16. T = P1 \cup P2 \cup P3 \cup P4
  BY <1>3
<1> HIDE DEF T
<1>17. ASSUME NEW c \in T, NEW d \in T, Front(d.object) = c.object
       PROVE  (c \in P1 => d \in P2) /\ (c \in P2 => d \in P3) /\ (c \in P3 => d \in P4) /\ c \notin P4
  <2> DEFINE x == Len(c.object)
             y == Len(d.object)
  <2>1. y = x + 1
    BY <1>14, <1>17
  <2>2. /\ (c \in P1 => x = 1) /\ (c \in P2 => x = 2) /\ (c \in P3 => x = 3) /\ (c \in P4 => x = 4)
        /\ (d \in P1 => y = 1) /\ (d \in P2 => y = 2) /\ (d \in P3 => y = 3) /\ (d \in P4 => y = 4)
        /\ d \in P1 \/ d \in P2 \/ d \in P3 \/ d \in P4
    BY <1>15, <1>16
  <2> HIDE DEF x, y
  <2> QED
    BY <2>1, <2>2
<1>18. ASSUME NEW c \in T PROVE ChildrenIn(T, c) # {} => Tile(ChildrenIn(T, c), Lines(c))
  <2>1. CASE c \in P1
    <3>1. ChildrenIn(T, c) = ChildrenIn(P2, c)
      BY <1>16, <1>17, <2>1 DEF ChildrenIn
    <3> QED
      BY <1>8, <2>1, <3>1
  <2>2. CASE c \in P2
    <3>1. ChildrenIn(T, c) = ChildrenIn(P3, c)
      BY <1>16, <1>17, <2>2 DEF ChildrenIn
    <3> QED
      BY <1>10, <2>2, <3>1
  <2>3. CASE c \in P3
    <3>1. ChildrenIn(T, c) = ChildrenIn(P4, c)
      BY <1>16, <1>17, <2>3 DEF ChildrenIn
    <3> QED
      BY <1>11, <2>3, <3>1
  <2>4. CASE c \in P4
    <3>1. ChildrenIn(T, c) = {}
      BY <1>17, <2>4 DEF ChildrenIn
    <3> QED
      BY <3>1
  <2> QED
    BY <1>16, <2>1, <2>2, <2>3, <2>4
<1> QED
  BY <1>12, <1>13, <1>18 DEF T, c0

-----------------------------------------------------------------------------
(***************************************************************************)
(* Drives                                                                  *)
(***************************************************************************)

\* The cells of a column.
LEMMA ColumnCells ==
    ASSUME NEW column \in ColumnNames, NEW n \in Nat, NEW objects \in [1..n -> Seq(Nat)],
           Len(objects) = n, NEW first \in Nat, NEW lines,
           n # 0 => lines \in Positive /\ Divides(n, lines)
    PROVE  LET C == Column(column, objects, first, lines)
           IN  /\ \A c \in C : /\ c \in Cell /\ c.column = column
                               /\ \E i \in 1..n : c.object = objects[i]
               /\ IF n = 0 THEN C = {} ELSE Tile(C, first..(first + lines - 1))
<1> DEFINE C == Column(column, objects, first, lines)
           span == lines \div n
           cell(i) == [column |-> column, object |-> objects[i],
                       line |-> first + (i - 1) * span, rowspan |-> span]
<1>1. C = {cell(i) : i \in 1..n}
  BY DEF Column
<1> HIDE DEF C
<1>2. CASE n = 0
  BY <1>1, <1>2 DEF C
<1>3. CASE n # 0
  <2>1. n \in Positive /\ DOMAIN objects = 1..n
    BY <1>3 DEF Positive
  <2>2. /\ span \in Positive /\ Tile(C, first..(first + lines - 1))
        /\ \A i \in 1..n : first + (i - 1) * span \in Nat
    BY <1>3, <2>1, ColumnTiles DEF C
  <2> HIDE DEF span
  <2>3. ASSUME NEW i \in 1..n PROVE cell(i) \in Cell
    BY <2>2 DEF Cell
  <2>4. ASSUME NEW c \in C
        PROVE  c \in Cell /\ c.column = column /\ \E i \in 1..n : c.object = objects[i]
    BY <1>1, <2>3
  <2> QED
    BY <1>3, <2>2, <2>4 DEF C
<1> QED
  BY <1>2, <1>3

LEMMA SortedFacts ==
    ASSUME NEW S \in SUBSET Nat, IsFiniteSet(S)
    PROVE  /\ Cardinality(S) \in Nat /\ Len(Sorted(S)) = Cardinality(S)
           /\ Sorted(S) \in [1..Cardinality(S) -> Seq(Nat)]
           /\ \A i \in 1..Cardinality(S) : \E id \in S : Sorted(S)[i] = <<0, id>>
<1> DEFINE n == Cardinality(S)
           f == SetToSeq(S)
           s == [i \in DOMAIN f |-> <<0, f[i]>>]
<1>1. n \in Nat /\ ExistsBijection(1..n, S)
  BY FS_CardinalityType
<1>2. \E g \in [1..n -> S] : IsInjective(g)
  BY <1>1 DEF ExistsBijection, Bijection, Injection
<1>3. f \in [1..n -> S]
  BY <1>2 DEF SetToSeq
<1>4. Sorted(S) = s
  BY DEF Sorted
<1> HIDE DEF n, f
<1>5. DOMAIN s = 1..n /\ \A i \in 1..n : f[i] \in S /\ s[i] = <<0, f[i]>>
  BY <1>3
<1>6. \A i \in 1..n : <<0, f[i]>> \in Seq(Nat)
  <2>1. \A x \in Nat : <<0, x>> \in Seq(Nat)
    OBVIOUS
  <2>2. \A i \in 1..n : f[i] \in Nat
    BY <1>5
  <2> QED
    BY <2>1, <2>2
<1>7. s \in [1..n -> Seq(Nat)]
  BY <1>3, <1>6
<1> HIDE DEF s
<1>8. s \in Seq(Seq(Nat))
  BY <1>1, <1>7, SeqDef
<1>9. Len(s) = n
  BY <1>1, <1>5, <1>8, LenProperties
<1> QED
  BY <1>1, <1>4, <1>5, <1>7, <1>9 DEF n

\* A column of drives.
LEMMA DriveCells ==
    ASSUME NEW S \in SUBSET Nat, IsFiniteSet(S), NEW first \in Nat, NEW lines,
           S # {} => lines \in Positive /\ Divides(Cardinality(S), lines)
    PROVE  LET C == Column("physical", Sorted(S), first, lines)
           IN  /\ \A c \in C : /\ c \in Cell /\ c.column = "physical"
                               /\ \E id \in S : c.object = <<0, id>>
               /\ IF S = {} THEN C = {} ELSE Tile(C, first..(first + lines - 1))
<1> DEFINE n == Cardinality(S)
           objects == Sorted(S)
           column == "physical"
           C == Column(column, objects, first, lines)
<1>1. /\ n \in Nat /\ Len(objects) = n /\ objects \in [1..n -> Seq(Nat)]
      /\ \A i \in 1..n : \E id \in S : objects[i] = <<0, id>>
  BY SortedFacts
<1>2. n = 0 <=> S = {}
  BY FS_EmptySet
<1>3. column \in ColumnNames
  BY Columns
<1> HIDE DEF n, objects, column
<1>4. n # 0 => lines \in Positive /\ Divides(n, lines)
  BY <1>2 DEF n
<1>5. /\ \A c \in C : c \in Cell /\ c.column = column /\ \E i \in 1..n : c.object = objects[i]
      /\ IF n = 0 THEN C = {} ELSE Tile(C, first..(first + lines - 1))
  BY <1>1, <1>3, <1>4, ColumnCells
<1> HIDE DEF C
<1> QED
  BY <1>1, <1>2, <1>5 DEF C, n, objects, column

LEMMA PhysicalsNumbers ==
    ASSUME NEW a \in Array
    PROVE  /\ physicals(a) \in SUBSET Nat
           /\ \A id \in physicals(a) : id \in Members(a) \/ (id > 99 /\ Degraded(a))
           /\ Members(a) \in SUBSET Drives
<1>1. /\ a.slaves \in SUBSET Drives /\ a.cached_by \in SUBSET Drives
      /\ a.raid_disks \in 1..MaxRaidDisks
  BY DEF Array
<1>2. Cardinality(a.slaves) \in Nat
  <2>1. \A x \in 1..99 : x \in Nat /\ x <= 99
    OBVIOUS
  <2>2. \A x \in a.slaves : x \in Nat /\ x <= 99
    BY <1>1, <2>1, DrivesAssumption, Zenon
  <2>3. a.slaves \in SUBSET Nat /\ 99 \in Nat
    BY <2>2
  <2>4. IsFiniteSet(a.slaves)
    BY <2>2, <2>3, FS_BoundedSetOfNaturals
  <2> QED
    BY <2>4, FS_CardinalityType
<1>3. ASSUME NEW i \in (Cardinality(a.slaves) + 1)..a.raid_disks
      PROVE  Slot(i) \in Nat /\ Slot(i) > 99 /\ Degraded(a)
  BY <1>1, <1>2, BoundsAssumption DEF Slot, Degraded
<1>4. Members(a) \in SUBSET Drives /\ Drives \in SUBSET Nat
  BY <1>1, DrivesAssumption DEF Members
<1> QED
  BY <1>3, <1>4 DEF physicals

LEMMA BesideFacts ==
    ASSUME NEW a \in Array, NEW first \in Nat
    PROVE  /\ \A c \in Beside(a, first) : /\ c \in Cell /\ c.column = "physical"
                                          /\ \E id \in physicals(a) : c.object = <<0, id>>
           /\ Tile(Beside(a, first), first..(first + lines_quantity(a) - 1))
<1> DEFINE S == physicals(a)
           lines == lines_quantity(a)
<1>1. S \in SUBSET Nat /\ IsFiniteSet(S) /\ Cardinality(S) \in Positive
  BY ArrayFacts, PhysicalsNumbers
<1>2. lines \in Positive /\ Divides(Cardinality(S), lines)
  BY LinesLcm
<1>3. S # {}
  BY <1>1, FS_EmptySet DEF Positive
<1>4. Beside(a, first) = Column("physical", Sorted(S), first, lines)
  BY DEF Beside
<1> HIDE DEF S, lines
<1>5. LET C == Column("physical", Sorted(S), first, lines)
      IN  /\ \A c \in C : c \in Cell /\ c.column = "physical" /\ \E id \in S : c.object = <<0, id>>
          /\ IF S = {} THEN C = {} ELSE Tile(C, first..(first + lines - 1))
  BY <1>1, <1>2, DriveCells
<1> QED
  BY <1>3, <1>4, <1>5 DEF S, lines

\* What is shown next: the new cells, and the old ones, of which only those
\* whose object is shown again change, in their rowspan.
LEMMA ShownFacts ==
    ASSUME NEW old \in SUBSET Cell, NEW new \in SUBSET Cell
    PROVE  LET S == Shown(old, new)
           IN  /\ S \in SUBSET Cell
               /\ \A c \in new : c \in S
               /\ \A b \in old : (\A n \in new : n.object # b.object) => b \in S
               /\ \A c \in S : c \in new \/ \E b \in old :
                      /\ c.object = b.object /\ c.column = b.column
                      /\ (\A n \in new : n.object # b.object) => c = b
<1> DEFINE S == Shown(old, new)
           again(b) == \E n \in new : n.object = b.object
           span(b) == (CHOOSE n \in new : n.object = b.object).rowspan
           redrawn(b) == IF again(b) THEN [b EXCEPT !.rowspan = span(b)] ELSE b
<1>1. S = {redrawn(b) : b \in old} \cup new
  BY DEF Shown
<1> HIDE DEF S
<1>2. ASSUME NEW b \in old
      PROVE  /\ redrawn(b) \in Cell
             /\ redrawn(b).object = b.object /\ redrawn(b).column = b.column
             /\ (\A n \in new : n.object # b.object) => redrawn(b) = b
  <2>1. b \in Cell
    OBVIOUS
  <2>2. CASE ~again(b)
    BY <2>1, <2>2
  <2>3. CASE again(b)
    <3> DEFINE r == span(b)
    <3>1. r \in Positive
      <4>1. (CHOOSE n \in new : n.object = b.object) \in new
        BY <2>3
      <4> QED
        BY <4>1 DEF Cell
    <3>2. redrawn(b) = [b EXCEPT !.rowspan = r]
      BY <2>3
    <3> HIDE DEF r, redrawn
    <3>3. /\ [b EXCEPT !.rowspan = r] \in Cell
          /\ [b EXCEPT !.rowspan = r].object = b.object
          /\ [b EXCEPT !.rowspan = r].column = b.column
      BY <2>1, <3>1 DEF Cell
    <3> QED
      BY <2>3, <3>2, <3>3
  <2> QED
    BY <2>2, <2>3
<1> HIDE DEF redrawn
<1>3. S \in SUBSET Cell /\ \A c \in new : c \in S
  BY <1>1, <1>2
<1>4. ASSUME NEW b \in old, \A n \in new : n.object # b.object PROVE b \in S
  BY <1>1, <1>2, <1>4
<1>5. ASSUME NEW c \in S, c \notin new
      PROVE  \E b \in old : /\ c.object = b.object /\ c.column = b.column
                            /\ (\A n \in new : n.object # b.object) => c = b
  BY <1>1, <1>2, <1>5
<1> QED
  BY <1>3, <1>4, <1>5 DEF S

-----------------------------------------------------------------------------
(***************************************************************************)
(* The invariant                                                           *)
(***************************************************************************)

\* Where the blocks of the arrays start, and the line after the last.
Starts(ls) ==
    {s \in [1..(Arrays + 1) -> Positive] :
        s[1] = 1 /\ \A l \in 1..Arrays : s[l + 1] = s[l] + lines_quantity(ls[l])}

LEMMA StartsExist ==
    ASSUME NEW ls \in [1..Arrays -> Array]
    PROVE  Starts(ls) # {}
<1> DEFINE F == [k \in 1..Arrays |-> [v \in Positive |-> v + lines_quantity(ls[k])]]
<1>1. \A k \in 1..Arrays : lines_quantity(ls[k]) \in Positive
  BY LinesLcm
<1>2. F \in [1..Arrays -> [Positive -> Positive]]
  BY <1>1 DEF Positive
<1>3. Arrays \in Nat /\ 1 \in Positive
  BY BoundsAssumption DEF Positive
<1>4. Run(Arrays, Positive, 1, F) # {}
  <2> HIDE DEF F
  <2> QED
    BY <1>2, <1>3, LoopRuns
<1>5. PICK f \in [0..Arrays -> Positive] : f[0] = 1 /\ \A k \in 1..Arrays : f[k] = F[k][f[k - 1]]
  BY <1>4 DEF Run
<1> DEFINE s == [l \in 1..(Arrays + 1) |-> f[l - 1]]
<1>6. s \in [1..(Arrays + 1) -> Positive] /\ s[1] = 1
  BY <1>3, <1>5
<1>7. ASSUME NEW l \in 1..Arrays PROVE s[l + 1] = s[l] + lines_quantity(ls[l])
  <2>1. l - 1 \in 0..Arrays /\ s[l + 1] = f[l] /\ s[l] = f[l - 1]
    BY <1>3
  <2>2. f[l - 1] \in Positive
    BY <2>1
  <2> QED
    BY <1>5, <2>1, <2>2
<1> HIDE DEF s
<1>8. s \in Starts(ls)
  BY <1>6, <1>7 DEF Starts
<1> QED
  BY <1>8

\* The blocks follow each other without a gap.
LEMMA StartsTile ==
    ASSUME NEW ls \in [1..Arrays -> Array], NEW s \in Starts(ls)
    PROVE  \A k \in 0..Arrays :
             /\ \A x \in 1..(s[k + 1] - 1) : \E l \in 1..k : s[l] <= x /\ x < s[l + 1]
             /\ \A l \in 1..k : s[l] < s[l + 1] /\ s[l + 1] <= s[k + 1]
<1> DEFINE Good(k) == /\ \A x \in 1..(s[k + 1] - 1) : \E l \in 1..k : s[l] <= x /\ x < s[l + 1]
                      /\ \A l \in 1..k : s[l] < s[l + 1] /\ s[l + 1] <= s[k + 1]
           S == {k \in 0..Arrays : Good(k)}
<1>1. Arrays \in Nat
  BY BoundsAssumption
<1>2. \A l \in 1..Arrays : lines_quantity(ls[l]) \in Positive
  BY LinesLcm
<1>3. /\ \A l \in 1..(Arrays + 1) : s[l] \in Nat /\ s[l] >= 1
      /\ s[1] = 1 /\ \A l \in 1..Arrays : s[l + 1] = s[l] + lines_quantity(ls[l])
  BY DEF Starts, Positive
<1>4. 0 \in S
  <2>1. 0 \in 0..Arrays /\ 1..(s[0 + 1] - 1) = {} /\ 1..0 = {}
    BY <1>1, <1>3
  <2> QED
    BY <2>1
<1>5. ASSUME NEW k \in 1..Arrays, k - 1 \in S PROVE k \in S
  <2>1. k - 1 + 1 = k /\ k \in 0..Arrays
    BY <1>1
  <2>2. /\ \A x \in 1..(s[k] - 1) : \E l \in 1..(k - 1) : s[l] <= x /\ x < s[l + 1]
        /\ \A l \in 1..(k - 1) : s[l] < s[l + 1] /\ s[l + 1] <= s[k]
    BY <1>5, <2>1
  <2>3. s[k] \in Nat /\ s[k + 1] \in Nat /\ s[k] < s[k + 1]
    BY <1>1, <1>2, <1>3 DEF Positive
  <2>4. ASSUME NEW x \in 1..(s[k + 1] - 1) PROVE \E l \in 1..k : s[l] <= x /\ x < s[l + 1]
    <3>1. CASE x < s[k]
      <4>1. x \in 1..(s[k] - 1)
        BY <2>3, <3>1
      <4>2. PICK l \in 1..(k - 1) : s[l] <= x /\ x < s[l + 1]
        BY <2>2, <4>1
      <4>3. l \in 1..k
        OBVIOUS
      <4> QED
        BY <4>2, <4>3
    <3>2. CASE ~(x < s[k])
      <4>1. k \in 1..k /\ s[k] <= x /\ x < s[k + 1]
        BY <2>3, <3>2
      <4> QED
        BY <4>1
    <3> QED
      BY <3>1, <3>2
  <2>5. ASSUME NEW l \in 1..k PROVE s[l] < s[l + 1] /\ s[l + 1] <= s[k + 1]
    <3>1. CASE l = k
      BY <2>3, <3>1
    <3>2. CASE l # k
      <4>1. l \in 1..(k - 1) /\ s[l + 1] \in Nat
        BY <1>1, <1>3, <3>2
      <4>2. s[l] < s[l + 1] /\ s[l + 1] <= s[k]
        BY <2>2, <4>1
      <4> QED
        BY <2>3, <4>1, <4>2
    <3> QED
      BY <3>1, <3>2
  <2> QED
    BY <2>1, <2>4, <2>5
<1>6. \A k \in 0..Arrays : k \in S
  <2> HIDE DEF S
  <2> QED
    BY <1>1, <1>4, <1>5, Passes
<1> QED
  BY <1>6

\* The arrays that have been laid out.
LaidOut == IF done > Arrays THEN Arrays ELSE done

\* The cells of drives: beside each array its drives, the free ones after
\* the last array.
FreeDrives == Column("physical", Sorted(physicals_free), current_line, Len(Sorted(physicals_free)))

Placed(start) ==
    /\ current_line = start[LaidOut + 1]
    /\ {c \in cells : c.object[1] # 0} = UNION {Tree(l, logicals[l], start[l]) : l \in 1..LaidOut}
    /\ MaxDegraded <= 1 =>
         In("physical") = (UNION {Beside(logicals[l], start[l]) : l \in 1..LaidOut})
                          \cup (IF done > Arrays THEN FreeDrives ELSE {})

TableType ==
    /\ logicals \in [1..Arrays -> Array] /\ InOrder(logicals)
    /\ Cardinality({i \in 1..Arrays : Degraded(logicals[i])}) <= MaxDegraded
    /\ access_patterns \in Nat /\ done \in 0..(Arrays + 1)
    /\ cells \in SUBSET Cell
    /\ \A c \in cells : Len(c.object) \in Positive /\ (c.object[1] = 0 => c.column # "logical")

TableInv == TableType /\ \E start \in Starts(logicals) : Placed(start)

\* No drive is shown beside two arrays, as long as only one array misses
\* drives: those of two would be the same object "99:i".
LEMMA DrivesApart ==
    ASSUME TableType, MaxDegraded <= 1, NEW i \in 1..Arrays, NEW j \in 1..Arrays, i # j
    PROVE  physicals(logicals[i]) \cap physicals(logicals[j]) = {}
<1> DEFINE a == logicals[i]
           b == logicals[j]
           D == {k \in 1..Arrays : Degraded(logicals[k])}
<1>1. a \in Array /\ b \in Array /\ DOMAIN logicals = 1..Arrays
  BY DEF TableType
<1>2. \A x \in Drives : x \in Nat /\ x <= 99
  <2>1. \A x \in 1..99 : x \in Nat /\ x <= 99
    OBVIOUS
  <2> QED
    BY <2>1, DrivesAssumption, Zenon
<1>3. Members(a) \cap Members(b) = {}
  <2>1. SUFFICES ASSUME NEW x \in Members(a), x \in Members(b) PROVE FALSE
    OBVIOUS
  <2>2. x \in Drives
    BY <1>1, PhysicalsNumbers
  <2>3. x \in Nat
    BY <1>2, <2>2
  <2>4. \A m, n \in 1..Arrays : m < n =>
           \A d \in Members(logicals[m]), e \in Members(logicals[n]) : d < e
    BY <1>1 DEF TableType, InOrder
  <2>5. i < j \/ j < i
    OBVIOUS
  <2>6. x < x
    BY <2>1, <2>4, <2>5
  <2> QED
    BY <2>3, <2>6
<1>4. ~(Degraded(a) /\ Degraded(b))
  <2> SUFFICES ASSUME Degraded(a), Degraded(b) PROVE FALSE
    OBVIOUS
  <2>1. Cardinality(D) <= MaxDegraded /\ {i, j} \in SUBSET D /\ D \in SUBSET (1..Arrays)
    BY DEF TableType
  <2>2. IsFiniteSet(1..Arrays)
    BY BoundsAssumption, FS_Interval
  <2> DEFINE N == 1..Arrays
  <2>3. IsFiniteSet(D)
    <3>1. IsFiniteSet(N) /\ D \in SUBSET N
      BY <2>1, <2>2
    <3> HIDE DEF N, D
    <3> QED
      BY <3>1, FS_Subset
  <2> HIDE DEF D
  <2>4. Cardinality({i, j}) <= Cardinality(D) /\ Cardinality(D) \in Nat
    BY <2>1, <2>3, FS_Subset, FS_CardinalityType
  <2>5. Cardinality({i, j}) = 2
    <3>1. IsFiniteSet({i}) /\ Cardinality({i}) = 1
      BY FS_Singleton
    <3>2. {i, j} = {i} \cup {j} /\ j \notin {i}
      OBVIOUS
    <3>3. Cardinality({i} \cup {j}) = Cardinality({i}) + 1
      BY <3>1, <3>2, FS_AddElement
    <3> QED
      BY <3>1, <3>2, <3>3
  <2> QED
    BY <2>1, <2>4, <2>5, BoundsAssumption
<1>5. ASSUME NEW x \in physicals(a), x \in physicals(b) PROVE FALSE
  <2>1. x \in Members(a) \/ (x > 99 /\ Degraded(a))
    BY <1>1, PhysicalsNumbers
  <2>2. x \in Members(b) \/ (x > 99 /\ Degraded(b))
    BY <1>1, <1>5, PhysicalsNumbers
  <2>3. Members(a) \in SUBSET Drives /\ Members(b) \in SUBSET Drives
    BY <1>1, PhysicalsNumbers
  <2>4. x \in Drives => ~(x > 99)
    BY <1>2
  <2> HIDE DEF a, b
  <2> QED
    BY <1>3, <1>4, <2>1, <2>2, <2>3, <2>4
<1> QED
  BY <1>5

\* What follows the arrays.
LEMMA FreeCells ==
    ASSUME TableType, current_line \in Nat
    PROVE  /\ \A c \in FreeDrives : /\ c \in Cell /\ c.column = "physical"
                                    /\ \E id \in physicals_free : c.object = <<0, id>>
           /\ FreeDrives = {} \/ Tile(FreeDrives, current_line..(current_line + Len(Sorted(physicals_free)) - 1))
<1> DEFINE S == physicals_free
           n == Len(Sorted(S))
<1>1. S \in SUBSET Nat /\ \A x \in S : x <= 99
  <2>1. \A x \in 1..99 : x \in Nat /\ x <= 99
    OBVIOUS
  <2>2. \A x \in S : x \in Drives
    BY DEF physicals_free
  <2>3. \A x \in S : x \in Nat /\ x <= 99
    BY <2>1, <2>2, DrivesAssumption, Zenon
  <2> QED
    BY <2>3
<1> HIDE DEF S
<1>2. IsFiniteSet(S)
  <2>1. 99 \in Nat
    OBVIOUS
  <2> QED
    BY <1>1, <2>1, FS_BoundedSetOfNaturals
<1>3. n \in Nat /\ n = Cardinality(S)
  BY <1>1, <1>2, SortedFacts
<1>4. S # {} => n \in Positive /\ Divides(Cardinality(S), n)
  BY <1>2, <1>3, FS_EmptySet, DividesSelf DEF Positive
<1> HIDE DEF n
<1>5. LET C == Column("physical", Sorted(S), current_line, n)
      IN  /\ \A c \in C : c \in Cell /\ c.column = "physical" /\ \E id \in S : c.object = <<0, id>>
          /\ IF S = {} THEN C = {} ELSE Tile(C, current_line..(current_line + n - 1))
  BY <1>1, <1>2, <1>4, DriveCells
<1>6. FreeDrives = Column("physical", Sorted(S), current_line, n)
  BY DEF FreeDrives, S, n
<1> QED
  BY <1>5, <1>6 DEF S, n

Unbounds == LET unbound == [i \in 1..access_patterns |-> <<0, 0, i>>]
            IN  Column("access_pattern", unbound, current_line, Len(unbound))

LEMMA UnboundCells ==
    ASSUME TableType, current_line \in Nat
    PROVE  \A c \in Unbounds : /\ c \in Cell /\ c.column = "access_pattern"
                               /\ \E i \in Nat : c.object = <<0, 0, i>>
<1> DEFINE n == access_patterns
           objects == [i \in 1..n |-> <<0, 0, i>>]
           column == "access_pattern"
           C == Column(column, objects, current_line, Len(objects))
<1>1. n \in Nat
  BY DEF TableType
<1>2. objects \in [1..n -> Seq(Nat)] /\ \A i \in 1..n : objects[i] = <<0, 0, i>>
  <2>1. \A i \in Nat : <<0, 0, i>> \in Seq(Nat)
    OBVIOUS
  <2> QED
    BY <2>1
<1>3. Unbounds = C
  BY DEF Unbounds
<1> HIDE DEF n, objects
<1>4. Len(objects) = n
  <2>1. objects \in Seq(Seq(Nat)) /\ DOMAIN objects = 1..n
    BY <1>1, <1>2, SeqDef
  <2> QED
    BY <1>1, <2>1, LenProperties
<1>5. column \in ColumnNames
  BY Columns
<1>6. n # 0 => n \in Positive /\ Divides(n, n)
  BY <1>1, DividesSelf DEF Positive
<1> HIDE DEF column
<1>7. \A c \in Column(column, objects, current_line, n) :
         c \in Cell /\ c.column = column /\ \E i \in 1..n : c.object = objects[i]
  BY <1>1, <1>2, <1>4, <1>5, <1>6, ColumnCells
<1>8. Unbounds = Column(column, objects, current_line, n)
  BY <1>3, <1>4
<1>9. \A i \in 1..n : i \in Nat /\ objects[i] = <<0, 0, i>>
  BY <1>1, <1>2
<1>10. \A c \in Unbounds : c \in Cell /\ c.column = column /\ \E i \in Nat : c.object = <<0, 0, i>>
  BY <1>7, <1>8, <1>9, Zenon
<1> QED
  BY <1>10 DEF column

LEMMA PairsDiffer ==
    /\ \A x, y : <<0, x>> = <<0, y>> => x = y
    /\ \A x, y : <<0, x>> # <<0, 0, y>>
    /\ \A x : <<0, x>>[1] = 0 /\ Len(<<0, x>>) = 2 /\ <<0, 0, x>>[1] = 0 /\ Len(<<0, 0, x>>) = 3
OBVIOUS

\* What the states of the table have in common.
LEMMA TableFacts ==
    ASSUME TableType, NEW start \in Starts(logicals)
    PROVE  /\ Arrays \in Nat /\ Len(logicals) = Arrays /\ DOMAIN logicals = 1..Arrays
           /\ \A l \in 1..(Arrays + 1) : start[l] \in Nat /\ start[l] \in Positive
           /\ LaidOut \in 0..Arrays
           /\ \A l \in 1..Arrays : /\ logicals[l] \in Array /\ start[l] \in Nat /\ l \in Positive /\ l # 0
                                   /\ start[l + 1] = start[l] + lines_quantity(logicals[l])
                                   /\ lines_quantity(logicals[l]) \in Positive
<1>1. Arrays \in Nat
  BY BoundsAssumption
<1>2. logicals \in [1..Arrays -> Array] /\ logicals \in Seq(Array)
  BY <1>1, SeqDef DEF TableType
<1>3. Len(logicals) = Arrays /\ DOMAIN logicals = 1..Arrays
  BY <1>1, <1>2, LenProperties
<1>4. /\ \A l \in 1..(Arrays + 1) : start[l] \in Nat /\ start[l] \in Positive
      /\ \A l \in 1..Arrays : start[l + 1] = start[l] + lines_quantity(logicals[l])
  BY DEF Starts, Positive
<1>5. LaidOut \in 0..Arrays
  BY <1>1 DEF LaidOut, TableType
<1>6. \A l \in 1..Arrays : l \in 1..(Arrays + 1) /\ l \in Positive /\ l # 0
  BY <1>1 DEF Positive
<1>7. \A l \in 1..Arrays : logicals[l] \in Array /\ lines_quantity(logicals[l]) \in Positive
  BY <1>2, LinesLcm
<1> QED
  BY <1>1, <1>3, <1>4, <1>5, <1>6, <1>7

\* The cells of the arrays that are laid out, and no others, show objects of
\* arrays.
LEMMA PlacedTree ==
    ASSUME TableType, NEW start, Placed(start)
    PROVE  \A c : c \in cells /\ c.object[1] # 0
                  <=> \E l \in 1..LaidOut : c \in Tree(l, logicals[l], start[l])
<1>1. {c \in cells : c.object[1] # 0} = UNION {Tree(l, logicals[l], start[l]) : l \in 1..LaidOut}
  BY DEF Placed
<1> QED
  BY <1>1

LEMMA PlacedDrives ==
    ASSUME NEW start, Placed(start), MaxDegraded <= 1
    PROVE  \A c : c \in In("physical")
                  <=> \/ \E l \in 1..LaidOut : c \in Beside(logicals[l], start[l])
                      \/ done > Arrays /\ c \in FreeDrives
<1>1. In("physical") = (UNION {Beside(logicals[l], start[l]) : l \in 1..LaidOut})
                       \cup (IF done > Arrays THEN FreeDrives ELSE {})
  BY DEF Placed
<1> HIDE DEF In
<1> QED
  BY <1>1

\* What a step draws does not replace any cell of an array's tree.
LEMMA TreesStay ==
    ASSUME TableType, NEW start, Placed(start), NEW new \in SUBSET Cell,
           \A n \in new : n.object[1] = 0 \/ \A m \in 1..LaidOut : n.object[1] # m,
           start \in Starts(logicals)
    PROVE  \A c : c \in Shown(cells, new) /\ c.object[1] # 0
                  <=> \/ \E l \in 1..LaidOut : c \in Tree(l, logicals[l], start[l])
                      \/ c \in new /\ c.object[1] # 0
<1> DEFINE S == Shown(cells, new)
<1>1. /\ \A c \in new : c \in S
      /\ \A b \in cells : (\A n \in new : n.object # b.object) => b \in S
      /\ \A c \in S : c \in new \/ \E b \in cells :
             /\ c.object = b.object /\ c.column = b.column
             /\ (\A n \in new : n.object # b.object) => c = b
  BY ShownFacts DEF TableType
<1>2. LaidOut \in 0..Arrays /\ Arrays \in Nat
  BY TableFacts
<1>3. ASSUME NEW l \in 1..LaidOut, NEW c \in Tree(l, logicals[l], start[l])
      PROVE  /\ c \in cells /\ c.object[1] = l /\ l # 0
             /\ \A n \in new : n.object # c.object
  <2>1. l \in 1..Arrays /\ l # 0
    BY <1>2
  <2>2. c.object[1] = l
    BY <2>1, TableFacts, TreeFacts
  <2>3. c \in cells
    BY <1>3, PlacedTree
  <2> QED
    BY <2>1, <2>2, <2>3
<1> HIDE DEF S
<1>4. ASSUME NEW c \in S, c.object[1] # 0, c \notin new
      PROVE  \E l \in 1..LaidOut : c \in Tree(l, logicals[l], start[l])
  <2>1. PICK b \in cells : c.object = b.object /\ ((\A n \in new : n.object # b.object) => c = b)
    BY <1>1, <1>4
  <2>2. PICK l \in 1..LaidOut : b \in Tree(l, logicals[l], start[l])
    BY <1>4, <2>1, PlacedTree
  <2> QED
    BY <1>3, <2>1, <2>2
<1>5. ASSUME NEW l \in 1..LaidOut, NEW c \in Tree(l, logicals[l], start[l])
      PROVE  c \in S /\ c.object[1] # 0
  BY <1>1, <1>3
<1> QED
  BY <1>1, <1>4, <1>5 DEF S

\* Nor, when all its drives are new, any cell of a drive.
LEMMA DrivesStay ==
    ASSUME TableType, NEW start, Placed(start), NEW new \in SUBSET Cell,
           MaxDegraded <= 1, ~(done > Arrays), start \in Starts(logicals),
           \A l \in 1..LaidOut : \A id \in physicals(logicals[l]) : \A n \in new : n.object # <<0, id>>
    PROVE  \A c : c \in Shown(cells, new) /\ c.column = "physical"
                  <=> \/ \E l \in 1..LaidOut : c \in Beside(logicals[l], start[l])
                      \/ c \in new /\ c.column = "physical"
<1> DEFINE S == Shown(cells, new)
           column == "physical"
<1>1. /\ \A c \in new : c \in S
      /\ \A b \in cells : (\A n \in new : n.object # b.object) => b \in S
      /\ \A c \in S : c \in new \/ \E b \in cells :
             /\ c.object = b.object /\ c.column = b.column
             /\ (\A n \in new : n.object # b.object) => c = b
  BY ShownFacts DEF TableType
<1>2. LaidOut \in 0..Arrays /\ Arrays \in Nat
  BY TableFacts
<1>3. \A c : c \in cells /\ c.column = column
             <=> \E l \in 1..LaidOut : c \in Beside(logicals[l], start[l])
  BY PlacedDrives DEF In
<1>4. ASSUME NEW l \in 1..LaidOut, NEW c \in Beside(logicals[l], start[l])
      PROVE  c \in cells /\ c.column = column /\ \A n \in new : n.object # c.object
  <2>1. l \in 1..Arrays
    BY <1>2
  <2>2. PICK id \in physicals(logicals[l]) : c.object = <<0, id>>
    BY <2>1, TableFacts, BesideFacts
  <2>3. c \in cells /\ c.column = column
    BY <1>3, <1>4
  <2>4. \A n \in new : n.object # <<0, id>>
    BY <2>2
  <2> QED
    BY <2>2, <2>3, <2>4
<1> HIDE DEF S, column
<1>5. ASSUME NEW c \in S, c.column = column, c \notin new
      PROVE  \E l \in 1..LaidOut : c \in Beside(logicals[l], start[l])
  <2>1. PICK b \in cells : /\ c.column = b.column
                           /\ ((\A n \in new : n.object # b.object) => c = b)
    BY <1>1, <1>5
  <2>2. PICK l \in 1..LaidOut : b \in Beside(logicals[l], start[l])
    BY <1>3, <1>5, <2>1
  <2> QED
    BY <1>4, <2>1, <2>2
<1>6. ASSUME NEW l \in 1..LaidOut, NEW c \in Beside(logicals[l], start[l])
      PROVE  c \in S /\ c.column = column
  BY <1>1, <1>4
<1> QED
  BY <1>1, <1>5, <1>6 DEF S, column

\* New cells keep the types, when those that do not belong to an array are
\* not in its column.
LEMMA TypesStay ==
    ASSUME TableType, NEW new \in SUBSET Cell,
           \A n \in new : Len(n.object) \in Positive /\ (n.object[1] = 0 => n.column # "logical")
    PROVE  /\ Shown(cells, new) \in SUBSET Cell
           /\ \A c \in Shown(cells, new) :
                 Len(c.object) \in Positive /\ (c.object[1] = 0 => c.column # "logical")
<1>1. /\ Shown(cells, new) \in SUBSET Cell
      /\ \A c \in Shown(cells, new) : c \in new \/ \E b \in cells :
             c.object = b.object /\ c.column = b.column
  BY ShownFacts DEF TableType
<1>2. \A c \in cells : Len(c.object) \in Positive /\ (c.object[1] = 0 => c.column # "logical")
  BY DEF TableType
<1> QED
  BY <1>1, <1>2

LEMMA InitTable == Init => TableInv
<1> SUFFICES ASSUME Init PROVE TableInv
  OBVIOUS
<1>1. Arrays \in Nat /\ Unbound \in SUBSET Nat
  BY BoundsAssumption
<1>2. TableType
  BY <1>1 DEF Init, TableType
<1>3. PICK start \in Starts(logicals) : TRUE
  BY <1>2, StartsExist DEF TableType
<1>4. LaidOut = 0 /\ ~(done > Arrays) /\ 1..LaidOut = {} /\ LaidOut + 1 = 1
  BY <1>1 DEF Init, LaidOut
<1>5. current_line = start[LaidOut + 1]
  BY <1>3, <1>4 DEF Init, Starts
<1>6. {c \in cells : c.object[1] # 0} = UNION {Tree(l, logicals[l], start[l]) : l \in 1..LaidOut}
  BY <1>4 DEF Init
<1>7. In("physical") = (UNION {Beside(logicals[l], start[l]) : l \in 1..LaidOut})
                       \cup (IF done > Arrays THEN FreeDrives ELSE {})
  BY <1>4 DEF Init, In
<1>8. Placed(start)
  BY <1>5, <1>6, <1>7 DEF Placed
<1> QED
  BY <1>2, <1>3, <1>8 DEF TableInv

LEMMA LayLogicalTable ==
    ASSUME TableInv, LayLogical
    PROVE  TableInv'
<1> DEFINE l == done + 1
           a == logicals[l]
<1>1. TableType
  BY DEF TableInv
<1>2. PICK start \in Starts(logicals) : Placed(start)
  BY DEF TableInv
<1>3. /\ logicals' = logicals /\ access_patterns' = access_patterns /\ done' = l
      /\ cells' = Shown(cells, Block(l, a, current_line))
      /\ current_line' = current_line + lines_quantity(a)
      /\ done < Len(logicals)
  BY DEF LayLogical
<1>4. /\ Arrays \in Nat /\ done \in Nat /\ done < Arrays /\ l \in 1..Arrays /\ l \in Nat
      /\ LaidOut = done /\ ~(done > Arrays) /\ ~(l > Arrays) /\ l \in 0..(Arrays + 1)
  BY <1>1, <1>2, <1>3, TableFacts DEF LaidOut, TableType
<1>5. LaidOut' = l /\ ~(done' > Arrays)
  BY <1>3, <1>4 DEF LaidOut
<1>6. /\ a \in Array /\ start[l] \in Nat /\ l \in Positive /\ l # 0
      /\ start[l + 1] = start[l] + lines_quantity(a)
  BY <1>1, <1>2, <1>4, TableFacts
<1>7. current_line = start[l]
  BY <1>2, <1>4 DEF Placed
<1>8. current_line' = start[LaidOut' + 1]
  BY <1>3, <1>5, <1>6, <1>7
<1> DEFINE T == Tree(l, a, start[l])
           B == Beside(a, start[l])
           new == T \cup B
<1>9. cells' = Shown(cells, new)
  BY <1>3, <1>7, BlockParts
<1> HIDE DEF a
<1>10. /\ T \in SUBSET Cell
       /\ \A c \in T : c.object[1] = l /\ Len(c.object) \in Positive /\ c.column # "physical"
  BY <1>6, TreeFacts
<1>11. \A c \in B : /\ c \in Cell /\ c.column = "physical"
                    /\ \E id \in physicals(a) : c.object = <<0, id>>
  BY <1>6, BesideFacts
<1>12. \A c \in B : c.object[1] = 0 /\ Len(c.object) \in Positive
  <2>1. 2 \in Positive
    BY DEF Positive
  <2> QED
    BY <1>11, <2>1, PairsDiffer
<1>13. 1..l = (1..LaidOut) \cup {l} /\ \A m \in 1..LaidOut : m # l /\ m \in 1..Arrays
  BY <1>4
<1> HIDE DEF l, T, B
<1>14. new \in SUBSET Cell
  BY <1>10, <1>11
<1>15. TableType'
  <2>1. \A n \in new : Len(n.object) \in Positive /\ (n.object[1] = 0 => n.column # "logical")
    <3>1. \A n \in T : Len(n.object) \in Positive /\ n.object[1] # 0
      BY <1>6, <1>10
    <3>2. \A n \in B : Len(n.object) \in Positive /\ n.column # "logical"
      BY <1>11, <1>12
    <3> QED
      BY <3>1, <3>2
  <2> HIDE DEF new
  <2>2. /\ Shown(cells, new) \in SUBSET Cell
        /\ \A c \in Shown(cells, new) :
              Len(c.object) \in Positive /\ (c.object[1] = 0 => c.column # "logical")
    BY <1>1, <1>14, <2>1, TypesStay
  <2> QED
    BY <1>1, <1>3, <1>4, <1>9, <2>2 DEF TableType
<1>16. {c \in cells' : c.object[1] # 0} = UNION {Tree(m, logicals[m], start[m]) : m \in 1..l}
  <2>1. \A n \in new : n.object[1] = 0 \/ \A m \in 1..LaidOut : n.object[1] # m
    BY <1>10, <1>12, <1>13
  <2>2. \A c : c \in Shown(cells, new) /\ c.object[1] # 0
               <=> \/ \E m \in 1..LaidOut : c \in Tree(m, logicals[m], start[m])
                   \/ c \in new /\ c.object[1] # 0
    <3> HIDE DEF new
    <3> QED
      BY <1>1, <1>2, <1>14, <2>1, TreesStay
  <2>3. \A c : c \in new /\ c.object[1] # 0 <=> c \in T
    BY <1>6, <1>10, <1>12
  <2>4. T = Tree(l, logicals[l], start[l])
    BY DEF T, a
  <2> HIDE DEF new
  <2>5. \A c : c \in cells' /\ c.object[1] # 0
               <=> \E m \in 1..l : c \in Tree(m, logicals[m], start[m])
    BY <1>9, <1>13, <2>2, <2>3, <2>4, Zenon
  <2> QED
    BY <2>5
<1>17. ASSUME MaxDegraded <= 1
       PROVE  {c \in cells' : c.column = "physical"} = UNION {Beside(logicals[m], start[m]) : m \in 1..l}
  <2>1. ASSUME NEW m \in 1..LaidOut, NEW id \in physicals(logicals[m]), NEW n \in new
        PROVE  n.object # <<0, id>>
    <3>1. CASE n \in T
      BY <1>6, <1>10, <3>1, PairsDiffer
    <3>2. CASE n \in B
      <4>1. PICK x \in physicals(a) : n.object = <<0, x>>
        BY <1>11, <3>2
      <4>2. l \in 1..Arrays /\ m \in 1..Arrays /\ m # l
        BY <1>4, <1>13
      <4>3. id \notin physicals(a)
        BY <1>1, <1>17, <4>2, DrivesApart DEF a
      <4> QED
        BY <4>1, <4>3, PairsDiffer
    <3> QED
      BY <3>1, <3>2
  <2>2. \A c : c \in Shown(cells, new) /\ c.column = "physical"
               <=> \/ \E m \in 1..LaidOut : c \in Beside(logicals[m], start[m])
                   \/ c \in new /\ c.column = "physical"
    <3> HIDE DEF new
    <3> QED
      BY <1>1, <1>2, <1>4, <1>14, <1>17, <2>1, DrivesStay
  <2>3. \A c : c \in new /\ c.column = "physical" <=> c \in B
    BY <1>10, <1>11
  <2>4. B = Beside(logicals[l], start[l])
    BY DEF B, a
  <2> HIDE DEF new
  <2>5. \A c : c \in cells' /\ c.column = "physical"
               <=> \E m \in 1..l : c \in Beside(logicals[m], start[m])
    BY <1>9, <1>13, <2>2, <2>3, <2>4, Zenon
  <2> QED
    BY <2>5
<1>18. Placed(start)'
  BY <1>3, <1>5, <1>8, <1>16, <1>17 DEF Placed, In
<1>19. start \in Starts(logicals')
  BY <1>2, <1>3
<1> QED
  BY <1>15, <1>18, <1>19 DEF TableInv

LEMMA LayRestTable ==
    ASSUME TableInv, LayRest
    PROVE  TableInv'
<1> DEFINE new == FreeDrives \cup Unbounds
<1>1. TableType
  BY DEF TableInv
<1>2. PICK start \in Starts(logicals) : Placed(start)
  BY DEF TableInv
<1>3. /\ logicals' = logicals /\ access_patterns' = access_patterns /\ done' = done + 1
      /\ current_line' = current_line /\ done = Len(logicals)
      /\ cells' = Shown(cells, new)
  BY DEF LayRest, FreeDrives, Unbounds
<1>4. /\ Arrays \in Nat /\ done = Arrays /\ LaidOut = Arrays /\ ~(done > Arrays)
      /\ done + 1 > Arrays /\ done + 1 \in 0..(Arrays + 1)
  BY <1>1, <1>2, <1>3, TableFacts DEF LaidOut
<1>5. LaidOut' = Arrays /\ done' > Arrays
  BY <1>3, <1>4 DEF LaidOut
<1>6. current_line = start[LaidOut + 1] /\ current_line \in Nat
  <2>1. current_line = start[LaidOut + 1]
    BY <1>2 DEF Placed
  <2>2. LaidOut + 1 \in 1..(Arrays + 1)
    BY <1>4
  <2> QED
    BY <1>1, <1>2, <2>1, <2>2, TableFacts
<1>7. \A c \in FreeDrives : /\ c \in Cell /\ c.column = "physical"
                            /\ \E id \in physicals_free : c.object = <<0, id>>
  BY <1>1, <1>6, FreeCells
<1>8. \A c \in Unbounds : /\ c \in Cell /\ c.column = "access_pattern"
                          /\ \E i \in Nat : c.object = <<0, 0, i>>
  BY <1>1, <1>6, UnboundCells
<1>9. /\ \A c \in FreeDrives : c.object[1] = 0 /\ Len(c.object) \in Positive
      /\ \A c \in Unbounds : c.object[1] = 0 /\ Len(c.object) \in Positive
  <2>1. 2 \in Positive /\ 3 \in Positive
    BY DEF Positive
  <2> QED
    BY <1>7, <1>8, <2>1, PairsDiffer
<1>10. new \in SUBSET Cell /\ \A n \in new : n.object[1] = 0 /\ Len(n.object) \in Positive
  BY <1>7, <1>8, <1>9
<1>11. \A n \in new : n.column # "logical"
  BY <1>7, <1>8
<1>12. FreeDrives' = FreeDrives
  BY <1>3 DEF FreeDrives, physicals_free
<1>13. \A c : c \in new /\ c.column = "physical" <=> c \in FreeDrives
  BY <1>7, <1>8
<1>14. ASSUME NEW m \in 1..LaidOut, NEW id \in physicals(logicals[m]), NEW n \in new
       PROVE  n.object # <<0, id>>
  <2>1. id \notin physicals_free
    <3>1. m \in DOMAIN logicals
      BY <1>1, <1>2, <1>4, TableFacts
    <3> QED
      BY <3>1 DEF physicals_free
  <2>2. CASE n \in FreeDrives
    BY <1>7, <2>1, <2>2, PairsDiffer
  <2>3. CASE n \in Unbounds
    BY <1>8, <2>3, PairsDiffer
  <2> QED
    BY <2>2, <2>3
<1> HIDE DEF new
<1>15. TableType'
  <2>1. /\ Shown(cells, new) \in SUBSET Cell
        /\ \A c \in Shown(cells, new) :
              Len(c.object) \in Positive /\ (c.object[1] = 0 => c.column # "logical")
    BY <1>1, <1>10, <1>11, TypesStay
  <2> QED
    BY <1>1, <1>3, <1>4, <2>1 DEF TableType
<1>16. {c \in cells' : c.object[1] # 0}
         = UNION {Tree(m, logicals[m], start[m]) : m \in 1..LaidOut}
  <2>1. \A c : c \in Shown(cells, new) /\ c.object[1] # 0
               <=> \/ \E m \in 1..LaidOut : c \in Tree(m, logicals[m], start[m])
                   \/ c \in new /\ c.object[1] # 0
    BY <1>1, <1>2, <1>10, TreesStay
  <2>2. \A c : c \in cells' /\ c.object[1] # 0
               <=> \E m \in 1..LaidOut : c \in Tree(m, logicals[m], start[m])
    BY <1>3, <1>10, <2>1, Zenon
  <2> QED
    BY <2>2
<1>17. ASSUME MaxDegraded <= 1
       PROVE  {c \in cells' : c.column = "physical"}
                = (UNION {Beside(logicals[m], start[m]) : m \in 1..LaidOut}) \cup FreeDrives
  <2>1. \A c : c \in Shown(cells, new) /\ c.column = "physical"
               <=> \/ \E m \in 1..LaidOut : c \in Beside(logicals[m], start[m])
                   \/ c \in new /\ c.column = "physical"
    BY <1>1, <1>2, <1>4, <1>10, <1>14, <1>17, DrivesStay
  <2>2. \A c : c \in cells' /\ c.column = "physical"
               <=> \/ \E m \in 1..LaidOut : c \in Beside(logicals[m], start[m])
                   \/ c \in FreeDrives
    BY <1>3, <1>13, <2>1, Zenon
  <2> QED
    BY <2>2
<1>18. Placed(start)'
  BY <1>3, <1>4, <1>5, <1>6, <1>12, <1>16, <1>17 DEF Placed, In
<1>19. start \in Starts(logicals')
  BY <1>2, <1>3
<1> QED
  BY <1>15, <1>18, <1>19 DEF TableInv

LEMMA StutterTable ==
    ASSUME TableInv, UNCHANGED vars
    PROVE  TableInv'
<1>1. /\ logicals' = logicals /\ access_patterns' = access_patterns /\ done' = done
      /\ current_line' = current_line /\ cells' = cells
  BY DEF vars
<1>2. LaidOut' = LaidOut /\ FreeDrives' = FreeDrives /\ In("physical")' = In("physical")
  BY <1>1 DEF LaidOut, FreeDrives, physicals_free, In
<1>3. TableType'
  BY <1>1 DEF TableInv, TableType
<1>4. PICK start \in Starts(logicals) : Placed(start)
  BY DEF TableInv
<1>5. Placed(start)'
  BY <1>1, <1>2, <1>4 DEF Placed
<1>6. start \in Starts(logicals')
  BY <1>1, <1>4
<1> QED
  BY <1>3, <1>5, <1>6 DEF TableInv

\* In every state of overall() the table holds the blocks of the arrays laid
\* out so far, one after the other from line 1, and, as long as only one
\* array misses drives, beside each of them its drives.
THEOREM TableInvariant == Spec => []TableInv
<1>1. TableInv /\ [Next]_vars => TableInv'
  BY LayLogicalTable, LayRestTable, StutterTable DEF Next
<1> QED
  BY InitTable, <1>1, PTL DEF Spec

-----------------------------------------------------------------------------
(***************************************************************************)
(* What the table promises                                                 *)
(***************************************************************************)

\* overall() gives every array with volumes the least number of lines that
\* both its drives and its sessions divide, whatever the numbers of drives,
\* volumes, patterns and sessions.
THEOREM FewestLines == Spec => []LeastLines
<1>1. TableInv => LeastLines
  <2> SUFFICES ASSUME TableInv PROVE LeastLines
    OBVIOUS
  <2>1. \A i \in DOMAIN logicals : logicals[i] \in Array
    BY DEF TableInv, TableType
  <2>2. \A a \in Array : a.logical_volumes # <<>> =>
           LET vs == a.logical_volumes
               lines == lines_quantity(a)
           IN  \E aps, ss \in 1..lines :
                  /\ Least({Len(vs[v]) : v \in DOMAIN vs} \ {0}, aps)
                  /\ Least((UNION {Range(vs[v]) : v \in DOMAIN vs}) \ {0}, ss)
                  /\ Least({Cardinality(physicals(a)), Len(vs) * aps * ss}, lines)
    BY LeastLinesOf, Zenon
  <2> QED
    BY <2>1, <2>2, Zenon DEF LeastLines
<1> QED
  BY TableInvariant, <1>1, PTL

\* The lines of the block of array l.
LEMMA LogicalLines ==
    ASSUME TableType, NEW start \in Starts(logicals), NEW l \in 1..Arrays
    PROVE  Lines(LogicalCell(l, logicals[l], start[l])) = start[l]..(start[l + 1] - 1)
<1> DEFINE c == LogicalCell(l, logicals[l], start[l])
<1>1. c.line = start[l] /\ c.rowspan = lines_quantity(logicals[l])
  BY DEF LogicalCell
<1>2. /\ start[l + 1] = start[l] + lines_quantity(logicals[l])
      /\ start[l] \in Nat /\ lines_quantity(logicals[l]) \in Nat
  BY TableFacts DEF Positive
<1> HIDE DEF c
<1>3. Lines(c) = start[l]..(start[l + 1] - 1)
  BY <1>1, <1>2 DEF Lines
<1> QED
  BY <1>3 DEF c

\* One cell for each array that is laid out.
LEMMA LogicalCells ==
    ASSUME TableType, NEW start \in Starts(logicals), Placed(start)
    PROVE  \A c : c \in In("logical")
                  <=> \E l \in 1..LaidOut : c = LogicalCell(l, logicals[l], start[l])
<1>1. LaidOut \in 0..Arrays /\ Arrays \in Nat
  BY TableFacts
<1>2. ASSUME NEW l \in 1..LaidOut
      PROVE  LET c0 == LogicalCell(l, logicals[l], start[l])
             IN  /\ c0 \in Tree(l, logicals[l], start[l]) /\ c0.column = "logical"
                 /\ \A c \in Tree(l, logicals[l], start[l]) : c.column = "logical" => c = c0
  <2>1. l \in 1..Arrays
    BY <1>1
  <2>2. logicals[l] \in Array /\ start[l] \in Nat /\ l \in Positive
    BY <2>1, TableFacts
  <2>3. LogicalCell(l, logicals[l], start[l]).column = "logical"
    BY DEF LogicalCell
  <2> QED
    BY <2>2, <2>3, TreeFacts
<1>3. ASSUME NEW c \in cells, c.column = "logical" PROVE c.object[1] # 0
  BY <1>3 DEF TableType
<1>4. ASSUME NEW c \in In("logical")
      PROVE  \E l \in 1..LaidOut : c = LogicalCell(l, logicals[l], start[l])
  <2>1. c \in cells /\ c.column = "logical"
    BY DEF In
  <2>2. PICK l \in 1..LaidOut : c \in Tree(l, logicals[l], start[l])
    BY <1>3, <2>1, PlacedTree
  <2> QED
    BY <1>2, <2>1, <2>2
<1>5. ASSUME NEW l \in 1..LaidOut PROVE LogicalCell(l, logicals[l], start[l]) \in In("logical")
  <2>1. LogicalCell(l, logicals[l], start[l]) \in cells
    BY <1>2, PlacedTree
  <2> QED
    BY <1>2, <2>1 DEF In
<1> QED
  BY <1>4, <1>5

\* Two blocks have no line in common.
LEMMA BlocksApart ==
    ASSUME TableType, NEW start \in Starts(logicals), NEW l \in 1..Arrays, NEW m \in 1..Arrays, l # m
    PROVE  (start[l]..(start[l + 1] - 1)) \cap (start[m]..(start[m + 1] - 1)) = {}
<1>1. Arrays \in Nat /\ \A k \in 1..(Arrays + 1) : start[k] \in Nat
  BY TableFacts
<1>2. ASSUME NEW i \in 1..Arrays, NEW j \in 1..Arrays, i < j
      PROVE  start[i + 1] <= start[j]
  <2>1. j - 1 \in 0..Arrays /\ i \in 1..(j - 1) /\ j - 1 + 1 = j
    BY <1>1, <1>2
  <2> DEFINE k == j - 1
  <2>2. start[i + 1] <= start[k + 1]
    <3>1. k \in 0..Arrays /\ i \in 1..k
      BY <2>1
    <3> HIDE DEF k
    <3> QED
      BY <3>1, StartsTile DEF TableType
  <2> QED
    BY <2>1, <2>2
<1>3. l < m \/ m < l
  OBVIOUS
<1>4. /\ start[l] \in Nat /\ start[l + 1] \in Nat /\ start[m] \in Nat /\ start[m + 1] \in Nat
      /\ start[l + 1] <= start[m] \/ start[m + 1] <= start[l]
  BY <1>1, <1>2, <1>3
<1> QED
  BY <1>4

LEMMA ArraysTile ==
    ASSUME TableType, NEW start \in Starts(logicals), Placed(start)
    PROVE  Tile(In("logical"), 1..(current_line - 1))
<1> DEFINE C == In("logical")
           cell(l) == LogicalCell(l, logicals[l], start[l])
<1>1. /\ LaidOut \in 0..Arrays /\ Arrays \in Nat /\ current_line = start[LaidOut + 1]
      /\ \A l \in 1..(Arrays + 1) : start[l] \in Nat /\ start[l] >= 1
  BY TableFacts DEF Placed, Positive
<1>2. \A c : c \in C <=> \E l \in 1..LaidOut : c = cell(l)
  BY LogicalCells
<1>3. \A l \in 1..LaidOut : l \in 1..Arrays /\ Lines(cell(l)) = start[l]..(start[l + 1] - 1)
  BY <1>1, LogicalLines
<1>4. /\ \A x \in 1..(start[LaidOut + 1] - 1) : \E l \in 1..LaidOut : start[l] <= x /\ x < start[l + 1]
      /\ \A l \in 1..LaidOut : start[l] < start[l + 1] /\ start[l + 1] <= start[LaidOut + 1]
  BY <1>1, StartsTile DEF TableType
<1> HIDE DEF C, cell
<1>5. UNION {Lines(c) : c \in C} = 1..(current_line - 1)
  <2>1. ASSUME NEW x \in 1..(current_line - 1) PROVE x \in UNION {Lines(c) : c \in C}
    <3>1. PICK l \in 1..LaidOut : start[l] <= x /\ x < start[l + 1]
      BY <1>1, <1>4
    <3>2. start[l] \in Nat /\ start[l + 1] \in Nat /\ x \in Nat
      BY <1>1
    <3>3. x \in Lines(cell(l))
      BY <1>3, <3>1, <3>2
    <3> QED
      BY <1>2, <3>3
  <2>2. ASSUME NEW x \in UNION {Lines(c) : c \in C} PROVE x \in 1..(current_line - 1)
    <3>1. PICK l \in 1..LaidOut : x \in Lines(cell(l))
      BY <1>2
    <3>2. x \in start[l]..(start[l + 1] - 1) /\ start[l + 1] <= start[LaidOut + 1]
      BY <1>3, <1>4, <3>1
    <3>3. start[l] \in Nat /\ start[l] >= 1 /\ start[l + 1] \in Nat /\ start[LaidOut + 1] \in Nat
      BY <1>1
    <3> QED
      BY <1>1, <3>2, <3>3
  <2> QED
    BY <2>1, <2>2
<1>6. ASSUME NEW c \in C, NEW d \in C, c # d PROVE Lines(c) \cap Lines(d) = {}
  <2>1. PICK l \in 1..LaidOut, m \in 1..LaidOut : c = cell(l) /\ d = cell(m)
    BY <1>2
  <2>2. l # m /\ l \in 1..Arrays /\ m \in 1..Arrays
    BY <1>3, <1>6, <2>1
  <2> QED
    BY <1>3, <2>1, <2>2, BlocksApart
<1> QED
  BY <1>5, <1>6 DEF Tile, C

LEMMA ChildrenTile ==
    ASSUME TableType, NEW start \in Starts(logicals), Placed(start),
           NEW c \in cells, c.object[1] # 0, Children(c) # {}
    PROVE  Tile(Children(c), Lines(c))
<1>1. LaidOut \in 0..Arrays /\ Arrays \in Nat
  BY TableFacts
<1>2. PICK l \in 1..LaidOut : c \in Tree(l, logicals[l], start[l])
  BY PlacedTree
<1> DEFINE T == Tree(l, logicals[l], start[l])
<1>3. \A m \in 1..LaidOut :
         /\ m # 0 /\ m \in 1..Arrays
         /\ \A d \in Tree(m, logicals[m], start[m]) : d.object[1] = m
  BY <1>1, TableFacts, TreeFacts
<1>4. ChildrenIn(T, c) # {} => Tile(ChildrenIn(T, c), Lines(c))
  BY <1>2, <1>3, TableFacts, TreeFacts
<1>5. c.object \in Seq(Nat) /\ c.object # <<>> /\ c.object[1] = l
  BY <1>2, <1>3, EmptySeq DEF TableType, Cell, Positive
<1>6. ASSUME NEW d \in cells, Front(d.object) = c.object PROVE d \in T
  <2>1. d.object \in Seq(Nat) /\ Len(d.object) \in Positive
    BY DEF TableType, Cell
  <2>2. d.object[1] = l
    BY <1>5, <1>6, <2>1, FrontFacts
  <2>3. d.object[1] # 0
    BY <1>3, <2>2
  <2>4. PICK m \in 1..LaidOut : d \in Tree(m, logicals[m], start[m])
    BY <2>3, PlacedTree
  <2>5. m = l
    BY <1>3, <2>2, <2>4
  <2> QED
    BY <2>4, <2>5
<1>7. \A d \in T : d \in cells
  BY PlacedTree
<1> HIDE DEF T
<1>8. Children(c) = ChildrenIn(T, c)
  BY <1>6, <1>7 DEF Children, ChildrenIn
<1> QED
  BY <1>4, <1>8

\* On any page the arrays tile the table and every array, volume and pattern
\* is divided by its parts into whole lines, so that none of their cells is
\* off a line: whatever the drives, the volumes and what is bound to them,
\* and whether or not arrays are degraded.
THEOREM CellsDivide == Spec => []Divisible
<1>1. TableInv => Divisible
  <2> SUFFICES ASSUME TableInv PROVE Divisible
    OBVIOUS
  <2>1. TableType
    BY DEF TableInv
  <2>2. PICK start \in Starts(logicals) : Placed(start)
    BY DEF TableInv
  <2>3. Tile(In("logical"), 1..(current_line - 1))
    BY <2>1, <2>2, ArraysTile
  <2>4. \A c \in cells : c.object[1] # 0 /\ Children(c) # {} => Tile(Children(c), Lines(c))
    BY <2>1, <2>2, ChildrenTile
  <2> QED
    BY <2>3, <2>4 DEF Divisible
<1> QED
  BY TableInvariant, <1>1, PTL

\* The cells of a drive column stay within its lines, and have some.
LEMMA TileWithin ==
    ASSUME NEW C \in SUBSET Cell, NEW lines, Tile(C, lines), NEW c \in C
    PROVE  Lines(c) # {} /\ Lines(c) \in SUBSET lines
<1>1. c.line \in Nat /\ c.rowspan \in Nat /\ c.rowspan >= 1
  BY DEF Cell, Positive
<1>2. c.line \in Lines(c)
  BY <1>1 DEF Lines
<1> HIDE DEF Lines
<1>3. Lines(c) \in SUBSET UNION {Lines(d) : d \in C}
  OBVIOUS
<1> QED
  BY <1>2, <1>3 DEF Tile

\* While at most one array misses drives (two would show the same object
\* "99:i", and the later one its rowspan in both places), the drives beside
\* an array are its own, and they tile its lines.
THEOREM DrivesStandBeside ==
    ASSUME MaxDegraded <= 1
    PROVE  Spec => []DrivesBesideArrays
<1>1. TableInv => DrivesBesideArrays
  <2> SUFFICES ASSUME TableInv, NEW c \in In("logical")
               PROVE  Tile({d \in In("physical") : Lines(d) \cap Lines(c) # {}}, Lines(c))
    BY DEF DrivesBesideArrays
  <2>1. TableType
    BY DEF TableInv
  <2>2. PICK start \in Starts(logicals) : Placed(start)
    BY DEF TableInv
  <2>3. LaidOut \in 0..Arrays /\ Arrays \in Nat
    BY <2>1, <2>2, TableFacts
  <2>4. PICK l \in 1..LaidOut : c = LogicalCell(l, logicals[l], start[l])
    BY <2>1, <2>2, LogicalCells
  <2> DEFINE B == Beside(logicals[l], start[l])
             block(m) == start[m]..(start[m + 1] - 1)
  <2>5. l \in 1..Arrays /\ Lines(c) = block(l)
    BY <2>1, <2>2, <2>3, <2>4, LogicalLines
  <2>6. ASSUME NEW m \in 1..Arrays
        PROVE  LET C == Beside(logicals[m], start[m])
               IN  Tile(C, block(m)) /\ \A d \in C : Lines(d) # {} /\ Lines(d) \in SUBSET block(m)
    <3> DEFINE C == Beside(logicals[m], start[m])
               lines == lines_quantity(logicals[m])
    <3>1. /\ logicals[m] \in Array /\ start[m] \in Nat /\ lines \in Nat
          /\ start[m + 1] = start[m] + lines
      BY <2>1, <2>2, TableFacts DEF Positive
    <3>2. block(m) = start[m]..(start[m] + lines - 1)
      <4> HIDE DEF lines
      <4> QED
        BY <3>1
    <3>3. (\A d \in C : d \in Cell) /\ Tile(C, start[m]..(start[m] + lines - 1))
      BY <3>1, BesideFacts, Zenon
    <3> HIDE DEF block, C, lines
    <3>4. C \in SUBSET Cell /\ Tile(C, block(m))
      BY <3>2, <3>3
    <3>5. \A d \in C : Lines(d) # {} /\ Lines(d) \in SUBSET block(m)
      BY <3>4, TileWithin
    <3> QED
      BY <3>4, <3>5 DEF C
  <2>7. ASSUME NEW d \in B PROVE d \in In("physical") /\ Lines(d) \cap Lines(c) # {}
    <3>1. d \in In("physical")
      BY <2>2, <2>7, PlacedDrives, Zenon
    <3>2. Lines(d) # {} /\ Lines(d) \in SUBSET block(l)
      BY <2>5, <2>6
    <3> HIDE DEF block
    <3> QED
      BY <2>5, <3>1, <3>2
  <2>8. ASSUME NEW d \in In("physical"), Lines(d) \cap Lines(c) # {} PROVE d \in B
    <3>1. CASE \E m \in 1..LaidOut : d \in Beside(logicals[m], start[m])
      <4>1. PICK m \in 1..LaidOut : d \in Beside(logicals[m], start[m])
        BY <3>1
      <4>2. m \in 1..Arrays
        BY <2>3
      <4>3. Lines(d) \in SUBSET block(m)
        BY <2>6, <4>1, <4>2
      <4>4. m # l => block(m) \cap block(l) = {}
        BY <2>1, <2>2, <2>5, <4>2, BlocksApart
      <4> HIDE DEF block
      <4>5. m = l
        BY <2>5, <2>8, <4>3, <4>4
      <4> QED
        BY <4>1, <4>5
    <3>2. CASE done > Arrays /\ d \in FreeDrives
      <4>1. /\ current_line = start[Arrays + 1] /\ current_line \in Nat
            /\ start[l + 1] <= current_line /\ start[l] \in Nat /\ start[l + 1] \in Nat
        <5>1. LaidOut = Arrays
          BY <2>1, <2>3, <3>2 DEF LaidOut
        <5>2. current_line = start[Arrays + 1]
          BY <2>2, <5>1 DEF Placed
        <5>3. Arrays \in 0..Arrays /\ Arrays + 1 \in 1..(Arrays + 1) /\ l \in 1..(Arrays + 1)
              /\ l + 1 \in 1..(Arrays + 1)
          BY <2>3, <2>5
        <5>4. \A k \in 1..(Arrays + 1) : start[k] \in Nat
          BY <2>1, <2>2, TableFacts
        <5>5. start[l + 1] <= start[Arrays + 1]
          BY <2>1, <2>2, <2>5, <5>3, StartsTile DEF TableType
        <5> QED
          BY <5>2, <5>3, <5>4, <5>5
      <4> DEFINE n == Len(Sorted(physicals_free))
                 rest == current_line..(current_line + n - 1)
      <4>2. /\ FreeDrives \in SUBSET Cell
            /\ Tile(FreeDrives, rest)
        BY <2>1, <3>2, <4>1, FreeCells
      <4>3. Lines(d) \in SUBSET rest
        BY <3>2, <4>2, TileWithin
      <4>4. rest \cap block(l) = {}
        <5>1. \A x \in rest : x \in Int /\ current_line <= x
          BY <4>1
        <5>2. \A x \in block(l) : x \in Int /\ x < start[l + 1]
          BY <4>1
        <5> HIDE DEF rest, block
        <5> QED
          BY <4>1, <5>1, <5>2
      <4> HIDE DEF rest, block
      <4> QED
        BY <2>5, <2>8, <4>3, <4>4
    <3> QED
      BY <2>2, <2>8, <3>1, <3>2, PlacedDrives
  <2>9. {d \in In("physical") : Lines(d) \cap Lines(c) # {}} = B
    <3> HIDE DEF B
    <3> QED
      BY <2>7, <2>8
  <2> QED
    BY <2>5, <2>6, <2>9
<1> QED
  BY TableInvariant, <1>1, PTL
=============================================================================
