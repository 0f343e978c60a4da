--------------------------- MODULE KeyedJoinProofs ----------------------------
(***************************************************************************)
(* Proofs about KeyedJoinRuntime, for any keys, number of sides, weights,  *)
(* configurations and drain sizes: every emission holds each combination of*)
(* what its sides were owed once, when it is due, and every reachable state*)
(* passes its own restore.                                                 *)
(***************************************************************************)
EXTENDS KeyedJoinRuntime, ProofLemmas

-----------------------------------------------------------------------------
(***************************************************************************)
(* Numbers written in the digits of the sides: the rows of a key count     *)
(* through the combinations of its sides, the last side fastest.           *)
(***************************************************************************)

\* Quotient and remainder, where they are known.
LEMMA QuotientKnown ==
    ASSUME NEW q \in Nat, NEW b \in Nat \ {0}, NEW r \in Nat, r < b
    PROVE  (q * b + r) \div b = q /\ (q * b + r) % b = r
<1> DEFINE x == q * b + r
           p == x \div b
<1>0. q * b \in Nat OBVIOUS
<1>1. x \in Nat /\ p \in Int /\ p * b <= x /\ x < p * b + b /\ x % b = x - p * b
  <2>1. x \in Nat BY <1>0
  <2> HIDE DEF x
  <2> QED BY <2>1
<1> HIDE DEF p
<1>2. p * b \in Int BY <1>1
<1>3. ~ (p < q)
  <2> SUFFICES ASSUME p < q PROVE FALSE OBVIOUS
  <2>1. p + 1 <= q BY <1>1
  <2>2. (p + 1) * b <= q * b BY <1>1, <2>1
  <2>3. (p + 1) * b = p * b + b BY <1>1
  <2> QED BY <1>0, <1>1, <1>2, <2>2, <2>3
<1>4. ~ (q < p)
  <2> SUFFICES ASSUME q < p PROVE FALSE OBVIOUS
  <2>1. q + 1 <= p BY <1>1
  <2>2. (q + 1) * b <= p * b BY <1>1, <2>1
  <2>3. (q + 1) * b = q * b + b OBVIOUS
  <2> QED BY <1>0, <1>1, <1>2, <2>2, <2>3
<1>5. p = q BY <1>1, <1>3, <1>4
<1>6. x % b = r BY <1>0, <1>1, <1>5
<1> QED BY <1>5, <1>6 DEF p

\* Every number has them.
LEMMA QuotientExists ==
    ASSUME NEW x \in Nat, NEW b \in Nat \ {0}
    PROVE  /\ x \div b \in Nat /\ x % b \in Nat /\ x % b < b
           /\ x = (x \div b) * b + (x % b)
<1> DEFINE q == x \div b
<1>1. q \in Int /\ q * b <= x /\ x < q * b + b /\ x % b = x - q * b OBVIOUS
<1>2. q \in Nat
  <2> SUFFICES ASSUME q < 0 PROVE FALSE BY <1>1
  <2> HIDE DEF q
  <2>1. (q + 1) * b <= 0 * b BY <1>1
  <2>2. (q + 1) * b = q * b + b /\ 0 * b = 0 BY <1>1
  <2>3. q * b \in Int BY <1>1
  <2> QED BY <1>1, <2>1, <2>2, <2>3
<1> HIDE DEF q
<1>3. q * b \in Int BY <1>1
<1> DEFINE r == x % b
           p == q * b
<1>4. p \in Int /\ p <= x /\ x < p + b /\ r = x - p BY <1>1, <1>3
<1> HIDE DEF r, p
<1>5. r \in Nat /\ r < b /\ x = p + r BY <1>4
<1>6. x = q * b + r BY <1>5 DEF p
<1> QED BY <1>2, <1>5, <1>6 DEF q, r

\* Whole multiples do not change a remainder.
LEMMA RemainderOfMore ==
    ASSUME NEW q \in Nat, NEW b \in Nat \ {0}, NEW x \in Nat
    PROVE  (q * b + x) % b = x % b
<1> DEFINE p == x \div b
           r == x % b
<1>1. p \in Nat /\ r \in Nat /\ r < b /\ x = p * b + r BY QuotientExists
<1> HIDE DEF p, r
<1>2. q * b + x = (q + p) * b + r
  <2>1. (q + p) * b = q * b + p * b BY <1>1
  <2>2. q * b \in Nat /\ p * b \in Nat BY <1>1
  <2> QED BY <1>1, <2>1, <2>2
<1>3. ((q + p) * b + r) % b = r BY <1>1, QuotientKnown
<1> QED BY <1>2, <1>3 DEF r

\* Lengths, the number of combinations after each place, and a place's digit.
Lengths(len, N) == \A u \in 1 .. N : len[u] \in Nat \ {0}

StrideRun(f, len, N) ==
    f = [s \in 0 .. N |-> IF s = N THEN 1 ELSE len[s + 1] * f[s + 1]]

Digit(f, len, u, n) == (n \div f[u]) % len[u]

\* The recursion of the strides has a solution.
LEMMA StrideDefined ==
    ASSUME NEW N \in Nat, NEW len PROVE \E f : StrideRun(f, len, N)
<1> DEFINE Entry(f, s) == IF s = N THEN 1 ELSE len[s + 1] * f[s + 1]
           Solved(m) == \E f : f = [s \in N - m .. N |-> Entry(f, s)]
           Bad == {m \in 0 .. N : ~ Solved(m)}
<1> SUFFICES Solved(N)
  <2>1. N - N = 0 OBVIOUS
  <2> QED BY <2>1 DEF StrideRun
<1> SUFFICES ASSUME Bad # {} PROVE FALSE
  <2> HIDE DEF Solved
  <2> QED OBVIOUS
<1>1. PICK m \in Bad : \A n \in Bad : m <= n
  <2>1. Bad \in SUBSET Nat OBVIOUS
  <2> HIDE DEF Bad
  <2> QED BY <2>1, LeastNatural
<1>2. m # 0
  <2> SUFFICES Solved(0)
    <3> HIDE DEF Solved
    <3> QED BY <1>1
  <2> DEFINE f == [s \in N - 0 .. N |-> 1]
  <2>1. f = [s \in N - 0 .. N |-> Entry(f, s)]
    <3>1. \A s \in N - 0 .. N : Entry(f, s) = 1 OBVIOUS
    <3> QED BY <3>1
  <2> QED BY <2>1
<1>3. m \in 1 .. N /\ m - 1 \in 0 .. N /\ ~ (m <= m - 1)
  <2>1. m \in 0 .. N BY <1>1
  <2> QED BY <1>2, <2>1
<1>4. PICK f : f = [s \in N - (m - 1) .. N |-> Entry(f, s)]
  <2>1. m - 1 \notin Bad
    <3> HIDE DEF Bad
    <3> QED BY <1>1, <1>3
  <2>2. Solved(m - 1)
    <3> HIDE DEF Solved
    <3> QED BY <1>3, <2>1
  <2> QED BY <2>2
<1> DEFINE g == [s \in N - m .. N |-> IF s = N - m THEN Entry(f, s) ELSE f[s]]
<1>5. \A s \in N - m .. N : s # N => s + 1 \in N - (m - 1) .. N /\ g[s + 1] = f[s + 1]
  BY <1>3
<1>6. \A s \in N - m .. N : Entry(g, s) = Entry(f, s) BY <1>5
<1>7. \A s \in N - (m - 1) .. N : f[s] = Entry(f, s) BY <1>4
<1>8. \A s \in N - m .. N : g[s] = Entry(f, s)
  <2> SUFFICES ASSUME NEW s \in N - m .. N PROVE g[s] = Entry(f, s) OBVIOUS
  <2>1. CASE s = N - m
    <3> HIDE DEF Entry
    <3> QED BY <2>1
  <2>2. CASE s # N - m
    <3>1. s \in N - (m - 1) .. N BY <1>3, <2>2
    <3>2. g[s] = f[s] BY <2>2
    <3> HIDE DEF Entry, g
    <3> QED BY <1>7, <3>1, <3>2
  <2> QED BY <2>1, <2>2
<1>9. Solved(m)
  <2>1. g = [s \in N - m .. N |-> Entry(g, s)]
    <3> HIDE DEF Entry
    <3>1. g = [s \in N - m .. N |-> g[s]] OBVIOUS
    <3> HIDE DEF g
    <3> QED BY <1>6, <1>8, <3>1
  <2> QED BY <2>1
<1> HIDE DEF Solved
<1> QED BY <1>1, <1>9

\* The numbers of combinations are positive, and each is a multiple of those
\* after it.
LEMMA StridesMultiply ==
    ASSUME NEW N \in Nat, NEW len, Lengths(len, N), NEW f, StrideRun(f, len, N)
    PROVE  /\ f[N] = 1
           /\ \A s \in 0 .. N : f[s] \in Nat \ {0}
           /\ \A s \in 1 .. N : f[s - 1] = len[s] * f[s]
           /\ \A u \in 1 .. N : \A s \in 0 .. u - 1 : \E c \in Nat \ {0} : f[s] = c * f[u - 1]
<1>1. f[N] = 1 BY DEF StrideRun
<1>2. \A s \in 1 .. N : f[s - 1] = len[s] * f[s]
  <2> SUFFICES ASSUME NEW s \in 1 .. N PROVE f[s - 1] = len[s] * f[s] OBVIOUS
  <2>1. s - 1 \in 0 .. N /\ s - 1 # N /\ (s - 1) + 1 = s OBVIOUS
  <2> QED BY <2>1 DEF StrideRun
<1>3. \A s \in 0 .. N : f[s] \in Nat \ {0}
  <2> DEFINE Bad == {m \in 0 .. N : f[N - m] \notin Nat \ {0}}
  <2>1. Bad = {}
    <3> SUFFICES ASSUME Bad # {} PROVE FALSE OBVIOUS
    <3>1. PICK m \in Bad : \A n \in Bad : m <= n
      <4>1. Bad \in SUBSET Nat OBVIOUS
      <4> HIDE DEF Bad
      <4> QED BY <4>1, LeastNatural
    <3>2. m # 0
      <4>1. N - 0 = N OBVIOUS
      <4> QED BY <1>1, <3>1, <4>1
    <3>3. m \in 1 .. N /\ m - 1 \in 0 .. N /\ ~ (m <= m - 1) /\ N - (m - 1) \in 1 .. N
          /\ (N - (m - 1)) - 1 = N - m
      <4>1. m \in 0 .. N BY <3>1
      <4> QED BY <3>2, <4>1
    <3>4. f[N - (m - 1)] \in Nat \ {0}
      <4>1. m - 1 \notin Bad
        <5> HIDE DEF Bad
        <5> QED BY <3>1, <3>3
      <4> QED BY <3>3, <4>1
    <3>5. f[N - m] = len[N - (m - 1)] * f[N - (m - 1)] BY <1>2, <3>3
    <3>6. len[N - (m - 1)] \in Nat \ {0} BY <3>3 DEF Lengths
    <3>7. f[N - m] \in Nat \ {0} BY <3>4, <3>5, <3>6
    <3> QED BY <3>1, <3>7
  <2> SUFFICES ASSUME NEW s \in 0 .. N PROVE f[s] \in Nat \ {0} OBVIOUS
  <2>2. N - s \in 0 .. N /\ N - (N - s) = s OBVIOUS
  <2> QED BY <2>1, <2>2
<1>4. ASSUME NEW u \in 1 .. N, NEW s \in 0 .. u - 1
      PROVE  \E c \in Nat \ {0} : f[s] = c * f[u - 1]
  <2> DEFINE Bad == {m \in 0 .. u - 1 : ~ \E c \in Nat \ {0} : f[(u - 1) - m] = c * f[u - 1]}
  <2>0. f[u - 1] \in Nat BY <1>3
  <2>1. Bad = {}
    <3> SUFFICES ASSUME Bad # {} PROVE FALSE OBVIOUS
    <3>1. PICK m \in Bad : \A n \in Bad : m <= n
      <4>1. Bad \in SUBSET Nat OBVIOUS
      <4> HIDE DEF Bad
      <4> QED BY <4>1, LeastNatural
    <3>2. m # 0
      <4>1. (u - 1) - 0 = u - 1 OBVIOUS
      <4>2. f[u - 1] = 1 * f[u - 1] BY <2>0
      <4>3. 0 \notin Bad BY <4>1, <4>2
      <4> HIDE DEF Bad
      <4> QED BY <3>1, <4>3
    <3> DEFINE t == (u - 1) - (m - 1)
    <3>3. m \in 1 .. u - 1 /\ m - 1 \in 0 .. u - 1 /\ ~ (m <= m - 1) /\ t \in 1 .. N
          /\ t - 1 = (u - 1) - m
      <4>1. m \in 0 .. u - 1 BY <3>1
      <4> QED BY <3>2, <4>1
    <3>4. m - 1 \notin Bad
      <4> HIDE DEF Bad
      <4> QED BY <3>1, <3>3
    <3>5. PICK c \in Nat \ {0} : f[t] = c * f[u - 1] BY <3>3, <3>4
    <3> HIDE DEF t
    <3>6. f[t - 1] = len[t] * f[t] /\ len[t] \in Nat \ {0} BY <1>2, <3>3 DEF Lengths
    <3>7. len[t] * c \in Nat \ {0} BY <3>6
    <3>8. len[t] * (c * f[u - 1]) = (len[t] * c) * f[u - 1] BY <2>0, <3>6
    <3>9. \E d \in Nat \ {0} : f[(u - 1) - m] = d * f[u - 1] BY <3>3, <3>5, <3>6, <3>7, <3>8
    <3> QED BY <3>1, <3>9
  <2>2. (u - 1) - s \in 0 .. u - 1 /\ (u - 1) - ((u - 1) - s) = s OBVIOUS
  <2> QED BY <2>1, <2>2
<1> QED BY <1>1, <1>2, <1>3, <1>4

\* A digit in front: the others are those of the rest.
LEMMA DigitInFront ==
    ASSUME NEW N \in Nat, NEW len, Lengths(len, N), NEW f, StrideRun(f, len, N),
           NEW s \in 1 .. N, NEW d \in Nat, d < len[s], NEW r \in Nat, r < f[s]
    PROVE  /\ d * f[s] + r \in 0 .. f[s - 1] - 1
           /\ Digit(f, len, s, d * f[s] + r) = d
           /\ \A u \in s + 1 .. N : Digit(f, len, u, d * f[s] + r) = Digit(f, len, u, r)
<1>1. /\ \A t \in 0 .. N : f[t] \in Nat \ {0}
      /\ f[s - 1] = len[s] * f[s]
      /\ \A u \in 1 .. N : \A t \in 0 .. u - 1 : \E c \in Nat \ {0} : f[t] = c * f[u - 1]
      /\ \A t \in 1 .. N : f[t - 1] = len[t] * f[t]
  BY StridesMultiply
<1> DEFINE b == f[s]
           l == len[s]
<1>2. b \in Nat \ {0} /\ l \in Nat \ {0} BY <1>1 DEF Lengths
<1>3. d * b + r \in 0 .. f[s - 1] - 1
  <2>1. d + 1 <= l /\ f[s - 1] = l * b /\ r < b BY <1>1, <1>2
  <2> HIDE DEF l, b
  <2>2. (d + 1) * b <= l * b BY <1>2, <2>1
  <2>3. (d + 1) * b = d * b + b BY <1>2
  <2>4. d * b \in Nat /\ l * b \in Nat BY <1>2
  <2> QED BY <1>2, <2>1, <2>2, <2>3, <2>4
<1>4. Digit(f, len, s, d * b + r) = d
  <2>1. (d * b + r) \div b = d BY <1>2, QuotientKnown
  <2>2. d % l = d
    <3>1. (0 * l + d) % l = d BY <1>2, QuotientKnown
    <3>2. 0 * l + d = d BY <1>2
    <3> QED BY <3>1, <3>2
  <2> QED BY <2>1, <2>2 DEF Digit
<1>5. ASSUME NEW u \in s + 1 .. N
      PROVE  Digit(f, len, u, d * b + r) = Digit(f, len, u, r)
  <2> DEFINE e == f[u]
             k == len[u]
             q == r \div e
             t == r % e
  <2>1. e \in Nat \ {0} /\ k \in Nat \ {0} /\ u \in 1 .. N /\ s \in 0 .. u - 1 /\ f[u - 1] = k * e
    BY <1>1 DEF Lengths
  <2>2. PICK c \in Nat \ {0} : b = c * f[u - 1] BY <1>1, <2>1
  <2>3. b = (c * k) * e
    <3> HIDE DEF b, e, k
    <3>1. c * (k * e) = (c * k) * e BY <2>1
    <3> QED BY <2>1, <2>2, <3>1
  <2>4. q \in Nat /\ t \in Nat /\ t < e /\ r = q * e + t
    <3> HIDE DEF e
    <3> QED BY <2>1, QuotientExists
  <2> DEFINE g == (d * c) * k
  <2> HIDE DEF b, e, k, q, t
  <2>5. g \in Nat BY <2>1
  <2>6. d * b = g * e
    <3>1. d * ((c * k) * e) = ((d * c) * k) * e BY <2>1
    <3> QED BY <2>3, <3>1
  <2>7. d * b + r = (g + q) * e + t
    <3>1. (g + q) * e = g * e + q * e BY <2>1, <2>4, <2>5
    <3>2. g * e \in Nat /\ q * e \in Nat BY <2>1, <2>4, <2>5
    <3> HIDE DEF g
    <3> QED BY <2>4, <2>6, <3>1, <3>2
  <2>8. (d * b + r) \div e = g + q
    <3> HIDE DEF g
    <3>1. g + q \in Nat BY <2>4, <2>5
    <3>2. ((g + q) * e + t) \div e = g + q BY <2>1, <2>4, <3>1, QuotientKnown
    <3> QED BY <2>7, <3>2
  <2>9. (g + q) % k = q % k
    <3>1. d * c \in Nat OBVIOUS
    <3> QED BY <2>1, <2>4, <3>1, RemainderOfMore
  <2> QED BY <2>8, <2>9 DEF Digit, e, k, q
<1> QED BY <1>3, <1>4, <1>5

\* Every number below a stride has a first digit and a rest.
LEMMA DigitTaken ==
    ASSUME NEW N \in Nat, NEW len, Lengths(len, N), NEW f, StrideRun(f, len, N),
           NEW s \in 1 .. N, NEW n \in 0 .. f[s - 1] - 1
    PROVE  \E d \in Nat, r \in Nat : d < len[s] /\ r < f[s] /\ n = d * f[s] + r
<1>1. f[s] \in Nat \ {0} /\ f[s - 1] = len[s] * f[s] /\ len[s] \in Nat \ {0} /\ f[s - 1] \in Nat
  BY StridesMultiply DEF Lengths
<1> DEFINE b == f[s]
           l == len[s]
           d == n \div b
           r == n % b
<1>2. n \in Nat /\ n < l * b BY <1>1
<1>3. d \in Nat /\ r \in Nat /\ r < b /\ n = d * b + r
  <2> HIDE DEF b
  <2> QED BY <1>1, <1>2, QuotientExists DEF b
<1> HIDE DEF d, r
<1>4. d < l
  <2> SUFFICES ASSUME ~ (d < l) PROVE FALSE OBVIOUS
  <2>1. l <= d BY <1>1, <1>3
  <2>2. b \in Nat /\ l \in Nat BY <1>1
  <2> HIDE DEF b, l
  <2>3. l * b <= d * b BY <1>3, <2>1, <2>2
  <2>4. l * b \in Nat /\ d * b \in Nat BY <1>3, <2>2
  <2> QED BY <1>2, <1>3, <2>3, <2>4
<1> QED BY <1>3, <1>4

\* A combination of digits is that of one number.
LEMMA DigitsReach ==
    ASSUME NEW N \in Nat, NEW len, Lengths(len, N), NEW f, StrideRun(f, len, N),
           NEW digit, \A u \in 1 .. N : digit[u] \in Nat /\ digit[u] < len[u]
    PROVE  \E n \in 0 .. f[0] - 1 : \A u \in 1 .. N : Digit(f, len, u, n) = digit[u]
<1> DEFINE Reached(s) ==
              \E n \in 0 .. f[s] - 1 : \A u \in s + 1 .. N : Digit(f, len, u, n) = digit[u]
           Bad == {m \in 0 .. N : ~ Reached(N - m)}
<1>1. f[N] = 1 /\ \A s \in 0 .. N : f[s] \in Nat \ {0} BY StridesMultiply
<1>2. Bad = {}
  <2> SUFFICES ASSUME Bad # {} PROVE FALSE OBVIOUS
  <2>1. PICK m \in Bad : \A n \in Bad : m <= n
    <3>1. Bad \in SUBSET Nat OBVIOUS
    <3> HIDE DEF Bad
    <3> QED BY <3>1, LeastNatural
  <2>2. m # 0
    <3>1. Reached(N)
      <4>1. 0 \in 0 .. f[N] - 1 /\ N + 1 .. N = {} BY <1>1
      <4> QED BY <4>1
    <3>2. N - 0 = N OBVIOUS
    <3> HIDE DEF Reached
    <3> QED BY <2>1, <3>1, <3>2
  <2> DEFINE s == N - (m - 1)
  <2>3. m \in 1 .. N /\ m - 1 \in 0 .. N /\ ~ (m <= m - 1) /\ s \in 1 .. N /\ s - 1 = N - m
    <3>1. m \in 0 .. N BY <2>1
    <3> QED BY <2>2, <3>1
  <2>4. Reached(s)
    <3>1. m - 1 \notin Bad
      <4> HIDE DEF Bad
      <4> QED BY <2>1, <2>3
    <3> HIDE DEF Reached
    <3> QED BY <2>3, <3>1
  <2> HIDE DEF s
  <2>5. PICK r \in 0 .. f[s] - 1 : \A u \in s + 1 .. N : Digit(f, len, u, r) = digit[u]
    BY <2>4
  <2> DEFINE n == digit[s] * f[s] + r
  <2>6. r \in Nat /\ r < f[s] /\ digit[s] \in Nat /\ digit[s] < len[s]
    BY <1>1, <2>3
  <2>7. /\ n \in 0 .. f[s - 1] - 1
        /\ Digit(f, len, s, n) = digit[s]
        /\ \A u \in s + 1 .. N : Digit(f, len, u, n) = Digit(f, len, u, r)
    BY <2>3, <2>6, DigitInFront
  <2> HIDE DEF n
  <2>8. \A u \in (s - 1) + 1 .. N : u = s \/ u \in s + 1 .. N BY <2>3
  <2>9. \A u \in (s - 1) + 1 .. N : Digit(f, len, u, n) = digit[u] BY <2>5, <2>7, <2>8
  <2>10. Reached(s - 1) BY <2>7, <2>9
  <2> HIDE DEF Reached
  <2> QED BY <2>1, <2>3, <2>10
<1>3. Reached(0)
  <2>1. N \in 0 .. N /\ N - N = 0 OBVIOUS
  <2> HIDE DEF Reached
  <2> QED BY <1>2, <2>1
<1> QED BY <1>3

\* Two numbers differ in a digit.
LEMMA DigitsDiffer ==
    ASSUME NEW N \in Nat, NEW len, Lengths(len, N), NEW f, StrideRun(f, len, N),
           NEW n \in 0 .. f[0] - 1, NEW m \in 0 .. f[0] - 1,
           \A u \in 1 .. N : Digit(f, len, u, n) = Digit(f, len, u, m)
    PROVE  n = m
<1> DEFINE Same(s) ==
              \A x \in 0 .. f[s] - 1, y \in 0 .. f[s] - 1 :
                  (\A u \in s + 1 .. N : Digit(f, len, u, x) = Digit(f, len, u, y)) => x = y
           Bad == {e \in 0 .. N : ~ Same(N - e)}
<1>1. f[N] = 1 /\ \A s \in 0 .. N : f[s] \in Nat \ {0} BY StridesMultiply
<1>2. Bad = {}
  <2> SUFFICES ASSUME Bad # {} PROVE FALSE OBVIOUS
  <2>1. PICK e \in Bad : \A d \in Bad : e <= d
    <3>1. Bad \in SUBSET Nat OBVIOUS
    <3> HIDE DEF Bad
    <3> QED BY <3>1, LeastNatural
  <2>2. e # 0
    <3>1. Same(N) BY <1>1
    <3>2. N - 0 = N OBVIOUS
    <3> HIDE DEF Same
    <3> QED BY <2>1, <3>1, <3>2
  <2> DEFINE s == N - (e - 1)
  <2>3. e \in 1 .. N /\ e - 1 \in 0 .. N /\ ~ (e <= e - 1) /\ s \in 1 .. N /\ s - 1 = N - e
    <3>1. e \in 0 .. N BY <2>1
    <3> QED BY <2>2, <3>1
  <2>4. Same(s)
    <3>1. e - 1 \notin Bad
      <4> HIDE DEF Bad
      <4> QED BY <2>1, <2>3
    <3> HIDE DEF Same
    <3> QED BY <2>3, <3>1
  <2> HIDE DEF s
  <2>5. Same(s - 1)
    <3> SUFFICES ASSUME NEW x \in 0 .. f[s - 1] - 1, NEW y \in 0 .. f[s - 1] - 1,
                        \A u \in (s - 1) + 1 .. N : Digit(f, len, u, x) = Digit(f, len, u, y)
                 PROVE  x = y
      OBVIOUS
    <3>1. PICK a \in Nat, p \in Nat : a < len[s] /\ p < f[s] /\ x = a * f[s] + p
      BY <2>3, DigitTaken
    <3>2. PICK b \in Nat, q \in Nat : b < len[s] /\ q < f[s] /\ y = b * f[s] + q
      BY <2>3, DigitTaken
    <3>3. /\ Digit(f, len, s, x) = a
          /\ \A u \in s + 1 .. N : Digit(f, len, u, x) = Digit(f, len, u, p)
      BY <2>3, <3>1, DigitInFront
    <3>4. /\ Digit(f, len, s, y) = b
          /\ \A u \in s + 1 .. N : Digit(f, len, u, y) = Digit(f, len, u, q)
      BY <2>3, <3>2, DigitInFront
    <3>5. /\ s \in (s - 1) + 1 .. N
          /\ \A u \in s + 1 .. N : u \in (s - 1) + 1 .. N
      BY <2>3
    <3>6. a = b BY <3>3, <3>4, <3>5
    <3>7. p \in 0 .. f[s] - 1 /\ q \in 0 .. f[s] - 1 BY <1>1, <2>3, <3>1, <3>2
    <3>8. \A u \in s + 1 .. N : Digit(f, len, u, p) = Digit(f, len, u, q)
      BY <3>3, <3>4, <3>5
    <3>9. p = q BY <2>4, <3>7, <3>8
    <3> QED BY <3>1, <3>2, <3>6, <3>9
  <2> HIDE DEF Same
  <2> QED BY <2>1, <2>3, <2>5
<1>3. Same(0)
  <2>1. N \in 0 .. N /\ N - N = 0 OBVIOUS
  <2> HIDE DEF Same
  <2> QED BY <1>2, <2>1
<1>4. \A u \in 0 + 1 .. N : u \in 1 .. N OBVIOUS
<1> QED BY <1>3, <1>4
-----------------------------------------------------------------------------
(***************************************************************************)
(* The rows of a cell.                                                     *)
(***************************************************************************)
Cell == [Side -> Seq(Nat)]

OfferedLengths(cell) == [s \in Side |-> Len(Offered(cell, s))]

Distinct(seq) == \A i, j \in 1 .. Len(seq) : seq[i] = seq[j] => i = j

\* The combinations of what the sides offer.
Picked(cell, T) ==
    {f \in [Side -> T] : \A s \in Side : \E i \in 1 .. Len(Offered(cell, s)) :
                             Offered(cell, s)[i] = f[s]}

\* What a side offers.
LEMMA OfferedTyped ==
    ASSUME NEW cell \in Cell, NEW s \in Side
    PROVE  /\ Len(cell[s]) \in Nat
           /\ Len(Offered(cell, s)) \in Nat \ {0}
           /\ Len(cell[s]) <= Len(Offered(cell, s))
           /\ cell[s] # <<>> => Offered(cell, s) = cell[s] /\ Len(cell[s]) > 0
           /\ cell[s] = <<>> => Offered(cell, s) = <<Absent>> /\ Len(cell[s]) = 0
                                /\ Len(Offered(cell, s)) = 1
<1>1. cell[s] \in Seq(Nat) BY DEF Cell
<1>2. CASE cell[s] = <<>>
  <2>1. Offered(cell, s) = <<Absent>> BY <1>2 DEF Offered
  <2> QED BY <1>2, <2>1
<1>3. CASE cell[s] # <<>>
  <2>1. Offered(cell, s) = cell[s] BY <1>3 DEF Offered
  <2>2. Len(cell[s]) \in Nat \ {0} BY <1>1, <1>3, EmptySeq
  <2> QED BY <1>3, <2>1, <2>2
<1> QED BY <1>2, <1>3

LEMMA StridesRun ==
    ASSUME NEW cell \in Cell
    PROVE  /\ Sides \in Nat /\ Side = 1 .. Sides
           /\ Lengths(OfferedLengths(cell), Sides)
           /\ StrideRun(Strides(cell), OfferedLengths(cell), Sides)
<1>1. Sides \in Nat /\ Side = 1 .. Sides BY JoinAssumption DEF Side
<1>2. Lengths(OfferedLengths(cell), Sides)
  BY <1>1, OfferedTyped DEF Lengths, OfferedLengths
<1> DEFINE len == OfferedLengths(cell)
           Step(f) == [s \in 0 .. Sides |->
                          IF s = Sides THEN 1 ELSE Len(Offered(cell, s + 1)) * f[s + 1]]
<1>3. \A s \in 0 .. Sides : s # Sides => len[s + 1] = Len(Offered(cell, s + 1))
  BY <1>1 DEF OfferedLengths
<1>4. \A f : StrideRun(f, len, Sides) <=> f = Step(f)
  <2> HIDE DEF len
  <2> SUFFICES ASSUME NEW f PROVE StrideRun(f, len, Sides) <=> f = Step(f) OBVIOUS
  <2>1. [s \in 0 .. Sides |-> IF s = Sides THEN 1 ELSE len[s + 1] * f[s + 1]] = Step(f)
    BY <1>3
  <2> QED BY <2>1 DEF StrideRun
<1>5. \E f : f = Step(f)
  <2>1. PICK f : StrideRun(f, len, Sides) BY <1>1, StrideDefined
  <2> HIDE DEF len, Step
  <2> QED BY <1>4, <2>1
<1>6. Strides(cell) = CHOOSE f : f = Step(f) BY DEF Strides
<1>7. Strides(cell) = Step(Strides(cell))
  <2> HIDE DEF Step
  <2> QED BY <1>5, <1>6
<1>8. StrideRun(Strides(cell), len, Sides)
  <2> HIDE DEF Step, len
  <2> QED BY <1>4, <1>7
<1> QED BY <1>1, <1>2, <1>8

\* The number of rows: at least what any side has, and one where no side has
\* more than one value.
LEMMA RowCountTyped ==
    ASSUME NEW cell \in Cell
    PROVE  /\ RowCount(cell) \in Nat \ {0}
           /\ \A s \in Side : Len(cell[s]) <= RowCount(cell)
           /\ (\A s \in Side : Len(cell[s]) <= 1) => RowCount(cell) = 1
<1> DEFINE len == OfferedLengths(cell)
           f == Strides(cell)
<1>1. Sides \in Nat /\ Side = 1 .. Sides /\ Lengths(len, Sides) /\ StrideRun(f, len, Sides)
  BY StridesRun
<1>2. \A s \in Side : len[s] = Len(Offered(cell, s)) BY DEF OfferedLengths
<1> HIDE DEF len, f
<1>3. /\ f[Sides] = 1
      /\ \A s \in 0 .. Sides : f[s] \in Nat \ {0}
      /\ \A s \in 1 .. Sides : f[s - 1] = len[s] * f[s]
      /\ \A u \in 1 .. Sides : \A s \in 0 .. u - 1 : \E c \in Nat \ {0} : f[s] = c * f[u - 1]
  BY <1>1, StridesMultiply
<1>4. RowCount(cell) = f[0] /\ f[0] \in Nat \ {0} BY <1>1, <1>3 DEF RowCount, f
<1>5. ASSUME NEW s \in Side PROVE Len(cell[s]) <= f[0]
  <2>1. s \in 1 .. Sides /\ 0 \in 0 .. s - 1 BY <1>1
  <2>2. PICK c \in Nat \ {0} : f[0] = c * f[s - 1] BY <1>3, <2>1
  <2>3. /\ f[s - 1] = len[s] * f[s] /\ f[s] \in Nat \ {0} /\ len[s] \in Nat \ {0}
        /\ f[s - 1] \in Nat \ {0}
    BY <1>1, <1>3, <2>1 DEF Lengths
  <2> DEFINE a == f[0]
             b == f[s - 1]
             l == len[s]
             d == f[s]
  <2>4. a = c * b /\ b = l * d /\ l \in Nat \ {0} /\ d \in Nat \ {0} /\ b \in Nat \ {0}
    BY <2>2, <2>3
  <2> HIDE DEF a, b, l, d
  <2>5. l * 1 <= l * d BY <2>4
  <2>6. 1 * b <= c * b BY <2>4
  <2>7. l <= a BY <2>4, <2>5, <2>6
  <2>8. Len(cell[s]) <= l /\ Len(cell[s]) \in Nat BY <1>2, OfferedTyped DEF l
  <2>9. a \in Nat BY <1>4 DEF a
  <2>10. Len(cell[s]) <= a BY <2>4, <2>7, <2>8, <2>9
  <2> QED BY <2>10 DEF a
<1>6. ASSUME \A s \in Side : Len(cell[s]) <= 1 PROVE f[0] = 1
  <2>1. \A s \in Side : len[s] = 1
    <3> SUFFICES ASSUME NEW s \in Side PROVE len[s] = 1 OBVIOUS
    <3>1. Len(cell[s]) <= 1 /\ Len(cell[s]) \in Nat BY <1>6, OfferedTyped
    <3>2. CASE cell[s] = <<>> BY <1>2, <3>2, OfferedTyped
    <3>3. CASE cell[s] # <<>>
      <4>1. len[s] = Len(cell[s]) /\ Len(cell[s]) > 0 BY <1>2, <3>3, OfferedTyped
      <4>2. \A x \in Nat : x <= 1 /\ x > 0 => x = 1 OBVIOUS
      <4> QED BY <3>1, <4>1, <4>2
    <3> QED BY <3>2, <3>3
  <2> DEFINE Bad == {m \in 0 .. Sides : f[Sides - m] # 1}
  <2>2. Bad = {}
    <3> SUFFICES ASSUME Bad # {} PROVE FALSE OBVIOUS
    <3>1. PICK m \in Bad : \A n \in Bad : m <= n
      <4>1. Bad \in SUBSET Nat BY <1>1
      <4> HIDE DEF Bad
      <4> QED BY <4>1, LeastNatural
    <3>2. m # 0
      <4>1. Sides - 0 = Sides BY <1>1
      <4> QED BY <1>3, <3>1, <4>1
    <3> DEFINE t == Sides - (m - 1)
    <3>3. m - 1 \in 0 .. Sides /\ ~ (m <= m - 1) /\ t \in 1 .. Sides /\ t - 1 = Sides - m
      <4>1. m \in 0 .. Sides BY <3>1
      <4> QED BY <1>1, <3>2, <4>1
    <3>4. f[t] = 1
      <4>1. m - 1 \notin Bad
        <5> HIDE DEF Bad
        <5> QED BY <3>1, <3>3
      <4> QED BY <3>3, <4>1
    <3> HIDE DEF t
    <3>5. f[t - 1] = len[t] * f[t] /\ len[t] = 1 BY <1>1, <1>3, <2>1, <3>3
    <3>6. f[t - 1] = 1 BY <3>4, <3>5
    <3> QED BY <3>1, <3>3, <3>6
  <2>3. Sides \in 0 .. Sides /\ Sides - Sides = 0 BY <1>1
  <2> QED BY <2>2, <2>3
<1> QED BY <1>4, <1>5, <1>6

\* The rows are the combinations, each of them once if no side repeats a value.
LEMMA RowsArePicked ==
    ASSUME NEW k, NEW cell \in Cell, NEW T,
           \A s \in Side : \A i \in 1 .. Len(Offered(cell, s)) : Offered(cell, s)[i] \in T
    PROVE  /\ DOMAIN RowsOf(k, cell) = 1 .. RowCount(cell)
           /\ Len(RowsOf(k, cell)) = RowCount(cell)
           /\ {RowsOf(k, cell)[n] : n \in 1 .. RowCount(cell)}
                 = {[key |-> k, values |-> f] : f \in Picked(cell, T)}
           /\ (\A s \in Side : Distinct(Offered(cell, s)))
                 => Cardinality({RowsOf(k, cell)[n] : n \in 1 .. RowCount(cell)})
                       = RowCount(cell)
<1> DEFINE len == OfferedLengths(cell)
           f == Strides(cell)
           rows == RowsOf(k, cell)
           N == RowCount(cell)
           pick(s, n) == Offered(cell, s)[1 + Digit(f, len, s, n - 1)]
<1>1. Sides \in Nat /\ Side = 1 .. Sides /\ Lengths(len, Sides) /\ StrideRun(f, len, Sides)
  BY StridesRun
<1>2. \A s \in Side : len[s] = Len(Offered(cell, s)) BY DEF OfferedLengths
<1>3. N \in Nat \ {0} /\ N = f[0] BY RowCountTyped DEF RowCount
<1>4. rows = [n \in 1 .. N |-> [key |-> k, values |-> [s \in Side |-> pick(s, n)]]]
  BY <1>2 DEF RowsOf, Digit
<1>5. DOMAIN rows = 1 .. N /\ Len(rows) = N
  <2> HIDE DEF N, rows, pick
  <2> QED BY <1>3, <1>4
<1>6. \A s \in Side, n \in 1 .. N : Digit(f, len, s, n - 1) \in Nat
                                     /\ Digit(f, len, s, n - 1) < len[s]
  <2> SUFFICES ASSUME NEW s \in Side, NEW n \in 1 .. N
               PROVE  Digit(f, len, s, n - 1) \in Nat /\ Digit(f, len, s, n - 1) < len[s]
    OBVIOUS
  <2>1. f[s] \in Nat \ {0} /\ len[s] \in Nat \ {0}
    BY <1>1, StridesMultiply DEF Lengths
  <2> HIDE DEF f, len, N
  <2>2. n - 1 \in Nat BY <1>3
  <2>3. (n - 1) \div f[s] \in Nat BY <2>1, <2>2, QuotientExists
  <2> QED BY <2>1, <2>3, QuotientExists DEF Digit
<1> HIDE DEF len, f, N
<1>7. \A s \in Side, n \in 1 .. N :
          /\ 1 + Digit(f, len, s, n - 1) \in 1 .. Len(Offered(cell, s))
          /\ pick(s, n) \in T
  <2> SUFFICES ASSUME NEW s \in Side, NEW n \in 1 .. N
               PROVE  1 + Digit(f, len, s, n - 1) \in 1 .. Len(Offered(cell, s))
    OBVIOUS
  <2> DEFINE d == Digit(f, len, s, n - 1)
  <2>1. d \in Nat /\ d < Len(Offered(cell, s)) /\ Len(Offered(cell, s)) \in Nat
    BY <1>2, <1>6, OfferedTyped
  <2> HIDE DEF d
  <2>2. 1 + d \in 1 .. Len(Offered(cell, s)) BY <2>1
  <2> QED BY <2>2 DEF d
<1>8. {rows[n] : n \in 1 .. N} \subseteq {[key |-> k, values |-> g] : g \in Picked(cell, T)}
  <2> SUFFICES ASSUME NEW n \in 1 .. N
               PROVE  rows[n] \in {[key |-> k, values |-> g] : g \in Picked(cell, T)}
    OBVIOUS
  <2> DEFINE g == [s \in Side |-> pick(s, n)]
  <2>1. rows[n] = [key |-> k, values |-> g] BY <1>4
  <2>2. g \in [Side -> T] BY <1>7
  <2>3. \A s \in Side : \E i \in 1 .. Len(Offered(cell, s)) : Offered(cell, s)[i] = g[s]
    BY <1>7
  <2> HIDE DEF g
  <2> QED BY <2>1, <2>2, <2>3 DEF Picked
<1>9. {[key |-> k, values |-> g] : g \in Picked(cell, T)} \subseteq {rows[n] : n \in 1 .. N}
  <2> SUFFICES ASSUME NEW g \in Picked(cell, T)
               PROVE  [key |-> k, values |-> g] \in {rows[n] : n \in 1 .. N}
    OBVIOUS
  <2> DEFINE at(s) == CHOOSE i \in 1 .. Len(Offered(cell, s)) : Offered(cell, s)[i] = g[s]
             digit == [s \in Side |-> at(s) - 1]
  <2>1. \A s \in Side : at(s) \in 1 .. Len(Offered(cell, s)) /\ Offered(cell, s)[at(s)] = g[s]
    BY DEF Picked
  <2>2. g = [s \in Side |-> g[s]] BY DEF Picked
  <2> HIDE DEF at
  <2>3. \A u \in 1 .. Sides : digit[u] \in Nat /\ digit[u] < len[u]
    BY <1>1, <1>2, <2>1, OfferedTyped
  <2>4. \A s \in Side : 1 + digit[s] = at(s) BY <2>1, OfferedTyped
  <2> HIDE DEF digit
  <2>5. PICK m \in 0 .. f[0] - 1 : \A u \in 1 .. Sides : Digit(f, len, u, m) = digit[u]
    BY <1>1, <2>3, DigitsReach
  <2>6. m + 1 \in 1 .. N /\ (m + 1) - 1 = m BY <1>3, <2>5
  <2>7. \A s \in Side : pick(s, m + 1) = g[s] BY <1>1, <2>1, <2>4, <2>5, <2>6
  <2>8. rows[m + 1] = [key |-> k, values |-> [s \in Side |-> pick(s, m + 1)]]
    BY <1>4, <2>6
  <2> HIDE DEF pick
  <2>9. rows[m + 1] = [key |-> k, values |-> g] BY <2>2, <2>7, <2>8
  <2> QED BY <2>6, <2>9
<1>10. ASSUME \A s \in Side : Distinct(Offered(cell, s))
       PROVE  Cardinality({rows[n] : n \in 1 .. N}) = N
  <2>1. ASSUME NEW n \in 1 .. N, NEW m \in 1 .. N, rows[n] = rows[m] PROVE n = m
    <3>1. \A s \in Side : pick(s, n) = pick(s, m)
      <4>1. rows[n].values = [s \in Side |-> pick(s, n)]
            /\ rows[m].values = [s \in Side |-> pick(s, m)]
        BY <1>4
      <4>2. [s \in Side |-> pick(s, n)] = [s \in Side |-> pick(s, m)] BY <2>1, <4>1
      <4> HIDE DEF pick
      <4> QED BY <4>2
    <3>2. \A s \in Side : Digit(f, len, s, n - 1) = Digit(f, len, s, m - 1)
      <4> SUFFICES ASSUME NEW s \in Side
                   PROVE  Digit(f, len, s, n - 1) = Digit(f, len, s, m - 1)
        OBVIOUS
      <4>1. 1 + Digit(f, len, s, n - 1) = 1 + Digit(f, len, s, m - 1)
        BY <1>7, <1>10, <3>1 DEF Distinct
      <4>2. Digit(f, len, s, n - 1) \in Nat /\ Digit(f, len, s, m - 1) \in Nat BY <1>6
      <4> QED BY <4>1, <4>2
    <3>3. n - 1 \in 0 .. f[0] - 1 /\ m - 1 \in 0 .. f[0] - 1 BY <1>3
    <3>4. n - 1 = m - 1 BY <1>1, <3>2, <3>3, DigitsDiffer
    <3> QED BY <1>3, <3>4
  <2> DEFINE S == {rows[n] : n \in 1 .. N}
             h == [n \in 1 .. N |-> rows[n]]
  <2> HIDE DEF rows
  <2>2. h \in Bijection(1 .. N, S)
    <3>1. h \in [1 .. N -> S] OBVIOUS
    <3>2. \A n, m \in 1 .. N : h[n] = h[m] => n = m BY <2>1
    <3>3. \A x \in S : \E n \in 1 .. N : h[n] = x OBVIOUS
    <3> HIDE DEF h, S
    <3> QED BY <3>1, <3>2, <3>3 DEF Bijection, Injection, Surjection, IsInjective
  <2>3. ExistsBijection(1 .. N, S) BY <2>2 DEF ExistsBijection
  <2> HIDE DEF S
  <2>4. Cardinality(S) = N BY <1>3, <2>3, FS_CountingElements
  <2> QED BY <2>4 DEF S
<1> QED BY <1>5, <1>8, <1>9, <1>10 DEF N
-----------------------------------------------------------------------------
(***************************************************************************)
(* A set of keys in order.                                                 *)
(***************************************************************************)
Rank(keys, k) == Cardinality({j \in keys : j < k})

LEMMA RankGrows ==
    ASSUME NEW keys \in SUBSET Int, IsFiniteSet(keys), NEW a \in keys, NEW b \in keys, a < b
    PROVE  Rank(keys, a) \in Nat /\ Rank(keys, b) \in Nat /\ Rank(keys, a) < Rank(keys, b)
<1> DEFINE A == {j \in keys : j < a}
           B == {j \in keys : j < b}
<1>1. IsFiniteSet(A) /\ IsFiniteSet(B) BY FS_Subset
<1>2. A \cup {a} \subseteq B /\ a \notin A
  <2>1. a \in Int /\ b \in Int /\ \A j \in keys : j \in Int OBVIOUS
  <2>2. \A j \in keys : j < a => j < b BY <2>1
  <2>3. ~ (a < a) BY <2>1
  <2> QED BY <2>2, <2>3
<1> HIDE DEF A, B
<1>3. Cardinality(A) \in Nat /\ Cardinality(B) \in Nat BY <1>1, FS_CardinalityType
<1>4. Cardinality(A \cup {a}) = Cardinality(A) + 1 /\ IsFiniteSet(A \cup {a})
  BY <1>1, <1>2, FS_AddElement
<1>5. Cardinality(A \cup {a}) <= Cardinality(B) BY <1>1, <1>2, FS_Subset
<1>6. Cardinality(A) < Cardinality(B) BY <1>3, <1>4, <1>5
<1> QED BY <1>3, <1>6 DEF Rank, A, B

LEMMA RankTyped ==
    ASSUME NEW keys \in SUBSET Int, IsFiniteSet(keys), NEW a \in keys
    PROVE  Rank(keys, a) \in 0 .. Cardinality(keys) - 1
<1> DEFINE A == {j \in keys : j < a}
<1>1. IsFiniteSet(A) /\ A \cup {a} \subseteq keys /\ a \notin A BY FS_Subset
<1> HIDE DEF A
<1>2. Cardinality(A) \in Nat /\ Cardinality(keys) \in Nat BY <1>1, FS_CardinalityType
<1>3. Cardinality(A \cup {a}) = Cardinality(A) + 1 BY <1>1, FS_AddElement
<1>4. Cardinality(A \cup {a}) <= Cardinality(keys) BY <1>1, FS_Subset
<1>5. Cardinality(A) \in 0 .. Cardinality(keys) - 1 BY <1>2, <1>3, <1>4
<1> QED BY <1>5 DEF Rank, A

\* Ranks tell keys apart, in their order, and there is one of every rank.
LEMMA RankOrders ==
    ASSUME NEW keys \in SUBSET Int, IsFiniteSet(keys)
    PROVE  /\ \A a, b \in keys : (a < b <=> Rank(keys, a) < Rank(keys, b))
                                 /\ (Rank(keys, a) = Rank(keys, b) => a = b)
           /\ \A n \in 0 .. Cardinality(keys) - 1 : \E a \in keys : Rank(keys, a) = n
<1>1. ASSUME NEW a \in keys, NEW b \in keys
      PROVE  (a < b <=> Rank(keys, a) < Rank(keys, b)) /\ (Rank(keys, a) = Rank(keys, b) => a = b)
  <2>1. a \in Int /\ b \in Int OBVIOUS
  <2>2. a < b => /\ Rank(keys, a) \in Nat /\ Rank(keys, b) \in Nat
                 /\ Rank(keys, a) < Rank(keys, b)
    BY RankGrows
  <2>3. b < a => /\ Rank(keys, a) \in Nat /\ Rank(keys, b) \in Nat
                 /\ Rank(keys, b) < Rank(keys, a)
    BY RankGrows
  <2>4. a = b => Rank(keys, a) \in Int /\ ~ (Rank(keys, a) < Rank(keys, b))
    <3>1. Rank(keys, a) \in 0 .. Cardinality(keys) - 1 BY RankTyped
    <3>2. Cardinality(keys) \in Nat BY FS_CardinalityType
    <3> QED BY <3>1, <3>2
  <2>5. a < b \/ a = b \/ b < a BY <2>1
  <2> QED BY <2>1, <2>2, <2>3, <2>4, <2>5
<1>2. ASSUME NEW n \in 0 .. Cardinality(keys) - 1 PROVE \E a \in keys : Rank(keys, a) = n
  <2> DEFINE m == Cardinality(keys)
             T == 0 .. m - 1
             f == [a \in keys |-> Rank(keys, a)]
  <2>1. m \in Nat BY FS_CardinalityType
  <2>2. IsFiniteSet(T) /\ Cardinality(T) = m
    <3> HIDE DEF m
    <3>1. IsFiniteSet(0 .. m - 1)
          /\ Cardinality(0 .. m - 1) = IF 0 > m - 1 THEN 0 ELSE m - 1 - 0 + 1
      BY <2>1, FS_Interval
    <3> QED BY <2>1, <3>1
  <2>3. f \in [keys -> T]
    <3>1. \A a \in keys : Rank(keys, a) \in T BY RankTyped
    <3> HIDE DEF T
    <3> QED BY <3>1
  <2>4. \A a, b \in keys : f[a] = f[b] => a = b BY <1>1
  <2> HIDE DEF T, f, m
  <2>5. f \in Injection(keys, T) BY <2>3, <2>4 DEF Injection, IsInjective
  <2>6. Cardinality(keys) = Cardinality(T) BY <2>2 DEF m
  <2>7. f \in Surjection(keys, T) BY <2>2, <2>5, <2>6, FS_Injection
  <2>8. n \in T BY DEF T, m
  <2>9. \E a \in keys : f[a] = n BY <2>7, <2>8 DEF Surjection
  <2> QED BY <2>9 DEF f
<1> QED BY <1>1, <1>2

\* All of them, each once, in increasing order.
LEMMA InOrderSorts ==
    ASSUME NEW keys \in SUBSET Int, IsFiniteSet(keys)
    PROVE  /\ Cardinality(keys) \in Nat /\ DOMAIN InOrder(keys) = 1 .. Cardinality(keys)
           /\ \A n \in 1 .. Cardinality(keys) : InOrder(keys)[n] \in keys
           /\ \A k \in keys : \E n \in 1 .. Cardinality(keys) : InOrder(keys)[n] = k
           /\ \A n, m \in 1 .. Cardinality(keys) : n < m => InOrder(keys)[n] < InOrder(keys)[m]
<1> DEFINE N == Cardinality(keys)
           at == InOrder(keys)
<1>1. N \in Nat BY FS_CardinalityType
<1>2. at = [n \in 1 .. N |-> CHOOSE k \in keys : Rank(keys, k) = n - 1]
  BY DEF InOrder, Rank
<1>3. /\ \A a, b \in keys : (a < b <=> Rank(keys, a) < Rank(keys, b))
                            /\ (Rank(keys, a) = Rank(keys, b) => a = b)
      /\ \A n \in 0 .. N - 1 : \E a \in keys : Rank(keys, a) = n
  BY RankOrders
<1> HIDE DEF N, at
<1>4. ASSUME NEW n \in 1 .. N PROVE at[n] \in keys /\ Rank(keys, at[n]) = n - 1
  <2>1. n - 1 \in 0 .. N - 1 BY <1>1
  <2>2. at[n] = CHOOSE k \in keys : Rank(keys, k) = n - 1 BY <1>2
  <2>3. \E k \in keys : Rank(keys, k) = n - 1 BY <1>3, <2>1
  <2> QED BY <2>2, <2>3
<1>5. ASSUME NEW k \in keys PROVE \E n \in 1 .. N : at[n] = k
  <2>1. Rank(keys, k) \in 0 .. N - 1 BY RankTyped DEF N
  <2> DEFINE n == Rank(keys, k) + 1
  <2>2. n \in 1 .. N /\ n - 1 = Rank(keys, k) BY <1>1, <2>1
  <2>3. at[n] = k BY <1>3, <1>4, <2>2
  <2> QED BY <2>2, <2>3
<1>6. ASSUME NEW n \in 1 .. N, NEW m \in 1 .. N, n < m PROVE at[n] < at[m]
  <2>1. n - 1 < m - 1 BY <1>1, <1>6
  <2> QED BY <1>3, <1>4, <2>1
<1> QED BY <1>1, <1>2, <1>4, <1>5, <1>6 DEF N, at

-----------------------------------------------------------------------------
(***************************************************************************)
(* What the sides of a key retain, one input at a time.                    *)
(***************************************************************************)
Arrival == [side : Side, key : Key]

Numbers(j) == [n \in 1 .. j |-> n]

\* The inputs of a side of a key, of those after i up to j.
Of(arr, k, s, i, j) == {n \in i + 1 .. j : arr[n].side = s /\ arr[n].key = k}

Arrived(arr, k, s, i, j) == Filtered(Numbers(j), Of(arr, k, s, i, j))

Kept(insert, all) ==
    IF all = <<>> \/ insert = "product" THEN all
    ELSE IF insert = "first" THEN <<Head(all)>> ELSE <<Last(all)>>

ViewOf(insert, arr, k, i, j) == [s \in Side |-> Kept(insert, Arrived(arr, k, s, i, j))]

LEMMA ViewIs ==
    /\ \A k, i, j : View(k, i, j) = ViewOf(join.insert, arrivals, k, i, j)
    /\ \A k, i, j : View(k, i, j)' = ViewOf(join'.insert, arrivals', k, i, j)
<1> QED BY DEF View, ViewOf, Kept, Arrived, Numbers, Of

LEMMA NumbersAppend ==
    ASSUME NEW j \in Nat
    PROVE  /\ Numbers(j) \in Seq(Nat) /\ Len(Numbers(j)) = j
           /\ Numbers(j + 1) = Append(Numbers(j), j + 1)
<1>1. Numbers(j) \in Seq(Nat) /\ Len(Numbers(j)) = j BY DEF Numbers
<1>2. Numbers(j + 1) \in Seq(Nat) /\ Len(Numbers(j + 1)) = j + 1 BY DEF Numbers
<1>3. /\ Append(Numbers(j), j + 1) \in Seq(Nat)
      /\ Len(Append(Numbers(j), j + 1)) = j + 1
      /\ Append(Numbers(j), j + 1)[j + 1] = j + 1
      /\ \A n \in 1 .. j : Append(Numbers(j), j + 1)[n] = Numbers(j)[n]
  BY <1>1, AppendProperties
<1>4. \A n \in 1 .. j + 1 : Numbers(j + 1)[n] = Append(Numbers(j), j + 1)[n]
  <2> SUFFICES ASSUME NEW n \in 1 .. j + 1
               PROVE  Numbers(j + 1)[n] = Append(Numbers(j), j + 1)[n]
    OBVIOUS
  <2>1. Numbers(j + 1)[n] = n BY DEF Numbers
  <2>2. CASE n = j + 1 BY <1>3, <2>1, <2>2
  <2>3. CASE n # j + 1
    <3>1. n \in 1 .. j BY <2>3
    <3>2. Numbers(j)[n] = n BY <3>1 DEF Numbers
    <3> QED BY <1>3, <2>1, <3>1, <3>2
  <2> QED BY <2>2, <2>3
<1> QED BY <1>1, <1>2, <1>3, <1>4, SeqEqual

LEMMA ArrivedGrows ==
    ASSUME NEW arr, NEW k, NEW s, NEW i \in Nat, NEW j \in Nat
    PROVE  Arrived(arr, k, s, i, j + 1) =
              IF i <= j /\ arr[j + 1].side = s /\ arr[j + 1].key = k
              THEN Append(Arrived(arr, k, s, i, j), j + 1)
              ELSE Arrived(arr, k, s, i, j)
<1> DEFINE W == Of(arr, k, s, i, j + 1)
           U == Of(arr, k, s, i, j)
           N == Numbers(j)
           m == j + 1
<1>1. N \in Seq(Nat) /\ m \in Nat /\ Len(N) = j /\ Numbers(j + 1) = Append(N, m)
  <2>1. /\ Numbers(j) \in Seq(Nat) /\ Len(Numbers(j)) = j
        /\ Numbers(j + 1) = Append(Numbers(j), j + 1)
    BY NumbersAppend
  <2>2. j + 1 \in Nat OBVIOUS
  <2> QED BY <2>1, <2>2
<1>2. m \in W <=> i <= j /\ arr[j + 1].side = s /\ arr[j + 1].key = k BY DEF Of
<1>3. \A n \in 1 .. Len(N) : N[n] \in W <=> N[n] \in U BY <1>1 DEF Of, Numbers
<1> HIDE DEF W, U, N, m
<1>4. Filtered(Append(N, m), W) = IF m \in W THEN Append(Filtered(N, W), m) ELSE Filtered(N, W)
  BY ONLY <1>1, FilteredAppend
<1>5. Filtered(N, W) = Filtered(N, U) BY <1>1, <1>3, FilteredSame
<1>6. Arrived(arr, k, s, i, j + 1) = Filtered(Append(N, m), W) BY <1>1 DEF Arrived, W
<1>7. Arrived(arr, k, s, i, j) = Filtered(N, U) BY DEF Arrived, N, U
<1> QED BY <1>2, <1>4, <1>5, <1>6, <1>7 DEF m

\* Nothing arrives in no time.
LEMMA ArrivedNone ==
    ASSUME NEW arr, NEW k, NEW s, NEW i \in Nat, NEW j \in Nat, j <= i
    PROVE  Arrived(arr, k, s, i, j) = <<>>
<1>1. Numbers(j) \in Seq(Nat) /\ Len(Numbers(j)) = j BY NumbersAppend
<1>2. \A n \in 1 .. Len(Numbers(j)) : Numbers(j)[n] \notin Of(arr, k, s, i, j)
  BY <1>1 DEF Of
<1>3. Len(Numbers(j)) \in Nat BY <1>1
<1> QED BY <1>2, <1>3, FilteredNone DEF Arrived

\* Later inputs change nothing of what arrived before.
LEMMA ArrivedSame ==
    ASSUME NEW arr, NEW brr, NEW k, NEW s, NEW i \in Nat, NEW j \in Nat,
           \A n \in 1 .. j : arr[n] = brr[n]
    PROVE  Arrived(arr, k, s, i, j) = Arrived(brr, k, s, i, j)
<1>1. Of(arr, k, s, i, j) = Of(brr, k, s, i, j) BY DEF Of
<1> QED BY <1>1 DEF Arrived

\* Different inputs, none later than j.
LEMMA ArrivedTyped ==
    ASSUME NEW arr, NEW k, NEW s, NEW i \in Nat, NEW j \in Nat
    PROVE  /\ Arrived(arr, k, s, i, j) \in Seq(1 .. j)
           /\ Distinct(Arrived(arr, k, s, i, j))
<1> DEFINE A(n) == Arrived(arr, k, s, i, n)
           Bad == {n \in 0 .. j : ~ (A(n) \in Seq(1 .. n) /\ Distinct(A(n)))}
<1> SUFFICES ASSUME Bad # {} PROVE FALSE OBVIOUS
<1>1. PICK m \in Bad : \A n \in Bad : m <= n
  <2>1. Bad \in SUBSET Nat OBVIOUS
  <2> HIDE DEF Bad
  <2> QED BY <2>1, LeastNatural
<1>2. m # 0
  <2>1. A(0) = <<>> BY ArrivedNone
  <2>2. Distinct(<<>>) BY DEF Distinct
  <2>3. <<>> \in Seq(1 .. 0) OBVIOUS
  <2> HIDE DEF A
  <2> QED BY <1>1, <2>1, <2>2, <2>3
<1> DEFINE n == m - 1
<1>3. n \in Nat /\ n \in 0 .. j /\ ~ (m <= n) /\ m = n + 1
  <2>1. m \in 0 .. j BY <1>1
  <2> QED BY <1>2, <2>1
<1>4. A(n) \in Seq(1 .. n) /\ Distinct(A(n))
  <2>1. n \notin Bad
    <3> HIDE DEF Bad
    <3> QED BY <1>1, <1>3
  <2> HIDE DEF A, n
  <2> QED BY <1>3, <2>1
<1> HIDE DEF n
<1>5. A(m) = A(n) \/ A(m) = Append(A(n), m)
  <2>0. Arrived(arr, k, s, i, n + 1) =
           IF i <= n /\ arr[n + 1].side = s /\ arr[n + 1].key = k
           THEN Append(Arrived(arr, k, s, i, n), n + 1)
           ELSE Arrived(arr, k, s, i, n)
    BY <1>3, ArrivedGrows
  <2>1. A(n + 1) = A(n) \/ A(n + 1) = Append(A(n), n + 1) BY <2>0
  <2> HIDE DEF A
  <2> QED BY <1>3, <2>1
<1> DEFINE a == A(n)
<1> HIDE DEF A
<1>6. a \in Seq(1 .. n) /\ Distinct(a) BY <1>4
<1> HIDE DEF a
<1>7. a \in Seq(1 .. m) /\ Distinct(a)
  <2>1. 1 .. n \subseteq 1 .. m BY <1>3
  <2>2. \A q \in 1 .. Len(a) : a[q] \in 1 .. m BY <1>6, <2>1, ElementOfSeq
  <2>3. a \in Seq(1 .. m) BY <1>6, <2>2
  <2> QED BY <1>6, <2>3
<1>8. Append(a, m) \in Seq(1 .. m) /\ Distinct(Append(a, m))
  <2>1. m \in 1 .. m BY <1>3
  <2>2. /\ Append(a, m) \in Seq(1 .. m) /\ Len(Append(a, m)) = Len(a) + 1
        /\ Append(a, m)[Len(a) + 1] = m /\ Len(a) \in Nat
        /\ \A q \in 1 .. Len(a) : Append(a, m)[q] = a[q]
    BY <1>7, <2>1, AppendProperties, LenProperties
  <2>3. \A q \in 1 .. Len(a) : a[q] # m
    <3> SUFFICES ASSUME NEW q \in 1 .. Len(a) PROVE a[q] # m OBVIOUS
    <3>1. a[q] \in 1 .. n BY <1>6, ElementOfSeq
    <3> QED BY <1>3, <3>1
  <2>4. ASSUME NEW p \in 1 .. Len(a) + 1, NEW q \in 1 .. Len(a) + 1,
               Append(a, m)[p] = Append(a, m)[q]
        PROVE  p = q
    <3>1. p \in 1 .. Len(a) \/ p = Len(a) + 1 BY <2>2
    <3>2. q \in 1 .. Len(a) \/ q = Len(a) + 1 BY <2>2
    <3> QED BY <1>6, <2>2, <2>3, <2>4, <3>1, <3>2 DEF Distinct
  <2>5. Distinct(Append(a, m)) BY <2>2, <2>4 DEF Distinct
  <2> QED BY <2>2, <2>5
<1>9. A(m) \in Seq(1 .. m) /\ Distinct(A(m)) BY <1>5, <1>7, <1>8 DEF a
<1> QED BY <1>1, <1>9
\* What is kept of one input more.
LEMMA KeptGrows ==
    ASSUME NEW insert \in {"first", "last", "product"}, NEW a \in Seq(Nat), NEW x \in Nat
    PROVE  Kept(insert, Append(a, x)) =
              IF insert = "product" THEN Append(Kept(insert, a), x)
              ELSE IF insert = "last" \/ Kept(insert, a) = <<>> THEN <<x>>
              ELSE Kept(insert, a)
<1>1. /\ Len(a) \in Nat /\ Append(a, x) \in Seq(Nat) /\ Len(Append(a, x)) = Len(a) + 1
      /\ Append(a, x)[Len(a) + 1] = x
      /\ \A n \in 1 .. Len(a) : Append(a, x)[n] = a[n]
  BY AppendProperties, LenProperties
<1>2. Append(a, x) # <<>> /\ Last(Append(a, x)) = x
  <2>1. Len(Append(a, x)) # 0 BY <1>1
  <2>2. Last(Append(a, x)) = Append(a, x)[Len(a) + 1] BY <1>1 DEF Last
  <2> QED BY <1>1, <2>1, <2>2, EmptySeq
<1>3. CASE a = <<>>
  <2>1. Head(Append(a, x)) = x
    <3>1. Len(a) = 0 BY <1>3
    <3>2. Head(Append(a, x)) = Append(a, x)[1] BY <1>1, <1>2, HeadTailProperties
    <3> QED BY <1>1, <3>1, <3>2
  <2> QED BY <1>2, <1>3, <2>1 DEF Kept
<1>4. CASE a # <<>>
  <2>1. Len(a) >= 1 BY <1>1, <1>4, EmptySeq
  <2>2. Head(Append(a, x)) = Append(a, x)[1] /\ Head(a) = a[1]
    BY <1>1, <1>2, <1>4, HeadTailProperties
  <2>3. Head(Append(a, x)) = Head(a) BY <1>1, <2>1, <2>2
  <2>4. \A z : <<z>> # <<>> OBVIOUS
  <2> QED BY <1>2, <1>4, <2>3, <2>4 DEF Kept
<1> QED BY <1>3, <1>4

\* What is kept is a part of what arrived, nothing of nothing only.
LEMMA KeptTyped ==
    ASSUME NEW insert \in {"first", "last", "product"}, NEW T, NEW a \in Seq(T), Distinct(a)
    PROVE  /\ Kept(insert, a) \in Seq(T) /\ Distinct(Kept(insert, a))
           /\ Kept(insert, a) = <<>> <=> a = <<>>
           /\ insert # "product" => Len(Kept(insert, a)) <= 1
<1>1. CASE a = <<>> \/ insert = "product"
  <2>1. Kept(insert, a) = a BY <1>1 DEF Kept
  <2>2. a = <<>> => Len(a) = 0 OBVIOUS
  <2> QED BY <1>1, <2>1, <2>2
<1>2. CASE a # <<>> /\ insert # "product"
  <2>1. /\ Len(a) \in Nat /\ Len(a) >= 1 /\ Head(a) = a[1] /\ Last(a) = a[Len(a)]
    <3>1. Len(a) \in Nat /\ Len(a) # 0 BY <1>2, EmptySeq, LenProperties
    <3> QED BY <1>2, <3>1, HeadTailProperties DEF Last
  <2>2. Head(a) \in T /\ Last(a) \in T
    <3>1. 1 \in 1 .. Len(a) /\ Len(a) \in 1 .. Len(a) BY <2>1
    <3> QED BY <2>1, <3>1, ElementOfSeq
  <2>3. PICK z \in T : Kept(insert, a) = <<z>> BY <1>2, <2>2 DEF Kept
  <2>4. <<z>> \in Seq(T) /\ Len(<<z>>) = 1 /\ <<z>> # <<>> OBVIOUS
  <2>5. Distinct(<<z>>) BY DEF Distinct
  <2> QED BY <1>2, <2>3, <2>4, <2>5
<1> QED BY <1>1, <1>2

LEMMA ViewTyped ==
    ASSUME NEW insert \in {"first", "last", "product"},
           NEW arr, NEW k, NEW i \in Nat, NEW j \in Nat
    PROVE  /\ ViewOf(insert, arr, k, i, j) \in Cell
           /\ \A s \in Side : /\ ViewOf(insert, arr, k, i, j)[s] \in Seq(1 .. j)
                              /\ Distinct(ViewOf(insert, arr, k, i, j)[s])
                              /\ insert # "product"
                                    => Len(ViewOf(insert, arr, k, i, j)[s]) <= 1
<1>1. ASSUME NEW s \in Side
      PROVE  /\ Kept(insert, Arrived(arr, k, s, i, j)) \in Seq(1 .. j)
             /\ Kept(insert, Arrived(arr, k, s, i, j)) \in Seq(Nat)
             /\ Distinct(Kept(insert, Arrived(arr, k, s, i, j)))
             /\ insert # "product" => Len(Kept(insert, Arrived(arr, k, s, i, j))) <= 1
  <2> DEFINE a == Arrived(arr, k, s, i, j)
  <2>1. a \in Seq(1 .. j) /\ Distinct(a) BY ArrivedTyped
  <2> HIDE DEF a
  <2>2. /\ Kept(insert, a) \in Seq(1 .. j) /\ Distinct(Kept(insert, a))
        /\ insert # "product" => Len(Kept(insert, a)) <= 1
    BY <2>1, KeptTyped
  <2>3. Kept(insert, a) \in Seq(Nat)
    <3> DEFINE b == Kept(insert, a)
    <3>1. b \in Seq(1 .. j) BY <2>2
    <3> HIDE DEF b
    <3>2. \A n \in 1 .. Len(b) : b[n] \in Nat
      <4> SUFFICES ASSUME NEW n \in 1 .. Len(b) PROVE b[n] \in Nat OBVIOUS
      <4>1. b[n] \in 1 .. j BY <3>1, ElementOfSeq
      <4> QED BY <4>1
    <3>3. b \in Seq(Nat) BY <3>1, <3>2
    <3> QED BY <3>3 DEF b
  <2> QED BY <2>2, <2>3 DEF a
<1>2. \A s \in Side : ViewOf(insert, arr, k, i, j)[s] = Kept(insert, Arrived(arr, k, s, i, j))
  BY DEF ViewOf
<1>3. ViewOf(insert, arr, k, i, j) \in Cell BY <1>1 DEF Cell, ViewOf
<1> QED BY <1>1, <1>2, <1>3

LEMMA ViewNone ==
    ASSUME NEW insert, NEW arr, NEW k, NEW i \in Nat, NEW j \in Nat, j <= i
    PROVE  ViewOf(insert, arr, k, i, j) = NoValues
<1>1. \A s \in Side : Kept(insert, Arrived(arr, k, s, i, j)) = <<>> BY ArrivedNone DEF Kept
<1> QED BY <1>1 DEF ViewOf, NoValues

LEMMA ViewSame ==
    ASSUME NEW insert, NEW arr, NEW brr, NEW k, NEW i \in Nat, NEW j \in Nat,
           \A n \in 1 .. j : arr[n] = brr[n]
    PROVE  ViewOf(insert, arr, k, i, j) = ViewOf(insert, brr, k, i, j)
<1>1. \A s \in Side : Arrived(arr, k, s, i, j) = Arrived(brr, k, s, i, j) BY ArrivedSame
<1> QED BY <1>1 DEF ViewOf

\* One input more than the first j, of which those after i count.
OneMore(J, arr, brr, i, j, x) ==
    /\ J.insert \in {"first", "last", "product"}
    /\ i \in Nat /\ j \in Nat /\ i <= j /\ x = j + 1
    /\ \A n \in 1 .. j : arr[n] = brr[n]
    /\ brr[x].side \in Side

\* One input more is inserted into the view of its key, and into no other.
LEMMA ViewGrows ==
    ASSUME NEW J, NEW arr, NEW brr, NEW k, NEW i, NEW j, NEW x,
           OneMore(J, arr, brr, i, j, x)
    PROVE  ViewOf(J.insert, brr, k, i, x) =
              IF brr[x].key = k
              THEN Inserted(J, ViewOf(J.insert, arr, k, i, j), brr[x].side, x)
              ELSE ViewOf(J.insert, arr, k, i, j)
<1> DEFINE t == brr[x].side
           ins == J.insert
           V == ViewOf(ins, arr, k, i, j)
           W == ViewOf(ins, brr, k, i, x)
           a(s) == Arrived(arr, k, s, i, j)
           b(s) == Arrived(brr, k, s, i, x)
<1>0. /\ J.insert \in {"first", "last", "product"}
      /\ i \in Nat /\ j \in Nat /\ i <= j /\ x = j + 1
      /\ \A n \in 1 .. j : arr[n] = brr[n]
      /\ brr[x].side \in Side
  BY DEF OneMore
<1>1. \A s \in Side : b(s) = IF s = t /\ brr[x].key = k THEN Append(a(s), x) ELSE a(s)
  <2> SUFFICES ASSUME NEW s \in Side
               PROVE  b(s) = IF s = t /\ brr[x].key = k THEN Append(a(s), x) ELSE a(s)
    OBVIOUS
  <2>1. Arrived(brr, k, s, i, j) = Arrived(arr, k, s, i, j) BY <1>0, ArrivedSame
  <2>2. Arrived(brr, k, s, i, j + 1) =
           IF i <= j /\ brr[j + 1].side = s /\ brr[j + 1].key = k
           THEN Append(Arrived(brr, k, s, i, j), j + 1)
           ELSE Arrived(brr, k, s, i, j)
    BY <1>0, ArrivedGrows
  <2> QED BY <1>0, <2>1, <2>2
<1>2. \A s \in Side : a(s) \in Seq(Nat)
  <2> SUFFICES ASSUME NEW s \in Side PROVE a(s) \in Seq(Nat) OBVIOUS
  <2>1. a(s) \in Seq(1 .. j) BY <1>0, ArrivedTyped
  <2> HIDE DEF a
  <2>2. \A n \in 1 .. Len(a(s)) : a(s)[n] \in Nat
    <3> SUFFICES ASSUME NEW n \in 1 .. Len(a(s)) PROVE a(s)[n] \in Nat OBVIOUS
    <3>1. a(s)[n] \in 1 .. j BY <2>1, ElementOfSeq
    <3> QED BY <3>1
  <2> QED BY <2>1, <2>2
<1>3. V = [s \in Side |-> Kept(ins, a(s))] /\ W = [s \in Side |-> Kept(ins, b(s))]
  BY DEF ViewOf
<1>4. x \in Nat /\ t \in Side /\ ins \in {"first", "last", "product"} BY <1>0
<1>5. ViewOf(J.insert, brr, k, i, x) = W /\ ViewOf(J.insert, arr, k, i, j) = V OBVIOUS
<1> HIDE DEF a, b, V, W
<1>6. CASE brr[x].key # k BY <1>1, <1>3, <1>5, <1>6
<1>7. CASE brr[x].key = k
  <2>1. \A s \in Side : s # t => W[s] = V[s] BY <1>1, <1>3, <1>7
  <2>2. b(t) = Append(a(t), x) /\ a(t) \in Seq(Nat) BY <1>1, <1>2, <1>4, <1>7
  <2>3. V[t] = Kept(ins, a(t)) /\ W[t] = Kept(ins, b(t)) BY <1>3, <1>4
  <2> HIDE DEF t, ins
  <2>4. Kept(ins, Append(a(t), x)) =
              IF ins = "product" THEN Append(Kept(ins, a(t)), x)
              ELSE IF ins = "last" \/ Kept(ins, a(t)) = <<>> THEN <<x>>
              ELSE Kept(ins, a(t))
    BY <1>4, <2>2, KeptGrows
  <2>5. W[t] = IF ins = "product" THEN Append(V[t], x)
               ELSE IF ins = "last" \/ V[t] = <<>> THEN <<x>> ELSE V[t]
    BY <2>2, <2>3, <2>4
  <2>6. V = [s \in Side |-> V[s]] /\ W = [s \in Side |-> W[s]] BY <1>3
  <2>7. CASE ins = "product"
    <3>1. Inserted(J, V, t, x) = [V EXCEPT ![t] = Append(@, x)] BY <2>7 DEF Inserted, ins
    <3>2. W = [V EXCEPT ![t] = Append(@, x)] BY <1>4, <2>1, <2>5, <2>6, <2>7
    <3> QED BY <1>5, <1>7, <3>1, <3>2 DEF t
  <2>8. CASE ins # "product" /\ (ins = "last" \/ V[t] = <<>>)
    <3>1. Inserted(J, V, t, x) = [V EXCEPT ![t] = <<x>>] BY <2>8 DEF Inserted, ins
    <3>2. W = [V EXCEPT ![t] = <<x>>] BY <1>4, <2>1, <2>5, <2>6, <2>8
    <3> QED BY <1>5, <1>7, <3>1, <3>2 DEF t
  <2>9. CASE ins # "product" /\ ~ (ins = "last" \/ V[t] = <<>>)
    <3>1. Inserted(J, V, t, x) = V BY <2>9 DEF Inserted, ins
    <3>2. W = V BY <2>1, <2>5, <2>6, <2>9
    <3> QED BY <1>5, <1>7, <3>1, <3>2 DEF t
  <2> QED BY <2>7, <2>8, <2>9
<1> QED BY <1>6, <1>7
-----------------------------------------------------------------------------
(***************************************************************************)
(* When a key was last matched, one emission at a time.                    *)
(***************************************************************************)
Matches(em, k, e) == {em[d].at : d \in {c \in 1 .. e - 1 : em[c].key = k}}

MatchOf(emit, em, k, e) == IF emit # "complete" THEN 0 ELSE Max({0} \cup Matches(em, k, e))

LEMMA MatchIs ==
    /\ \A k, e : LastMatch(k, e) = MatchOf(join.emit, emissions, k, e)
    /\ \A k, e : LastMatch(k, e)' = MatchOf(join'.emit, emissions', k, e)
<1> QED BY DEF LastMatch, MatchOf, Matches

LEMMA LargestIs ==
    ASSUME NEW T \in SUBSET Int, NEW x \in T, \A y \in T : y <= x
    PROVE  Max(T) = x
<1>1. \A z \in T : (\A y \in T : z >= y) => z = x
  <2> SUFFICES ASSUME NEW z \in T, \A y \in T : z >= y PROVE z = x OBVIOUS
  <2>1. z \in Int /\ x \in Int /\ z >= x /\ z <= x OBVIOUS
  <2> QED BY <2>1
<1>2. \A y \in T : x >= y
  <2> SUFFICES ASSUME NEW y \in T PROVE x >= y OBVIOUS
  <2>1. y \in Int /\ x \in Int /\ y <= x OBVIOUS
  <2> QED BY <2>1
<1>3. Max(T) = CHOOSE z \in T : \A y \in T : z >= y BY DEF Max
<1> DEFINE P(z) == z \in T /\ \A y \in T : z >= y
<1>4. P(x) BY <1>2
<1>5. Max(T) = CHOOSE z : P(z) BY <1>3
<1> HIDE DEF P
<1>6. P(Max(T)) BY <1>4, <1>5
<1> QED BY <1>1, <1>6 DEF P

\* Later emissions change nothing of the matches before.
LEMMA MatchSame ==
    ASSUME NEW emit, NEW em, NEW fm, NEW k, NEW e \in Nat,
           \A d \in 1 .. e - 1 : em[d] = fm[d]
    PROVE  MatchOf(emit, em, k, e) = MatchOf(emit, fm, k, e)
<1>1. Matches(em, k, e) = Matches(fm, k, e) BY DEF Matches
<1> QED BY <1>1 DEF MatchOf

\* One emission more is the last match of its key, and of no other.
LEMMA MatchGrows ==
    ASSUME NEW emit, NEW em, NEW k, NEW e \in Nat \ {0}, NEW x \in Nat,
           \A d \in 1 .. e : em[d].at \in 0 .. x,
           em[e].at = x
    PROVE  MatchOf(emit, em, k, e + 1) =
              IF emit = "complete" /\ em[e].key = k THEN x ELSE MatchOf(emit, em, k, e)
<1>1. (e + 1) - 1 = e OBVIOUS
<1>2. Matches(em, k, e + 1) = {em[d].at : d \in {c \in 1 .. e : em[c].key = k}}
  BY <1>1 DEF Matches
<1>3. ASSUME em[e].key # k PROVE Matches(em, k, e + 1) = Matches(em, k, e)
  <2>1. {c \in 1 .. e : em[c].key = k} = {c \in 1 .. e - 1 : em[c].key = k} BY <1>3
  <2> QED BY <1>2, <2>1 DEF Matches
<1>4. ASSUME em[e].key = k PROVE Max({0} \cup Matches(em, k, e + 1)) = x
  <2> DEFINE T == {0} \cup Matches(em, k, e + 1)
  <2>1. x \in T
    <3>1. e \in {c \in 1 .. e : em[c].key = k} BY <1>4
    <3> QED BY <1>2, <3>1
  <2>2. \A y \in T : y \in Int /\ y <= x
    <3> SUFFICES ASSUME NEW y \in T PROVE y \in Int /\ y <= x OBVIOUS
    <3>1. y \in 0 .. x BY <1>2
    <3> QED BY <3>1
  <2> HIDE DEF T
  <2>3. T \in SUBSET Int BY <2>2
  <2>4. Max(T) = x BY <2>1, <2>2, <2>3, LargestIs
  <2> QED BY <2>4 DEF T
<1>5. CASE emit # "complete" BY <1>5 DEF MatchOf
<1>6. CASE emit = "complete" BY <1>3, <1>4, <1>6 DEF MatchOf
<1> QED BY <1>5, <1>6

\* There is none before the first emission.
LEMMA MatchNone == ASSUME NEW emit, NEW em, NEW k PROVE MatchOf(emit, em, k, 1) = 0
<1>1. {c \in 1 .. 1 - 1 : em[c].key = k} = {} OBVIOUS
<1>2. {0} \cup Matches(em, k, 1) = {0} BY <1>1 DEF Matches
<1>3. Max({0}) = 0 BY LargestIs
<1> QED BY <1>2, <1>3 DEF MatchOf

-----------------------------------------------------------------------------
(***************************************************************************)
(* The rows of a view are its combinations.                                *)
(***************************************************************************)
CombinationsOf(T, k, view) ==
    {[key |-> k, values |-> values] : values \in
        {f \in [Side -> T] :
            \A s \in Side : IF view[s] = <<>> THEN f[s] = Absent
                            ELSE \E i \in DOMAIN view[s] : view[s][i] = f[s]}}

LEMMA CombinationsIs ==
    /\ \A k, v : Combinations(k, v) = CombinationsOf({Absent} \cup 1 .. Len(arrivals), k, v)
    /\ \A k, v : Combinations(k, v)' = CombinationsOf({Absent} \cup 1 .. Len(arrivals'), k, v)
<1> QED BY DEF Combinations, CombinationsOf

\* What the sides offer is among the values, all of them arrived by j.
Within(view, T) ==
    \A s \in Side : \A i \in 1 .. Len(Offered(view, s)) : Offered(view, s)[i] \in T

LEMMA OfferedWithin ==
    ASSUME NEW view \in Cell, NEW j \in Nat, \A s \in Side : view[s] \in Seq(1 .. j)
    PROVE  Within(view, {Absent} \cup 1 .. j)
<1> SUFFICES ASSUME NEW s \in Side, NEW i \in 1 .. Len(Offered(view, s))
             PROVE  Offered(view, s)[i] \in {Absent} \cup 1 .. j
  BY DEF Within
<1>1. CASE view[s] = <<>>
  <2>1. Offered(view, s) = <<Absent>> BY <1>1, OfferedTyped
  <2>2. Len(<<Absent>>) = 1 /\ <<Absent>>[1] = Absent OBVIOUS
  <2>3. i = 1 BY <2>1, <2>2
  <2> QED BY <2>1, <2>2, <2>3
<1>2. CASE view[s] # <<>>
  <2>1. Offered(view, s) = view[s] BY <1>2, OfferedTyped
  <2>2. view[s][i] \in 1 .. j BY <2>1, ElementOfSeq
  <2> QED BY <2>1, <2>2
<1> QED BY <1>1, <1>2

LEMMA PickedSame ==
    ASSUME NEW view \in Cell, NEW T, NEW U, Within(view, T), Within(view, U)
    PROVE  Picked(view, T) = Picked(view, U)
<1>1. ASSUME NEW A, NEW B, Within(view, B), NEW f \in Picked(view, A)
      PROVE  f \in Picked(view, B)
  <2>1. /\ f = [s \in Side |-> f[s]]
        /\ \A s \in Side : \E i \in 1 .. Len(Offered(view, s)) : Offered(view, s)[i] = f[s]
    BY DEF Picked
  <2>2. \A s \in Side : f[s] \in B BY <1>1, <2>1 DEF Within
  <2>3. f \in [Side -> B] BY <2>1, <2>2
  <2> QED BY <2>1, <2>3 DEF Picked
<1> QED BY <1>1

LEMMA PickedCombine ==
    ASSUME NEW k, NEW view \in Cell, NEW T
    PROVE  CombinationsOf(T, k, view) = {[key |-> k, values |-> f] : f \in Picked(view, T)}
<1>1. ASSUME NEW f, NEW s \in Side
      PROVE  (IF view[s] = <<>> THEN f[s] = Absent
              ELSE \E i \in DOMAIN view[s] : view[s][i] = f[s])
             <=> \E i \in 1 .. Len(Offered(view, s)) : Offered(view, s)[i] = f[s]
  <2>1. CASE view[s] = <<>>
    <3>1. Offered(view, s) = <<Absent>> BY <2>1, OfferedTyped
    <3>2. Len(<<Absent>>) = 1 /\ <<Absent>>[1] = Absent /\ 1 \in 1 .. 1 OBVIOUS
    <3>3. \A i \in 1 .. 1 : i = 1 OBVIOUS
    <3> QED BY <2>1, <3>1, <3>2, <3>3
  <2>2. CASE view[s] # <<>>
    <3>1. Offered(view, s) = view[s] BY <2>2, OfferedTyped
    <3>2. view[s] \in Seq(Nat) BY DEF Cell
    <3>3. DOMAIN view[s] = 1 .. Len(view[s]) BY <3>2
    <3> QED BY <2>2, <3>1, <3>3
  <2> QED BY <2>1, <2>2
<1>2. {f \in [Side -> T] : \A s \in Side : IF view[s] = <<>> THEN f[s] = Absent
                            ELSE \E i \in DOMAIN view[s] : view[s][i] = f[s]} = Picked(view, T)
  BY <1>1 DEF Picked
<1> QED BY <1>2 DEF CombinationsOf

\* The same combinations of any values among which the offered ones are.
LEMMA CombinationsSame ==
    ASSUME NEW k, NEW view \in Cell, NEW T, NEW U, Within(view, T), Within(view, U)
    PROVE  CombinationsOf(T, k, view) = CombinationsOf(U, k, view)
<1>1. Picked(view, T) = Picked(view, U) BY PickedSame
<1> QED BY <1>1, PickedCombine

RowSet == [key : Key, values : [Side -> {Absent} \cup Nat]]

\* The rows a runtime emits for a view: some, each combination once.
LEMMA RowsExact ==
    ASSUME NEW k \in Key, NEW view \in Cell, NEW j \in Nat,
           \A s \in Side : view[s] \in Seq(1 .. j) /\ Distinct(view[s])
    PROVE  LET rows == RowsOf(k, view)
           IN  /\ rows \in Seq(RowSet) /\ rows # <<>>
               /\ {rows[n] : n \in DOMAIN rows} = CombinationsOf({Absent} \cup 1 .. j, k, view)
               /\ Len(rows) = Cardinality({rows[n] : n \in DOMAIN rows})
<1> DEFINE T == {Absent} \cup 1 .. j
           rows == RowsOf(k, view)
           N == RowCount(view)
<1>1. Within(view, T) BY OfferedWithin
<1>2. T \subseteq {Absent} \cup Nat OBVIOUS
<1>3. \A s \in Side : Distinct(Offered(view, s))
  <2> SUFFICES ASSUME NEW s \in Side PROVE Distinct(Offered(view, s)) OBVIOUS
  <2>1. CASE view[s] = <<>>
    <3>1. Offered(view, s) = <<Absent>> BY <2>1, OfferedTyped
    <3>2. Len(<<Absent>>) = 1 OBVIOUS
    <3> QED BY <3>1, <3>2 DEF Distinct
  <2>2. CASE view[s] # <<>> BY <2>2, OfferedTyped
  <2> QED BY <2>1, <2>2
<1>4. N \in Nat \ {0} BY RowCountTyped
<1> HIDE DEF T
<1>5. /\ DOMAIN rows = 1 .. N /\ Len(rows) = N
      /\ {rows[n] : n \in 1 .. N} = {[key |-> k, values |-> f] : f \in Picked(view, T)}
      /\ Cardinality({rows[n] : n \in 1 .. N}) = N
  <2>1. \A s \in Side : \A i \in 1 .. Len(Offered(view, s)) : Offered(view, s)[i] \in T
    BY <1>1 DEF Within
  <2> QED BY <1>3, <2>1, RowsArePicked
<1>6. {[key |-> k, values |-> f] : f \in Picked(view, T)} = CombinationsOf(T, k, view)
  BY PickedCombine
<1>7. rows = [n \in 1 .. N |-> rows[n]] BY DEF RowsOf
<1> HIDE DEF rows, N
<1>8. \A n \in 1 .. N : rows[n] \in RowSet
  <2> SUFFICES ASSUME NEW n \in 1 .. N PROVE rows[n] \in RowSet OBVIOUS
  <2>1. PICK f \in Picked(view, T) : rows[n] = [key |-> k, values |-> f] BY <1>5
  <2>2. f \in [Side -> {Absent} \cup Nat] BY <1>2 DEF Picked
  <2> QED BY <2>1, <2>2 DEF RowSet
<1>9. rows \in Seq(RowSet) BY <1>4, <1>7, <1>8
<1>10. rows # <<>> BY <1>4, <1>5
<1> QED BY <1>5, <1>6, <1>9, <1>10 DEF rows, T
-----------------------------------------------------------------------------
(***************************************************************************)
(* What every step keeps of a join and its history.                        *)
(***************************************************************************)
StateFields == {"cells", "closed", "counts", "emitted", "bytes", "values", "phase"}

Emission == [key : Key, at : Nat, rows : Seq(RowSet)]

StateTyped(st) ==
    /\ DOMAIN st = StateFields
    /\ DOMAIN st.cells \subseteq Key /\ IsFiniteSet(DOMAIN st.cells)
    /\ st.cells = [k \in DOMAIN st.cells |-> st.cells[k]]
    /\ st.closed \in [Side -> BOOLEAN]
    /\ st.phase \in {"open", "draining", "closed"}

HistoryTyped ==
    /\ join \in Joins /\ StateTyped(state)
    /\ arrivals \in Seq(Arrival) /\ emissions \in Seq(Emission)

\* Only a final join drains, and only while it has cells.
PhasesFit(J, st) ==
    /\ (st.phase = "open") <=> ~ (\A s \in Side : st.closed[s])
    /\ st.phase = "draining" => J.emit = "final" /\ DOMAIN st.cells # {}
    /\ st.phase = "closed" => DOMAIN st.cells = {}

\* What is owed to a key: its inputs since its last match.
LatestOf(J, em, k) == MatchOf(J.emit, em, k, Len(em) + 1)

OwedOf(J, arr, em, k) == ViewOf(J.insert, arr, k, LatestOf(J, em, k), Len(arr))

CellsOwed(J, st, arr, em) ==
    /\ \A k \in Key : LatestOf(J, em, k) \in 0 .. Len(arr)
    /\ \A k \in DOMAIN st.cells : st.cells[k] = OwedOf(J, arr, em, k)
    /\ st.phase = "open" => \A k \in Key \ DOMAIN st.cells : OwedOf(J, arr, em, k) = NoValues
    /\ J.emit = "complete" => \A k \in Key : ~ Complete(OwedOf(J, arr, em, k))

\* An emission holds the combinations of what was owed to its key.
Exact(J, arr, em, e) ==
    LET rows  == em[e].rows
        match == MatchOf(J.emit, em, em[e].key, e)
        view  == ViewOf(J.insert, arr, em[e].key, match, em[e].at)
    IN  /\ em[e].at \in 0 .. Len(arr) /\ match \in 0 .. em[e].at /\ rows # <<>>
        /\ {rows[n] : n \in DOMAIN rows}
              = CombinationsOf({Absent} \cup 1 .. em[e].at, em[e].key, view)
        /\ Len(rows) = Cardinality({rows[n] : n \in DOMAIN rows})

EmissionsExact(J, arr, em) == \A e \in 1 .. Len(em) : Exact(J, arr, em, e)

RunningDue(J, arr, em) ==
    J.emit = "running" => Len(em) = Len(arr) /\ \A e \in 1 .. Len(em) : em[e].at = e

FinalDue(J, st, arr, em) ==
    J.emit = "final" =>
        /\ st.phase = "open" => em = <<>>
        /\ \A d, e \in 1 .. Len(em) : d < e => em[d].key < em[e].key
        /\ \A e \in 1 .. Len(em) : \A k \in DOMAIN st.cells : em[e].key < k
        /\ \A n \in 1 .. Len(arr) : \/ arr[n].key \in DOMAIN st.cells
                                    \/ \E e \in 1 .. Len(em) : em[e].key = arr[n].key

JoinInv ==
    /\ HistoryTyped
    /\ PhasesFit(join, state)
    /\ CellsOwed(join, state, arrivals, emissions)
    /\ EmissionsExact(join, arrivals, emissions)
    /\ RunningDue(join, arrivals, emissions)
    /\ FinalDue(join, state, arrivals, emissions)

LEMMA JoinTyped ==
    ASSUME NEW J \in Joins
    PROVE  J.insert \in {"first", "last", "product"} /\ J.emit \in {"complete", "final", "running"}
<1> QED BY JoinAssumption

LEMMA NoValuesTyped == NoValues \in Cell /\ ~ Complete(NoValues)
<1>1. 1 \in Side BY JoinAssumption DEF Side
<1> QED BY <1>1 DEF NoValues, Cell, Complete

\* What an operation changes of a state.
LEMMA ProcessFields ==
    ASSUME NEW J, NEW st, DOMAIN st = StateFields, NEW s, NEW k, NEW x
    PROVE  LET after    == StageProcess(J, st, s, k, x)
               before   == CellOf(st, k)
               proposed == Inserted(J, before, s, x)
               retains  == ~ Completes(J, proposed)
           IN  /\ DOMAIN after = StateFields
               /\ after.cells = [j \in (IF retains THEN DOMAIN st.cells \cup {k}
                                        ELSE DOMAIN st.cells \ {k}) |->
                                     IF j = k THEN proposed ELSE st.cells[j]]
               /\ after.closed = st.closed /\ after.phase = st.phase
               /\ after.counts = [st.counts EXCEPT ![s] = @ + 1]
               /\ after.emitted
                     = st.emitted + (IF Emits(J, proposed) THEN RowCount(proposed) ELSE 0)
               /\ after.bytes
                     = st.bytes - (IF k \in DOMAIN st.cells THEN CellBytes(before) ELSE 0)
                                + (IF retains THEN CellBytes(proposed) ELSE 0)
               /\ after.values
                     = st.values - Count(before) + (IF retains THEN Count(proposed) ELSE 0)
<1> QED BY DEF StageProcess, StateFields

\* What was exact stays exact.
LEMMA ExactStays ==
    ASSUME NEW J, NEW arr, NEW brr, NEW em, NEW fm, NEW e \in Nat,
           Len(arr) \in Nat, Len(brr) \in Nat, Len(arr) <= Len(brr),
           \A n \in 1 .. Len(arr) : arr[n] = brr[n],
           \A d \in 1 .. e : em[d] = fm[d], e > 0,
           em[e].at \in Nat,
           Exact(J, arr, em, e)
    PROVE  Exact(J, brr, fm, e)
<1> DEFINE m == MatchOf(J.emit, em, em[e].key, e)
<1>1. em[e] = fm[e] OBVIOUS
<1>2. MatchOf(J.emit, fm, em[e].key, e) = m
  <2>1. \A d \in 1 .. e - 1 : em[d] = fm[d] OBVIOUS
  <2> QED BY <2>1, MatchSame
<1>3. m \in 0 .. em[e].at /\ em[e].at \in 0 .. Len(arr) BY DEF Exact
<1>4. ViewOf(J.insert, brr, em[e].key, m, em[e].at) = ViewOf(J.insert, arr, em[e].key, m, em[e].at)
  <2>1. m \in Nat /\ em[e].at \in Nat BY <1>3
  <2> HIDE DEF m
  <2>2. \A n \in 1 .. em[e].at : brr[n] = arr[n] BY <1>3
  <2> QED BY <2>1, <2>2, ViewSame
<1>5. em[e].at \in 0 .. Len(brr) BY <1>3
<1> QED BY <1>1, <1>2, <1>4, <1>5 DEF Exact
\* What an input does to the history, and to what is owed.
Longer(arr, s, k) == Append(arr, [side |-> s, key |-> k])

WithRows(em, k, x, rows) ==
    IF rows = <<>> THEN em ELSE Append(em, [key |-> k, at |-> x, rows |-> rows])

LEMMA LongerTyped ==
    ASSUME NEW arr \in Seq(Arrival), NEW s \in Side, NEW k \in Key
    PROVE  LET brr == Longer(arr, s, k)
           IN  /\ brr \in Seq(Arrival) /\ Len(arr) \in Nat /\ Len(brr) = Len(arr) + 1
               /\ \A n \in 1 .. Len(arr) : arr[n] = brr[n]
               /\ brr[Len(arr) + 1].side = s /\ brr[Len(arr) + 1].key = k
<1> DEFINE a == [side |-> s, key |-> k]
<1>1. a \in Arrival /\ a.side = s /\ a.key = k BY DEF Arrival
<1> HIDE DEF a
<1>2. /\ Append(arr, a) \in Seq(Arrival) /\ Len(arr) \in Nat
      /\ Len(Append(arr, a)) = Len(arr) + 1 /\ Append(arr, a)[Len(arr) + 1] = a
      /\ \A n \in 1 .. Len(arr) : arr[n] = Append(arr, a)[n]
  BY <1>1, AppendProperties, LenProperties
<1>3. Longer(arr, s, k) = Append(arr, a) BY DEF Longer, a
<1> QED BY <1>1, <1>2, <1>3

LEMMA WithRowsTyped ==
    ASSUME NEW em \in Seq(Emission), NEW k \in Key, NEW x \in Nat, NEW rows \in Seq(RowSet),
           rows # <<>>
    PROVE  LET fm == WithRows(em, k, x, rows)
           IN  /\ fm \in Seq(Emission) /\ Len(em) \in Nat /\ Len(fm) = Len(em) + 1
               /\ \A d \in 1 .. Len(em) : em[d] = fm[d]
               /\ fm[Len(em) + 1] = [key |-> k, at |-> x, rows |-> rows]
<1> DEFINE a == [key |-> k, at |-> x, rows |-> rows]
<1>1. a \in Emission BY DEF Emission
<1>2. WithRows(em, k, x, rows) = Append(em, a) BY DEF WithRows
<1> HIDE DEF a
<1>3. /\ Append(em, a) \in Seq(Emission) /\ Len(em) \in Nat
      /\ Len(Append(em, a)) = Len(em) + 1 /\ Append(em, a)[Len(em) + 1] = a
      /\ \A n \in 1 .. Len(em) : em[n] = Append(em, a)[n]
  BY <1>1, AppendProperties, LenProperties
<1> QED BY <1>2, <1>3 DEF a

\* The hypotheses of an input.
History(J, arr, em) ==
    /\ J \in Joins /\ arr \in Seq(Arrival) /\ em \in Seq(Emission)
    /\ \A e \in 1 .. Len(em) : em[e].at \in 0 .. Len(arr)

\* The view of a key with one input more.
LEMMA OwedGrows ==
    ASSUME NEW J, NEW arr, NEW em, History(J, arr, em), NEW s \in Side, NEW k \in Key,
           NEW j \in Key, LatestOf(J, em, j) \in 0 .. Len(arr)
    PROVE  ViewOf(J.insert, Longer(arr, s, k), j, LatestOf(J, em, j), Len(arr) + 1)
              = IF j = k THEN Inserted(J, OwedOf(J, arr, em, j), s, Len(arr) + 1)
                ELSE OwedOf(J, arr, em, j)
<1> DEFINE brr == Longer(arr, s, k)
           i == LatestOf(J, em, j)
           n == Len(arr)
<1>1. /\ n \in Nat /\ \A q \in 1 .. n : arr[q] = brr[q]
      /\ brr[n + 1].side = s /\ brr[n + 1].key = k
  BY LongerTyped DEF History
<1>2. J.insert \in {"first", "last", "product"} BY JoinTyped DEF History
<1>3. i \in Nat /\ i <= n BY <1>1
<1>4. OwedOf(J, arr, em, j) = ViewOf(J.insert, arr, j, i, n) BY DEF OwedOf
<1> HIDE DEF brr, i, n
<1> DEFINE x == n + 1
<1>5. brr[x].side \in Side /\ brr[x].side = s /\ brr[x].key = k /\ x = n + 1 BY <1>1
<1> HIDE DEF x
<1>6. ViewOf(J.insert, brr, j, i, x) =
         IF brr[x].key = j
         THEN Inserted(J, ViewOf(J.insert, arr, j, i, n), brr[x].side, x)
         ELSE ViewOf(J.insert, arr, j, i, n)
  <2>1. OneMore(J, arr, brr, i, n, x) BY <1>1, <1>2, <1>3, <1>5 DEF OneMore
  <2> QED BY ONLY <2>1, ViewGrows
<1> QED BY <1>4, <1>5, <1>6 DEF brr, i, n, x

\* What is owed once an input was processed.
LEMMA ProcessOwes ==
    ASSUME NEW J, NEW arr, NEW em, History(J, arr, em), NEW s \in Side, NEW k \in Key,
           \A j \in Key : LatestOf(J, em, j) \in 0 .. Len(arr),
           EmissionsExact(J, arr, em)
    PROVE  LET x    == Len(arr) + 1
               P    == Inserted(J, OwedOf(J, arr, em, k), s, x)
               rows == IF Emits(J, P) THEN RowsOf(k, P) ELSE <<>>
               brr  == Longer(arr, s, k)
               fm   == WithRows(em, k, x, rows)
           IN  /\ P \in Cell
               /\ fm \in Seq(Emission) /\ Len(fm) = Len(em) + (IF Emits(J, P) THEN 1 ELSE 0)
               /\ \A d \in 1 .. Len(em) : fm[d] = em[d]
               /\ Emits(J, P) => fm[Len(em) + 1] = [key |-> k, at |-> x, rows |-> rows]
               /\ \A j \in Key :
                     /\ LatestOf(J, fm, j) \in 0 .. x
                     /\ OwedOf(J, brr, fm, j) = IF j # k THEN OwedOf(J, arr, em, j)
                                                ELSE IF Completes(J, P) THEN NoValues ELSE P
               /\ EmissionsExact(J, brr, fm)
<1> DEFINE n    == Len(arr)
           m    == Len(em)
           x    == n + 1
           P    == Inserted(J, OwedOf(J, arr, em, k), s, x)
           rows == IF Emits(J, P) THEN RowsOf(k, P) ELSE <<>>
           brr  == Longer(arr, s, k)
           fm   == WithRows(em, k, x, rows)
<1>1. /\ n \in Nat /\ x \in Nat /\ m \in Nat /\ brr \in Seq(Arrival) /\ Len(brr) = x
      /\ \A q \in 1 .. n : arr[q] = brr[q]
  BY LongerTyped, LenProperties DEF History
<1>2. J.insert \in {"first", "last", "product"} BY JoinTyped DEF History
<1>3. \A j \in Key : /\ ViewOf(J.insert, brr, j, LatestOf(J, em, j), x)
                           = IF j = k THEN P ELSE OwedOf(J, arr, em, j)
                     /\ LatestOf(J, em, j) \in 0 .. n
  BY OwedGrows
<1>4. P = ViewOf(J.insert, brr, k, LatestOf(J, em, k), x) BY <1>3
<1>5. P \in Cell /\ \A t \in Side : P[t] \in Seq(1 .. x) /\ Distinct(P[t])
  <2> DEFINE i == LatestOf(J, em, k)
  <2>1. i \in Nat BY <1>1, <1>3
  <2> HIDE DEF i, x, brr, P
  <2> QED BY <1>1, <1>2, <1>4, <2>1, ViewTyped DEF i
<1>6. \A e \in 1 .. m : em[e].at \in 0 .. n /\ Exact(J, arr, em, e)
  BY DEF History, EmissionsExact
<1>7. em \in Seq(Emission) BY DEF History
<1>8. ASSUME NEW gm, \A d \in 1 .. m : gm[d] = em[d]
      PROVE  /\ \A e \in 1 .. m : Exact(J, brr, gm, e)
             /\ \A j : MatchOf(J.emit, gm, j, m + 1) = LatestOf(J, em, j)
  <2>1. ASSUME NEW e \in 1 .. m PROVE Exact(J, brr, gm, e)
    <3>1. Exact(J, arr, em, e) /\ em[e].at \in Nat BY <1>1, <1>6
    <3>2. e \in Nat /\ e > 0 /\ \A d \in 1 .. e : em[d] = gm[d] BY <1>1, <1>8
    <3>3. Len(arr) \in Nat /\ Len(brr) \in Nat /\ Len(arr) <= Len(brr)
          /\ \A q \in 1 .. Len(arr) : arr[q] = brr[q]
      BY <1>1
    <3> HIDE DEF brr
    <3> QED BY <3>1, <3>2, <3>3, ExactStays
  <2>2. ASSUME NEW j PROVE MatchOf(J.emit, gm, j, m + 1) = LatestOf(J, em, j)
    <3>1. m + 1 \in Nat /\ \A d \in 1 .. (m + 1) - 1 : gm[d] = em[d] BY <1>1, <1>8
    <3>2. MatchOf(J.emit, gm, j, m + 1) = MatchOf(J.emit, em, j, m + 1)
      <4> HIDE DEF m
      <4> QED BY <3>1, MatchSame
    <3> QED BY <3>2 DEF LatestOf
  <2> QED BY <2>1, <2>2
<1> HIDE DEF P, brr, n, m, x
<1>9. CASE ~ Emits(J, P)
  <2>1. rows = <<>> /\ fm = em BY <1>9 DEF WithRows
  <2>2. ~ Completes(J, P) BY <1>9 DEF Emits
  <2> HIDE DEF fm, rows
  <2>3. /\ \A e \in 1 .. m : Exact(J, brr, em, e)
        /\ \A j : MatchOf(J.emit, em, j, m + 1) = LatestOf(J, em, j)
    BY <1>8
  <2>4. EmissionsExact(J, brr, em) BY <2>3 DEF EmissionsExact, m
  <2>5. ASSUME NEW j \in Key
        PROVE  /\ LatestOf(J, em, j) \in 0 .. x
               /\ OwedOf(J, brr, em, j) = IF j # k THEN OwedOf(J, arr, em, j)
                                          ELSE IF Completes(J, P) THEN NoValues ELSE P
    <3>1. OwedOf(J, brr, em, j) = ViewOf(J.insert, brr, j, LatestOf(J, em, j), x)
      BY <1>1 DEF OwedOf
    <3>2. LatestOf(J, em, j) \in 0 .. x BY <1>1, <1>3 DEF x
    <3> QED BY <1>3, <2>2, <3>1, <3>2
  <2>6. m = m + 0 /\ m = Len(em) BY <1>1 DEF m
  <2> QED BY <1>5, <1>7, <1>9, <2>1, <2>4, <2>5, <2>6 DEF P, brr, fm, rows, n, m, x
<1>10. CASE Emits(J, P)
  <2>1. rows = RowsOf(k, P) BY <1>10
  <2> HIDE DEF rows
  <2>2. /\ rows \in Seq(RowSet) /\ rows # <<>>
        /\ {rows[q] : q \in DOMAIN rows} = CombinationsOf({Absent} \cup 1 .. x, k, P)
        /\ Len(rows) = Cardinality({rows[q] : q \in DOMAIN rows})
    <3>1. LET all == RowsOf(k, P)
          IN  /\ all \in Seq(RowSet) /\ all # <<>>
              /\ {all[q] : q \in DOMAIN all} = CombinationsOf({Absent} \cup 1 .. x, k, P)
              /\ Len(all) = Cardinality({all[q] : q \in DOMAIN all})
      BY ONLY <1>1, <1>5, k \in Key, RowsExact
    <3> QED BY <2>1, <3>1
  <2>3. /\ fm \in Seq(Emission) /\ Len(fm) = m + 1
        /\ \A d \in 1 .. m : fm[d] = em[d]
        /\ fm[m + 1] = [key |-> k, at |-> x, rows |-> rows]
    BY <1>1, <1>7, <2>2, WithRowsTyped DEF m
  <2> HIDE DEF fm
  <2>4. /\ \A e \in 1 .. m : Exact(J, brr, fm, e)
        /\ \A j : MatchOf(J.emit, fm, j, m + 1) = LatestOf(J, em, j)
    BY <1>8, <2>3
  <2>5. fm[m + 1].key = k /\ fm[m + 1].at = x /\ fm[m + 1].rows = rows BY <2>3
  <2>6. Exact(J, brr, fm, m + 1)
    <3>1. MatchOf(J.emit, fm, fm[m + 1].key, m + 1) = LatestOf(J, em, k) BY <2>4, <2>5
    <3>2. LatestOf(J, em, k) \in 0 .. x /\ x \in 0 .. Len(brr) BY <1>1, <1>3 DEF x
    <3> QED BY <1>4, <2>2, <2>5, <3>1, <3>2 DEF Exact
  <2>7. EmissionsExact(J, brr, fm)
    <3> SUFFICES ASSUME NEW e \in 1 .. Len(fm) PROVE Exact(J, brr, fm, e)
      BY DEF EmissionsExact
    <3>1. e \in 1 .. m \/ e = m + 1 BY <1>1, <2>3
    <3> QED BY <2>4, <2>6, <3>1
  <2>8. ASSUME NEW j \in Key
        PROVE  /\ LatestOf(J, fm, j) \in 0 .. x
               /\ OwedOf(J, brr, fm, j) = IF j # k THEN OwedOf(J, arr, em, j)
                                          ELSE IF Completes(J, P) THEN NoValues ELSE P
    <3>1. \A d \in 1 .. m + 1 : fm[d].at \in 0 .. x
      <4> SUFFICES ASSUME NEW d \in 1 .. m + 1 PROVE fm[d].at \in 0 .. x OBVIOUS
      <4>1. CASE d = m + 1 BY <1>1, <2>5, <4>1
      <4>2. CASE d # m + 1
        <5>1. d \in 1 .. m BY <1>1, <4>2
        <5>2. fm[d].at \in 0 .. n BY <1>6, <2>3, <5>1
        <5> QED BY <1>1, <5>2 DEF x
      <4> QED BY <4>1, <4>2
    <3>2. m + 1 \in Nat \ {0} BY <1>1
    <3>3. MatchOf(J.emit, fm, j, (m + 1) + 1) =
             IF J.emit = "complete" /\ fm[m + 1].key = j THEN x
             ELSE MatchOf(J.emit, fm, j, m + 1)
      <4> DEFINE e == m + 1
      <4>1. e \in Nat \ {0} /\ x \in Nat /\ fm[e].at = x /\ \A d \in 1 .. e : fm[d].at \in 0 .. x
        BY <1>1, <2>5, <3>1, <3>2
      <4> HIDE DEF e
      <4>2. MatchOf(J.emit, fm, j, e + 1) =
               IF J.emit = "complete" /\ fm[e].key = j THEN x ELSE MatchOf(J.emit, fm, j, e)
        BY ONLY <4>1, MatchGrows
      <4> QED BY <4>2 DEF e
    <3>4. LatestOf(J, fm, j) = IF J.emit = "complete" /\ j = k THEN x ELSE LatestOf(J, em, j)
      BY <2>3, <2>4, <2>5, <3>3 DEF LatestOf
    <3>5. OwedOf(J, brr, fm, j) = ViewOf(J.insert, brr, j, LatestOf(J, fm, j), x)
      BY <1>1 DEF OwedOf
    <3>6. LatestOf(J, fm, j) \in 0 .. x BY <1>1, <1>3, <3>4 DEF x
    <3>7. CASE J.emit = "complete" /\ j = k
      <4>1. OwedOf(J, brr, fm, j) = NoValues BY <1>1, <3>4, <3>5, <3>7, ViewNone
      <4>2. Completes(J, P) BY <1>10, <3>7 DEF Emits
      <4> QED BY <3>6, <3>7, <4>1, <4>2
    <3>8. CASE ~ (J.emit = "complete" /\ j = k)
      <4>1. LatestOf(J, fm, j) = LatestOf(J, em, j) BY <3>4, <3>8
      <4>2. j = k => ~ Completes(J, P) BY <3>8 DEF Completes
      <4> QED BY <1>3, <3>5, <3>6, <4>1, <4>2
    <3> QED BY <3>7, <3>8
  <2> QED BY <1>5, <1>10, <2>3, <2>7, <2>8 DEF P, brr, fm, rows, n, m, x
<1> QED BY <1>9, <1>10
-----------------------------------------------------------------------------
(***************************************************************************)
(* The invariant holds of every step.                                      *)
(***************************************************************************)
LEMMA HistoryFits ==
    ASSUME JoinInv
    PROVE  /\ join \in Joins /\ StateTyped(state)
           /\ History(join, arrivals, emissions)
           /\ \A k \in Key : LatestOf(join, emissions, k) \in 0 .. Len(arrivals)
           /\ Len(arrivals) \in Nat /\ Len(emissions) \in Nat
<1>1. join \in Joins /\ StateTyped(state) /\ arrivals \in Seq(Arrival) /\ emissions \in Seq(Emission)
  BY DEF JoinInv, HistoryTyped
<1>2. \A e \in 1 .. Len(emissions) : emissions[e].at \in 0 .. Len(arrivals)
  BY DEF JoinInv, EmissionsExact, Exact
<1>3. \A k \in Key : LatestOf(join, emissions, k) \in 0 .. Len(arrivals)
  BY DEF JoinInv, CellsOwed
<1> QED BY <1>1, <1>2, <1>3, LenProperties DEF History

LEMMA JoinInvInit == Init => JoinInv
<1> SUFFICES ASSUME Init PROVE JoinInv OBVIOUS
<1>1. /\ join \in Joins /\ state = Empty /\ arrivals = <<>> /\ emissions = <<>>
      /\ arrivals \in Seq(Arrival) /\ emissions \in Seq(Emission)
      /\ Len(arrivals) = 0 /\ Len(emissions) = 0
  BY DEF Init
<1>2. /\ DOMAIN state = StateFields /\ state.cells = <<>>
      /\ state.closed = [s \in Side |-> FALSE] /\ state.phase = "open"
  BY <1>1 DEF Empty, StateFields
<1>3. DOMAIN state.cells = {} /\ state.cells = [k \in DOMAIN state.cells |-> state.cells[k]]
  BY <1>2
<1>4. HistoryTyped BY <1>1, <1>2, <1>3, FS_EmptySet DEF HistoryTyped, StateTyped
<1>5. PhasesFit(join, state)
  <2>1. 1 \in Side BY JoinAssumption DEF Side
  <2> QED BY <1>2, <2>1 DEF PhasesFit
<1>6. \A k \in Key : LatestOf(join, emissions, k) = 0
  <2> SUFFICES ASSUME NEW k \in Key PROVE LatestOf(join, emissions, k) = 0 OBVIOUS
  <2>1. LatestOf(join, emissions, k) = MatchOf(join.emit, emissions, k, 1) BY <1>1 DEF LatestOf
  <2> QED BY <2>1, MatchNone
<1>7. \A k \in Key : OwedOf(join, arrivals, emissions, k) = NoValues
  <2> SUFFICES ASSUME NEW k \in Key PROVE OwedOf(join, arrivals, emissions, k) = NoValues OBVIOUS
  <2>1. OwedOf(join, arrivals, emissions, k) = ViewOf(join.insert, arrivals, k, 0, 0)
    BY <1>1, <1>6 DEF OwedOf
  <2>2. 0 \in Nat /\ 0 <= 0 OBVIOUS
  <2> QED BY ONLY <2>1, <2>2, ViewNone
<1>8. CellsOwed(join, state, arrivals, emissions)
  BY <1>1, <1>3, <1>6, <1>7, NoValuesTyped DEF CellsOwed
<1>9. /\ EmissionsExact(join, arrivals, emissions)
      /\ RunningDue(join, arrivals, emissions)
      /\ FinalDue(join, state, arrivals, emissions)
  BY <1>1, <1>3 DEF EmissionsExact, RunningDue, FinalDue
<1> QED BY <1>4, <1>5, <1>8, <1>9 DEF JoinInv

\* An input.
LEMMA ProcessKeeps ==
    ASSUME JoinInv, NEW s \in Side, NEW k \in Key, Process(s, k)
    PROVE  JoinInv'
<1> DEFINE n    == Len(arrivals)
           m    == Len(emissions)
           x    == n + 1
           old  == CellOf(state, k)
           P    == Inserted(join, old, s, x)
           D    == DOMAIN state.cells
           brr  == Longer(arrivals, s, k)
           all  == IF Emits(join, P) THEN RowsOf(k, P) ELSE <<>>
           fm   == WithRows(emissions, k, x, all)
           after == StageProcess(join, state, s, k, x)
<1>1. /\ join' = join /\ state' = after /\ state.phase = "open"
      /\ arrivals' = brr /\ emissions' = fm
  BY DEF Process, ProcessAdmitted, ProcessedRows, Longer, WithRows
<1>2. /\ join \in Joins /\ StateTyped(state) /\ History(join, arrivals, emissions)
      /\ \A j \in Key : LatestOf(join, emissions, j) \in 0 .. n
      /\ n \in Nat /\ m \in Nat
  BY HistoryFits
<1>3. CellsOwed(join, state, arrivals, emissions) BY DEF JoinInv
<1>4. old = OwedOf(join, arrivals, emissions, k)
  BY <1>1, <1>3 DEF CellsOwed, CellOf
<1>5. /\ DOMAIN after = StateFields
      /\ after.cells = [j \in (IF ~ Completes(join, P) THEN D \cup {k} ELSE D \ {k}) |->
                             IF j = k THEN P ELSE state.cells[j]]
      /\ after.closed = state.closed /\ after.phase = state.phase
  <2>1. DOMAIN state = StateFields BY <1>2 DEF StateTyped
  <2> QED BY <2>1 DEF StageProcess, StateFields
<1>6. /\ P \in Cell
      /\ fm \in Seq(Emission) /\ Len(fm) = m + (IF Emits(join, P) THEN 1 ELSE 0)
      /\ \A d \in 1 .. m : fm[d] = emissions[d]
      /\ Emits(join, P) => fm[m + 1] = [key |-> k, at |-> x, rows |-> all]
      /\ \A j \in Key :
            /\ LatestOf(join, fm, j) \in 0 .. x
            /\ OwedOf(join, brr, fm, j) = IF j # k THEN OwedOf(join, arrivals, emissions, j)
                                          ELSE IF Completes(join, P) THEN NoValues ELSE P
      /\ EmissionsExact(join, brr, fm)
  <2>1. EmissionsExact(join, arrivals, emissions) BY DEF JoinInv
  <2> QED BY <1>2, <1>4, <2>1, ProcessOwes
<1>7. /\ brr \in Seq(Arrival) /\ Len(brr) = x
      /\ \A q \in 1 .. n : arrivals[q] = brr[q]
      /\ brr[x].key = k
  <2>1. arrivals \in Seq(Arrival) BY <1>2 DEF History
  <2> QED BY <2>1, LongerTyped
<1> HIDE DEF n, m, x, old, P, brr, all, fm, after
<1> DEFINE R == IF ~ Completes(join, P) THEN D \cup {k} ELSE D \ {k}
<1>8. DOMAIN after.cells = R /\ \A j \in R : after.cells[j] = IF j = k THEN P ELSE state.cells[j]
  BY <1>5
<1>9. D \subseteq Key /\ IsFiniteSet(D) BY <1>2 DEF StateTyped
<1>10. R \subseteq Key /\ IsFiniteSet(R)
  <2>1. IsFiniteSet(D \cup {k}) BY <1>9, FS_AddElement
  <2>2. IsFiniteSet(D \ {k}) BY <1>9, FS_Subset
  <2> QED BY <1>9, <2>1, <2>2
<1>11. HistoryTyped'
  <2>1. after.cells = [j \in DOMAIN after.cells |-> after.cells[j]] BY <1>5
  <2>2. StateTyped(after) BY <1>2, <1>5, <1>8, <1>10, <2>1 DEF StateTyped
  <2> QED BY <1>1, <1>2, <1>6, <1>7, <2>2 DEF HistoryTyped
<1>12. PhasesFit(join, after)
  <2>1. PhasesFit(join, state) BY DEF JoinInv
  <2> QED BY <1>1, <1>5, <2>1 DEF PhasesFit
<1>13. CellsOwed(join, after, brr, fm)
  <2>1. \A j \in R : after.cells[j] = OwedOf(join, brr, fm, j)
    <3> SUFFICES ASSUME NEW j \in R PROVE after.cells[j] = OwedOf(join, brr, fm, j) OBVIOUS
    <3>1. CASE j = k
      <4>1. ~ Completes(join, P) BY <3>1
      <4> QED BY <1>6, <1>8, <3>1, <4>1
    <3>2. CASE j # k
      <4>1. j \in D BY <3>2
      <4>2. state.cells[j] = OwedOf(join, arrivals, emissions, j) BY <1>3, <4>1 DEF CellsOwed
      <4> QED BY <1>6, <1>8, <1>9, <3>2, <4>1, <4>2
    <3> QED BY <3>1, <3>2
  <2>2. \A j \in Key \ R : OwedOf(join, brr, fm, j) = NoValues
    <3> SUFFICES ASSUME NEW j \in Key \ R PROVE OwedOf(join, brr, fm, j) = NoValues OBVIOUS
    <3>1. CASE j = k
      <4>1. Completes(join, P) BY <3>1
      <4> QED BY <1>6, <3>1, <4>1
    <3>2. CASE j # k
      <4>1. j \in Key \ D BY <3>2
      <4>2. OwedOf(join, arrivals, emissions, j) = NoValues BY <1>1, <1>3, <4>1 DEF CellsOwed
      <4> QED BY <1>6, <3>2, <4>2
    <3> QED BY <3>1, <3>2
  <2>3. ASSUME join.emit = "complete", NEW j \in Key PROVE ~ Complete(OwedOf(join, brr, fm, j))
    <3>1. CASE j # k
      <4>1. ~ Complete(OwedOf(join, arrivals, emissions, j)) BY <1>3, <2>3 DEF CellsOwed
      <4> QED BY <1>6, <3>1, <4>1
    <3>2. CASE j = k
      <4>1. ~ Completes(join, P) => ~ Complete(P) BY <2>3 DEF Completes
      <4> QED BY <1>6, <3>2, <4>1, NoValuesTyped
    <3> QED BY <3>1, <3>2
  <2>4. \A j \in Key : LatestOf(join, fm, j) \in 0 .. Len(brr) BY <1>6, <1>7
  <2> HIDE DEF R
  <2> QED BY <1>8, <2>1, <2>2, <2>3, <2>4 DEF CellsOwed
<1>14. RunningDue(join, brr, fm)
  <2> SUFFICES ASSUME join.emit = "running"
               PROVE  Len(fm) = Len(brr) /\ \A e \in 1 .. Len(fm) : fm[e].at = e
    BY DEF RunningDue
  <2>1. m = n /\ \A e \in 1 .. m : emissions[e].at = e BY DEF JoinInv, RunningDue, n, m
  <2>2. Emits(join, P) BY DEF Emits
  <2>3. Len(fm) = m + 1 /\ fm[m + 1].at = m + 1 BY <1>6, <2>1, <2>2 DEF x
  <2>4. ASSUME NEW e \in 1 .. m + 1 PROVE fm[e].at = e
    <3>1. CASE e = m + 1 BY <2>3, <3>1
    <3>2. CASE e # m + 1
      <4>1. e \in 1 .. m BY <1>2, <3>2
      <4> QED BY <1>6, <2>1, <4>1
    <3> QED BY <3>1, <3>2
  <2>5. Len(fm) = Len(brr) BY <1>7, <2>1, <2>3 DEF x
  <2> QED BY <2>3, <2>4, <2>5
<1>15. FinalDue(join, after, brr, fm)
  <2> SUFFICES ASSUME join.emit = "final" PROVE FinalDue(join, after, brr, fm) BY DEF FinalDue
  <2>1. FinalDue(join, state, arrivals, emissions) BY DEF JoinInv
  <2>2. /\ emissions = <<>> /\ m = 0
        /\ \A q \in 1 .. n : arrivals[q].key \in D
    <3>1. emissions = <<>> BY <1>1, <2>1 DEF FinalDue
    <3>2. m = 0 BY <3>1 DEF m
    <3>3. \A q \in 1 .. n : arrivals[q].key \in D BY <2>1, <3>2 DEF FinalDue, n, m
    <3> QED BY <3>1, <3>2, <3>3
  <2>3. ~ Emits(join, P) /\ ~ Completes(join, P) BY DEF Emits, Completes
  <2>4. fm = <<>>
    <3>1. all = <<>> BY <2>3 DEF all
    <3> QED BY <2>2, <3>1 DEF fm, WithRows
  <2>5. R = D \cup {k} BY <2>3
  <2>6. ASSUME NEW q \in 1 .. x PROVE brr[q].key \in R
    <3>1. CASE q = x BY <1>7, <2>5, <3>1
    <3>2. CASE q # x
      <4>1. q \in 1 .. n BY <1>2, <3>2 DEF x
      <4> QED BY <1>7, <2>2, <2>5, <4>1
    <3> QED BY <3>1, <3>2
  <2>7. Len(fm) = 0 BY <2>4
  <2> HIDE DEF R
  <2> QED BY <1>7, <1>8, <2>4, <2>6, <2>7 DEF FinalDue
<1> QED BY <1>1, <1>6, <1>11, <1>12, <1>13, <1>14, <1>15 DEF JoinInv
\* The end of a side.
LEMMA CloseKeeps ==
    ASSUME JoinInv, NEW s \in Side, Close(s)
    PROVE  JoinInv'
<1> DEFINE closed == [state.closed EXCEPT ![s] = TRUE]
           ended  == \A u \in Side : closed[u]
           drains == join.emit = "final" /\ state.cells # <<>>
           D      == DOMAIN state.cells
<1>1. /\ state' = StageClose(join, state, s) /\ join' = join
      /\ arrivals' = arrivals /\ emissions' = emissions
  BY DEF Close
<1>2. StateTyped(state) /\ join \in Joins
      /\ arrivals \in Seq(Arrival) /\ emissions \in Seq(Emission)
  BY DEF JoinInv, HistoryTyped
<1>3. DOMAIN state = StateFields BY <1>2 DEF StateTyped
<1>4. D = {} <=> state.cells = <<>>
  <2>1. D = {} => state.cells = [k \in {} |-> state.cells[k]] BY <1>2 DEF StateTyped
  <2>2. [k \in {} |-> state.cells[k]] = <<>> OBVIOUS
  <2>3. state.cells = <<>> => D = {} OBVIOUS
  <2> QED BY <2>1, <2>2, <2>3
<1>5. closed \in [Side -> BOOLEAN] /\ closed[s] = TRUE
      /\ \A u \in Side : u # s => closed[u] = state.closed[u]
  BY <1>2 DEF StateTyped
\* What matters of the state published.
<1> DEFINE Keeps(st) == /\ StateTyped(st) /\ PhasesFit(join, st)
                        /\ st.cells = state.cells \/ (DOMAIN st.cells = {} /\ st.phase # "open"
                                                      /\ (join.emit = "final" => D = {}))
                        /\ st.phase = "open" => state.phase = "open"
<1>6. ASSUME Keeps(state') PROVE JoinInv'
  <2> DEFINE st == state'
  <2>1. /\ CellsOwed(join, state, arrivals, emissions)
        /\ FinalDue(join, state, arrivals, emissions)
    BY DEF JoinInv
  <2> HIDE DEF st
  <2>2. Keeps(st) BY <1>6 DEF st
  <2>3. CellsOwed(join, st, arrivals, emissions) BY <2>1, <2>2 DEF CellsOwed
  <2>4. FinalDue(join, st, arrivals, emissions)
    <3>1. CASE st.cells = state.cells BY <2>1, <2>2, <3>1 DEF FinalDue
    <3>2. CASE st.cells # state.cells
      <4>1. DOMAIN st.cells = {} /\ st.phase # "open" /\ (join.emit = "final" => D = {})
        BY <2>2, <3>2
      <4> QED BY <2>1, <4>1 DEF FinalDue
    <3> QED BY <3>1, <3>2
  <2>5. HistoryTyped' BY <1>1, <1>2, <2>2 DEF HistoryTyped, st
  <2>6. EmissionsExact(join, arrivals, emissions) /\ RunningDue(join, arrivals, emissions)
    BY DEF JoinInv
  <2> QED BY <1>1, <2>2, <2>3, <2>4, <2>5, <2>6 DEF JoinInv, st
<1>7. StateTyped(state) /\ PhasesFit(join, state) BY <1>2 DEF JoinInv
<1>8. CASE state.closed[s]
  <2>1. state' = state BY <1>1, <1>8 DEF StageClose
  <2> QED BY <1>6, <1>7, <2>1
<1>9. CASE ~ state.closed[s]
  <2>0. state.phase = "open" BY <1>7, <1>9 DEF PhasesFit
  <2>1. CASE ~ ended
    <3>1. state' = [state EXCEPT !.closed = closed] BY <1>1, <1>9, <2>1 DEF StageClose
    <3>2. /\ DOMAIN state' = StateFields /\ state'.closed = closed
          /\ state'.cells = state.cells /\ state'.phase = state.phase
      BY <1>3, <3>1 DEF StateFields
    <3> HIDE DEF closed
    <3>3. StateTyped(state') BY <1>2, <1>5, <3>2 DEF StateTyped
    <3>4. PhasesFit(join, state') BY <1>7, <2>0, <2>1, <3>2 DEF PhasesFit
    <3> QED BY <1>6, <2>0, <3>2, <3>3, <3>4
  <2>2. CASE ended /\ drains
    <3>1. state' = [state EXCEPT !.closed = closed, !.phase = "draining"]
      BY <1>1, <1>9, <2>2 DEF StageClose
    <3>2. /\ DOMAIN state' = StateFields /\ state'.closed = closed
          /\ state'.cells = state.cells /\ state'.phase = "draining"
      BY <1>3, <3>1 DEF StateFields
    <3> HIDE DEF closed
    <3>3. StateTyped(state') BY <1>2, <1>5, <3>2 DEF StateTyped
    <3>4. PhasesFit(join, state') BY <1>4, <2>2, <3>2 DEF PhasesFit
    <3> QED BY <1>6, <2>0, <3>2, <3>3, <3>4
  <2>3. CASE ended /\ ~ drains
    <3>1. state' = [state EXCEPT !.closed = closed, !.phase = "closed", !.cells = <<>>,
                                 !.bytes = 0, !.values = 0]
      BY <1>1, <1>9, <2>3 DEF StageClose
    <3>2. /\ DOMAIN state' = StateFields /\ state'.closed = closed
          /\ state'.cells = <<>> /\ state'.phase = "closed"
      BY <1>3, <3>1 DEF StateFields
    <3> HIDE DEF closed
    <3>3. DOMAIN state'.cells = {} /\ state'.cells = [k \in DOMAIN state'.cells |-> state'.cells[k]]
      BY <3>2
    <3>4. StateTyped(state') BY <1>5, <3>2, <3>3, FS_EmptySet DEF StateTyped
    <3>5. PhasesFit(join, state') BY <2>3, <3>2, <3>3 DEF PhasesFit
    <3>6. join.emit = "final" => D = {} BY <1>4, <2>3
    <3> QED BY <1>6, <2>0, <3>2, <3>3, <3>4, <3>5, <3>6
  <2> QED BY <2>1, <2>2, <2>3
<1> QED BY <1>8, <1>9

-----------------------------------------------------------------------------
(***************************************************************************)
(* Measures of a cell, and of several.                                     *)
(***************************************************************************)
LEMMA SidesFinite == Sides \in Nat /\ IsFiniteSet(Side) /\ Cardinality(Side) = Sides
<1>1. Sides \in Nat /\ Sides >= 2 BY JoinAssumption
<1>2. IsFiniteSet(1 .. Sides) /\ Cardinality(1 .. Sides) = IF 1 > Sides THEN 0 ELSE Sides - 1 + 1
  BY <1>1, FS_Interval
<1> QED BY <1>1, <1>2 DEF Side

LEMMA CellMeasures ==
    ASSUME NEW cell \in Cell
    PROVE  /\ Count(cell) \in Nat /\ CellBytes(cell) \in Nat
           /\ RowCount(cell) \in Nat \ {0} /\ RowBytes(cell) \in Nat /\ OutputBytes(cell) \in Nat
<1>1. \A s \in Side : Len(cell[s]) \in Nat /\ Weight[s] \in Nat
  BY OfferedTyped, JoinAssumption DEF Side
<1> DEFINE f == [s \in Side |-> Len(cell[s])]
           g == [s \in Side |-> Len(cell[s]) * Weight[s]]
           h == [s \in Side |-> ValueBytes(cell, s)]
<1>2. /\ \A s \in DOMAIN f : f[s] \in Nat
      /\ \A s \in DOMAIN g : g[s] \in Nat
      /\ \A s \in DOMAIN h : h[s] \in Nat
  BY <1>1 DEF ValueBytes
<1>3. DOMAIN f = Side /\ DOMAIN g = Side /\ DOMAIN h = Side OBVIOUS
<1>4. /\ Count(cell) = SumFunctionOnSet(f, Side)
      /\ CellBytes(cell) = 1 + SumFunctionOnSet(g, Side)
      /\ RowBytes(cell) = 1 + SumFunctionOnSet(h, Side)
  BY <1>3 DEF Count, CellBytes, RowBytes, SumFunction
<1> HIDE DEF f, g, h
<1>5. /\ SumFunctionOnSet(f, Side) \in Nat /\ SumFunctionOnSet(g, Side) \in Nat
      /\ SumFunctionOnSet(h, Side) \in Nat
  BY <1>2, <1>3, SidesFinite, SumTyped
<1>6. RowCount(cell) \in Nat \ {0} BY RowCountTyped
<1>7. RowBytes(cell) \in Nat BY <1>4, <1>5
<1>8. OutputBytes(cell) \in Nat
  <2> DEFINE a == RowCount(cell)
             b == RowBytes(cell)
  <2>1. a \in Nat /\ b \in Nat BY <1>6, <1>7
  <2> HIDE DEF a, b
  <2>2. a * b \in Nat BY <2>1
  <2> QED BY <2>2 DEF OutputBytes, a, b
<1> QED BY <1>4, <1>5, <1>6, <1>7, <1>8

\* The measure of every cell.
RowsAt(cells) == [k \in DOMAIN cells |-> RowCount(cells[k])]

OutputAt(cells) == [k \in DOMAIN cells |-> OutputBytes(cells[k])]

BytesAt(cells) == [k \in DOMAIN cells |-> CellBytes(cells[k])]

CountAt(cells) == [k \in DOMAIN cells |-> Count(cells[k])]

LEMMA SumsRestrict ==
    ASSUME NEW cells, NEW K \in SUBSET DOMAIN cells, IsFiniteSet(K)
    PROVE  /\ DOMAIN Restrict(cells, K) = K
           /\ \A k \in K : Restrict(cells, K)[k] = cells[k]
           /\ SumOver(Restrict(cells, K), RowCount) = SumFunctionOnSet(RowsAt(cells), K)
           /\ SumOver(Restrict(cells, K), OutputBytes) = SumFunctionOnSet(OutputAt(cells), K)
           /\ SumOver(Restrict(cells, K), CellBytes) = SumFunctionOnSet(BytesAt(cells), K)
           /\ SumOver(Restrict(cells, K), Count) = SumFunctionOnSet(CountAt(cells), K)
<1> DEFINE r == Restrict(cells, K)
           f == [k \in K |-> RowCount(r[k])]
           g == [k \in K |-> OutputBytes(r[k])]
           h == [k \in K |-> CellBytes(r[k])]
           c == [k \in K |-> Count(r[k])]
<1>1. DOMAIN r = K /\ \A k \in K : r[k] = cells[k] BY DEF Restrict
<1>2. /\ SumOver(r, RowCount) = SumFunctionOnSet(f, K)
      /\ SumOver(r, OutputBytes) = SumFunctionOnSet(g, K)
      /\ SumOver(r, CellBytes) = SumFunctionOnSet(h, K)
      /\ SumOver(r, Count) = SumFunctionOnSet(c, K)
  <2> HIDE DEF r
  <2>1. DOMAIN f = K /\ DOMAIN g = K /\ DOMAIN h = K /\ DOMAIN c = K OBVIOUS
  <2> QED BY <1>1, <2>1 DEF SumOver, SumFunction
<1>3. /\ \A k \in K : f[k] = RowsAt(cells)[k]
      /\ \A k \in K : g[k] = OutputAt(cells)[k]
      /\ \A k \in K : h[k] = BytesAt(cells)[k]
      /\ \A k \in K : c[k] = CountAt(cells)[k]
  <2> HIDE DEF r
  <2> QED BY <1>1 DEF RowsAt, OutputAt, BytesAt, CountAt
<1> HIDE DEF r, f, g, h, c
<1>4. /\ SumFunctionOnSet(f, K) = SumFunctionOnSet(RowsAt(cells), K)
      /\ SumFunctionOnSet(g, K) = SumFunctionOnSet(OutputAt(cells), K)
      /\ SumFunctionOnSet(h, K) = SumFunctionOnSet(BytesAt(cells), K)
      /\ SumFunctionOnSet(c, K) = SumFunctionOnSet(CountAt(cells), K)
  BY <1>3, SumOfSame
<1> QED BY <1>1, <1>2, <1>4 DEF r
\* The cells of a join hold inputs that arrived, each of them once.
LEMMA CellsTyped ==
    ASSUME JoinInv, NEW k \in DOMAIN state.cells
    PROVE  /\ k \in Key /\ state.cells[k] \in Cell
           /\ \A s \in Side : /\ state.cells[k][s] \in Seq(1 .. Len(arrivals))
                              /\ Distinct(state.cells[k][s])
                              /\ join.insert # "product" => Len(state.cells[k][s]) <= 1
<1>1. /\ join \in Joins /\ StateTyped(state) /\ Len(arrivals) \in Nat
      /\ \A j \in Key : LatestOf(join, emissions, j) \in 0 .. Len(arrivals)
  BY HistoryFits
<1>2. k \in Key BY <1>1 DEF StateTyped
<1>3. state.cells[k] = OwedOf(join, arrivals, emissions, k) BY DEF JoinInv, CellsOwed
<1>4. join.insert \in {"first", "last", "product"} BY <1>1, JoinTyped
<1> DEFINE i == LatestOf(join, emissions, k)
           j == Len(arrivals)
<1>5. i \in Nat /\ j \in Nat BY <1>1, <1>2
<1>6. state.cells[k] = ViewOf(join.insert, arrivals, k, i, j) BY <1>3 DEF OwedOf
<1> HIDE DEF i, j
<1>7. /\ ViewOf(join.insert, arrivals, k, i, j) \in Cell
      /\ \A s \in Side : /\ ViewOf(join.insert, arrivals, k, i, j)[s] \in Seq(1 .. j)
                         /\ Distinct(ViewOf(join.insert, arrivals, k, i, j)[s])
                         /\ join.insert # "product"
                               => Len(ViewOf(join.insert, arrivals, k, i, j)[s]) <= 1
  BY ONLY <1>4, <1>5, ViewTyped
<1> QED BY <1>2, <1>6, <1>7 DEF j

\* What a cell may be measured by.
MeasuredCells(cells) ==
    /\ DOMAIN cells \subseteq Int /\ IsFiniteSet(DOMAIN cells)
    /\ \A k \in DOMAIN cells : cells[k] \in Cell

LEMMA SumsGrow ==
    ASSUME NEW cells, MeasuredCells(cells), NEW K \in SUBSET DOMAIN cells, NEW L \in SUBSET K
    PROVE  /\ SumOver(Restrict(cells, L), RowCount) \in Nat
           /\ SumOver(Restrict(cells, K), RowCount) \in Nat
           /\ SumOver(Restrict(cells, L), RowCount) <= SumOver(Restrict(cells, K), RowCount)
           /\ SumOver(Restrict(cells, L), OutputBytes) \in Nat
           /\ SumOver(Restrict(cells, K), OutputBytes) \in Nat
           /\ SumOver(Restrict(cells, L), OutputBytes) <= SumOver(Restrict(cells, K), OutputBytes)
<1>1. IsFiniteSet(K) /\ IsFiniteSet(L) /\ L \in SUBSET DOMAIN cells
  BY FS_Subset DEF MeasuredCells
<1>2. /\ SumOver(Restrict(cells, K), RowCount) = SumFunctionOnSet(RowsAt(cells), K)
      /\ SumOver(Restrict(cells, K), OutputBytes) = SumFunctionOnSet(OutputAt(cells), K)
      /\ SumOver(Restrict(cells, L), RowCount) = SumFunctionOnSet(RowsAt(cells), L)
      /\ SumOver(Restrict(cells, L), OutputBytes) = SumFunctionOnSet(OutputAt(cells), L)
  BY <1>1, SumsRestrict
<1>3. \A k \in K : RowsAt(cells)[k] \in Nat /\ OutputAt(cells)[k] \in Nat
  BY CellMeasures DEF MeasuredCells, RowsAt, OutputAt
<1>4. ASSUME NEW f, \A k \in K : f[k] \in Nat
      PROVE  /\ SumFunctionOnSet(f, L) \in Nat /\ SumFunctionOnSet(f, K) \in Nat
             /\ SumFunctionOnSet(f, L) <= SumFunctionOnSet(f, K)
  <2>1. Parts(K, L, K \ L) /\ Natural(f, K) BY <1>4 DEF Parts, Natural
  <2>2. /\ SumFunctionOnSet(f, L) \in Nat /\ SumFunctionOnSet(f, K \ L) \in Nat
        /\ SumFunctionOnSet(f, K) = SumFunctionOnSet(f, L) + SumFunctionOnSet(f, K \ L)
    BY <1>1, <2>1, SumOfParts
  <2> QED BY <2>2
<1> QED BY <1>2, <1>3, <1>4

\* A drain selects the first keys.
LEMMA SelectedFirst ==
    ASSUME NEW J \in Joins, NEW st, MeasuredCells(st.cells), NEW maxKeys \in Nat,
           NEW a \in Selected(J, st, maxKeys), NEW b \in DOMAIN st.cells, b < a
    PROVE  b \in Selected(J, st, maxKeys)
<1> DEFINE D == DOMAIN st.cells
           upTo(k) == {j \in D : j <= k}
           A == upTo(a)
           B == upTo(b)
<1>1. a \in D /\ Cardinality(A) <= maxKeys /\ Fits(J, st, A) BY DEF Selected
<1>2. a \in Int /\ b \in Int /\ A \in SUBSET D BY <1>1 DEF MeasuredCells
<1>3. B \in SUBSET A
  <2> SUFFICES ASSUME NEW j \in D, j <= b PROVE j <= a OBVIOUS
  <2>1. j \in Int BY DEF MeasuredCells
  <2> QED BY <1>2, <2>1
<1>4. IsFiniteSet(A) BY <1>2, FS_Subset DEF MeasuredCells
<1>5. b \in Selected(J, st, maxKeys) <=> Cardinality(B) <= maxKeys /\ Fits(J, st, B)
  BY DEF Selected
<1> HIDE DEF A, B
<1>6. Cardinality(B) <= Cardinality(A) /\ Cardinality(A) \in Nat /\ Cardinality(B) \in Nat
  BY <1>3, <1>4, FS_Subset, FS_CardinalityType
<1>7. /\ SumOver(Restrict(st.cells, B), RowCount) \in Nat
      /\ SumOver(Restrict(st.cells, A), RowCount) \in Nat
      /\ SumOver(Restrict(st.cells, B), RowCount) <= SumOver(Restrict(st.cells, A), RowCount)
      /\ SumOver(Restrict(st.cells, B), OutputBytes) \in Nat
      /\ SumOver(Restrict(st.cells, A), OutputBytes) \in Nat
      /\ SumOver(Restrict(st.cells, B), OutputBytes) <= SumOver(Restrict(st.cells, A), OutputBytes)
  BY <1>2, <1>3, SumsGrow
<1>8. J.rowsPerBatch \in Nat /\ J.batchBytes \in Nat BY JoinAssumption
<1>9. /\ SumOver(Restrict(st.cells, A), RowCount) <= J.rowsPerBatch
      /\ SumOver(Restrict(st.cells, A), OutputBytes) <= J.batchBytes
  BY <1>1 DEF Fits
<1>10. Fits(J, st, B)
  <2> DEFINE p == SumOver(Restrict(st.cells, B), RowCount)
             q == SumOver(Restrict(st.cells, A), RowCount)
             u == SumOver(Restrict(st.cells, B), OutputBytes)
             v == SumOver(Restrict(st.cells, A), OutputBytes)
             y == J.rowsPerBatch
             z == J.batchBytes
  <2>1. /\ p \in Nat /\ q \in Nat /\ u \in Nat /\ v \in Nat /\ y \in Nat /\ z \in Nat
        /\ p <= q /\ u <= v /\ q <= y /\ v <= z
    BY <1>7, <1>8, <1>9
  <2> HIDE DEF p, q, u, v, y, z
  <2>2. p <= y /\ u <= z BY <2>1
  <2> QED BY <2>2 DEF Fits, p, u, y, z
<1>11. Cardinality(B) <= maxKeys BY <1>1, <1>6
<1> QED BY <1>5, <1>10, <1>11
\* A drain.
LEMMA DrainKeeps ==
    ASSUME JoinInv, NEW maxKeys \in DrainSizes, Drain(maxKeys)
    PROVE  JoinInv'
<1> DEFINE n    == Len(arrivals)
           m    == Len(emissions)
           D    == DOMAIN state.cells
           K    == Selected(join, state, maxKeys)
           keys == InOrder(K)
           c    == Cardinality(K)
           tail == [i \in DOMAIN keys |-> [key |-> keys[i], at |-> n,
                                           rows |-> RowsOf(keys[i], state.cells[keys[i]])]]
           fm   == emissions \o tail
<1>1. /\ join' = join /\ arrivals' = arrivals /\ emissions' = fm
      /\ state' = StageDrain(join, state, maxKeys) /\ state.phase # "open"
  BY DEF Drain, DrainAdmitted
<1>2. /\ join \in Joins /\ StateTyped(state) /\ n \in Nat /\ m \in Nat
      /\ arrivals \in Seq(Arrival) /\ emissions \in Seq(Emission)
      /\ DOMAIN state = StateFields /\ D \subseteq Key /\ Key \subseteq Int /\ IsFiniteSet(D)
      /\ maxKeys \in Nat
  BY HistoryFits, JoinAssumption, RuntimeAssumption DEF JoinInv, HistoryTyped, StateTyped
<1>3. /\ CellsOwed(join, state, arrivals, emissions) /\ PhasesFit(join, state)
      /\ EmissionsExact(join, arrivals, emissions)
      /\ RunningDue(join, arrivals, emissions)
      /\ FinalDue(join, state, arrivals, emissions)
  BY DEF JoinInv
<1>4. K \in SUBSET D /\ IsFiniteSet(K) /\ K \in SUBSET Int
  <2>1. K \in SUBSET D BY DEF Selected
  <2> HIDE DEF K
  <2> QED BY <1>2, <2>1, FS_Subset
<1>5. MeasuredCells(state.cells) BY <1>2, CellsTyped DEF MeasuredCells
<1>6. \A a \in K : \A b \in D : b < a => b \in K
  BY <1>2, <1>5, SelectedFirst
<1>7. /\ c \in Nat /\ DOMAIN keys = 1 .. c
      /\ \A i \in 1 .. c : keys[i] \in K
      /\ \A k \in K : \E i \in 1 .. c : keys[i] = k
      /\ \A i, j \in 1 .. c : i < j => keys[i] < keys[j]
  <2> HIDE DEF K
  <2> QED BY <1>4, InOrderSorts
<1>8. state.phase \in {"draining", "closed"} BY <1>1, <1>2 DEF StateTyped
<1>9. CASE state.phase = "closed"
  <2>1. state' = state BY <1>1, <1>9 DEF StageDrain
  <2>2. K = {} BY <1>3, <1>4, <1>9 DEF PhasesFit
  <2>3. DOMAIN keys = {}
    <3>1. c = 0 BY <2>2, FS_EmptySet
    <3> QED BY <1>7, <3>1
  <2>4. tail = <<>> BY <2>3
  <2> HIDE DEF tail
  <2>5. fm = emissions BY <1>2, <2>4, ConcatEmptySeq
  <2> QED BY <1>1, <2>1, <2>5 DEF JoinInv, HistoryTyped
<1>10. CASE state.phase = "draining"
  <2>1. join.emit = "final" BY <1>3, <1>10 DEF PhasesFit
  <2> DEFINE rest == Restrict(state.cells, D \ K)
             st   == state'
  <2>2. /\ DOMAIN st = StateFields /\ st.closed = state.closed /\ st.cells = rest
        /\ st.phase = IF DOMAIN rest = {} THEN "closed" ELSE "draining"
    <3>1. st = [state EXCEPT
                !.cells = rest,
                !.emitted = @ + SumOver(Restrict(state.cells, K), RowCount),
                !.bytes = @ - SumOver(Restrict(state.cells, K), CellBytes),
                !.values = @ - SumOver(Restrict(state.cells, K), Count),
                !.phase = IF DOMAIN rest = {} THEN "closed" ELSE "draining"]
      BY <1>1, <1>10 DEF StageDrain
    <3> HIDE DEF rest, st, K
    <3> QED BY <1>2, <3>1 DEF StateFields
  <2>3. DOMAIN rest = D \ K /\ (\A k \in D \ K : rest[k] = state.cells[k])
        /\ rest = [k \in DOMAIN rest |-> rest[k]]
    BY DEF Restrict
  <2> HIDE DEF K, rest, st
  <2>4. ASSUME NEW i \in 1 .. c
        PROVE  /\ tail[i] \in Emission /\ tail[i].key = keys[i] /\ tail[i].at = n
               /\ tail[i].rows = RowsOf(keys[i], state.cells[keys[i]])
               /\ keys[i] \in D /\ keys[i] \in Key
    <3>1. keys[i] \in D /\ keys[i] \in Key BY <1>2, <1>4, <1>7
    <3>2. tail[i] = [key |-> keys[i], at |-> n, rows |-> RowsOf(keys[i], state.cells[keys[i]])]
      BY <1>7
    <3>3. RowsOf(keys[i], state.cells[keys[i]]) \in Seq(RowSet)
      <4> DEFINE v == state.cells[keys[i]]
      <4>1. v \in Cell /\ \A s \in Side : v[s] \in Seq(1 .. n) /\ Distinct(v[s])
        BY <3>1, CellsTyped
      <4> HIDE DEF v, n, keys
      <4>2. LET rows == RowsOf(keys[i], v)
            IN  /\ rows \in Seq(RowSet) /\ rows # <<>>
                /\ {rows[q] : q \in DOMAIN rows} = CombinationsOf({Absent} \cup 1 .. n, keys[i], v)
                /\ Len(rows) = Cardinality({rows[q] : q \in DOMAIN rows})
        BY ONLY <1>2, <3>1, <4>1, RowsExact
      <4> QED BY <4>2 DEF v
    <3> QED BY <1>2, <3>1, <3>2, <3>3 DEF Emission
  <2>5. tail \in Seq(Emission) /\ Len(tail) = c
    <3>1. tail = [i \in 1 .. c |-> tail[i]] BY <1>7
    <3>2. \A i \in 1 .. c : tail[i] \in Emission BY <2>4
    <3> HIDE DEF tail
    <3> QED BY <1>7, <3>1, <3>2
  <2> HIDE DEF tail, keys, c
  <2>6. /\ fm \in Seq(Emission) /\ Len(fm) = m + c
        /\ \A d \in 1 .. m : fm[d] = emissions[d]
        /\ \A i \in 1 .. c : fm[m + i] = tail[i]
    <3> DEFINE q == emissions \o tail
    <3>1. /\ q \in Seq(Emission) /\ Len(q) = m + c
          /\ \A i \in 1 .. m + c : q[i] = IF i <= m THEN emissions[i] ELSE tail[i - m]
      BY <1>2, <2>5, ConcatProperties
    <3> HIDE DEF q
    <3>2. \A d \in 1 .. m : q[d] = emissions[d] BY <1>2, <1>7, <3>1
    <3>3. ASSUME NEW i \in 1 .. c PROVE q[m + i] = tail[i]
      <4>1. m + i \in 1 .. m + c /\ ~ (m + i <= m) /\ (m + i) - m = i BY <1>2, <1>7
      <4> QED BY <3>1, <4>1
    <3> QED BY <3>1, <3>2, <3>3 DEF q
  <2> HIDE DEF fm
  <2>7. ASSUME NEW e \in 1 .. Len(fm) PROVE e \in 1 .. m \/ \E i \in 1 .. c : e = m + i
    <3>1. CASE e <= m BY <1>2, <2>6, <3>1
    <3>2. CASE e > m
      <4>1. e - m \in 1 .. c /\ e = m + (e - m) BY <1>2, <1>7, <2>6, <3>2
      <4> QED BY <4>1
    <3> QED BY <1>2, <1>7, <2>6, <3>1, <3>2
  <2>8. HistoryTyped'
    <3>1. IsFiniteSet(D \ K) BY <1>2, FS_Subset
    <3>2. StateTyped(st) BY <1>2, <2>2, <2>3, <3>1 DEF StateTyped
    <3> QED BY <1>1, <1>2, <2>6, <3>2 DEF HistoryTyped, st
  <2>9. PhasesFit(join, st)
    <3>1. PhasesFit(join, state) BY <1>3
    <3> QED BY <1>10, <2>1, <2>2, <3>1 DEF PhasesFit
  <2>10. \A k : \A e : MatchOf(join.emit, fm, k, e) = 0 /\ MatchOf(join.emit, emissions, k, e) = 0
    BY <2>1 DEF MatchOf
  <2>11. \A k : OwedOf(join, arrivals, fm, k) = OwedOf(join, arrivals, emissions, k)
    BY <2>10 DEF OwedOf, LatestOf
  <2>12. CellsOwed(join, st, arrivals, fm)
    <3>1. \A k \in Key : LatestOf(join, fm, k) \in 0 .. Len(arrivals)
      BY <1>2, <2>10 DEF LatestOf
    <3>2. st.phase # "open" /\ join.emit # "complete" BY <2>1, <2>2
    <3>3. \A k \in D : state.cells[k] = OwedOf(join, arrivals, emissions, k)
      BY <1>3 DEF CellsOwed
    <3>4. \A k \in DOMAIN st.cells : st.cells[k] = OwedOf(join, arrivals, fm, k)
      BY <2>2, <2>3, <2>11, <3>3
    <3> QED BY <3>1, <3>2, <3>4 DEF CellsOwed
  <2>13. EmissionsExact(join, arrivals, fm)
    <3> SUFFICES ASSUME NEW e \in 1 .. Len(fm) PROVE Exact(join, arrivals, fm, e)
      BY DEF EmissionsExact
    <3>1. CASE e \in 1 .. m
      <4>1. Exact(join, arrivals, emissions, e) /\ emissions[e].at \in Nat
        <5>1. Exact(join, arrivals, emissions, e) BY <1>3, <3>1 DEF EmissionsExact
        <5>2. emissions[e].at \in 0 .. n BY <5>1 DEF Exact
        <5> QED BY <1>2, <5>1, <5>2
      <4>2. e \in Nat /\ e > 0 /\ \A d \in 1 .. e : emissions[d] = fm[d] BY <1>2, <2>6, <3>1
      <4>3. Len(arrivals) <= Len(arrivals) /\ Len(arrivals) \in Nat
            /\ \A q \in 1 .. Len(arrivals) : arrivals[q] = arrivals[q]
        BY <1>2
      <4> QED BY ONLY <4>1, <4>2, <4>3, ExactStays
    <3>2. ASSUME NEW i \in 1 .. c, e = m + i PROVE Exact(join, arrivals, fm, e)
      <4> DEFINE k == keys[i]
                 v == state.cells[k]
      <4>1. fm[e].key = k /\ fm[e].at = n /\ fm[e].rows = RowsOf(k, v) /\ k \in D /\ k \in Key
        BY <2>4, <2>6, <3>2
      <4> HIDE DEF k
      <4>2. v \in Cell /\ \A s \in Side : v[s] \in Seq(1 .. n) /\ Distinct(v[s])
        BY <4>1, CellsTyped
      <4>3. v = ViewOf(join.insert, arrivals, k, 0, n)
        <5>1. v = OwedOf(join, arrivals, emissions, k) BY <1>3, <4>1 DEF CellsOwed
        <5> QED BY <2>10, <5>1 DEF OwedOf, LatestOf
      <4> HIDE DEF v, n
      <4>4. LET rows == RowsOf(k, v)
            IN  /\ rows \in Seq(RowSet) /\ rows # <<>>
                /\ {rows[q] : q \in DOMAIN rows} = CombinationsOf({Absent} \cup 1 .. n, k, v)
                /\ Len(rows) = Cardinality({rows[q] : q \in DOMAIN rows})
        BY ONLY <1>2, <4>1, <4>2, RowsExact
      <4>5. n \in 0 .. Len(arrivals) /\ 0 \in 0 .. n BY <1>2 DEF n
      <4>6. MatchOf(join.emit, fm, fm[e].key, e) = 0 BY <2>10
      <4>7. ViewOf(join.insert, arrivals, fm[e].key, MatchOf(join.emit, fm, fm[e].key, e), fm[e].at)
               = v
        BY <4>1, <4>3, <4>6
      <4>8. /\ fm[e].rows # <<>>
            /\ {fm[e].rows[q] : q \in DOMAIN fm[e].rows}
                  = CombinationsOf({Absent} \cup 1 .. fm[e].at, fm[e].key, v)
            /\ Len(fm[e].rows) = Cardinality({fm[e].rows[q] : q \in DOMAIN fm[e].rows})
        BY <4>1, <4>4
      <4> QED BY <4>1, <4>5, <4>6, <4>7, <4>8 DEF Exact
    <3> QED BY <2>7, <3>1, <3>2
  <2>14. RunningDue(join, arrivals, fm) BY <2>1 DEF RunningDue
  <2>15. FinalDue(join, st, arrivals, fm)
    <3>1. /\ \A d, e \in 1 .. m : d < e => emissions[d].key < emissions[e].key
          /\ \A e \in 1 .. m : \A k \in D : emissions[e].key < k
          /\ \A q \in 1 .. n : \/ arrivals[q].key \in D
                               \/ \E e \in 1 .. m : emissions[e].key = arrivals[q].key
      BY <1>3, <2>1 DEF FinalDue
    <3>2. \A i \in 1 .. c : fm[m + i].key = keys[i] BY <2>4, <2>6
    <3>3. ASSUME NEW d \in 1 .. Len(fm), NEW e \in 1 .. Len(fm), d < e
          PROVE  fm[d].key < fm[e].key
      <4>1. CASE d \in 1 .. m /\ e \in 1 .. m BY <2>6, <3>1, <3>3, <4>1
      <4>2. ASSUME d \in 1 .. m, NEW i \in 1 .. c, e = m + i PROVE fm[d].key < fm[e].key
        <5>1. keys[i] \in D BY <2>4
        <5> QED BY <2>6, <3>1, <3>2, <4>2, <5>1
      <4>3. ASSUME NEW i \in 1 .. c, d = m + i, NEW j \in 1 .. c, e = m + j
            PROVE  fm[d].key < fm[e].key
        <5>1. i < j BY <1>2, <1>7, <3>3, <4>3
        <5> QED BY <1>7, <3>2, <4>3, <5>1
      <4>4. ASSUME NEW i \in 1 .. c, d = m + i, e \in 1 .. m PROVE FALSE
        BY <1>2, <1>7, <3>3, <4>4
      <4> QED BY <2>7, <4>1, <4>2, <4>3, <4>4
    <3>4. ASSUME NEW e \in 1 .. Len(fm), NEW k \in D \ K PROVE fm[e].key < k
      <4>1. CASE e \in 1 .. m BY <2>6, <3>1, <4>1
      <4>2. ASSUME NEW i \in 1 .. c, e = m + i PROVE fm[e].key < k
        <5> DEFINE a == keys[i]
        <5>1. fm[e].key = a /\ a \in K BY <1>7, <3>2, <4>2
        <5> HIDE DEF a
        <5>2. ~ (k < a) /\ k # a BY <1>6, <5>1
        <5>3. k \in Int /\ a \in Int BY <1>2, <1>4, <5>1
        <5>4. a < k BY <5>2, <5>3
        <5> QED BY <5>1, <5>4
      <4> QED BY <2>7, <4>1, <4>2
    <3>5. ASSUME NEW q \in 1 .. n
          PROVE  \/ arrivals[q].key \in D \ K
                 \/ \E e \in 1 .. Len(fm) : fm[e].key = arrivals[q].key
      <4>1. CASE arrivals[q].key \in K
        <5>1. PICK i \in 1 .. c : keys[i] = arrivals[q].key BY <1>7, <4>1
        <5>2. m + i \in 1 .. Len(fm) BY <1>2, <1>7, <2>6
        <5> QED BY <3>2, <5>1, <5>2
      <4>2. CASE arrivals[q].key \notin D
        <5>1. PICK e \in 1 .. m : emissions[e].key = arrivals[q].key BY <3>1, <4>2
        <5>2. e \in 1 .. Len(fm) BY <1>2, <1>7, <2>6
        <5> QED BY <2>6, <5>1, <5>2
      <4> QED BY <4>1, <4>2
    <3>6. st.phase # "open" /\ DOMAIN st.cells = D \ K BY <2>2, <2>3
    <3> QED BY <3>3, <3>4, <3>5, <3>6 DEF FinalDue
  <2> QED BY <1>1, <2>8, <2>9, <2>12, <2>13, <2>14, <2>15 DEF JoinInv, st
<1> QED BY <1>8, <1>9, <1>10

LEMMA JoinInvNext == JoinInv /\ [Next]_vars => JoinInv'
<1> SUFFICES ASSUME JoinInv, [Next]_vars PROVE JoinInv' OBVIOUS
<1>1. CASE UNCHANGED vars BY <1>1 DEF JoinInv, HistoryTyped, vars
<1>2. ASSUME NEW s \in Side, NEW k \in Key, Process(s, k) PROVE JoinInv' BY <1>2, ProcessKeeps
<1>3. ASSUME NEW s \in Side, Close(s) PROVE JoinInv' BY <1>3, CloseKeeps
<1>4. ASSUME NEW n \in DrainSizes, Drain(n) PROVE JoinInv' BY <1>4, DrainKeeps
<1> QED BY <1>1, <1>2, <1>3, <1>4 DEF Next
LEMMA InvExact == JoinInv => JoinExact
<1> SUFFICES ASSUME JoinInv PROVE JoinExact OBVIOUS
<1> DEFINE n == Len(arrivals)
           m == Len(emissions)
           D == DOMAIN state.cells
<1>1. /\ join \in Joins /\ StateTyped(state) /\ n \in Nat /\ m \in Nat
      /\ arrivals \in Seq(Arrival) /\ emissions \in Seq(Emission)
      /\ DOMAIN arrivals = 1 .. n /\ DOMAIN emissions = 1 .. m
      /\ D \subseteq Key /\ Key \subseteq Int
  BY HistoryFits, JoinAssumption DEF JoinInv, HistoryTyped, StateTyped
<1>2. /\ CellsOwed(join, state, arrivals, emissions)
      /\ EmissionsExact(join, arrivals, emissions)
      /\ RunningDue(join, arrivals, emissions)
      /\ FinalDue(join, state, arrivals, emissions)
  BY DEF JoinInv
<1>3. \A k : View(k, LastMatch(k, m + 1), n) = OwedOf(join, arrivals, emissions, k)
  BY ViewIs, MatchIs DEF OwedOf, LatestOf
<1>4. \A k \in D : state.cells[k] = View(k, LastMatch(k, m + 1), n)
  BY <1>2, <1>3 DEF CellsOwed
<1>5. ASSUME NEW e \in 1 .. m
      PROVE  LET rows == emissions[e].rows
                 view == View(emissions[e].key, LastMatch(emissions[e].key, e), emissions[e].at)
             IN  /\ {rows[q] : q \in DOMAIN rows} = Combinations(emissions[e].key, view)
                 /\ Len(rows) = Cardinality({rows[q] : q \in DOMAIN rows})
  <2> DEFINE rows  == emissions[e].rows
             k     == emissions[e].key
             at    == emissions[e].at
             match == MatchOf(join.emit, emissions, k, e)
             view  == ViewOf(join.insert, arrivals, k, match, at)
  <2>1. /\ at \in 0 .. n /\ match \in 0 .. at
        /\ {rows[q] : q \in DOMAIN rows} = CombinationsOf({Absent} \cup 1 .. at, k, view)
        /\ Len(rows) = Cardinality({rows[q] : q \in DOMAIN rows})
    BY <1>2 DEF EmissionsExact, Exact
  <2>2. View(k, LastMatch(k, e), at) = view BY ViewIs, MatchIs
  <2>3. Combinations(k, view) = CombinationsOf({Absent} \cup 1 .. n, k, view)
    BY CombinationsIs
  <2>4. join.insert \in {"first", "last", "product"} BY <1>1, JoinTyped
  <2> HIDE DEF rows, k, at, match, n
  <2>5. at \in Nat /\ match \in Nat BY <1>1, <2>1
  <2>6. view \in Cell /\ \A s \in Side : view[s] \in Seq(1 .. at)
    <3>1. /\ ViewOf(join.insert, arrivals, k, match, at) \in Cell
          /\ \A s \in Side : /\ ViewOf(join.insert, arrivals, k, match, at)[s] \in Seq(1 .. at)
                             /\ Distinct(ViewOf(join.insert, arrivals, k, match, at)[s])
                             /\ join.insert # "product"
                                   => Len(ViewOf(join.insert, arrivals, k, match, at)[s]) <= 1
      BY ONLY <2>4, <2>5, ViewTyped
    <3> QED BY <3>1
  <2> HIDE DEF view
  <2>7. Within(view, {Absent} \cup 1 .. at) BY <2>5, <2>6, OfferedWithin
  <2>8. Within(view, {Absent} \cup 1 .. n)
    <3>1. 1 .. at \subseteq 1 .. n BY <1>1, <2>1
    <3> QED BY <2>7, <3>1 DEF Within
  <2>9. CombinationsOf({Absent} \cup 1 .. at, k, view) = CombinationsOf({Absent} \cup 1 .. n, k, view)
    BY ONLY <2>6, <2>7, <2>8, CombinationsSame
  <2>10. {rows[q] : q \in DOMAIN rows} = Combinations(k, View(k, LastMatch(k, e), at))
    BY <2>1, <2>2, <2>3, <2>9
  <2> QED BY <2>1, <2>10 DEF rows, k, at
<1>6. EmittedWhenDue
  <2>1. CASE join.emit = "running"
    <3>1. m = n /\ \A e \in 1 .. m : emissions[e].at = e BY <1>2, <2>1 DEF RunningDue
    <3>2. [e \in DOMAIN emissions |-> emissions[e].at] = [q \in DOMAIN arrivals |-> q]
      BY <1>1, <3>1
    <3> QED BY <2>1, <3>2 DEF EmittedWhenDue
  <2>2. CASE join.emit = "complete"
    <3>1. \A k \in Key : ~ Complete(View(k, LastMatch(k, m + 1), n))
      BY <1>2, <1>3, <2>2 DEF CellsOwed
    <3> QED BY <2>2, <3>1 DEF EmittedWhenDue
  <2>3. CASE join.emit = "final"
    <3>1. /\ \A d, e \in 1 .. m : d < e => emissions[d].key < emissions[e].key
          /\ \A e \in 1 .. m : \A k \in D : emissions[e].key < k
          /\ \A q \in 1 .. n : \/ arrivals[q].key \in D
                               \/ \E e \in 1 .. m : emissions[e].key = arrivals[q].key
      BY <1>2, <2>3 DEF FinalDue
    <3>2. \A e \in 1 .. m : emissions[e].key \in Int
      <4> SUFFICES ASSUME NEW e \in 1 .. m PROVE emissions[e].key \in Int OBVIOUS
      <4>1. emissions[e] \in Emission BY <1>1, ElementOfSeq
      <4> QED BY <1>1, <4>1 DEF Emission
    <3>3. \A e \in 1 .. m - 1 : emissions[e].key < emissions[e + 1].key
      <4> SUFFICES ASSUME NEW e \in 1 .. m - 1
                   PROVE  emissions[e].key < emissions[e + 1].key
        OBVIOUS
      <4>1. e \in 1 .. m /\ e + 1 \in 1 .. m /\ e < e + 1 BY <1>1
      <4> QED BY <3>1, <4>1
    <3>4. ASSUME NEW q \in 1 .. n
          PROVE  Cardinality(Emitted(arrivals[q].key))
                    + (IF arrivals[q].key \in D THEN 1 ELSE 0) = 1
      <4> DEFINE k == arrivals[q].key
      <4>1. Emitted(k) = {e \in 1 .. m : emissions[e].key = k} BY <1>1 DEF Emitted
      <4>2. CASE k \in D
        <5>1. \A e \in 1 .. m : emissions[e].key # k
          <6> SUFFICES ASSUME NEW e \in 1 .. m, emissions[e].key = k PROVE FALSE OBVIOUS
          <6>1. k < k /\ k \in Int BY <3>1, <3>2, <4>2
          <6> QED BY <6>1
        <5>2. Emitted(k) = {} BY <4>1, <5>1
        <5> QED BY <4>2, <5>2, FS_EmptySet
      <4>3. CASE k \notin D
        <5>1. PICK e \in 1 .. m : emissions[e].key = k BY <3>1, <4>3
        <5>2. \A d \in 1 .. m : emissions[d].key = k => d = e
          <6> SUFFICES ASSUME NEW d \in 1 .. m, emissions[d].key = k, d # e PROVE FALSE OBVIOUS
          <6>1. d < e \/ e < d BY <1>1
          <6>2. k < k /\ k \in Int BY <3>1, <3>2, <5>1, <6>1
          <6> QED BY <6>2
        <5>3. Emitted(k) = {e} BY <4>1, <5>1, <5>2
        <5> HIDE DEF k
        <5>4. Cardinality({e}) = 1 BY FS_Singleton
        <5> QED BY <4>3, <5>3, <5>4 DEF k
      <4> QED BY <4>2, <4>3
    <3> QED BY <1>1, <2>3, <3>3, <3>4 DEF EmittedWhenDue
  <2> QED BY <1>1, <2>1, <2>2, <2>3, JoinTyped
<1> QED BY <1>1, <1>4, <1>5, <1>6 DEF JoinExact

\* Joins are exact whatever is processed, closed and drained, and when: every
\* emission holds each combination of what its sides were owed once, and comes
\* when it is due (KeyedJoin and JoinRuntime of keyed_join.py).
THEOREM JoinStaysExact == Spec => []JoinExact
<1>1. Spec => []JoinInv BY JoinInvInit, JoinInvNext, PTL DEF Spec
<1> QED BY <1>1, InvExact, PTL
-----------------------------------------------------------------------------
(***************************************************************************)
(* Sums where one term changes, of pairs, and by rows and by columns.      *)
(***************************************************************************)

\* The sets differ at most in k, and the functions on them too.
DifferAt(f, D, g, R, k) ==
    /\ IsFiniteSet(D) /\ R \ {k} = D \ {k}
    /\ \A j \in D : f[j] \in Nat
    /\ \A j \in R : g[j] \in Nat
    /\ \A j \in D \ {k} : f[j] = g[j]

LEMMA SumReplaced ==
    ASSUME NEW f, NEW D, NEW g, NEW R, NEW k, DifferAt(f, D, g, R, k)
    PROVE  /\ SumFunctionOnSet(f, D) \in Nat /\ SumFunctionOnSet(g, R) \in Nat
           /\ k \in D => f[k] \in Nat /\ f[k] <= SumFunctionOnSet(f, D)
           /\ k \in R => g[k] \in Nat /\ g[k] <= SumFunctionOnSet(g, R)
           /\ SumFunctionOnSet(g, R)
                 = (SumFunctionOnSet(f, D) - (IF k \in D THEN f[k] ELSE 0))
                      + (IF k \in R THEN g[k] ELSE 0)
<1> DEFINE E == D \ {k}
           F == SumFunctionOnSet(f, D)
           G == SumFunctionOnSet(g, R)
           e == SumFunctionOnSet(f, E)
<1>0. /\ IsFiniteSet(D) /\ R \ {k} = E
      /\ \A j \in D : f[j] \in Nat
      /\ \A j \in R : g[j] \in Nat
      /\ \A j \in E : f[j] = g[j]
  BY DEF DifferAt
<1>1. IsFiniteSet(E) /\ IsFiniteSet(R)
  <2>1. IsFiniteSet(E) BY <1>0, FS_Subset
  <2>2. R = E \/ R = E \cup {k} BY <1>0
  <2>3. IsFiniteSet(E \cup {k}) BY <2>1, FS_AddElement
  <2> QED BY <2>1, <2>2, <2>3
<1>2. F \in Nat /\ G \in Nat BY <1>0, <1>1, SumTyped
<1>3. e \in Nat /\ SumFunctionOnSet(g, E) = e
  <2>1. \A j \in E : f[j] \in Nat /\ f[j] = g[j] BY <1>0
  <2> HIDE DEF E
  <2>2. SumFunctionOnSet(g, E) = SumFunctionOnSet(f, E) BY <1>1, <2>1, SumOfSame
  <2> QED BY <1>1, <2>1, <2>2, SumTyped
<1>4. F = (IF k \in D THEN f[k] ELSE 0) + e
  <2>1. CASE k \in D
    <3>1. \A j \in D : f[j] \in Int BY <1>0
    <3> QED BY <1>0, <2>1, <3>1, SumWithout
  <2>2. CASE k \notin D
    <3>1. E = D BY <2>2
    <3> QED BY <1>3, <2>2, <3>1
  <2> QED BY <2>1, <2>2
<1>5. G = (IF k \in R THEN g[k] ELSE 0) + e
  <2>1. CASE k \in R
    <3>1. \A j \in R : g[j] \in Int BY <1>0
    <3>2. SumFunctionOnSet(g, R) = g[k] + SumFunctionOnSet(g, R \ {k})
      BY <1>1, <2>1, <3>1, SumWithout
    <3> QED BY <1>0, <1>3, <2>1, <3>2
  <2>2. CASE k \notin R
    <3>1. E = R BY <1>0, <2>2
    <3> QED BY <1>3, <2>2, <3>1
  <2> QED BY <2>1, <2>2
<1> DEFINE a == IF k \in D THEN f[k] ELSE 0
           b == IF k \in R THEN g[k] ELSE 0
<1>6. a \in Nat /\ b \in Nat /\ (k \in D => f[k] = a) /\ (k \in R => g[k] = b) BY <1>0
<1> HIDE DEF a, b, e, F, G
<1>7. F = a + e /\ G = b + e BY <1>4, <1>5 DEF a, b
<1>8. a <= F /\ b <= G /\ G = (F - a) + b BY <1>3, <1>6, <1>7
<1> QED BY <1>2, <1>6, <1>8 DEF F, G, a, b

\* The sum of a sum is the sum of the sums.
LEMMA SumAdds ==
    ASSUME NEW f, NEW g, NEW h, NEW S, IsFiniteSet(S),
           \A x \in S : f[x] \in Int /\ g[x] \in Int /\ h[x] = f[x] + g[x]
    PROVE  SumFunctionOnSet(h, S) = SumFunctionOnSet(f, S) + SumFunctionOnSet(g, S)
<1> DEFINE F(s) == SumFunctionOnSet(f, s)
           G(s) == SumFunctionOnSet(g, s)
           H(s) == SumFunctionOnSet(h, s)
           Bad == {s \in SUBSET S : H(s) # F(s) + G(s)}
<1> SUFFICES ASSUME Bad # {} PROVE FALSE OBVIOUS
<1>1. PICK s \in Bad : \A u \in Bad : u \subseteq s => u = s
  <2>1. Bad \in SUBSET (SUBSET S) OBVIOUS
  <2> HIDE DEF Bad
  <2> QED BY <2>1, SmallestSubset
<1>2. s # {}
  <2>1. F({}) = 0 /\ G({}) = 0 /\ H({}) = 0 BY SumOfNone
  <2>2. H({}) = F({}) + G({})
    <3> HIDE DEF F, G, H
    <3> QED BY <2>1
  <2>3. {} \notin Bad BY <2>2
  <2> HIDE DEF Bad
  <2> QED BY <1>1, <2>3
<1>3. PICK e \in s : TRUE BY <1>2
<1> DEFINE u == s \ {e}
<1>4. IsFiniteSet(s) /\ IsFiniteSet(u) /\ u \subseteq S BY <1>1, FS_Subset
<1>5. u \notin Bad
  <2>1. u \subseteq s /\ u # s BY <1>3
  <2> HIDE DEF Bad, u
  <2> QED BY <1>1, <2>1
<1>6. \A x \in s : f[x] \in Int /\ g[x] \in Int /\ h[x] \in Int BY <1>1
<1>7. F(s) = f[e] + F(u) BY <1>3, <1>4, <1>6, SumWithout
<1>8. G(s) = g[e] + G(u) BY <1>3, <1>4, <1>6, SumWithout
<1>9. H(s) = h[e] + H(u) BY <1>3, <1>4, <1>6, SumWithout
<1>10. F(u) \in Int /\ G(u) \in Int
  <2>1. \A x \in u : f[x] \in Int /\ g[x] \in Int BY <1>4
  <2> HIDE DEF u
  <2> QED BY <1>4, <2>1, SumTyped
<1>11. H(u) = F(u) + G(u)
  <2> HIDE DEF u, F, G, H
  <2> QED BY <1>4, <1>5
<1>12. f[e] \in Int /\ g[e] \in Int /\ h[e] = f[e] + g[e] BY <1>1, <1>3
<1>13. H(s) # F(s) + G(s) BY <1>1
<1> HIDE DEF F, G, H, u
<1>14. H(s) = F(s) + G(s) BY <1>7, <1>8, <1>9, <1>10, <1>11, <1>12
<1> QED BY <1>13, <1>14

\* Sums by rows and by columns.
Column(w, D, s) == [k \in D |-> w[k][s]]

RowSums(w, D, S) == [k \in D |-> SumFunctionOnSet(w[k], S)]

ColumnSums(w, D, T, S) == [s \in S |-> SumFunctionOnSet(Column(w, D, s), T)]

LEMMA SumsExchange ==
    ASSUME NEW w, NEW D, IsFiniteSet(D), NEW S, IsFiniteSet(S),
           \A k \in D : \A s \in S : w[k][s] \in Nat
    PROVE  SumFunctionOnSet(RowSums(w, D, S), D) = SumFunctionOnSet(ColumnSums(w, D, D, S), S)
<1> DEFINE R(T) == SumFunctionOnSet(RowSums(w, D, S), T)
           C(T) == SumFunctionOnSet(ColumnSums(w, D, T, S), S)
           Bad == {T \in SUBSET D : R(T) # C(T)}
<1> SUFFICES ASSUME Bad # {} PROVE FALSE
  <2>1. D \notin Bad OBVIOUS
  <2> QED BY <2>1
<1>1. PICK T \in Bad : \A u \in Bad : u \subseteq T => u = T
  <2>1. Bad \in SUBSET (SUBSET D) OBVIOUS
  <2> HIDE DEF Bad
  <2> QED BY <2>1, SmallestSubset
<1>0. R(T) # C(T) /\ T \subseteq D BY <1>1
<1>2. T # {}
  <2>1. R({}) = 0 BY SumOfNone
  <2>2. C({}) = 0
    <3> DEFINE c == ColumnSums(w, D, {}, S)
    <3>1. \A s \in S : c[s] \in 0 .. 0 BY SumOfNone DEF ColumnSums
    <3> HIDE DEF c
    <3>2. /\ Cardinality(S) \in Nat /\ Cardinality(S) * 0 <= SumFunctionOnSet(c, S)
          /\ SumFunctionOnSet(c, S) <= Cardinality(S) * 0
      BY <3>1, SumBounded
    <3>3. SumFunctionOnSet(c, S) \in Int
      <4>1. \A s \in S : c[s] \in Int BY <3>1
      <4> QED BY <4>1, SumTyped
    <3>4. SumFunctionOnSet(c, S) = 0 BY <3>2, <3>3
    <3> QED BY <3>4 DEF c
  <2> HIDE DEF R, C, Bad
  <2> QED BY <1>0, <2>1, <2>2
<1>3. PICK k \in T : TRUE BY <1>2
<1> DEFINE U == T \ {k}
<1>4. IsFiniteSet(T) /\ IsFiniteSet(U) /\ U \subseteq D /\ k \in D BY <1>0, <1>3, FS_Subset
<1>5. R(U) = C(U)
  <2>1. U \subseteq T /\ U # T BY <1>3
  <2>2. U \notin Bad
    <3> HIDE DEF Bad, U
    <3> QED BY <1>1, <2>1
  <2> HIDE DEF R, C, U
  <2> QED BY <1>4, <2>2
<1>6. \A j \in D : SumFunctionOnSet(w[j], S) \in Nat BY SumTyped
<1>7. R(T) = SumFunctionOnSet(w[k], S) + R(U)
  <2> DEFINE r == RowSums(w, D, S)
  <2>1. (\A j \in T : r[j] \in Int) /\ r[k] = SumFunctionOnSet(w[k], S)
    BY <1>0, <1>4, <1>6 DEF RowSums
  <2> HIDE DEF r
  <2>2. SumFunctionOnSet(r, T) = r[k] + SumFunctionOnSet(r, U)
    BY <1>3, <1>4, <2>1, SumWithout
  <2> QED BY <2>1, <2>2 DEF r
<1>8. C(T) = SumFunctionOnSet(w[k], S) + C(U)
  <2> DEFINE h == ColumnSums(w, D, T, S)
             g == ColumnSums(w, D, U, S)
             f == w[k]
  <2>1. ASSUME NEW s \in S PROVE f[s] \in Int /\ g[s] \in Int /\ h[s] = f[s] + g[s]
    <3> DEFINE c == Column(w, D, s)
    <3>1. (\A j \in D : c[j] \in Int) /\ c[k] = f[s] /\ f[s] \in Int BY <1>4 DEF Column
    <3>2. h[s] = SumFunctionOnSet(c, T) /\ g[s] = SumFunctionOnSet(c, U) BY DEF ColumnSums
    <3> HIDE DEF c, h, g, f
    <3>3. (\A j \in T : c[j] \in Int) /\ (\A j \in U : c[j] \in Int) BY <1>0, <1>4, <3>1
    <3>4. SumFunctionOnSet(c, T) = c[k] + SumFunctionOnSet(c, U)
      BY <1>3, <1>4, <3>3, SumWithout
    <3>5. SumFunctionOnSet(c, U) \in Int
      <4> HIDE DEF U
      <4> QED BY <1>4, <3>3, SumTyped
    <3> QED BY <3>1, <3>2, <3>4, <3>5
  <2> HIDE DEF f, g, h
  <2>2. SumFunctionOnSet(h, S) = SumFunctionOnSet(f, S) + SumFunctionOnSet(g, S)
    BY <2>1, SumAdds
  <2> QED BY <2>2 DEF f, g, h
<1> HIDE DEF R, C
<1> QED BY <1>0, <1>5, <1>7, <1>8
-----------------------------------------------------------------------------
(***************************************************************************)
(* The measures of the cells of a state, and of a cell that an input grows.*)
(***************************************************************************)
LensAt(cells, s) == [k \in DOMAIN cells |-> Len(cells[k][s])]

LEMMA SumsAre ==
    ASSUME NEW st
    PROVE  /\ SumOver(st.cells, CellBytes) = SumFunctionOnSet(BytesAt(st.cells), DOMAIN st.cells)
           /\ SumOver(st.cells, Count) = SumFunctionOnSet(CountAt(st.cells), DOMAIN st.cells)
           /\ \A s : Retained(st, s) = SumFunctionOnSet(LensAt(st.cells, s), DOMAIN st.cells)
<1> DEFINE D == DOMAIN st.cells
           f == [k \in D |-> CellBytes(st.cells[k])]
           g == [k \in D |-> Count(st.cells[k])]
           h(s) == [k \in D |-> Len(st.cells[k][s])]
<1>1. DOMAIN f = D /\ DOMAIN g = D /\ \A s : DOMAIN h(s) = D OBVIOUS
<1>2. /\ SumOver(st.cells, CellBytes) = SumFunction(f)
      /\ SumOver(st.cells, Count) = SumFunction(g)
      /\ \A s : Retained(st, s) = SumFunction(h(s))
  BY DEF SumOver, Retained
<1>3. f = BytesAt(st.cells) /\ g = CountAt(st.cells) /\ \A s : h(s) = LensAt(st.cells, s)
  BY DEF BytesAt, CountAt, LensAt
<1> HIDE DEF f, g, h, D
<1>4. /\ SumFunction(f) = SumFunctionOnSet(f, D)
      /\ SumFunction(g) = SumFunctionOnSet(g, D)
      /\ \A s : SumFunction(h(s)) = SumFunctionOnSet(h(s), D)
  BY <1>1 DEF SumFunction
<1> QED BY <1>2, <1>3, <1>4 DEF D

LEMMA NoValuesMeasures ==
    /\ Count(NoValues) = 0
    /\ \A s \in Side : Len(NoValues[s]) = 0
<1>1. \A s \in Side : Len(NoValues[s]) = 0 BY DEF NoValues
<1> DEFINE f == [s \in Side |-> Len(NoValues[s])]
<1>2. Count(NoValues) = SumFunctionOnSet(f, Side)
  <2>1. DOMAIN f = Side OBVIOUS
  <2> QED BY <2>1 DEF Count, SumFunction
<1>3. \A s \in Side : f[s] \in 0 .. 0 BY <1>1
<1> HIDE DEF f
<1>4. /\ Cardinality(Side) \in Nat /\ Cardinality(Side) * 0 <= SumFunctionOnSet(f, Side)
      /\ SumFunctionOnSet(f, Side) <= Cardinality(Side) * 0
  BY <1>3, SidesFinite, SumBounded
<1>5. SumFunctionOnSet(f, Side) \in Int
  <2>1. \A s \in Side : f[s] \in Int BY <1>3
  <2> QED BY <2>1, SidesFinite, SumTyped
<1> QED BY <1>1, <1>2, <1>4, <1>5

\* A cell and one value more on side s.
LEMMA InsertedMeasures ==
    ASSUME NEW J, J.insert \in {"first", "last", "product"}, NEW cell \in Cell, NEW s \in Side,
           NEW x \in Nat
    PROVE  LET P == Inserted(J, cell, s, x)
           IN  /\ P \in Cell
               /\ \A u \in Side : Len(P[u]) \in Nat /\ Len(cell[u]) \in Nat
               /\ \A u \in Side \ {s} : P[u] = cell[u]
               /\ Len(P[s]) >= 1 /\ Len(P[s]) <= Len(cell[s]) + 1
               /\ J.insert = "product" => /\ Len(P[s]) = Len(cell[s]) + 1
                                          /\ Count(P) = Count(cell) + 1
<1> DEFINE P == Inserted(J, cell, s, x)
           old == cell[s]
           new == P[s]
<1>1. old \in Seq(Nat) /\ Len(old) \in Nat /\ cell = [u \in Side |-> cell[u]] BY DEF Cell
<1>2. /\ Append(old, x) \in Seq(Nat) /\ Len(Append(old, x)) = Len(old) + 1
      /\ <<x>> \in Seq(Nat) /\ Len(<<x>>) = 1
  <2> HIDE DEF old
  <2> QED BY <1>1, AppendProperties
<1>3. /\ new = IF J.insert = "product" THEN Append(old, x)
               ELSE IF J.insert = "last" \/ old = <<>> THEN <<x>> ELSE old
      /\ \A u \in Side \ {s} : P[u] = cell[u]
      /\ P = [u \in Side |-> P[u]]
  BY <1>1 DEF Inserted
<1> HIDE DEF P
<1>4. /\ new \in Seq(Nat) /\ Len(new) >= 1 /\ Len(new) <= Len(old) + 1
      /\ J.insert = "product" => Len(new) = Len(old) + 1
  <2> HIDE DEF old, new
  <2>1. old # <<>> => Len(old) >= 1 BY <1>1, EmptySeq
  <2> QED BY <1>1, <1>2, <1>3, <2>1
<1>5. P \in Cell
  <2>1. \A u \in Side : P[u] \in Seq(Nat)
    <3>1. \A u \in Side : cell[u] \in Seq(Nat) BY DEF Cell
    <3> QED BY <1>3, <1>4, <3>1
  <2> QED BY <1>3, <2>1 DEF Cell
<1>6. \A u \in Side : Len(P[u]) \in Nat /\ Len(cell[u]) \in Nat BY <1>5, OfferedTyped
<1>7. ASSUME J.insert = "product" PROVE Count(P) = Count(cell) + 1
  <2> DEFINE f == [u \in Side |-> Len(cell[u])]
             g == [u \in Side |-> Len(P[u])]
  <2>1. DOMAIN f = Side /\ DOMAIN g = Side OBVIOUS
  <2>2. Count(P) = SumFunctionOnSet(g, Side) /\ Count(cell) = SumFunctionOnSet(f, Side)
    BY <2>1 DEF Count, SumFunction
  <2>3. DifferAt(f, Side, g, Side, s) BY <1>3, <1>6, SidesFinite DEF DifferAt
  <2>4. g[s] = f[s] + 1 /\ f[s] \in Nat BY <1>4, <1>6, <1>7
  <2> HIDE DEF f, g
  <2>5. /\ SumFunctionOnSet(f, Side) \in Nat
        /\ SumFunctionOnSet(g, Side) = (SumFunctionOnSet(f, Side) - f[s]) + g[s]
    BY <2>3, SumReplaced
  <2> QED BY <2>2, <2>4, <2>5
<1> QED BY <1>3, <1>4, <1>5, <1>6, <1>7 DEF P
-----------------------------------------------------------------------------
(***************************************************************************)
(* What every step keeps of the counters.                                  *)
(***************************************************************************)
PerKey(J) == IF J.insert = "product" THEN J.rowsPerKey ELSE 1

KeysOf(st) == Cardinality(DOMAIN st.cells)

\* The totals carried along are those of the cells, and within the limits.
TotalsTrue(J, st) ==
    /\ st.bytes = SumOver(st.cells, CellBytes) /\ st.values = SumOver(st.cells, Count)
    /\ KeysOf(st) <= J.keys /\ st.bytes <= J.stateBytes /\ st.values <= J.values
    /\ \A k \in DOMAIN st.cells : CellAdmitted(J, st.cells[k])

\* What was retained while the join was open, and what was consumed.
RetainedTrue(J, st) ==
    /\ \A s \in Side : Consumed(st, s) >= 0
    /\ J.insert = "product" /\ J.emit # "complete" =>
          /\ Inputs(st) <= J.values
          /\ st.phase = "open" => /\ st.values = Inputs(st)
                                  /\ \A s \in Side : Retained(st, s) = st.counts[s]
    /\ J.insert # "product" /\ J.emit # "complete" /\ st.phase = "open" =>
          \A s \in Side : st.counts[s] > 0 => Retained(st, s) > 0

\* The rows emitted by a running or a complete join.
EmittedTrue(J, st) ==
    /\ J.emit # "final" => st.emitted <= Inputs(st) * J.rowsPerKey
    /\ J.emit = "running" => /\ st.emitted >= Inputs(st)
                             /\ J.insert # "product" => st.emitted = Inputs(st)
    /\ J.emit = "complete" => \A s \in Side : st.emitted <= Consumed(st, s) * PerKey(J)

\* The rows emitted by a final join, in so many emissions of a key.
DrainedTrue(J, st, emitted) ==
    J.emit = "final" =>
        /\ emitted + KeysOf(st) <= J.keys
        /\ emitted + KeysOf(st) <= Inputs(st)
        /\ Inputs(st) > 0 => emitted + KeysOf(st) > 0
        /\ emitted <= st.emitted /\ st.emitted <= emitted * PerKey(J)
        /\ J.insert = "product" => /\ emitted + st.values <= Inputs(st)
                                   /\ \A s \in Side : Consumed(st, s) <= st.emitted

CountInv ==
    /\ state = [field \in StateFields |-> state[field]]
    /\ state.counts \in [Side -> Nat] /\ state.emitted \in Nat
    /\ TotalsTrue(join, state)
    /\ RetainedTrue(join, state)
    /\ EmittedTrue(join, state)
    /\ DrainedTrue(join, state, Len(emissions))

\* Two states whose cells are those of the other but for one key.
ReplacedAt(st, after, k) ==
    /\ MeasuredCells(st.cells) /\ MeasuredCells(after.cells)
    /\ DOMAIN after.cells \ {k} = DOMAIN st.cells \ {k}
    /\ \A j \in DOMAIN st.cells \ {k} : after.cells[j] = st.cells[j]

\* What of the measures of a state changes with the cell of one key.
LEMMA CellReplaced ==
    ASSUME NEW st, NEW after, NEW k, ReplacedAt(st, after, k)
    PROVE  LET before   == CellOf(st, k)
               proposed == CellOf(after, k)
               known    == k \in DOMAIN st.cells
               retains  == k \in DOMAIN after.cells
           IN  /\ SumOver(after.cells, CellBytes)
                     = (SumOver(st.cells, CellBytes) - (IF known THEN CellBytes(before) ELSE 0))
                          + (IF retains THEN CellBytes(proposed) ELSE 0)
               /\ SumOver(after.cells, Count)
                     = (SumOver(st.cells, Count) - Count(before)) + Count(proposed)
               /\ \A s \in Side :
                     /\ Retained(st, s) \in Nat /\ Retained(after, s) \in Nat
                     /\ Len(before[s]) \in Nat /\ Len(before[s]) <= Retained(st, s)
                     /\ Len(proposed[s]) \in Nat /\ Len(proposed[s]) <= Retained(after, s)
                     /\ Retained(after, s) = (Retained(st, s) - Len(before[s])) + Len(proposed[s])
<1> DEFINE a == st.cells
           b == after.cells
           D == DOMAIN a
           R == DOMAIN b
           before == CellOf(st, k)
           proposed == CellOf(after, k)
<1>1. /\ IsFiniteSet(D) /\ R \ {k} = D \ {k} /\ (\A j \in D : a[j] \in Cell)
      /\ (\A j \in R : b[j] \in Cell) /\ \A j \in D \ {k} : b[j] = a[j]
  BY DEF ReplacedAt, MeasuredCells
<1>2. /\ before = IF k \in D THEN a[k] ELSE NoValues
      /\ proposed = IF k \in R THEN b[k] ELSE NoValues
  BY DEF CellOf
<1>3. /\ SumOver(st.cells, CellBytes) = SumFunctionOnSet(BytesAt(a), D)
      /\ SumOver(after.cells, CellBytes) = SumFunctionOnSet(BytesAt(b), R)
      /\ SumOver(st.cells, Count) = SumFunctionOnSet(CountAt(a), D)
      /\ SumOver(after.cells, Count) = SumFunctionOnSet(CountAt(b), R)
      /\ \A s : Retained(st, s) = SumFunctionOnSet(LensAt(a, s), D)
      /\ \A s : Retained(after, s) = SumFunctionOnSet(LensAt(b, s), R)
  BY SumsAre
<1>4. \A cell \in Cell : CellBytes(cell) \in Nat /\ Count(cell) \in Nat
  BY CellMeasures
<1>5. \A cell \in Cell : \A s \in Side : Len(cell[s]) \in Nat
  BY OfferedTyped
<1>6. before \in Cell /\ proposed \in Cell BY <1>1, <1>2, NoValuesTyped
<1> HIDE DEF before, proposed
<1>7. SumFunctionOnSet(BytesAt(b), R)
         = (SumFunctionOnSet(BytesAt(a), D) - (IF k \in D THEN CellBytes(before) ELSE 0))
              + (IF k \in R THEN CellBytes(proposed) ELSE 0)
  <2> DEFINE f == BytesAt(a)
             g == BytesAt(b)
  <2>1. /\ \A j \in D : f[j] = CellBytes(a[j])
        /\ \A j \in R : g[j] = CellBytes(b[j])
    BY DEF BytesAt
  <2> HIDE DEF f, g, a, b, D, R
  <2>2. DifferAt(f, D, g, R, k) BY <1>1, <1>4, <2>1 DEF DifferAt
  <2>3. SumFunctionOnSet(g, R)
           = (SumFunctionOnSet(f, D) - (IF k \in D THEN f[k] ELSE 0))
                + (IF k \in R THEN g[k] ELSE 0)
    BY <2>2, SumReplaced
  <2>4. (k \in D => f[k] = CellBytes(before)) /\ (k \in R => g[k] = CellBytes(proposed))
    BY <1>2, <2>1
  <2> QED BY <2>3, <2>4 DEF f, g
<1>8. SumFunctionOnSet(CountAt(b), R)
         = (SumFunctionOnSet(CountAt(a), D) - Count(before)) + Count(proposed)
  <2> DEFINE f == CountAt(a)
             g == CountAt(b)
  <2>1. /\ \A j \in D : f[j] = Count(a[j])
        /\ \A j \in R : g[j] = Count(b[j])
    BY DEF CountAt
  <2> HIDE DEF f, g, a, b, D, R
  <2>2. DifferAt(f, D, g, R, k) BY <1>1, <1>4, <2>1 DEF DifferAt
  <2>3. SumFunctionOnSet(g, R)
           = (SumFunctionOnSet(f, D) - (IF k \in D THEN f[k] ELSE 0))
                + (IF k \in R THEN g[k] ELSE 0)
    BY <2>2, SumReplaced
  <2>4. /\ (IF k \in D THEN f[k] ELSE 0) = Count(before)
        /\ (IF k \in R THEN g[k] ELSE 0) = Count(proposed)
    BY <1>2, <2>1, NoValuesMeasures
  <2> QED BY <2>3, <2>4 DEF f, g
<1>9. ASSUME NEW s \in Side
      PROVE  /\ Retained(st, s) \in Nat /\ Retained(after, s) \in Nat
             /\ Len(before[s]) \in Nat /\ Len(before[s]) <= Retained(st, s)
             /\ Len(proposed[s]) \in Nat /\ Len(proposed[s]) <= Retained(after, s)
             /\ Retained(after, s) = (Retained(st, s) - Len(before[s])) + Len(proposed[s])
  <2> DEFINE f == LensAt(a, s)
             g == LensAt(b, s)
  <2>1. /\ \A j \in D : f[j] = Len(a[j][s])
        /\ \A j \in R : g[j] = Len(b[j][s])
    BY DEF LensAt
  <2>2. Retained(st, s) = SumFunctionOnSet(f, D) /\ Retained(after, s) = SumFunctionOnSet(g, R)
    BY <1>3
  <2> HIDE DEF f, g, a, b, D, R
  <2>3. DifferAt(f, D, g, R, k) BY <1>1, <1>5, <2>1 DEF DifferAt
  <2>4. /\ SumFunctionOnSet(f, D) \in Nat /\ SumFunctionOnSet(g, R) \in Nat
        /\ k \in D => f[k] \in Nat /\ f[k] <= SumFunctionOnSet(f, D)
        /\ k \in R => g[k] \in Nat /\ g[k] <= SumFunctionOnSet(g, R)
        /\ SumFunctionOnSet(g, R)
             = (SumFunctionOnSet(f, D) - (IF k \in D THEN f[k] ELSE 0))
                  + (IF k \in R THEN g[k] ELSE 0)
    BY <2>3, SumReplaced
  <2>5. /\ (IF k \in D THEN f[k] ELSE 0) = Len(before[s])
        /\ (IF k \in R THEN g[k] ELSE 0) = Len(proposed[s])
    BY <1>2, <2>1, NoValuesMeasures
  <2> DEFINE F == SumFunctionOnSet(f, D)
             G == SumFunctionOnSet(g, R)
             p == Len(before[s])
             q == Len(proposed[s])
  <2>6. F \in Nat /\ G \in Nat /\ G = (F - p) + q BY <2>4, <2>5
  <2>7. p \in Nat /\ q \in Nat BY <1>5, <1>6
  <2>8. p <= F
    <3>1. CASE k \in D BY <2>4, <2>5, <3>1
    <3>2. CASE k \notin D
      <4>1. p = 0 BY <2>5, <3>2
      <4> HIDE DEF F, p
      <4> QED BY <2>6, <4>1
    <3> QED BY <3>1, <3>2
  <2>9. q <= G
    <3>1. CASE k \in R BY <2>4, <2>5, <3>1
    <3>2. CASE k \notin R
      <4>1. q = 0 BY <2>5, <3>2
      <4> HIDE DEF G, q
      <4> QED BY <2>6, <4>1
    <3> QED BY <3>1, <3>2
  <2> QED BY <2>2, <2>6, <2>7, <2>8, <2>9
<1> QED BY <1>3, <1>7, <1>8, <1>9 DEF before, proposed
-----------------------------------------------------------------------------
(***************************************************************************)
(* The counters of every step.                                             *)
(***************************************************************************)
LEMMA InputsTyped ==
    ASSUME NEW st, st.counts \in [Side -> Nat]
    PROVE  /\ Inputs(st) = SumFunctionOnSet(st.counts, Side) /\ Inputs(st) \in Nat
           /\ \A s \in Side : st.counts[s] \in Nat /\ st.counts[s] <= Inputs(st)
<1> DEFINE f == st.counts
<1>1. DOMAIN f = Side /\ \A s \in Side : f[s] \in Nat OBVIOUS
<1>2. Inputs(st) = SumFunctionOnSet(f, Side) BY <1>1 DEF Inputs, SumFunction
<1> HIDE DEF f
<1>3. SumFunctionOnSet(f, Side) \in Nat BY <1>1, SidesFinite, SumTyped
<1>4. ASSUME NEW s \in Side PROVE f[s] \in Nat /\ f[s] <= SumFunctionOnSet(f, Side)
  <2>1. DifferAt(f, Side, f, Side, s) BY <1>1, SidesFinite DEF DifferAt
  <2> QED BY <2>1, SumReplaced
<1> QED BY <1>2, <1>3, <1>4 DEF f

LEMMA NothingHeld ==
    ASSUME NEW st, DOMAIN st.cells = {}
    PROVE  /\ SumOver(st.cells, CellBytes) = 0 /\ SumOver(st.cells, Count) = 0
           /\ \A s \in Side : Retained(st, s) = 0
           /\ KeysOf(st) = 0
<1>1. KeysOf(st) = 0 BY FS_EmptySet DEF KeysOf
<1> QED BY <1>1, SumsAre, SumOfNone

LEMMA ConfigurationTyped ==
    ASSUME NEW J \in Joins
    PROVE  /\ J.keys \in Nat \ {0} /\ J.stateBytes \in Nat \ {0} /\ J.values \in Nat \ {0}
           /\ J.rowsPerKey \in Nat \ {0} /\ J.valuesPerSide \in Nat \ {0}
           /\ PerKey(J) \in Nat \ {0} /\ PerKey(J) <= J.rowsPerKey
<1>1. \A field \in {"keys", "valuesPerSide", "values", "keyBytes", "stateBytes",
                    "rowsPerKey", "rowsPerBatch", "rowBytes", "batchBytes"} :
         J[field] \in Nat \ {0}
  BY JoinAssumption
<1>2. /\ J.keys \in Nat \ {0} /\ J.stateBytes \in Nat \ {0} /\ J.values \in Nat \ {0}
      /\ J.rowsPerKey \in Nat \ {0} /\ J.valuesPerSide \in Nat \ {0}
  BY <1>1
<1> QED BY <1>2 DEF PerKey

LEMMA CountInvInit == Init => CountInv
<1> SUFFICES ASSUME Init PROVE CountInv OBVIOUS
<1>1. join \in Joins /\ state = Empty /\ Len(emissions) = 0 BY DEF Init
<1>2. /\ DOMAIN state.cells = {} /\ state.counts = [s \in Side |-> 0] /\ state.emitted = 0
      /\ state.bytes = 0 /\ state.values = 0 /\ state.phase = "open"
      /\ state = [field \in StateFields |-> state[field]]
  <2>1. Empty = [field \in StateFields |-> Empty[field]] BY DEF Empty, StateFields
  <2>2. DOMAIN <<>> = {} OBVIOUS
  <2>3. /\ Empty.cells = <<>> /\ Empty.counts = [s \in Side |-> 0] /\ Empty.emitted = 0
        /\ Empty.bytes = 0 /\ Empty.values = 0 /\ Empty.phase = "open"
    BY DEF Empty
  <2> QED BY <1>1, <2>1, <2>2, <2>3
<1>3. /\ SumOver(state.cells, CellBytes) = 0 /\ SumOver(state.cells, Count) = 0
      /\ \A s \in Side : Retained(state, s) = 0
      /\ KeysOf(state) = 0
  BY <1>2, NothingHeld
<1>4. \A s \in Side : state.counts[s] = 0 BY <1>2
<1>5. Inputs(state) = 0
  <2>1. Inputs(state) = SumFunctionOnSet(state.counts, Side) /\ Inputs(state) \in Nat
    BY <1>2, InputsTyped
  <2>2. \A s \in Side : state.counts[s] \in 0 .. 0 BY <1>4
  <2>3. /\ Cardinality(Side) \in Nat
        /\ SumFunctionOnSet(state.counts, Side) <= Cardinality(Side) * 0
    BY <2>2, SidesFinite, SumBounded
  <2> QED BY <2>1, <2>3
<1>6. \A s \in Side : Consumed(state, s) = 0 BY <1>3, <1>4 DEF Consumed
<1>7. /\ join.keys \in Nat \ {0} /\ join.stateBytes \in Nat \ {0} /\ join.values \in Nat \ {0}
      /\ join.rowsPerKey \in Nat \ {0} /\ PerKey(join) \in Nat \ {0}
  BY <1>1, ConfigurationTyped
<1>8. TotalsTrue(join, state) BY <1>2, <1>3, <1>7 DEF TotalsTrue
<1>9. RetainedTrue(join, state) BY <1>2, <1>3, <1>4, <1>5, <1>6, <1>7 DEF RetainedTrue
<1>10. EmittedTrue(join, state) BY <1>2, <1>5, <1>6, <1>7 DEF EmittedTrue
<1>11. DrainedTrue(join, state, Len(emissions))
  BY <1>1, <1>2, <1>3, <1>5, <1>6, <1>7 DEF DrainedTrue
<1> QED BY <1>2, <1>8, <1>9, <1>10, <1>11 DEF CountInv
LEMMA MoreTimes ==
    ASSUME NEW a \in Nat, NEW b \in Nat, NEW c \in Nat, a <= b
    PROVE  /\ a * c \in Nat /\ b * c \in Nat /\ a * c <= b * c
           /\ (a + 1) * c = a * c + c
<1>1. a * c \in Nat /\ b * c \in Nat BY SMT
<1>2. PICK d \in Nat : b = a + d
  <2>1. b - a \in Nat /\ b = a + (b - a) OBVIOUS
  <2> QED BY <2>1
<1>3. b * c = a * c + d * c /\ d * c \in Nat BY <1>2
<1> QED BY <1>1, <1>3

\* What an input changes of what a join counts.
LEMMA ProcessMeasures ==
    ASSUME JoinInv, CountInv, NEW s \in Side, NEW k \in Key, Process(s, k)
    PROVE  LET old     == CellOf(state, k)
               P       == Inserted(join, old, s, Len(arrivals) + 1)
               known   == k \in DOMAIN state.cells
               retains == ~ Completes(join, P)
               after   == state'
           IN  /\ join \in Joins /\ join' = join
               /\ state.phase = "open" /\ after.phase = "open"
               /\ after = [field \in StateFields |-> after[field]]
               /\ old \in Cell /\ P \in Cell /\ CellAdmitted(join, P)
               /\ RowCount(P) \in 1 .. PerKey(join)
               /\ \A u \in Side : /\ Len(P[u]) \in Nat /\ Len(old[u]) \in Nat
                                  /\ u # s => Len(P[u]) = Len(old[u])
               /\ Len(P[s]) >= 1 /\ Len(P[s]) <= Len(old[s]) + 1
               /\ join.insert = "product" => /\ Len(P[s]) = Len(old[s]) + 1
                                             /\ Count(P) = Count(old) + 1
               /\ after.counts = [state.counts EXCEPT ![s] = @ + 1]
               /\ after.emitted
                     = state.emitted + (IF Emits(join, P) THEN RowCount(P) ELSE 0)
               /\ after.bytes
                     = state.bytes - (IF known THEN CellBytes(old) ELSE 0)
                                   + (IF retains THEN CellBytes(P) ELSE 0)
               /\ after.values
                     = state.values - Count(old) + (IF retains THEN Count(P) ELSE 0)
               /\ DOMAIN after.cells
                     = IF retains THEN DOMAIN state.cells \cup {k} ELSE DOMAIN state.cells \ {k}
               /\ \A j \in DOMAIN after.cells : after.cells[j] = IF j = k THEN P ELSE state.cells[j]
               /\ MeasuredCells(state.cells) /\ MeasuredCells(after.cells)
               /\ KeysOf(after) <= join.keys /\ after.bytes <= join.stateBytes
               /\ after.values <= join.values
<1> DEFINE old   == CellOf(state, k)
           x     == Len(arrivals) + 1
           P     == Inserted(join, old, s, x)
           D     == DOMAIN state.cells
           after == StageProcess(join, state, s, k, x)
           R     == IF ~ Completes(join, P) THEN D \cup {k} ELSE D \ {k}
<1>1. /\ join \in Joins /\ StateTyped(state) /\ Len(arrivals) \in Nat /\ DOMAIN state = StateFields
      /\ History(join, arrivals, emissions)
      /\ \A j \in Key : LatestOf(join, emissions, j) \in 0 .. Len(arrivals)
      /\ D \subseteq Key /\ IsFiniteSet(D) /\ Key \subseteq Int
  BY HistoryFits, JoinAssumption DEF StateTyped
<1>2. /\ join' = join /\ state' = after /\ state.phase = "open"
      /\ ProcessAdmitted(join, state, s, k, x)
  BY DEF Process, ProcessAdmitted
<1>3. /\ CellAdmitted(join, P) /\ KeysOf(after) <= join.keys
      /\ after.bytes <= join.stateBytes /\ after.values <= join.values
  BY <1>2 DEF ProcessAdmitted, KeysOf
<1>4. /\ after = [field \in StateFields |-> after[field]]
      /\ after.cells = [j \in R |-> IF j = k THEN P ELSE state.cells[j]]
      /\ after.phase = state.phase
      /\ after.counts = [state.counts EXCEPT ![s] = @ + 1]
      /\ after.emitted
            = state.emitted + (IF Emits(join, P) THEN RowCount(P) ELSE 0)
      /\ after.bytes
            = state.bytes - (IF k \in D THEN CellBytes(old) ELSE 0)
                          + (IF ~ Completes(join, P) THEN CellBytes(P) ELSE 0)
      /\ after.values
            = state.values - Count(old) + (IF ~ Completes(join, P) THEN Count(P) ELSE 0)
  <2>1. state = [field \in StateFields |-> state[field]] BY DEF CountInv
  <2>2. after = [field \in StateFields |-> after[field]] BY <2>1 DEF StageProcess
  <2> QED BY <1>1, <2>2 DEF StageProcess, StateFields
<1>5. join.insert \in {"first", "last", "product"} BY <1>1, JoinTyped
<1>6. old \in Cell BY CellsTyped, NoValuesTyped DEF CellOf
<1>7. x \in Nat BY <1>1
<1>8. /\ P \in Cell
      /\ \A u \in Side : Len(P[u]) \in Nat /\ Len(old[u]) \in Nat
      /\ \A u \in Side \ {s} : P[u] = old[u]
      /\ Len(P[s]) >= 1 /\ Len(P[s]) <= Len(old[s]) + 1
      /\ join.insert = "product" => /\ Len(P[s]) = Len(old[s]) + 1
                                    /\ Count(P) = Count(old) + 1
  <2> HIDE DEF old, x
  <2> QED BY <1>5, <1>6, <1>7, InsertedMeasures
<1>9. RowCount(P) \in 1 .. PerKey(join)
  <2>1. CASE join.insert = "product"
    <3>1. RowCount(P) \in Nat \ {0} /\ RowCount(P) <= join.rowsPerKey
      <4> HIDE DEF P
      <4> QED BY <1>3, <1>8, RowCountTyped DEF CellAdmitted
    <3>2. PerKey(join) = join.rowsPerKey /\ PerKey(join) \in Nat
      BY <1>1, <2>1, ConfigurationTyped DEF PerKey
    <3> HIDE DEF P
    <3> QED BY <3>1, <3>2
  <2>2. CASE join.insert # "product"
    <3>1. \A u \in Side : Len(P[u]) <= 1
      <4>1. old = OwedOf(join, arrivals, emissions, k)
        BY <1>2 DEF JoinInv, CellsOwed, CellOf
      <4> DEFINE i == LatestOf(join, emissions, k)
      <4>2. i \in Nat BY <1>1
      <4>3. P = ViewOf(join.insert, Longer(arrivals, s, k), k, i, x)
        BY <1>1, <4>1, OwedGrows
      <4> HIDE DEF i, x, P
      <4>4. \A u \in Side :
               Len(ViewOf(join.insert, Longer(arrivals, s, k), k, i, x)[u]) <= 1
        BY <1>5, <1>7, <2>2, <4>2, ViewTyped
      <4> QED BY <4>3, <4>4
    <3> HIDE DEF P
    <3>2. RowCount(P) = 1 BY <1>8, <3>1, RowCountTyped
    <3> QED BY <2>2, <3>2 DEF PerKey
  <2> QED BY <2>1, <2>2
<1>10. MeasuredCells(state.cells) BY <1>1, CellsTyped DEF MeasuredCells
<1> HIDE DEF P, old, x, after
<1>11. DOMAIN after.cells = R /\ \A j \in R : after.cells[j] = IF j = k THEN P ELSE state.cells[j]
  BY <1>4
<1>12. MeasuredCells(after.cells)
  <2>1. IsFiniteSet(R) /\ R \subseteq Int
    <3>1. IsFiniteSet(D \cup {k}) /\ IsFiniteSet(D \ {k}) BY <1>1, FS_AddElement, FS_Subset
    <3> QED BY <1>1, <3>1
  <2>2. \A j \in R : after.cells[j] \in Cell BY <1>8, <1>10, <1>11 DEF MeasuredCells
  <2> HIDE DEF R
  <2> QED BY <1>11, <2>1, <2>2 DEF MeasuredCells
<1>13. \A u \in Side : u # s => Len(P[u]) = Len(old[u]) BY <1>8
<1> HIDE DEF D
<1> QED BY <1>1, <1>2, <1>3, <1>4, <1>6, <1>8, <1>9, <1>10, <1>11, <1>12, <1>13 DEF P, old, x, D
\* An input.
LEMMA ProcessKeepsCounts ==
    ASSUME JoinInv, CountInv, NEW s \in Side, NEW k \in Key, Process(s, k)
    PROVE  CountInv'
<1> DEFINE old     == CellOf(state, k)
           P       == Inserted(join, old, s, Len(arrivals) + 1)
           known   == k \in DOMAIN state.cells
           retains == ~ Completes(join, P)
           D       == DOMAIN state.cells
           st      == state
           after   == state'
           m       == Len(emissions)
<1>1. /\ join \in Joins /\ join' = join
      /\ st.phase = "open" /\ after.phase = "open"
      /\ after = [field \in StateFields |-> after[field]]
      /\ old \in Cell /\ P \in Cell /\ CellAdmitted(join, P)
      /\ RowCount(P) \in 1 .. PerKey(join)
      /\ \A u \in Side : /\ Len(P[u]) \in Nat /\ Len(old[u]) \in Nat
                         /\ u # s => Len(P[u]) = Len(old[u])
      /\ Len(P[s]) >= 1 /\ Len(P[s]) <= Len(old[s]) + 1
      /\ join.insert = "product" => /\ Len(P[s]) = Len(old[s]) + 1
                                    /\ Count(P) = Count(old) + 1
      /\ after.counts = [st.counts EXCEPT ![s] = @ + 1]
      /\ after.emitted = st.emitted + (IF Emits(join, P) THEN RowCount(P) ELSE 0)
      /\ after.bytes = st.bytes - (IF known THEN CellBytes(old) ELSE 0)
                                + (IF retains THEN CellBytes(P) ELSE 0)
      /\ after.values = st.values - Count(old) + (IF retains THEN Count(P) ELSE 0)
      /\ DOMAIN after.cells = IF retains THEN D \cup {k} ELSE D \ {k}
      /\ \A j \in DOMAIN after.cells : after.cells[j] = IF j = k THEN P ELSE st.cells[j]
      /\ MeasuredCells(st.cells) /\ MeasuredCells(after.cells)
      /\ KeysOf(after) <= join.keys /\ after.bytes <= join.stateBytes
      /\ after.values <= join.values
  BY ProcessMeasures
<1>2. /\ st.counts \in [Side -> Nat] /\ st.emitted \in Nat
      /\ TotalsTrue(join, st) /\ RetainedTrue(join, st) /\ EmittedTrue(join, st)
      /\ DrainedTrue(join, st, m)
  BY DEF CountInv
<1>3. \/ join.emit = "final" /\ m = 0 /\ emissions' = emissions
      \/ join.emit # "final"
  <2> SUFFICES ASSUME join.emit = "final" PROVE m = 0 /\ emissions' = emissions OBVIOUS
  <2>1. emissions = <<>> BY <1>1 DEF JoinInv, FinalDue
  <2>2. ~ Emits(join, P) BY DEF Emits, Completes
  <2>3. ProcessedRows(join, state, s, k, Len(arrivals) + 1) = <<>>
    BY <2>2 DEF ProcessedRows
  <2> QED BY <2>1, <2>3 DEF Process
<1> HIDE DEF P, old, st, after, m, known
<1>4. DOMAIN after.cells \ {k} = D \ {k} /\ \A j \in D \ {k} : after.cells[j] = st.cells[j]
  BY <1>1
<1>5. CellOf(st, k) = old BY DEF old, st
<1>6. CellOf(after, k) = IF retains THEN P ELSE NoValues
  BY <1>1 DEF CellOf
<1>7. known <=> k \in DOMAIN st.cells BY DEF known, st
<1>8. retains <=> k \in DOMAIN after.cells BY <1>1
<1>9. D = DOMAIN st.cells BY DEF st
<1> HIDE DEF retains, D
<1> DEFINE new == CellOf(after, k)
<1>10. /\ SumOver(after.cells, CellBytes)
             = (SumOver(st.cells, CellBytes) - (IF known THEN CellBytes(old) ELSE 0))
                  + (IF retains THEN CellBytes(new) ELSE 0)
       /\ SumOver(after.cells, Count) = (SumOver(st.cells, Count) - Count(old)) + Count(new)
       /\ \A u \in Side :
             /\ Retained(st, u) \in Nat /\ Retained(after, u) \in Nat
             /\ Len(old[u]) \in Nat /\ Len(old[u]) <= Retained(st, u)
             /\ Len(new[u]) \in Nat /\ Len(new[u]) <= Retained(after, u)
             /\ Retained(after, u) = (Retained(st, u) - Len(old[u])) + Len(new[u])
  <2>1. ReplacedAt(st, after, k) BY <1>1, <1>4, <1>9 DEF ReplacedAt
  <2>2. LET before   == CellOf(st, k)
            proposed == CellOf(after, k)
            holds    == k \in DOMAIN st.cells
            keeps    == k \in DOMAIN after.cells
        IN  /\ SumOver(after.cells, CellBytes)
                  = (SumOver(st.cells, CellBytes) - (IF holds THEN CellBytes(before) ELSE 0))
                       + (IF keeps THEN CellBytes(proposed) ELSE 0)
            /\ SumOver(after.cells, Count)
                  = (SumOver(st.cells, Count) - Count(before)) + Count(proposed)
            /\ \A u \in Side :
                  /\ Retained(st, u) \in Nat /\ Retained(after, u) \in Nat
                  /\ Len(before[u]) \in Nat /\ Len(before[u]) <= Retained(st, u)
                  /\ Len(proposed[u]) \in Nat /\ Len(proposed[u]) <= Retained(after, u)
                  /\ Retained(after, u) = (Retained(st, u) - Len(before[u])) + Len(proposed[u])
    BY ONLY <2>1, CellReplaced
  <2> QED BY <1>5, <1>7, <1>8, <2>2
<1>11. /\ retains => new = P
       /\ ~ retains => new = NoValues
  BY <1>6
<1> HIDE DEF new
<1>12. /\ after.bytes = SumOver(after.cells, CellBytes)
       /\ after.values = SumOver(after.cells, Count)
  <2>1. st.bytes = SumOver(st.cells, CellBytes) /\ st.values = SumOver(st.cells, Count)
    BY <1>2 DEF TotalsTrue
  <2>2. (IF retains THEN Count(P) ELSE 0) = Count(new) BY <1>11, NoValuesMeasures
  <2>3. (IF retains THEN CellBytes(P) ELSE 0) = (IF retains THEN CellBytes(new) ELSE 0)
    BY <1>11
  <2> QED BY <1>1, <1>10, <2>1, <2>2, <2>3
<1>13. TotalsTrue(join, after)
  <2>1. \A j \in DOMAIN after.cells : CellAdmitted(join, after.cells[j])
    <3> SUFFICES ASSUME NEW j \in DOMAIN after.cells PROVE CellAdmitted(join, after.cells[j])
      OBVIOUS
    <3>1. CASE j = k BY <1>1, <3>1
    <3>2. CASE j # k
      <4>1. j \in DOMAIN st.cells BY <1>4, <1>9, <3>2
      <4>2. CellAdmitted(join, st.cells[j]) BY <1>2, <4>1 DEF TotalsTrue
      <4> QED BY <1>1, <3>2, <4>2
    <3> QED BY <3>1, <3>2
  <2> QED BY <1>1, <1>12, <2>1 DEF TotalsTrue
\* The inputs of every side.
<1>14. /\ after.counts \in [Side -> Nat]
       /\ after.counts[s] = st.counts[s] + 1
       /\ \A u \in Side : u # s => after.counts[u] = st.counts[u]
  <2> DEFINE f == st.counts
             g == after.counts
  <2>1. f \in [Side -> Nat] /\ g = [f EXCEPT ![s] = @ + 1] BY <1>1, <1>2
  <2> HIDE DEF f, g
  <2>2. g = [u \in Side |-> IF u = s THEN f[s] + 1 ELSE f[u]] BY <2>1
  <2>3. f[s] + 1 \in Nat /\ \A u \in Side : f[u] \in Nat BY <2>1
  <2>4. g \in [Side -> Nat] /\ g[s] = f[s] + 1 /\ \A u \in Side : u # s => g[u] = f[u]
    BY <2>2, <2>3
  <2> QED BY <2>4 DEF f, g
<1>15. /\ Inputs(st) \in Nat /\ Inputs(after) = Inputs(st) + 1
       /\ \A u \in Side : st.counts[u] \in Nat
  <2> DEFINE f == st.counts
             g == after.counts
  <2>1. /\ Inputs(st) = SumFunctionOnSet(f, Side) /\ Inputs(st) \in Nat
        /\ \A u \in Side : f[u] \in Nat
        /\ Inputs(after) = SumFunctionOnSet(g, Side)
        /\ \A u \in Side : g[u] \in Nat
    BY <1>2, <1>14, InputsTyped
  <2>2. g[s] = f[s] + 1 /\ \A u \in Side \ {s} : f[u] = g[u] BY <1>14
  <2> HIDE DEF f, g
  <2>3. DifferAt(f, Side, g, Side, s) BY <2>1, <2>2, SidesFinite DEF DifferAt
  <2>4. SumFunctionOnSet(g, Side) = (SumFunctionOnSet(f, Side) - f[s]) + g[s]
    BY <2>3, SumReplaced
  <2>5. f[s] \in Nat BY <2>1
  <2>6. Inputs(after) = Inputs(st) + 1 BY <2>1, <2>2, <2>4, <2>5
  <2> QED BY <2>1, <2>6 DEF f
<1>16. ASSUME NEW u \in Side
       PROVE  /\ Consumed(st, u) \in Int /\ Consumed(after, u) \in Int
              /\ Consumed(after, u) >= Consumed(st, u)
              /\ ~ retains => Consumed(after, u) >= Consumed(st, u) + 1
              /\ retains /\ join.insert = "product" => Consumed(after, u) = Consumed(st, u)
  <2> DEFINE a == st.counts[u]
             b == after.counts[u]
             p == Retained(st, u)
             q == Retained(after, u)
             x == Len(old[u])
             y == Len(new[u])
             z == Len(P[u])
             d == IF u = s THEN 1 ELSE 0
  <2>1. /\ a \in Nat /\ b = a + d /\ p \in Nat /\ q = (p - x) + y
        /\ x \in Nat /\ y \in Nat /\ z \in Nat
    <3>1. b = a + d BY <1>14, <1>15
    <3> HIDE DEF b, d
    <3> QED BY <1>1, <1>10, <1>15, <3>1
  <2>2. z <= x + d /\ (join.insert = "product" => z = x + d)
    <3>1. CASE u = s BY <1>1, <3>1
    <3>2. CASE u # s
      <4>1. z = x /\ d = 0 BY <1>1, <3>2
      <4> HIDE DEF z, x, d
      <4> QED BY <2>1, <4>1
    <3> QED BY <3>1, <3>2
  <2>3. retains => y = z BY <1>11
  <2>4. ~ retains => y = 0 /\ z >= 1
    <3> SUFFICES ASSUME ~ retains PROVE y = 0 /\ z >= 1 OBVIOUS
    <3>1. P[u] # <<>> BY DEF retains, Completes, Complete
    <3>2. P[u] \in Seq(Nat) BY <1>1 DEF Cell
    <3>3. z >= 1 BY <2>1, <3>1, <3>2, EmptySeq
    <3> QED BY <1>11, <3>3, NoValuesMeasures
  <2>5. Consumed(st, u) = a - p /\ Consumed(after, u) = b - q BY DEF Consumed
  <2>6. d \in Nat OBVIOUS
  <2> HIDE DEF a, b, p, q, x, y, z, d
  <2> QED BY <2>1, <2>2, <2>3, <2>4, <2>5, <2>6
<1>17. join.emit # "complete" => retains BY DEF retains, Completes
<1>18. RetainedTrue(join, after)
  <2>1. \A u \in Side : Consumed(after, u) >= 0
    <3> SUFFICES ASSUME NEW u \in Side PROVE Consumed(after, u) >= 0 OBVIOUS
    <3>1. Consumed(st, u) >= 0 BY <1>2 DEF RetainedTrue
    <3> QED BY <1>16, <3>1
  <2>2. ASSUME join.insert = "product" /\ join.emit # "complete"
        PROVE  /\ Inputs(after) <= join.values /\ after.values = Inputs(after)
               /\ \A u \in Side : Retained(after, u) = after.counts[u]
    <3>1. st.values = Inputs(st) /\ \A u \in Side : Retained(st, u) = st.counts[u]
      BY <1>1, <1>2, <2>2 DEF RetainedTrue
    <3>2. after.values = Inputs(after)
      <4>1. after.values = st.values - Count(old) + Count(P) /\ Count(P) = Count(old) + 1
        BY <1>1, <1>17, <2>2
      <4>2. Count(old) \in Nat BY <1>1, CellMeasures
      <4> QED BY <1>15, <3>1, <4>1, <4>2
    <3>3. ASSUME NEW u \in Side PROVE Retained(after, u) = after.counts[u]
      <4>1. Consumed(after, u) = Consumed(st, u) BY <1>16, <1>17, <2>2
      <4>2. /\ Retained(after, u) \in Nat /\ Retained(st, u) \in Nat
            /\ after.counts[u] \in Nat /\ st.counts[u] \in Nat
        BY <1>10, <1>14, <1>15
      <4>3. /\ Consumed(after, u) = after.counts[u] - Retained(after, u)
            /\ Consumed(st, u) = st.counts[u] - Retained(st, u)
            /\ Retained(st, u) = st.counts[u]
        BY <3>1 DEF Consumed
      <4> DEFINE a == after.counts[u]
                 b == Retained(after, u)
                 c == st.counts[u]
      <4>4. a \in Nat /\ b \in Nat /\ c \in Nat /\ a - b = c - c BY <4>1, <4>2, <4>3
      <4> HIDE DEF a, b, c
      <4>5. b = a BY <4>4
      <4> QED BY <4>5 DEF a, b
    <3> QED BY <1>1, <3>2, <3>3
  <2>3. ASSUME join.insert # "product" /\ join.emit # "complete",
               NEW u \in Side, after.counts[u] > 0
        PROVE  Retained(after, u) > 0
    <3>1. new = P BY <1>11, <1>17, <2>3
    <3>2. CASE u = s
      <4>1. Len(new[s]) >= 1 /\ Len(new[s]) <= Retained(after, s) BY <1>1, <1>10, <3>1
      <4>2. Len(new[s]) \in Nat /\ Retained(after, s) \in Nat BY <1>10
      <4> QED BY <3>2, <4>1, <4>2
    <3>3. CASE u # s
      <4>1. Retained(st, u) > 0
        <5>1. st.counts[u] > 0 BY <1>14, <2>3, <3>3
        <5> QED BY <1>1, <1>2, <2>3, <5>1 DEF RetainedTrue
      <4>2. Len(new[u]) = Len(old[u]) BY <1>1, <3>1, <3>3
      <4>3. /\ Retained(after, u) = (Retained(st, u) - Len(old[u])) + Len(new[u])
            /\ Retained(st, u) \in Nat /\ Len(old[u]) \in Nat
        BY <1>10
      <4> QED BY <4>1, <4>2, <4>3
    <3> QED BY <3>2, <3>3
  <2> QED BY <2>1, <2>2, <2>3 DEF RetainedTrue
\* The rows emitted.
<1> DEFINE rows == RowCount(P)
           e    == st.emitted
           N    == Inputs(st)
<1>19. /\ PerKey(join) \in Nat \ {0} /\ PerKey(join) <= join.rowsPerKey
       /\ join.rowsPerKey \in Nat \ {0} /\ rows \in Nat /\ rows >= 1 /\ rows <= PerKey(join)
       /\ e \in Nat /\ N \in Nat
       /\ after.emitted = e + (IF Emits(join, P) THEN rows ELSE 0)
  <2>1. /\ PerKey(join) \in Nat \ {0} /\ PerKey(join) <= join.rowsPerKey
        /\ join.rowsPerKey \in Nat \ {0}
    BY <1>1, ConfigurationTyped
  <2> QED BY <1>1, <1>2, <1>15, <2>1
<1> HIDE DEF rows, e, N
<1>20. after.emitted \in Nat BY <1>19
<1>21. EmittedTrue(join, after)
  <2>1. ASSUME join.emit # "final" PROVE after.emitted <= Inputs(after) * join.rowsPerKey
    <3> DEFINE r == join.rowsPerKey
    <3>1. e <= N * r BY <1>2, <2>1 DEF EmittedTrue, e, N
    <3>2. Inputs(after) * r = N * r + r /\ N * r \in Nat
      <4>1. r \in Nat BY <1>19
      <4> HIDE DEF r
      <4>2. (N + 1) * r = N * r + r /\ N * r \in Nat BY <1>19, <4>1, MoreTimes
      <4>3. Inputs(after) = N + 1 BY <1>15 DEF N
      <4> QED BY <4>2, <4>3
    <3>3. after.emitted <= e + r /\ r \in Nat
      <4>1. rows <= r BY <1>19
      <4> QED BY <1>19, <4>1
    <3> HIDE DEF r
    <3> DEFINE t == N * r
    <3>4. t \in Nat /\ e <= t /\ Inputs(after) * r = t + r BY <3>1, <3>2
    <3> HIDE DEF t
    <3>5. after.emitted <= t + r BY <1>19, <1>20, <3>3, <3>4
    <3> QED BY <3>4, <3>5 DEF r
  <2>2. ASSUME join.emit = "running"
        PROVE  /\ after.emitted >= Inputs(after)
               /\ join.insert # "product" => after.emitted = Inputs(after)
    <3>1. e >= N /\ (join.insert # "product" => e = N) BY <1>2, <2>2 DEF EmittedTrue, e, N
    <3>2. Emits(join, P) BY <2>2 DEF Emits
    <3>3. after.emitted = e + rows /\ Inputs(after) = N + 1 BY <1>15, <1>19, <3>2 DEF N
    <3>4. join.insert # "product" => rows = 1 BY <1>19 DEF PerKey
    <3> QED BY <1>19, <3>1, <3>3, <3>4
  <2>3. ASSUME join.emit = "complete", NEW u \in Side
        PROVE  after.emitted <= Consumed(after, u) * PerKey(join)
    <3> DEFINE c == Consumed(st, u)
               d == Consumed(after, u)
               r == PerKey(join)
    <3>1. e <= c * r BY <1>2, <2>3 DEF EmittedTrue, e
    <3>2. c \in Nat /\ d \in Nat
      <4>1. c >= 0 BY <1>2 DEF RetainedTrue
      <4>2. d >= 0 BY <1>18 DEF RetainedTrue
      <4>3. c \in Int /\ d \in Int BY <1>16
      <4> HIDE DEF c, d
      <4> QED BY <4>1, <4>2, <4>3
    <3>3. d >= c /\ (~ retains => d >= c + 1) BY <1>16
    <3>4. r \in Nat /\ rows <= r BY <1>19
    <3>5. Emits(join, P) <=> ~ retains BY <2>3 DEF Emits, retains, Completes
    <3> HIDE DEF c, d, r
    <3>6. CASE retains
      <4>1. c * r \in Nat /\ d * r \in Nat /\ c * r <= d * r BY <3>2, <3>3, <3>4, MoreTimes
      <4>2. after.emitted = e BY <1>19, <3>5, <3>6
      <4> DEFINE v == c * r
                 w == d * r
      <4>3. v \in Nat /\ w \in Nat /\ v <= w /\ e <= v BY <3>1, <4>1
      <4> HIDE DEF v, w
      <4>4. after.emitted <= w BY <1>19, <4>2, <4>3
      <4> QED BY <4>4 DEF w, d, r
    <3>7. CASE ~ retains
      <4>1. (c + 1) * r \in Nat /\ d * r \in Nat /\ (c + 1) * r <= d * r
        <5>1. c + 1 \in Nat /\ c + 1 <= d BY <3>2, <3>3, <3>7
        <5> DEFINE g == c + 1
        <5> HIDE DEF g
        <5>2. g \in Nat /\ g <= d BY <5>1 DEF g
        <5>3. g * r \in Nat /\ d * r \in Nat /\ g * r <= d * r BY <3>2, <3>4, <5>2, MoreTimes
        <5> QED BY <5>3 DEF g
      <4>2. (c + 1) * r = c * r + r /\ c * r \in Nat
        <5>1. c <= c BY <3>2
        <5> QED BY <3>2, <3>4, <5>1, MoreTimes
      <4>3. after.emitted = e + rows BY <1>19, <3>5, <3>7
      <4> DEFINE v == c * r
                 w == d * r
      <4>4. v \in Nat /\ w \in Nat /\ v + r <= w /\ e <= v BY <3>1, <4>1, <4>2
      <4> HIDE DEF v, w
      <4>5. after.emitted <= w BY <1>19, <3>4, <4>3, <4>4
      <4> QED BY <4>5 DEF w, d, r
    <3> QED BY <3>6, <3>7
  <2> QED BY <2>1, <2>2, <2>3 DEF EmittedTrue
\* A final join emits nothing yet.
<1>22. DrainedTrue(join, after, Len(emissions'))
  <2> SUFFICES ASSUME join.emit = "final" PROVE DrainedTrue(join, after, Len(emissions'))
    BY DEF DrainedTrue
  <2>1. Len(emissions') = 0 /\ m = 0 BY <1>3 DEF m
  <2>2. ~ Emits(join, P) /\ retains BY DEF Emits, Completes, retains
  <2>3. after.emitted = 0
    <3>1. e <= 0 * PerKey(join) BY <1>2, <2>1 DEF DrainedTrue, e
    <3>2. 0 * PerKey(join) = 0 BY <1>19
    <3> QED BY <1>19, <2>2, <3>1, <3>2
  <2>4. KeysOf(after) \in Nat /\ KeysOf(after) > 0 /\ KeysOf(after) <= KeysOf(st) + 1
        /\ KeysOf(st) \in Nat
    <3>1. IsFiniteSet(D) /\ DOMAIN after.cells = D \cup {k}
      BY <1>1, <1>9, <2>2 DEF MeasuredCells
    <3>2. /\ Cardinality(D) \in Nat
          /\ Cardinality(D \cup {k}) = IF k \in D THEN Cardinality(D) ELSE Cardinality(D) + 1
      BY <3>1, FS_CardinalityType, FS_AddElement
    <3>3. Cardinality(D \cup {k}) > 0
      <4>1. k \in D => Cardinality(D) # 0
        <5>1. Cardinality(D) = 0 <=> D = {} BY <3>1, FS_EmptySet
        <5> QED BY <5>1
      <4> QED BY <3>2, <4>1
    <3> QED BY <1>9, <3>1, <3>2, <3>3 DEF KeysOf
  <2>5. KeysOf(after) <= Inputs(after)
    <3>1. 0 + KeysOf(st) <= Inputs(st) BY <1>2, <2>1 DEF DrainedTrue
    <3> QED BY <1>15, <2>4, <3>1
  <2>6. ASSUME join.insert = "product"
        PROVE  /\ after.values = Inputs(after)
               /\ \A u \in Side : Consumed(after, u) = 0
    <3>1. after.values = Inputs(after) /\ \A u \in Side : Retained(after, u) = after.counts[u]
      BY <1>1, <1>18, <2>6 DEF RetainedTrue
    <3>2. ASSUME NEW u \in Side PROVE Consumed(after, u) = 0
      <4>1. after.counts[u] \in Nat BY <1>14
      <4> QED BY <3>1, <4>1 DEF Consumed
    <3> QED BY <3>1, <3>2
  <2>7. KeysOf(after) <= join.keys BY <1>1
  <2>8. Inputs(after) \in Nat BY <1>15
  <2>9. 0 <= 0 * PerKey(join) BY <1>19
  <2>10. 0 + KeysOf(after) = KeysOf(after) BY <2>4
  <2> QED BY <2>1, <2>3, <2>4, <2>5, <2>6, <2>7, <2>8, <2>9, <2>10 DEF DrainedTrue
<1> QED BY <1>1, <1>13, <1>14, <1>18, <1>20, <1>21, <1>22 DEF CountInv, after
LEMMA HeldTyped ==
    ASSUME NEW st, MeasuredCells(st.cells)
    PROVE  /\ SumOver(st.cells, CellBytes) \in Nat /\ SumOver(st.cells, Count) \in Nat
           /\ \A s \in Side : Retained(st, s) \in Nat
           /\ KeysOf(st) \in Nat
<1> DEFINE a == st.cells
           D == DOMAIN a
<1>1. IsFiniteSet(D) /\ \A k \in D : a[k] \in Cell BY DEF MeasuredCells
<1>2. /\ \A k \in D : BytesAt(a)[k] \in Nat /\ CountAt(a)[k] \in Nat
      /\ \A s \in Side : \A k \in D : LensAt(a, s)[k] \in Nat
  BY <1>1, CellMeasures, OfferedTyped DEF BytesAt, CountAt, LensAt
<1>3. KeysOf(st) \in Nat BY <1>1, FS_CardinalityType DEF KeysOf
<1>4. /\ SumOver(a, CellBytes) = SumFunctionOnSet(BytesAt(a), D)
      /\ SumOver(a, Count) = SumFunctionOnSet(CountAt(a), D)
      /\ \A s : Retained(st, s) = SumFunctionOnSet(LensAt(a, s), D)
  BY SumsAre
<1> HIDE DEF a, D
<1>5. SumFunctionOnSet(BytesAt(a), D) \in Nat /\ SumFunctionOnSet(CountAt(a), D) \in Nat
  BY <1>1, <1>2, SumTyped
<1>6. \A s \in Side : SumFunctionOnSet(LensAt(a, s), D) \in Nat
  BY <1>1, <1>2, SumTyped
<1> QED BY <1>3, <1>4, <1>5, <1>6 DEF a, D

\* What a state is counted by, but for its sides that ended.
SameCounts(st, after) ==
    /\ after.cells = st.cells /\ after.counts = st.counts /\ after.emitted = st.emitted
    /\ after.bytes = st.bytes /\ after.values = st.values
    /\ after.phase = "open" => st.phase = "open"

Counted(J, st, emitted) ==
    /\ TotalsTrue(J, st) /\ RetainedTrue(J, st) /\ EmittedTrue(J, st)
    /\ DrainedTrue(J, st, emitted)

LEMMA SameCounted ==
    ASSUME NEW J, NEW st, NEW after, NEW emitted, SameCounts(st, after), Counted(J, st, emitted)
    PROVE  Counted(J, after, emitted)
<1>1. /\ Inputs(after) = Inputs(st) /\ KeysOf(after) = KeysOf(st)
      /\ \A s : Retained(after, s) = Retained(st, s)
      /\ \A s : Consumed(after, s) = Consumed(st, s)
  BY DEF SameCounts, Inputs, KeysOf, Retained, Consumed
<1>2. TotalsTrue(J, after) BY <1>1 DEF SameCounts, Counted, TotalsTrue
<1>3. RetainedTrue(J, after) BY <1>1 DEF SameCounts, Counted, RetainedTrue
<1>4. EmittedTrue(J, after) BY <1>1 DEF SameCounts, Counted, EmittedTrue
<1>5. DrainedTrue(J, after, emitted) BY <1>1 DEF SameCounts, Counted, DrainedTrue
<1> QED BY <1>2, <1>3, <1>4, <1>5 DEF Counted

\* A join that ends without draining what it holds.
Emptied(J, st, after) ==
    /\ DOMAIN after.cells = {} /\ after.counts = st.counts /\ after.emitted = st.emitted
    /\ after.bytes = 0 /\ after.values = 0 /\ after.phase = "closed"
    /\ J.emit = "final" => DOMAIN st.cells = {}

LEMMA EmptiedCounted ==
    ASSUME NEW J \in Joins, NEW st, NEW after, NEW emitted, Emptied(J, st, after),
           MeasuredCells(st.cells), st.counts \in [Side -> Nat], st.emitted \in Nat,
           Counted(J, st, emitted)
    PROVE  Counted(J, after, emitted)
<1>1. /\ SumOver(after.cells, CellBytes) = 0 /\ SumOver(after.cells, Count) = 0
      /\ \A s \in Side : Retained(after, s) = 0
      /\ KeysOf(after) = 0
  BY NothingHeld DEF Emptied
<1>2. /\ \A s \in Side : Retained(st, s) \in Nat
      /\ \A s \in Side : st.counts[s] \in Nat
  BY HeldTyped, InputsTyped
<1>3. Inputs(after) = Inputs(st) BY DEF Emptied, Inputs
<1>4. /\ J.keys \in Nat \ {0} /\ J.stateBytes \in Nat \ {0} /\ J.values \in Nat \ {0}
      /\ PerKey(J) \in Nat \ {0}
  BY ConfigurationTyped
<1>5. \A s \in Side : /\ Consumed(after, s) = st.counts[s] /\ Consumed(st, s) \in Int
                      /\ Consumed(st, s) <= Consumed(after, s)
  <2> SUFFICES ASSUME NEW s \in Side
               PROVE  /\ Consumed(after, s) = st.counts[s] /\ Consumed(st, s) \in Int
                      /\ Consumed(st, s) <= Consumed(after, s)
    OBVIOUS
  <2> DEFINE a == st.counts[s]
             b == Retained(st, s)
  <2>1. /\ a \in Nat /\ b \in Nat /\ Consumed(st, s) = a - b /\ Consumed(after, s) = a - 0
    BY <1>1, <1>2 DEF Consumed, Emptied
  <2> HIDE DEF a, b
  <2>2. Consumed(after, s) = a /\ a - b \in Int /\ a - b <= a BY <2>1
  <2> QED BY <2>1, <2>2 DEF a
<1>6. TotalsTrue(J, after) BY <1>1, <1>4 DEF TotalsTrue, Emptied
<1>7. RetainedTrue(J, after)
  <2>1. \A s \in Side : Consumed(after, s) >= 0 BY <1>2, <1>5
  <2>2. after.phase # "open" BY DEF Emptied
  <2> QED BY <1>3, <2>1, <2>2 DEF RetainedTrue, Counted
<1>8. EmittedTrue(J, after)
  <2>1. ASSUME J.emit = "complete", NEW s \in Side
        PROVE  after.emitted <= Consumed(after, s) * PerKey(J)
    <3> DEFINE c == Consumed(st, s)
               d == Consumed(after, s)
               r == PerKey(J)
               e == st.emitted
    <3>1. e <= c * r /\ c >= 0 BY <2>1 DEF Counted, EmittedTrue, RetainedTrue
    <3>2. c \in Int /\ d \in Nat /\ c <= d /\ r \in Nat /\ e \in Nat BY <1>2, <1>4, <1>5
    <3>3. after.emitted = e BY DEF Emptied
    <3> HIDE DEF c, d, r, e
    <3>4. c \in Nat BY <3>1, <3>2
    <3>5. c * r \in Nat /\ d * r \in Nat /\ c * r <= d * r BY <3>2, <3>4, MoreTimes
    <3> DEFINE v == c * r
               w == d * r
    <3>6. v \in Nat /\ w \in Nat /\ v <= w /\ e <= v BY <3>1, <3>5
    <3> HIDE DEF v, w
    <3>7. e <= w BY <3>2, <3>6
    <3> QED BY <3>3, <3>7 DEF w, d, r
  <2> QED BY <1>3, <2>1 DEF EmittedTrue, Counted, Emptied
<1>9. DrainedTrue(J, after, emitted)
  <2> SUFFICES ASSUME J.emit = "final" PROVE DrainedTrue(J, after, emitted) BY DEF DrainedTrue
  <2>1. /\ SumOver(st.cells, Count) = 0 /\ KeysOf(st) = 0
        /\ \A s \in Side : Retained(st, s) = 0
    BY NothingHeld DEF Emptied
  <2>2. st.values = 0 BY <2>1 DEF Counted, TotalsTrue
  <2>3. \A s \in Side : Consumed(after, s) = Consumed(st, s)
    BY <1>1, <2>1 DEF Consumed, Emptied
  <2>4. /\ KeysOf(after) = KeysOf(st) /\ after.values = st.values /\ after.emitted = st.emitted
    BY <1>1, <2>1, <2>2 DEF Emptied
  <2> QED BY <1>3, <2>3, <2>4 DEF DrainedTrue, Counted
<1> QED BY <1>6, <1>7, <1>8, <1>9 DEF Counted

LEMMA CountFits ==
    ASSUME JoinInv, CountInv
    PROVE  /\ join \in Joins /\ DOMAIN state = StateFields /\ MeasuredCells(state.cells)
           /\ state = [field \in StateFields |-> state[field]]
           /\ state.counts \in [Side -> Nat] /\ state.emitted \in Nat
           /\ Counted(join, state, Len(emissions))
<1>1. /\ join \in Joins /\ StateTyped(state) BY HistoryFits
<1>2. MeasuredCells(state.cells)
  BY <1>1, CellsTyped, JoinAssumption DEF MeasuredCells, StateTyped
<1> QED BY <1>1, <1>2 DEF CountInv, Counted, StateTyped

\* The end of a side.
LEMMA CloseKeepsCounts ==
    ASSUME JoinInv, CountInv, NEW s \in Side, Close(s)
    PROVE  CountInv'
<1> DEFINE closed == [state.closed EXCEPT ![s] = TRUE]
           ended  == \A u \in Side : closed[u]
           drains == join.emit = "final" /\ state.cells # <<>>
           st     == state
           after  == state'
<1>1. /\ after = StageClose(join, st, s) /\ join' = join /\ emissions' = emissions
  BY DEF Close
<1>2. /\ join \in Joins /\ DOMAIN st = StateFields /\ MeasuredCells(st.cells)
      /\ st = [field \in StateFields |-> st[field]]
      /\ st.counts \in [Side -> Nat] /\ st.emitted \in Nat
      /\ Counted(join, st, Len(emissions))
  BY CountFits
<1>3. DOMAIN st.cells = {} <=> st.cells = <<>>
  <2>1. st.cells = [k \in DOMAIN st.cells |-> st.cells[k]]
    BY DEF JoinInv, HistoryTyped, StateTyped
  <2>2. DOMAIN st.cells = {} => st.cells = [k \in {} |-> st.cells[k]] BY <2>1
  <2>3. [k \in {} |-> st.cells[k]] = <<>> OBVIOUS
  <2>4. st.cells = <<>> => DOMAIN st.cells = {} OBVIOUS
  <2> QED BY <2>2, <2>3, <2>4
<1>4. ASSUME SameCounts(st, after) \/ Emptied(join, st, after),
             after = [field \in StateFields |-> after[field]]
      PROVE  CountInv'
  <2> HIDE DEF st, after
  <2>1. Counted(join, after, Len(emissions))
    <3>1. CASE SameCounts(st, after) BY <1>2, <3>1, SameCounted
    <3>2. CASE Emptied(join, st, after) BY <1>2, <3>2, EmptiedCounted
    <3> QED BY <1>4, <3>1, <3>2
  <2>2. after.counts = st.counts /\ after.emitted = st.emitted
    BY <1>4 DEF SameCounts, Emptied
  <2> QED BY <1>1, <1>2, <1>4, <2>1, <2>2 DEF CountInv, Counted, after
<1>5. CASE st.closed[s]
  <2>1. after = st BY <1>1, <1>5 DEF StageClose
  <2> QED BY <1>2, <1>4, <2>1 DEF SameCounts
<1>6. CASE ~ st.closed[s]
  <2>0. st.phase = "open" BY <1>6 DEF JoinInv, PhasesFit
  <2>1. CASE ~ ended
    <3>1. after = [st EXCEPT !.closed = closed] BY <1>1, <1>6, <2>1 DEF StageClose
    <3> HIDE DEF closed, after, st
    <3>2. after = [field \in StateFields |-> after[field]] BY <1>2, <3>1
    <3>3. SameCounts(st, after) BY <1>2, <3>1 DEF SameCounts, StateFields
    <3> QED BY <1>4, <3>2, <3>3
  <2>2. CASE ended /\ drains
    <3>1. after = [st EXCEPT !.closed = closed, !.phase = "draining"]
      BY <1>1, <1>6, <2>2 DEF StageClose
    <3> HIDE DEF closed, after, st
    <3>2. after = [field \in StateFields |-> after[field]] BY <1>2, <3>1
    <3>3. SameCounts(st, after) BY <1>2, <3>1, <2>0 DEF SameCounts, StateFields
    <3> QED BY <1>4, <3>2, <3>3
  <2>3. CASE ended /\ ~ drains
    <3>1. after = [st EXCEPT !.closed = closed, !.phase = "closed", !.cells = <<>>,
                             !.bytes = 0, !.values = 0]
      BY <1>1, <1>6, <2>3 DEF StageClose
    <3>2. join.emit = "final" => DOMAIN st.cells = {} BY <1>3, <2>3
    <3> HIDE DEF closed, after, st
    <3>3. after = [field \in StateFields |-> after[field]] BY <1>2, <3>1
    <3>4. /\ after.cells = <<>> /\ after.counts = st.counts /\ after.emitted = st.emitted
          /\ after.bytes = 0 /\ after.values = 0 /\ after.phase = "closed"
      BY <1>2, <3>1 DEF StateFields
    <3>5. DOMAIN after.cells = {} BY <3>4
    <3>6. Emptied(join, st, after) BY <3>2, <3>4, <3>5 DEF Emptied
    <3> QED BY <1>4, <3>3, <3>6
  <2> QED BY <2>1, <2>2, <2>3
<1> QED BY <1>5, <1>6
LEMMA SumMonotone ==
    ASSUME NEW f, NEW g, NEW S, IsFiniteSet(S),
           \A x \in S : f[x] \in Nat /\ g[x] \in Nat /\ f[x] <= g[x]
    PROVE  /\ SumFunctionOnSet(f, S) \in Nat /\ SumFunctionOnSet(g, S) \in Nat
           /\ SumFunctionOnSet(f, S) <= SumFunctionOnSet(g, S)
<1> DEFINE d == [x \in S |-> g[x] - f[x]]
<1>1. \A x \in S : d[x] \in Nat /\ g[x] = f[x] + d[x] OBVIOUS
<1> HIDE DEF d
<1>2. /\ \A x \in S : f[x] \in Int /\ d[x] \in Int /\ g[x] = f[x] + d[x]
  BY <1>1
<1>3. SumFunctionOnSet(g, S) = SumFunctionOnSet(f, S) + SumFunctionOnSet(d, S)
  BY <1>2, SumAdds
<1>4. /\ SumFunctionOnSet(f, S) \in Nat /\ SumFunctionOnSet(d, S) \in Nat
      /\ SumFunctionOnSet(g, S) \in Nat
  BY <1>1, SumTyped
<1> DEFINE F == SumFunctionOnSet(f, S)
           G == SumFunctionOnSet(g, S)
           E == SumFunctionOnSet(d, S)
<1>5. F \in Nat /\ E \in Nat /\ G = F + E BY <1>3, <1>4
<1> HIDE DEF F, G, E
<1>6. F <= G BY <1>5
<1> QED BY <1>4, <1>6 DEF F, G

\* The keys that a drain takes, and those that it leaves.
Taken(J, st, after, K) ==
    /\ MeasuredCells(st.cells) /\ K \subseteq DOMAIN st.cells
    /\ after.cells = Restrict(st.cells, DOMAIN st.cells \ K)
    /\ \A k \in DOMAIN st.cells : /\ CellAdmitted(J, st.cells[k])
                                  /\ RowCount(st.cells[k]) \in 1 .. PerKey(J)

LEMMA DrainMeasures ==
    ASSUME NEW J \in Joins, NEW st, NEW after, NEW K, Taken(J, st, after, K)
    PROVE  LET out  == Restrict(st.cells, K)
               c    == Cardinality(K)
               rows == SumOver(out, RowCount)
               held == SumOver(out, Count)
           IN  /\ c \in Nat /\ KeysOf(after) = KeysOf(st) - c
               /\ SumOver(out, CellBytes) \in Nat
               /\ SumOver(after.cells, CellBytes)
                     = SumOver(st.cells, CellBytes) - SumOver(out, CellBytes)
               /\ held \in Nat /\ c <= held
               /\ SumOver(after.cells, Count) = SumOver(st.cells, Count) - held
               /\ rows \in Nat /\ c <= rows /\ rows <= c * PerKey(J)
               /\ \A s \in Side : /\ Retained(after, s) <= Retained(st, s)
                                  /\ Retained(st, s) - Retained(after, s) <= rows
               /\ \A k \in DOMAIN after.cells : CellAdmitted(J, after.cells[k])
<1> DEFINE a   == st.cells
           D   == DOMAIN a
           L   == D \ K
           out == Restrict(a, K)
           b   == after.cells
           c   == Cardinality(K)
<1>1. /\ IsFiniteSet(D) /\ (\A k \in D : a[k] \in Cell) /\ K \in SUBSET D /\ b = Restrict(a, L)
      /\ \A k \in D : CellAdmitted(J, a[k]) /\ RowCount(a[k]) \in 1 .. PerKey(J)
  BY DEF Taken, MeasuredCells
<1>2. IsFiniteSet(K) /\ IsFiniteSet(L) /\ c \in Nat /\ L \in SUBSET D
  BY <1>1, FS_Subset, FS_CardinalityType
<1>3. Cardinality(L) = Cardinality(D) - c
  <2>1. K = D \cap K BY <1>1
  <2>2. Cardinality(L) = Cardinality(D) - Cardinality(D \cap K) BY <1>1, FS_Difference
  <2> QED BY <2>1, <2>2
<1> HIDE DEF L
<1>4. /\ DOMAIN out = K
      /\ SumOver(out, RowCount) = SumFunctionOnSet(RowsAt(a), K)
      /\ SumOver(out, CellBytes) = SumFunctionOnSet(BytesAt(a), K)
      /\ SumOver(out, Count) = SumFunctionOnSet(CountAt(a), K)
  BY <1>1, <1>2, SumsRestrict
<1>5. /\ DOMAIN b = L /\ \A k \in L : b[k] = a[k]
      /\ SumOver(b, CellBytes) = SumFunctionOnSet(BytesAt(a), L)
      /\ SumOver(b, Count) = SumFunctionOnSet(CountAt(a), L)
  BY <1>1, <1>2, SumsRestrict
<1>6. KeysOf(after) = KeysOf(st) - c BY <1>3, <1>5 DEF KeysOf
<1>7. /\ SumOver(a, CellBytes) = SumFunctionOnSet(BytesAt(a), D)
      /\ SumOver(a, Count) = SumFunctionOnSet(CountAt(a), D)
      /\ \A s : Retained(st, s) = SumFunctionOnSet(LensAt(a, s), D)
  BY SumsAre
<1>8. \A s : Retained(after, s) = SumFunctionOnSet(LensAt(a, s), L)
  <2> SUFFICES ASSUME NEW s
               PROVE  Retained(after, s) = SumFunctionOnSet(LensAt(a, s), L)
    OBVIOUS
  <2>1. Retained(after, s) = SumFunctionOnSet(LensAt(b, s), L) BY <1>5, SumsAre
  <2>2. \A k \in L : LensAt(b, s)[k] = LensAt(a, s)[k] BY <1>2, <1>5 DEF LensAt
  <2>3. SumFunctionOnSet(LensAt(b, s), L) = SumFunctionOnSet(LensAt(a, s), L)
    <3> HIDE DEF a, b
    <3> QED BY <1>2, <2>2, SumOfSame
  <2> QED BY <2>1, <2>3
<1>9. \A k \in D : /\ BytesAt(a)[k] \in Nat /\ CountAt(a)[k] \in Nat /\ 1 <= CountAt(a)[k]
                   /\ RowsAt(a)[k] \in 1 .. PerKey(J)
                   /\ \A s \in Side : LensAt(a, s)[k] \in Nat /\ LensAt(a, s)[k] <= RowsAt(a)[k]
  <2> SUFFICES ASSUME NEW k \in D
               PROVE  /\ BytesAt(a)[k] \in Nat /\ CountAt(a)[k] \in Nat /\ 1 <= CountAt(a)[k]
                      /\ RowsAt(a)[k] \in 1 .. PerKey(J)
                      /\ \A s \in Side : /\ LensAt(a, s)[k] \in Nat
                                         /\ LensAt(a, s)[k] <= RowsAt(a)[k]
    OBVIOUS
  <2> DEFINE v == a[k]
  <2>1. /\ BytesAt(a)[k] = CellBytes(v) /\ CountAt(a)[k] = Count(v) /\ RowsAt(a)[k] = RowCount(v)
        /\ \A s : LensAt(a, s)[k] = Len(v[s])
    BY DEF BytesAt, CountAt, RowsAt, LensAt
  <2>2. v \in Cell /\ CellAdmitted(J, v) /\ RowCount(v) \in 1 .. PerKey(J) BY <1>1
  <2> HIDE DEF v
  <2>3. CellBytes(v) \in Nat /\ Count(v) \in Nat BY <2>2, CellMeasures
  <2>4. 1 <= Count(v)
    <3>1. Count(v) > 0 BY <2>2 DEF CellAdmitted
    <3> QED BY <2>3, <3>1
  <2>5. \A s \in Side : Len(v[s]) \in Nat /\ Len(v[s]) <= RowCount(v)
    BY <2>2, OfferedTyped, RowCountTyped
  <2> QED BY <2>1, <2>2, <2>3, <2>4, <2>5
<1>10. PerKey(J) \in Nat \ {0} BY ConfigurationTyped
<1> HIDE DEF a, b, D, out
<1> DEFINE S(f, T) == SumFunctionOnSet(f, T)
<1>11. ASSUME NEW f, \A k \in D : f[k] \in Nat
       PROVE  S(f, K) \in Nat /\ S(f, L) \in Nat /\ S(f, D) = S(f, K) + S(f, L)
  <2>1. Parts(D, K, L) /\ Natural(f, D) BY <1>1, <1>11 DEF Parts, Natural, L
  <2> QED BY <1>1, <2>1, SumOfParts
<1>12. /\ S(BytesAt(a), K) \in Nat /\ S(BytesAt(a), L) \in Nat
       /\ S(BytesAt(a), D) = S(BytesAt(a), K) + S(BytesAt(a), L)
  BY <1>9, <1>11
<1>13. /\ S(CountAt(a), K) \in Nat /\ S(CountAt(a), L) \in Nat
       /\ S(CountAt(a), D) = S(CountAt(a), K) + S(CountAt(a), L)
  BY <1>9, <1>11
<1>14. \A s \in Side : /\ S(LensAt(a, s), K) \in Nat /\ S(LensAt(a, s), L) \in Nat
                       /\ S(LensAt(a, s), D) = S(LensAt(a, s), K) + S(LensAt(a, s), L)
  BY <1>9, <1>11
<1>15. \A k \in K : k \in D BY <1>1
<1>16. c * 1 <= S(RowsAt(a), K) /\ S(RowsAt(a), K) <= c * PerKey(J)
  <2> DEFINE f == RowsAt(a)
             p == PerKey(J)
  <2>1. (\A k \in K : f[k] \in 1 .. p) /\ 1 \in Nat /\ p \in Nat BY <1>9, <1>10, <1>15
  <2> HIDE DEF f, p
  <2>2. c * 1 <= SumFunctionOnSet(f, K) /\ SumFunctionOnSet(f, K) <= c * p
    BY <1>2, <2>1, SumBounded
  <2> QED BY <2>2 DEF f, p
<1>17. \A s \in Side : S(LensAt(a, s), K) <= S(RowsAt(a), K) /\ S(RowsAt(a), K) \in Nat
  <2> SUFFICES ASSUME NEW s \in Side
               PROVE  S(LensAt(a, s), K) <= S(RowsAt(a), K) /\ S(RowsAt(a), K) \in Nat
    OBVIOUS
  <2> DEFINE f == LensAt(a, s)
             g == RowsAt(a)
  <2>1. \A k \in K : f[k] \in Nat /\ g[k] \in Nat /\ f[k] <= g[k]
    <3>1. \A k \in K : f[k] \in Nat /\ g[k] \in 1 .. PerKey(J) /\ f[k] <= g[k]
      BY <1>9, <1>15
    <3> HIDE DEF f, g
    <3> QED BY <1>10, <3>1
  <2> HIDE DEF f, g
  <2> QED BY <1>2, <2>1, SumMonotone DEF f, g
<1>18. c <= S(CountAt(a), K)
  <2> DEFINE f == [k \in K |-> 1]
             g == CountAt(a)
  <2>1. \A k \in K : f[k] \in Nat /\ g[k] \in Nat /\ f[k] <= g[k] /\ f[k] \in 1 .. 1
    BY <1>9, <1>15
  <2> HIDE DEF f, g
  <2>2. S(f, K) \in Nat /\ S(g, K) \in Nat /\ S(f, K) <= S(g, K) BY <1>2, <2>1, SumMonotone
  <2>3. c * 1 <= S(f, K) BY <1>2, <2>1, SumBounded
  <2>4. c * 1 = c BY <1>2
  <2> HIDE DEF S, c
  <2>5. c <= S(g, K) BY <1>2, <2>2, <2>3, <2>4
  <2> QED BY <2>5 DEF g
<1>19. \A k \in DOMAIN b : CellAdmitted(J, b[k]) BY <1>1, <1>2, <1>5
<1>20. ASSUME NEW s \in Side
       PROVE  /\ Retained(after, s) <= Retained(st, s)
              /\ Retained(st, s) - Retained(after, s) <= S(RowsAt(a), K)
  <2> DEFINE p == S(LensAt(a, s), K)
             q == S(LensAt(a, s), L)
             r == S(RowsAt(a), K)
  <2>1. Retained(after, s) = q /\ Retained(st, s) = p + q BY <1>7, <1>8, <1>14 DEF a
  <2>2. p \in Nat /\ q \in Nat /\ r \in Nat /\ p <= r BY <1>14, <1>17
  <2> HIDE DEF p, q, r
  <2>3. q <= p + q /\ (p + q) - q <= r BY <2>2
  <2> QED BY <2>1, <2>3 DEF r
<1>21. S(RowsAt(a), K) \in Nat
  <2>1. 1 \in Side BY JoinAssumption DEF Side
  <2> QED BY <1>17, <2>1
<1>22. c <= S(RowsAt(a), K)
  <2>1. c * 1 = c BY <1>2
  <2> QED BY <1>16, <2>1
<1> DEFINE B(T) == S(BytesAt(a), T)
           C(T) == S(CountAt(a), T)
<1>23. B(L) = B(D) - B(K) /\ C(L) = C(D) - C(K)
  <2> DEFINE u == B(D)
             v == B(K)
             w == B(L)
             x == C(D)
             y == C(K)
             z == C(L)
  <2>1. /\ v \in Nat /\ w \in Nat /\ u = v + w
        /\ y \in Nat /\ z \in Nat /\ x = y + z
    BY <1>12, <1>13
  <2> HIDE DEF u, v, w, x, y, z
  <2>2. w = u - v /\ z = x - y BY <2>1
  <2> QED BY <2>2 DEF u, v, w, x, y, z
<1> QED BY <1>2, <1>4, <1>5, <1>6, <1>7, <1>12, <1>13, <1>16, <1>18, <1>19, <1>20, <1>21, <1>22,
           <1>23 DEF a, b, out
LEMMA CellsHeld ==
    ASSUME JoinInv, CountInv, NEW k \in DOMAIN state.cells
    PROVE  /\ state.cells[k] \in Cell /\ CellAdmitted(join, state.cells[k])
           /\ RowCount(state.cells[k]) \in 1 .. PerKey(join)
           /\ join.insert # "product" => \A s \in Side : Len(state.cells[k][s]) <= 1
<1> DEFINE v == state.cells[k]
<1>1. join \in Joins BY HistoryFits
<1>2. v \in Cell /\ (join.insert # "product" => \A s \in Side : Len(v[s]) <= 1)
  BY CellsTyped
<1>3. CellAdmitted(join, v) BY DEF CountInv, TotalsTrue
<1> HIDE DEF v
<1>4. RowCount(v) \in Nat \ {0} /\ RowCount(v) <= join.rowsPerKey
  BY <1>2, <1>3, RowCountTyped DEF CellAdmitted
<1>5. join.insert # "product" => RowCount(v) = 1 BY <1>2, RowCountTyped
<1>6. join.rowsPerKey \in Nat BY <1>1, ConfigurationTyped
<1>7. RowCount(v) \in 1 .. PerKey(join)
  <2>1. CASE join.insert = "product"
    <3>1. PerKey(join) = join.rowsPerKey BY <2>1 DEF PerKey
    <3> QED BY <1>4, <1>6, <3>1
  <2>2. CASE join.insert # "product"
    <3>1. PerKey(join) = 1 BY <2>2 DEF PerKey
    <3> QED BY <1>5, <2>2, <3>1
  <2> QED BY <2>1, <2>2
<1> QED BY <1>2, <1>3, <1>7 DEF v

\* A drain.
LEMMA DrainKeepsCounts ==
    ASSUME JoinInv, CountInv, NEW maxKeys \in DrainSizes, Drain(maxKeys)
    PROVE  CountInv'
<1> DEFINE m     == Len(emissions)
           K     == Selected(join, state, maxKeys)
           D     == DOMAIN state.cells
           keys  == InOrder(K)
           c     == Cardinality(K)
           tail  == [i \in DOMAIN keys |-> [key |-> keys[i], at |-> Len(arrivals),
                                            rows |-> RowsOf(keys[i], state.cells[keys[i]])]]
           st    == state
           after == state'
<1>1. /\ join' = join /\ emissions' = emissions \o tail
      /\ after = StageDrain(join, st, maxKeys) /\ st.phase # "open"
  BY DEF Drain, DrainAdmitted
<1>2. /\ join \in Joins /\ DOMAIN st = StateFields /\ MeasuredCells(st.cells)
      /\ st = [field \in StateFields |-> st[field]]
      /\ st.counts \in [Side -> Nat] /\ st.emitted \in Nat
      /\ Counted(join, st, m)
  BY CountFits
<1>3. K \subseteq D /\ K \in SUBSET Int /\ IsFiniteSet(K) /\ IsFiniteSet(D)
  <2>1. K \subseteq D BY DEF Selected
  <2>2. IsFiniteSet(D) /\ D \subseteq Int BY <1>2 DEF MeasuredCells
  <2> HIDE DEF K, D
  <2> QED BY <2>1, <2>2, FS_Subset
<1>4. c \in Nat /\ DOMAIN keys = 1 .. c
  <2> HIDE DEF K
  <2> QED BY <1>3, InOrderSorts
<1>5. m \in Nat /\ emissions \in Seq(Emission) BY HistoryFits DEF History
<1>6. Len(emissions') = m + c
  <2>1. Len(tail) = c /\ tail \in Seq({tail[i] : i \in 1 .. c})
    <3>1. tail = [i \in 1 .. c |-> tail[i]] BY <1>4
    <3> HIDE DEF tail, c
    <3> QED BY <1>4, <3>1
  <2> DEFINE T == Emission \cup {tail[i] : i \in 1 .. c}
  <2> HIDE DEF tail
  <2>2. emissions \in Seq(T) /\ tail \in Seq(T) BY <1>5, <2>1
  <2> HIDE DEF T, c
  <2> QED BY <1>1, <2>1, <2>2, ConcatProperties
<1>7. CASE st.phase = "closed"
  <2>1. after = st BY <1>1, <1>7 DEF StageDrain
  <2>2. K = {} BY <1>3, <1>7 DEF JoinInv, PhasesFit
  <2>3. c = 0 BY <2>2, FS_EmptySet
  <2>4. Len(emissions') = m BY <1>5, <1>6, <2>3
  <2> QED BY <1>1, <2>1, <2>4 DEF CountInv
<1>8. CASE st.phase = "draining"
  <2> DEFINE rest == Restrict(st.cells, D \ K)
             out  == Restrict(st.cells, K)
             rows == SumOver(out, RowCount)
             held == SumOver(out, Count)
             drop == SumOver(out, CellBytes)
  <2>1. /\ after = [field \in StateFields |-> after[field]]
        /\ after.cells = rest /\ after.counts = st.counts /\ after.emitted = st.emitted + rows
        /\ after.bytes = st.bytes - drop /\ after.values = st.values - held
        /\ after.phase # "open"
    <3>1. after = [st EXCEPT
                   !.cells = rest,
                   !.emitted = @ + rows,
                   !.bytes = @ - drop,
                   !.values = @ - held,
                   !.phase = IF DOMAIN rest = {} THEN "closed" ELSE "draining"]
      BY <1>1, <1>8 DEF StageDrain
    <3> HIDE DEF rest, rows, held, drop, after, st
    <3>2. after = [field \in StateFields |-> after[field]] BY <1>2, <3>1
    <3> QED BY <1>2, <3>1, <3>2 DEF StateFields
  <2>2. Taken(join, st, after, K)
    <3>1. \A k \in D : CellAdmitted(join, st.cells[k]) /\ RowCount(st.cells[k]) \in 1 .. PerKey(join)
      BY CellsHeld
    <3> HIDE DEF K
    <3> QED BY <1>2, <1>3, <2>1, <3>1 DEF Taken
  <2> HIDE DEF K, st, after
  <2>3. /\ KeysOf(after) = KeysOf(st) - c
        /\ drop \in Nat
        /\ SumOver(after.cells, CellBytes) = SumOver(st.cells, CellBytes) - drop
        /\ held \in Nat /\ c <= held
        /\ SumOver(after.cells, Count) = SumOver(st.cells, Count) - held
        /\ rows \in Nat /\ c <= rows /\ rows <= c * PerKey(join)
        /\ \A s \in Side : /\ Retained(after, s) <= Retained(st, s)
                           /\ Retained(st, s) - Retained(after, s) <= rows
        /\ \A k \in DOMAIN after.cells : CellAdmitted(join, after.cells[k])
    BY <1>2, <2>2, DrainMeasures
  <2> HIDE DEF rest, out, rows, held, drop, c
  <2>4. join.emit = "final" BY <1>8 DEF JoinInv, PhasesFit, st
  <2>5. /\ st.bytes = SumOver(st.cells, CellBytes) /\ st.values = SumOver(st.cells, Count)
        /\ KeysOf(st) <= join.keys /\ st.bytes <= join.stateBytes /\ st.values <= join.values
    BY <1>2 DEF Counted, TotalsTrue
  <2>6. /\ SumOver(st.cells, CellBytes) \in Nat /\ SumOver(st.cells, Count) \in Nat
        /\ (\A s \in Side : Retained(st, s) \in Nat) /\ KeysOf(st) \in Nat
    BY <1>2, HeldTyped
  <2>7. /\ join.keys \in Nat /\ join.stateBytes \in Nat /\ join.values \in Nat
        /\ PerKey(join) \in Nat
    BY <1>2, ConfigurationTyped
  <2>8. TotalsTrue(join, after)
    <3>1. after.bytes = SumOver(after.cells, CellBytes) /\ after.values = SumOver(after.cells, Count)
      BY <2>1, <2>3, <2>5
    <3>2. KeysOf(after) <= join.keys BY <1>4, <2>3, <2>5, <2>6, <2>7
    <3>3. after.bytes <= join.stateBytes BY <2>1, <2>3, <2>5, <2>6, <2>7
    <3>4. after.values <= join.values BY <2>1, <2>3, <2>5, <2>6, <2>7
    <3> QED BY <2>3, <3>1, <3>2, <3>3, <3>4 DEF TotalsTrue
  <2>9. Inputs(after) = Inputs(st) /\ Inputs(st) \in Nat BY <1>2, <2>1, InputsTyped DEF Inputs
  <2>10. MeasuredCells(after.cells)
    <3>1. D \ K \in SUBSET D /\ IsFiniteSet(D \ K) BY <1>3, FS_Subset
    <3>2. DOMAIN after.cells = D \ K /\ \A k \in D \ K : after.cells[k] = st.cells[k]
      BY <2>1, <3>1, SumsRestrict DEF rest, st
    <3> HIDE DEF D
    <3>3. D = DOMAIN st.cells BY DEF D, st
    <3> QED BY <1>2, <3>1, <3>2, <3>3 DEF MeasuredCells
  <2>11. ASSUME NEW s \in Side
         PROVE  /\ Consumed(after, s) \in Int /\ Consumed(st, s) \in Int
                /\ Consumed(after, s) >= Consumed(st, s)
                /\ Consumed(after, s) <= Consumed(st, s) + rows
    <3> DEFINE a == st.counts[s]
               p == Retained(st, s)
               q == Retained(after, s)
    <3>1. a \in Nat /\ p \in Nat /\ q \in Nat BY <1>2, <2>10, HeldTyped
    <3>2. Consumed(st, s) = a - p /\ Consumed(after, s) = a - q BY <2>1 DEF Consumed
    <3>3. q <= p /\ p - q <= rows /\ rows \in Nat BY <2>3
    <3> HIDE DEF a, p, q
    <3> QED BY <3>1, <3>2, <3>3
  <2>12. RetainedTrue(join, after)
    <3>1. \A s \in Side : Consumed(after, s) >= 0
      <4> SUFFICES ASSUME NEW s \in Side PROVE Consumed(after, s) >= 0 OBVIOUS
      <4>1. Consumed(st, s) >= 0 BY <1>2 DEF Counted, RetainedTrue
      <4> QED BY <2>11, <4>1
    <3>2. join.insert = "product" => Inputs(after) <= join.values
      BY <1>2, <2>4, <2>9 DEF Counted, RetainedTrue
    <3> QED BY <2>1, <3>1, <3>2 DEF RetainedTrue
  <2>13. EmittedTrue(join, after) BY <2>4 DEF EmittedTrue
  <2>14. DrainedTrue(join, after, m + c)
    <3> DEFINE n == KeysOf(st)
               N == Inputs(st)
               e == st.emitted
               p == PerKey(join)
               v == st.values
    <3>1. /\ m + n <= join.keys /\ m + n <= N /\ (N > 0 => m + n > 0)
          /\ m <= e /\ e <= m * p
          /\ join.insert = "product" => /\ m + v <= N
                                        /\ \A s \in Side : Consumed(st, s) <= e
      BY <1>2, <2>4 DEF Counted, DrainedTrue
    <3>2. n \in Nat /\ N \in Nat /\ e \in Nat /\ p \in Nat /\ v \in Nat /\ c \in Nat
      BY <1>2, <1>4, <2>5, <2>6, <2>7, <2>9 DEF c
    <3>3. /\ KeysOf(after) = n - c /\ Inputs(after) = N /\ after.emitted = e + rows
          /\ after.values = v - held /\ held \in Nat /\ c <= held
          /\ rows \in Nat /\ c <= rows /\ rows <= c * p
      BY <2>1, <2>3, <2>9
    <3> HIDE DEF n, N, e, p, v, m
    <3>4. (m + c) + KeysOf(after) = m + n BY <1>5, <3>2, <3>3 DEF m
    <3>5. m + c <= after.emitted BY <1>5, <3>1, <3>2, <3>3 DEF m
    <3>6. after.emitted <= (m + c) * p
      <4> DEFINE x == m * p
                 y == c * p
      <4>1. (m + c) * p = x + y /\ x \in Nat /\ y \in Nat BY <1>5, <3>2 DEF m
      <4>2. e <= x /\ rows <= y BY <3>1, <3>3
      <4> HIDE DEF x, y
      <4>3. e + rows <= x + y BY <3>2, <3>3, <4>1, <4>2
      <4> QED BY <3>3, <4>1, <4>3
    <3>7. ASSUME join.insert = "product"
          PROVE  /\ (m + c) + after.values <= Inputs(after)
                 /\ \A s \in Side : Consumed(after, s) <= after.emitted
      <4>1. (m + c) + after.values <= Inputs(after)
        BY <1>5, <3>1, <3>2, <3>3, <3>7 DEF m
      <4>2. ASSUME NEW s \in Side PROVE Consumed(after, s) <= after.emitted
        <5> DEFINE a == Consumed(st, s)
                   b == Consumed(after, s)
        <5>1. a <= e /\ a \in Int /\ b \in Int /\ b <= a + rows BY <2>11, <3>1, <3>7
        <5> HIDE DEF a, b
        <5>2. b <= e + rows BY <3>2, <3>3, <5>1
        <5> QED BY <3>3, <5>2 DEF b
      <4> QED BY <4>1, <4>2
    <3>8. /\ (m + c) + KeysOf(after) <= join.keys
          /\ (m + c) + KeysOf(after) <= Inputs(after)
          /\ Inputs(after) > 0 => (m + c) + KeysOf(after) > 0
      BY <3>1, <3>3, <3>4
    <3> QED BY <3>5, <3>6, <3>7, <3>8 DEF DrainedTrue, p
  <2>15. after.counts \in [Side -> Nat] /\ after.emitted \in Nat BY <1>2, <2>1, <2>3
  <2> QED BY <1>1, <1>6, <2>1, <2>8, <2>12, <2>13, <2>14, <2>15 DEF CountInv, after
<1>9. st.phase \in {"draining", "closed"} BY <1>1 DEF JoinInv, HistoryTyped, StateTyped
<1> QED BY <1>7, <1>8, <1>9

LEMMA CountInvNext == JoinInv /\ CountInv /\ [Next]_vars => CountInv'
<1> SUFFICES ASSUME JoinInv, CountInv, [Next]_vars PROVE CountInv' OBVIOUS
<1>1. CASE UNCHANGED vars BY <1>1 DEF CountInv, vars
<1>2. ASSUME NEW s \in Side, NEW k \in Key, Process(s, k) PROVE CountInv'
  BY <1>2, ProcessKeepsCounts
<1>3. ASSUME NEW s \in Side, Close(s) PROVE CountInv' BY <1>3, CloseKeepsCounts
<1>4. ASSUME NEW n \in DrainSizes, Drain(n) PROVE CountInv' BY <1>4, DrainKeepsCounts
<1> QED BY <1>1, <1>2, <1>3, <1>4 DEF Next

(***************************************************************************)
(* The totals carried from call to call are those of the cells, and the    *)
(* counters stay in the proportions that a restore demands: what was       *)
(* consumed, retained and emitted adds up to what arrived.                 *)
(***************************************************************************)
THEOREM CountsStayTrue == Spec => []CountInv
<1>1. Spec => []JoinInv BY JoinInvInit, JoinInvNext, PTL DEF Spec
<1> QED BY <1>1, CountInvInit, CountInvNext, PTL DEF Spec
-----------------------------------------------------------------------------
(***************************************************************************)
(* What a restore demands.                                                 *)
(***************************************************************************)

\* Consumed and retained inputs are all the inputs.
LEMMA ConsumedSum ==
    ASSUME NEW st, MeasuredCells(st.cells), st.counts \in [Side -> Nat]
    PROVE  LET consumed == [s \in Side |-> Consumed(st, s)]
           IN  /\ SumFunction(consumed) \in Int
               /\ Inputs(st) = SumFunction(consumed) + SumOver(st.cells, Count)
<1> DEFINE D   == DOMAIN st.cells
           w   == [k \in D |-> [s \in Side |-> Len(st.cells[k][s])]]
           con == [s \in Side |-> Consumed(st, s)]
           ret == [s \in Side |-> Retained(st, s)]
           cnt == st.counts
<1>1. IsFiniteSet(D) /\ \A k \in D : st.cells[k] \in Cell BY DEF MeasuredCells
<1>2. \A k \in D : \A s \in Side : w[k][s] = Len(st.cells[k][s]) /\ w[k][s] \in Nat
  BY <1>1, OfferedTyped
<1>3. SumFunction(con) = SumFunctionOnSet(con, Side)
  <2>1. DOMAIN con = Side OBVIOUS
  <2> HIDE DEF con
  <2> QED BY <2>1 DEF SumFunction
<1>4. \A s \in Side : /\ ret[s] = Retained(st, s) /\ ret[s] \in Nat /\ cnt[s] \in Nat
                      /\ con[s] = cnt[s] - ret[s]
  BY HeldTyped, InputsTyped DEF Consumed
<1>5. Inputs(st) = SumFunctionOnSet(cnt, Side) BY InputsTyped
<1>6. SumOver(st.cells, Count) = SumFunctionOnSet(CountAt(st.cells), D) BY SumsAre
<1>7. \A s \in Side : Retained(st, s) = SumFunctionOnSet(LensAt(st.cells, s), D)
  BY SumsAre
<1>8. \A k \in D : RowSums(w, D, Side)[k] = CountAt(st.cells)[k]
  <2> SUFFICES ASSUME NEW k \in D
               PROVE  RowSums(w, D, Side)[k] = CountAt(st.cells)[k]
    OBVIOUS
  <2> DEFINE f == [s \in Side |-> Len(st.cells[k][s])]
  <2>1. RowSums(w, D, Side)[k] = SumFunctionOnSet(f, Side) BY DEF RowSums
  <2>2. CountAt(st.cells)[k] = SumFunction(f) BY DEF CountAt, Count
  <2>3. DOMAIN f = Side OBVIOUS
  <2> HIDE DEF f
  <2>4. SumFunction(f) = SumFunctionOnSet(f, Side) BY <2>3 DEF SumFunction
  <2> QED BY <2>1, <2>2, <2>4
<1>9. \A s \in Side : ColumnSums(w, D, D, Side)[s] = ret[s]
  <2> SUFFICES ASSUME NEW s \in Side PROVE ColumnSums(w, D, D, Side)[s] = ret[s] OBVIOUS
  <2>1. Column(w, D, s) = LensAt(st.cells, s) BY DEF Column, LensAt
  <2>2. ColumnSums(w, D, D, Side)[s] = SumFunctionOnSet(LensAt(st.cells, s), D)
    BY <2>1 DEF ColumnSums
  <2> QED BY <1>4, <1>7, <2>2
<1> HIDE DEF w, con, ret, cnt, D
<1>10. SumFunctionOnSet(RowSums(w, D, Side), D) = SumFunctionOnSet(ColumnSums(w, D, D, Side), Side)
  BY <1>1, <1>2, SidesFinite, SumsExchange
<1>11. SumFunctionOnSet(RowSums(w, D, Side), D) = SumFunctionOnSet(CountAt(st.cells), D)
  BY <1>1, <1>8, SumOfSame
<1>12. SumFunctionOnSet(ColumnSums(w, D, D, Side), Side) = SumFunctionOnSet(ret, Side)
  BY <1>9, SidesFinite, SumOfSame
<1>13. \A s \in Side : con[s] \in Int /\ ret[s] \in Int /\ cnt[s] = con[s] + ret[s] BY <1>4
<1>14. SumFunctionOnSet(cnt, Side) = SumFunctionOnSet(con, Side) + SumFunctionOnSet(ret, Side)
  BY <1>13, SidesFinite, SumAdds
<1>15. SumFunctionOnSet(con, Side) \in Int BY <1>13, SidesFinite, SumTyped
<1> QED BY <1>3, <1>5, <1>6, <1>10, <1>11, <1>12, <1>14, <1>15 DEF con

\* The sides from which least and most was consumed.
LEMMA UsedExtremes ==
    ASSUME NEW st, NEW b \in Nat,
           \A s \in Side : Consumed(st, s) \in Nat /\ Consumed(st, s) <= b
    PROVE  LET used == {Consumed(st, s) : s \in Side}
           IN  /\ \E s \in Side : Min(used) = Consumed(st, s)
               /\ \E s \in Side : Max(used) = Consumed(st, s)
<1> DEFINE used == {Consumed(st, s) : s \in Side}
<1>1. used \in SUBSET Nat /\ used # {}
  <2>1. 1 \in Side BY JoinAssumption DEF Side
  <2> QED BY <2>1
<1>2. \E x \in used : \A y \in used : x <= y
  <2> HIDE DEF used
  <2> QED BY <1>1, LeastNatural
<1>3. Min(used) \in used
  <2> HIDE DEF used
  <2> QED BY <1>2 DEF Min
<1>4. \E x \in used : \A y \in used : x >= y
  <2>1. \A x \in used : x \in Nat /\ x <= b OBVIOUS
  <2> HIDE DEF used
  <2> DEFINE gaps == {b - x : x \in used}
  <2>2. \A x \in used : b - x \in Nat BY <2>1
  <2>3. gaps \in SUBSET Nat /\ gaps # {} BY <1>1, <2>2
  <2>4. PICK g \in gaps : \A h \in gaps : g <= h
    <3> HIDE DEF gaps
    <3> QED BY <2>3, LeastNatural
  <2>5. PICK x \in used : g = b - x BY <2>4
  <2>6. ASSUME NEW y \in used PROVE x >= y
    <3>1. b - y \in gaps OBVIOUS
    <3>2. b - x <= b - y BY <2>4, <2>5, <3>1
    <3>3. x \in Nat /\ y \in Nat BY <1>1
    <3> QED BY <3>2, <3>3
  <2> QED BY <2>6
<1>5. Max(used) \in used
  <2> HIDE DEF used
  <2> QED BY <1>4 DEF Max
<1> QED BY <1>3, <1>5

LEMMA ShapeRestores ==
    ASSUME JoinInv, CountInv
    PROVE  ShapeAdmitted(join, state)
<1>1. /\ (state.phase = "open") = ~ (\A s \in Side : state.closed[s])
      /\ state.phase = "draining" => join.emit = "final" /\ DOMAIN state.cells # {}
      /\ state.phase = "closed" => DOMAIN state.cells = {}
  BY DEF JoinInv, PhasesFit
<1>2. DOMAIN state.cells = {} <=> state.cells = <<>>
  <2>1. state.cells = [k \in DOMAIN state.cells |-> state.cells[k]]
    BY DEF JoinInv, HistoryTyped, StateTyped
  <2>2. DOMAIN state.cells = {} => state.cells = [k \in {} |-> state.cells[k]] BY <2>1
  <2>3. [k \in {} |-> state.cells[k]] = <<>> OBVIOUS
  <2>4. state.cells = <<>> => DOMAIN state.cells = {} OBVIOUS
  <2> QED BY <2>2, <2>3, <2>4
<1>3. \A s \in Side : Consumed(state, s) >= 0 BY DEF CountInv, RetainedTrue
<1>4. /\ Cardinality(DOMAIN state.cells) <= join.keys
      /\ SumOver(state.cells, CellBytes) <= join.stateBytes
      /\ SumOver(state.cells, Count) <= join.values
  BY DEF CountInv, TotalsTrue, KeysOf
<1>5. ASSUME NEW k \in DOMAIN state.cells
      PROVE  /\ CellAdmitted(join, state.cells[k])
             /\ join.insert # "product" => \A s \in Side : Len(state.cells[k][s]) <= 1
             /\ join.emit = "complete" => ~ Complete(state.cells[k])
  <2>1. k \in Key BY CellsTyped
  <2>2. join.emit = "complete" => ~ Complete(state.cells[k])
    BY <2>1 DEF JoinInv, CellsOwed
  <2> QED BY <2>2, CellsHeld
<1> QED BY <1>1, <1>2, <1>3, <1>4, <1>5 DEF ShapeAdmitted

LEMMA CountersRestore ==
    ASSUME JoinInv, CountInv
    PROVE  CountersAdmitted(join, state)
<1> DEFINE st    == state
           N     == Inputs(st)
           n     == KeysOf(st)
           e     == st.emitted
           m     == Len(emissions)
           p     == PerKey(join)
           r     == join.rowsPerKey
           used  == {Consumed(st, s) : s \in Side}
           total == SumFunction([s \in Side |-> Consumed(st, s)])
<1>1. /\ join \in Joins /\ MeasuredCells(st.cells)
      /\ st.counts \in [Side -> Nat] /\ e \in Nat
      /\ Counted(join, st, m)
  BY CountFits
<1>2. m \in Nat /\ (join.emit = "final" /\ st.phase = "open" => m = 0)
  BY HistoryFits DEF JoinInv, FinalDue
<1>3. st.phase = "closed" => n = 0 BY FS_EmptySet DEF JoinInv, PhasesFit, KeysOf
<1> HIDE DEF st, m
<1>4. /\ p \in Nat \ {0} /\ r \in Nat \ {0} /\ p <= r /\ join.keys \in Nat
      /\ join.insert = "product" => p = r
      /\ join.insert # "product" => p = 1
  BY <1>1, ConfigurationTyped DEF PerKey
<1>5. /\ N \in Nat /\ n \in Nat /\ (\A s \in Side : Retained(st, s) \in Nat)
      /\ \A s \in Side : st.counts[s] \in Nat
  BY <1>1, HeldTyped, InputsTyped
<1>6. st.values = SumOver(st.cells, Count) /\ st.values \in Nat
  BY <1>1, HeldTyped DEF Counted, TotalsTrue
<1>7. total \in Int /\ N = total + st.values BY <1>1, <1>6, ConsumedSum
<1>8. \A s \in Side : Consumed(st, s) \in Nat /\ Consumed(st, s) <= N
  <2> SUFFICES ASSUME NEW s \in Side
               PROVE  Consumed(st, s) \in Nat /\ Consumed(st, s) <= N
    OBVIOUS
  <2> DEFINE a == st.counts[s]
             b == Retained(st, s)
  <2>1. a - b >= 0 /\ a \in Nat /\ b \in Nat
    BY <1>1, <1>5 DEF Counted, RetainedTrue, Consumed
  <2>3. a <= N BY <1>1, InputsTyped
  <2> HIDE DEF a, b, N
  <2>2. a - b \in Nat /\ a - b <= N BY <1>5, <2>1, <2>3
  <2> QED BY <2>2 DEF Consumed, a, b
<1>9. /\ \E s \in Side : Min(used) = Consumed(st, s)
      /\ \E s \in Side : Max(used) = Consumed(st, s)
  <2> HIDE DEF N
  <2> QED BY <1>5, <1>8, UsedExtremes
<1>10. ASSUME join.emit = "final"
       PROVE  /\ m + n <= join.keys /\ m + n <= N /\ (N > 0 => m + n > 0)
              /\ m <= e /\ e <= m * p
              /\ join.insert = "product" => /\ m + st.values <= N
                                            /\ \A s \in Side : Consumed(st, s) <= e
  BY <1>1, <1>10 DEF Counted, DrainedTrue
<1> HIDE DEF N, n, e, p, r, total
\* A bound on the keys emitted is one on the rows.
<1>11. ASSUME join.emit = "final", NEW a \in Nat, m <= a PROVE e <= a * p
  <2>1. m * p \in Nat /\ a * p \in Nat /\ m * p <= a * p BY <1>2, <1>4, <1>11, MoreTimes
  <2> DEFINE x == m * p
             y == a * p
  <2>2. e <= x BY <1>10, <1>11
  <2>3. e \in Nat BY <1>1
  <2> HIDE DEF x, y
  <2>4. e <= y BY <2>1, <2>2, <2>3 DEF x, y
  <2> QED BY <2>4 DEF y
<1>12. e <= N * r
  <2>1. CASE join.emit # "final" BY <1>1, <2>1 DEF Counted, EmittedTrue, N, e, r
  <2>2. CASE join.emit = "final"
    <3>1. m <= N BY <1>2, <1>5, <1>10, <2>2
    <3>2. e <= N * p BY <1>5, <1>11, <2>2, <3>1
    <3>3. N * p \in Nat /\ N * r \in Nat /\ N * p <= N * r
      <4>1. p * N \in Nat /\ r * N \in Nat /\ p * N <= r * N BY <1>4, <1>5, MoreTimes
      <4>2. p * N = N * p /\ r * N = N * r BY <1>4, <1>5
      <4> QED BY <4>1, <4>2
    <3> DEFINE x == N * p
               y == N * r
    <3>4. e \in Nat BY <1>1
    <3> HIDE DEF x, y
    <3>5. e <= y BY <3>2, <3>3, <3>4 DEF x, y
    <3> QED BY <3>5 DEF y
  <2> QED BY <2>1, <2>2
<1>13. /\ join.insert = "product" /\ join.emit # "complete" => N <= join.values
       /\ st.phase = "open" /\ join.emit # "complete" =>
             \A s \in Side : IF join.insert = "product" THEN Retained(st, s) = st.counts[s]
                             ELSE st.counts[s] > 0 => Retained(st, s) > 0
  BY <1>1 DEF Counted, RetainedTrue, N
<1>14. join.emit = "running" => e >= N /\ (join.insert # "product" => e = N)
  BY <1>1 DEF Counted, EmittedTrue, N, e
<1>15. ASSUME join.emit = "complete" PROVE e <= Min(used) * p
  <2>1. PICK s \in Side : Min(used) = Consumed(st, s) BY <1>9
  <2>2. e <= Consumed(st, s) * p BY <1>1, <1>15 DEF Counted, EmittedTrue, e, p
  <2> QED BY <2>1, <2>2
<1>16. ASSUME join.emit = "final"
       PROVE  /\ st.phase = "open" => e = 0
              /\ join.insert # "product" => e <= N - n
              /\ st.phase = "closed" /\ N > 0 => e > 0
              /\ e <= (join.keys - n) * p
              /\ join.insert = "product" => Max(used) <= e /\ e <= total * r
  <2>1. st.phase = "open" => e = 0
    <3> SUFFICES ASSUME st.phase = "open" PROVE e = 0 OBVIOUS
    <3>1. e <= 0 * p BY <1>2, <1>10, <1>16
    <3>2. 0 * p = 0 BY <1>4
    <3> QED BY <1>1, <3>1, <3>2
  <2>2. join.insert # "product" => e <= N - n
    <3> SUFFICES ASSUME join.insert # "product" PROVE e <= N - n OBVIOUS
    <3>1. p = 1 /\ m + n <= N BY <1>4, <1>10, <1>16
    <3>2. m <= N - n /\ N - n \in Nat BY <1>2, <1>5, <3>1
    <3> DEFINE a == N - n
    <3> HIDE DEF a
    <3>3. e <= a * p BY <1>11, <1>16, <3>2 DEF a
    <3>4. a * p = a BY <3>1, <3>2 DEF a
    <3> QED BY <3>3, <3>4 DEF a
  <2>3. st.phase = "closed" /\ N > 0 => e > 0 BY <1>1, <1>2, <1>3, <1>5, <1>10, <1>16
  <2>4. e <= (join.keys - n) * p
    <3>1. m <= join.keys - n /\ join.keys - n \in Nat
      <4>1. m + n <= join.keys BY <1>10, <1>16
      <4> QED BY <1>2, <1>4, <1>5, <4>1
    <3> QED BY <1>11, <1>16, <3>1
  <2>5. ASSUME join.insert = "product" PROVE Max(used) <= e /\ e <= total * r
    <3>1. PICK s \in Side : Max(used) = Consumed(st, s) BY <1>9
    <3>2. Max(used) <= e BY <1>10, <1>16, <2>5, <3>1
    <3>3. m <= total /\ total \in Nat
      <4>1. m + st.values <= N BY <1>10, <1>16, <2>5
      <4> DEFINE v == st.values
      <4>2. m + v <= N /\ v \in Nat /\ N = total + v BY <1>6, <1>7, <4>1
      <4> HIDE DEF v
      <4> QED BY <1>2, <1>5, <1>7, <4>2
    <3>4. e <= total * p BY <1>11, <1>16, <3>3
    <3>5. p = r BY <1>4, <2>5
    <3> QED BY <3>2, <3>4, <3>5
  <2> QED BY <2>1, <2>2, <2>3, <2>4, <2>5
<1>17. join.emit \in {"complete", "final", "running"} BY <1>1, JoinTyped
<1> HIDE DEF used
<1>18. /\ e <= N * r
       /\ join.insert = "product" /\ join.emit # "complete" => N <= join.values
       /\ CASE join.emit = "running" -> e >= N /\ (join.insert # "product" => e = N)
            [] join.emit = "complete" -> e <= Min(used) * p
            [] join.emit = "final" ->
                 /\ st.phase = "open" => e = 0
                 /\ join.insert # "product" => e <= N - n
                 /\ st.phase = "closed" /\ N > 0 => e > 0
                 /\ e <= (join.keys - n) * p
                 /\ join.insert = "product" => Max(used) <= e /\ e <= total * r
  BY <1>12, <1>13, <1>14, <1>15, <1>16, <1>17
<1> QED BY <1>13, <1>18 DEF CountersAdmitted, PerKey, KeysOf, N, n, e, p, r, used, total, st
LEMMA InvRestores == JoinInv /\ CountInv => CheckpointRestores
<1> SUFFICES ASSUME JoinInv, CountInv PROVE CheckpointRestores OBVIOUS
<1>1. /\ state.bytes = SumOver(state.cells, CellBytes)
      /\ state.values = SumOver(state.cells, Count)
  BY DEF CountInv, TotalsTrue
<1>2. /\ MeasuredCells(state.cells) /\ state.counts \in [Side -> Nat] /\ state.emitted \in Nat
      /\ state = [field \in StateFields |-> state[field]]
  BY CountFits
<1>3. TypeOK
  <2>1. state.bytes \in Nat /\ state.values \in Nat BY <1>1, <1>2, HeldTyped
  <2>2. /\ join \in Joins /\ StateTyped(state)
        /\ arrivals \in Seq(Arrival) /\ emissions \in Seq(Emission)
    BY DEF JoinInv, HistoryTyped
  <2>3. \A k \in DOMAIN state.cells : state.cells[k] \in [Side -> Seq(Nat)]
    BY <1>2 DEF MeasuredCells, Cell
  <2>4. ASSUME NEW e \in DOMAIN emissions
        PROVE  emissions[e].key \in Key /\ emissions[e].rows # <<>>
    <3>1. e \in 1 .. Len(emissions) BY <2>2
    <3>2. emissions[e] \in Emission BY <2>2, <3>1, ElementOfSeq
    <3>3. Exact(join, arrivals, emissions, e) BY <3>1 DEF JoinInv, EmissionsExact
    <3> QED BY <3>2, <3>3 DEF Emission, Exact
  <2> QED BY <1>2, <2>1, <2>2, <2>3, <2>4 DEF TypeOK, StateTyped, Arrival
<1>4. RestoredJoin(state) = state
  <2>1. RestoredJoin(state) = [state EXCEPT !.bytes = state.bytes, !.values = state.values]
    BY <1>1 DEF RestoredJoin
  <2>2. [state EXCEPT !.bytes = state.bytes, !.values = state.values] = state
    <3>1. state = [field \in StateFields |-> state[field]] BY <1>2
    <3> DEFINE st == state
    <3> HIDE DEF st
    <3>2. st = [field \in StateFields |-> st[field]] BY <3>1 DEF st
    <3>3. [st EXCEPT !.bytes = st.bytes, !.values = st.values] = st BY ONLY <3>2
    <3> QED BY <3>3 DEF st
  <2> QED BY <2>1, <2>2
<1> QED BY <1>3, <1>4, ShapeRestores, CountersRestore DEF CheckpointRestores

(***************************************************************************)
(* Whatever a join went through, a checkpoint of it passes the checks of   *)
(* its own restore, and restores the state it was taken of (JoinCheckpoint *)
(* and from_checkpoint of keyed_join.py).                                  *)
(***************************************************************************)
THEOREM JoinCheckpointsRestore == Spec => []CheckpointRestores
<1>1. Spec => []JoinInv BY JoinInvInit, JoinInvNext, PTL DEF Spec
<1> QED BY <1>1, CountsStayTrue, InvRestores, PTL
\* A draining join has a key that fits its batch.
LEMMA DrainSelects ==
    ASSUME JoinInv, CountInv, state.phase = "draining", NEW maxKeys \in Nat \ {0}
    PROVE  Selected(join, state, maxKeys) # {}
<1> DEFINE a == state.cells
           D == DOMAIN a
<1>1. /\ join \in Joins /\ MeasuredCells(a) /\ IsFiniteSet(D) /\ D \in SUBSET Int /\ D # {}
  BY CountFits DEF MeasuredCells, JoinInv, PhasesFit
<1>2. PICK k \in D : \A j \in D : k <= j
  <2> HIDE DEF D
  <2>1. /\ InOrder(D) = InOrder(D)
        /\ Cardinality(D) \in Nat /\ DOMAIN InOrder(D) = 1 .. Cardinality(D)
        /\ \A i \in 1 .. Cardinality(D) : InOrder(D)[i] \in D
        /\ \A k \in D : \E i \in 1 .. Cardinality(D) : InOrder(D)[i] = k
        /\ \A i, j \in 1 .. Cardinality(D) : i < j => InOrder(D)[i] < InOrder(D)[j]
    BY <1>1, InOrderSorts
  <2>2. PICK d \in D : TRUE BY <1>1
  <2>3. PICK i \in 1 .. Cardinality(D) : InOrder(D)[i] = d BY <2>1
  <2>4. 1 \in 1 .. Cardinality(D) BY <2>1, <2>3
  <2>5. ASSUME NEW j \in D PROVE InOrder(D)[1] <= j
    <3>1. PICK n \in 1 .. Cardinality(D) : InOrder(D)[n] = j BY <2>1
    <3>2. InOrder(D)[1] \in Int /\ j \in Int BY <1>1, <2>1, <2>4
    <3>3. CASE n = 1 BY <3>1, <3>2, <3>3
    <3>4. CASE n # 1
      <4>1. 1 < n BY <2>1, <3>4
      <4>2. InOrder(D)[1] < InOrder(D)[n] BY <2>1, <2>4, <4>1
      <4> QED BY <3>1, <3>2, <4>2
    <3> QED BY <3>3, <3>4
  <2> QED BY <2>1, <2>4, <2>5
<1> DEFINE upTo == {j \in D : j <= k}
           v == a[k]
<1>3. upTo = {k}
  <2> SUFFICES ASSUME NEW j \in D PROVE j <= k <=> j = k OBVIOUS
  <2>1. j \in Int /\ k \in Int /\ k <= j BY <1>1, <1>2
  <2> QED BY <2>1
<1>4. Cardinality(upTo) <= maxKeys /\ IsFiniteSet(upTo) /\ upTo \in SUBSET D
  <2>1. IsFiniteSet({k}) /\ Cardinality({k}) = 1 BY FS_Singleton
  <2> HIDE DEF upTo
  <2>2. IsFiniteSet(upTo) /\ Cardinality(upTo) = 1 BY <1>3, <2>1
  <2>3. upTo \in SUBSET D BY <1>2, <1>3
  <2> QED BY <2>2, <2>3
<1>5. v \in Cell /\ CellAdmitted(join, v) BY CellsHeld
<1>6. /\ join.rowsPerKey <= join.rowsPerBatch
      /\ join.rowsPerKey \in Nat /\ join.rowsPerBatch \in Nat
  BY <1>1, JoinAssumption
<1>7. /\ RowCount(v) \in Nat /\ OutputBytes(v) \in Nat
      /\ RowCount(v) <= join.rowsPerKey /\ OutputBytes(v) <= join.batchBytes
  <2> HIDE DEF v
  <2> QED BY <1>5, CellMeasures DEF CellAdmitted
<1>8. /\ SumOver(Restrict(a, upTo), RowCount) = RowCount(v)
      /\ SumOver(Restrict(a, upTo), OutputBytes) = OutputBytes(v)
  <2>2. /\ SumOver(Restrict(a, upTo), RowCount) = SumFunctionOnSet(RowsAt(a), upTo)
        /\ SumOver(Restrict(a, upTo), OutputBytes) = SumFunctionOnSet(OutputAt(a), upTo)
    BY <1>4, SumsRestrict
  <2>3. RowsAt(a)[k] = RowCount(v) /\ OutputAt(a)[k] = OutputBytes(v) BY DEF RowsAt, OutputAt
  <2> HIDE DEF a, D, upTo, v
  <2>4. ASSUME NEW f, f[k] \in Nat PROVE SumFunctionOnSet(f, upTo) = f[k]
    <3>1. \A j \in {k} : f[j] \in Int BY <2>4
    <3>2. SumFunctionOnSet(f, {k}) = f[k] + SumFunctionOnSet(f, {k} \ {k})
      BY <3>1, FS_Singleton, SumWithout
    <3>3. {k} \ {k} = {} OBVIOUS
    <3>4. SumFunctionOnSet(f, {k} \ {k}) = 0 BY <3>3, SumOfNone
    <3> QED BY <1>3, <2>4, <3>2, <3>4
  <2>5. SumFunctionOnSet(RowsAt(a), upTo) = RowCount(v) BY <1>7, <2>3, <2>4
  <2>6. SumFunctionOnSet(OutputAt(a), upTo) = OutputBytes(v) BY <1>7, <2>3, <2>4
  <2> QED BY <2>2, <2>5, <2>6
<1>9. Fits(join, state, upTo)
  <2> DEFINE x == RowCount(v)
             y == join.rowsPerKey
             z == join.rowsPerBatch
  <2>1. x \in Nat /\ y \in Nat /\ z \in Nat /\ x <= y /\ y <= z BY <1>6, <1>7
  <2> HIDE DEF x, y, z
  <2>2. x <= z BY <2>1
  <2> QED BY <1>7, <1>8, <2>2 DEF Fits, x, z
<1>10. k \in Selected(join, state, maxKeys) BY <1>4, <1>9 DEF Selected
<1> QED BY <1>10

(***************************************************************************)
(* A drain of a join whose sides have ended is never in vain: some key     *)
(* fits the batch it is drained into, whatever the limits (the safety half *)
(* of EndsClosed; drain of keyed_join.py).                                 *)
(***************************************************************************)
THEOREM DrainsTakeKeys ==
    Spec => [](state.phase = "draining" =>
                  \A n \in DrainSizes : Selected(join, state, n) # {})
<1>1. Spec => []JoinInv BY JoinInvInit, JoinInvNext, PTL DEF Spec
<1>2. JoinInv /\ CountInv =>
         (state.phase = "draining" => \A n \in DrainSizes : Selected(join, state, n) # {})
  BY DrainSelects, RuntimeAssumption
<1> QED BY <1>1, <1>2, CountsStayTrue, PTL
=============================================================================
