----------------------------- MODULE Foundations -----------------------------
(***************************************************************************)
(* What several proof modules rest on.                                     *)
(*                                                                         *)
(* Induction over the natural numbers: the induction theorems of the       *)
(* library take a predicate as a parameter; here the predicate is a set,   *)
(* the numbers that satisfy it, and the principle comes from the           *)
(* well-foundedness of < alone.                                            *)
(*                                                                         *)
(* Recursion over them, and along a rank: the function an equation         *)
(* describes exists, which is what a definition by recursion takes for     *)
(* granted.                                                                *)
(*                                                                         *)
(* Remainders.                                                             *)
(*                                                                         *)
(* Parts of a sequence: which part of a concatenation stands where.        *)
(***************************************************************************)
EXTENDS Integers, Sequences, WellFoundedInduction, TLAPS

\* A nonempty set of natural numbers has a least element.
LEMMA LeastNatural ==
  ASSUME NEW T \in SUBSET Nat, T # {}
  PROVE  \E m \in T : \A k \in T : m <= k
<1>1. PICK m \in T : \A k \in T : <<k, m>> \notin OpToRel(<, Nat)
  BY WFMin, NatLessThanWellFounded, Zenon
<1>2. ASSUME NEW k \in T, k < m PROVE <<k, m>> \in OpToRel(<, Nat)
  <2>1. <<k, m>> \in {ss \in Nat \X Nat : ss[1] < ss[2]}
    BY <1>2
  <2> QED BY <2>1 DEF OpToRel
<1>3. \A k \in T : ~(k < m)
  BY <1>1, <1>2
<1> QED BY <1>3

\* A set that holds 0 and with every number the next one holds them all.
LEMMA NaturalInduction ==
  ASSUME NEW T, 0 \in T, \A n \in Nat : n \in T => n + 1 \in T
  PROVE  \A n \in Nat : n \in T
<1> SUFFICES ASSUME Nat \ T # {} PROVE FALSE
  OBVIOUS
<1>1. PICK m \in Nat \ T : \A k \in Nat \ T : m <= k
  BY LeastNatural
<1>2. m # 0 /\ m - 1 \in Nat /\ m - 1 \in T
  BY <1>1
<1> QED BY <1>1, <1>2

\* The same up to a bound.
LEMMA BoundedInduction ==
  ASSUME NEW n \in Nat, NEW T, 0 \in T,
         \A k \in 0..(n - 1) : k \in T => k + 1 \in T
  PROVE  \A k \in 0..n : k \in T
<1> DEFINE U == T \cup {k \in Nat : k > n}
<1>1. 0 \in U
  OBVIOUS
<1>2. ASSUME NEW k \in Nat, k \in U PROVE k + 1 \in U
  <2>1. CASE k + 1 > n
    BY <2>1
  <2>2. CASE ~(k + 1 > n)
    <3>1. k \in 0..(n - 1) /\ k \in T
      BY <1>2, <2>2
    <3> QED BY <3>1
  <2> QED BY <2>1, <2>2
<1>3. \A k \in Nat : k \in U
  <2> HIDE DEF U
  <2> QED BY <1>1, <1>2, NaturalInduction
<1> QED BY <1>3

------------------------------------------------------------------------------
(* Functions that a recursive equation describes *)

\* Of f, each value follows from the one before it; from that of a smaller
\* number, down to c.
Iterates(f, a, h) ==
  f[0] = a /\ \A n \in Nat : f[n + 1] = h[n][f[n]]

Descends(f, c, a, d, h) ==
  \A n \in Nat : f[n] = IF n < c THEN a[n] ELSE h[n][f[d[n]]]

\* A function on the natural numbers that says of each value how the next one
\* follows from it exists.
LEMMA RecursionOnNat ==
  ASSUME NEW S, NEW a \in S, NEW h \in [Nat -> [S -> S]]
  PROVE  \E f \in [Nat -> S] : Iterates(f, a, h)
<1> DEFINE Upto(g, m) == /\ g \in [0..m -> S]
                         /\ g[0] = a
                         /\ \A n \in 0..(m - 1) : g[n + 1] = h[n][g[n]]
           T == {m \in Nat : \E g \in [0..m -> S] : Upto(g, m)}
<1>1. 0 \in T
  <2> DEFINE g == [k \in 0..0 |-> a]
  <2>1. g \in [0..0 -> S] /\ g[0] = a
    OBVIOUS
  <2>2. \A n \in 0..(0 - 1) : FALSE
    OBVIOUS
  <2> HIDE DEF g
  <2> QED BY <2>1, <2>2
<1>2. ASSUME NEW m \in Nat, m \in T PROVE m + 1 \in T
  <2>1. PICK g \in [0..m -> S] : Upto(g, m)
    BY <1>2
  <2> DEFINE y == h[m][g[m]]
             e == [k \in 0..(m + 1) |-> IF k = m + 1 THEN y ELSE g[k]]
  <2>2. y \in S
    <3>1. g[m] \in S
      BY <2>1
    <3> QED BY <3>1
  <2>3. e \in [0..(m + 1) -> S]
    <3> HIDE DEF y
    <3> QED BY <2>2
  <2>4. e[0] = a
    BY <2>1
  <2>5. ASSUME NEW n \in 0..((m + 1) - 1) PROVE e[n + 1] = h[n][e[n]]
    <3>0. n \in 0..m /\ n + 1 \in 0..(m + 1) /\ n \in 0..(m + 1) /\ n # m + 1
      OBVIOUS
    <3>1. e[n] = g[n]
      BY <3>0
    <3>2. CASE n = m
      <4>1. e[n + 1] = y
        BY <3>0, <3>2
      <4> QED BY <3>1, <3>2, <4>1
    <3>3. CASE n # m
      <4>1. n \in 0..(m - 1) /\ n + 1 # m + 1
        BY <3>0, <3>3
      <4>2. e[n + 1] = g[n + 1]
        BY <3>0, <4>1
      <4>3. g[n + 1] = h[n][g[n]]
        BY <2>1, <4>1
      <4> QED BY <3>1, <4>2, <4>3
    <3> QED BY <3>2, <3>3
  <2> HIDE DEF e
  <2>6. Upto(e, m + 1)
    BY <2>3, <2>4, <2>5
  <2> HIDE DEF Upto
  <2>7. \E x \in [0..(m + 1) -> S] : Upto(x, m + 1)
    BY <2>3, <2>6
  <2> QED BY <2>7
<1>3. \A m \in Nat : m \in T
  <2> HIDE DEF T
  <2> QED BY <1>1, <1>2, NaturalInduction
<1> DEFINE G(m) == CHOOSE g \in [0..m -> S] : Upto(g, m)
           f == [n \in Nat |-> G(n)[n]]
<1>4. ASSUME NEW m \in Nat PROVE G(m) \in [0..m -> S] /\ Upto(G(m), m)
  <2> HIDE DEF Upto
  <2>1. \E g \in [0..m -> S] : Upto(g, m)
    BY <1>3
  <2> QED BY <2>1
<1> HIDE DEF G, Upto
<1>5. ASSUME NEW m \in Nat, NEW j \in 0..m PROVE G(m)[j] = G(j)[j]
  <2> DEFINE g == G(m)  e == G(j)  U == {n \in 0..j : g[n] = e[n]}
  <2>1. Upto(g, m) /\ Upto(e, j)
    BY <1>4
  <2> HIDE DEF g, e
  <2>2. 0 \in U
    BY <2>1 DEF Upto
  <2>3. ASSUME NEW n \in 0..(j - 1), n \in U PROVE n + 1 \in U
    <3>1. n \in 0..(m - 1) /\ n + 1 \in 0..j
      OBVIOUS
    <3>2. g[n + 1] = h[n][g[n]] /\ e[n + 1] = h[n][e[n]] /\ g[n] = e[n]
      BY <2>1, <2>3, <3>1 DEF Upto
    <3> QED BY <3>1, <3>2
  <2>4. \A n \in 0..j : n \in U
    <3>1. j \in Nat
      OBVIOUS
    <3> HIDE DEF U
    <3> QED BY <2>2, <2>3, <3>1, BoundedInduction
  <2>5. g[j] = e[j]
    BY <2>4
  <2> QED BY <2>5 DEF g, e
<1>6. f \in [Nat -> S]
  <2>1. ASSUME NEW n \in Nat PROVE G(n)[n] \in S
    BY <1>4
  <2> QED BY <2>1
<1>7. f[0] = a
  <2>1. Upto(G(0), 0)
    BY <1>4
  <2> QED BY <2>1 DEF Upto
<1>8. ASSUME NEW n \in Nat PROVE f[n + 1] = h[n][f[n]]
  <2>1. Upto(G(n + 1), n + 1) /\ n \in 0..((n + 1) - 1) /\ n \in 0..(n + 1)
    BY <1>4
  <2>2. G(n + 1)[n + 1] = h[n][G(n + 1)[n]]
    BY <2>1 DEF Upto
  <2>3. G(n + 1)[n] = G(n)[n]
    BY <1>5, <2>1
  <2> QED BY <2>2, <2>3
<1> HIDE DEF f
<1> QED BY <1>6, <1>7, <1>8 DEF Iterates

\* The same where a value follows from that of some smaller number, down to c.
LEMMA DescentOnNat ==
  ASSUME NEW S, NEW c \in Nat \ {0}, NEW a \in [Nat -> S],
         NEW d \in [Nat -> Nat], NEW h \in [Nat -> [S -> S]],
         \A n \in Nat : n >= c => d[n] < n
  PROVE  \E f \in [Nat -> S] : Descends(f, c, a, d, h)
<1> DEFINE Next1(g) == [n \in Nat |-> IF n < c THEN a[n] ELSE h[n][g[d[n]]]]
           F == [Nat -> S]
           H == [n \in Nat |-> [g \in F |-> Next1(g)]]
<1>1. ASSUME NEW g \in F PROVE Next1(g) \in F
  <2>1. ASSUME NEW n \in Nat
        PROVE  (IF n < c THEN a[n] ELSE h[n][g[d[n]]]) \in S
    <3>1. g[d[n]] \in S /\ a[n] \in S
      BY <1>1
    <3>2. h[n][g[d[n]]] \in S
      BY <3>1
    <3> QED BY <3>1, <3>2
  <2> QED BY <2>1
<1> HIDE DEF Next1
<1>2. H \in [Nat -> [F -> F]]
  <2>1. [g \in F |-> Next1(g)] \in [F -> F]
    BY <1>1
  <2> QED BY <2>1
<1>3. \E r \in [Nat -> F] : Iterates(r, a, H)
  <2> HIDE DEF F, H
  <2>1. a \in F
    BY DEF F
  <2> QED BY <1>2, <2>1, RecursionOnNat, Zenon
<1>4. PICK r \in [Nat -> F] : \A n \in Nat : r[n + 1] = H[n][r[n]]
  BY <1>3 DEF Iterates
<1>5. ASSUME NEW n \in Nat PROVE r[n + 1] = Next1(r[n])
  <2>1. r[n] \in F
    BY <1>4
  <2>2. H[n][r[n]] = Next1(r[n])
    BY <2>1
  <2> QED BY <1>4, <2>2
<1> HIDE DEF H
<1> DEFINE T == {m \in Nat : \A k \in Nat, j \in Nat :
                   k < m /\ j > k => r[j][k] = r[k + 1][k]}
<1>6. 0 \in T
  OBVIOUS
<1>7. ASSUME NEW m \in Nat, m \in T PROVE m + 1 \in T
  <2>1. ASSUME NEW k \in Nat, NEW j \in Nat, k < m + 1, j > k
        PROVE  r[j][k] = r[k + 1][k]
    <3>1. j - 1 \in Nat /\ (j - 1) + 1 = j
      BY <2>1
    <3>2. r[j] = Next1(r[j - 1]) /\ r[k + 1] = Next1(r[k])
      BY <1>5, <3>1, Zenon
    <3>3. CASE k < c
      BY <3>2, <3>3 DEF Next1
    <3>4. CASE ~(k < c)
      <4>1. d[k] \in Nat /\ d[k] < k
        BY <3>4
      <4>2. d[k] < m /\ j - 1 > d[k]
        BY <2>1, <4>1
      <4>3. r[j - 1][d[k]] = r[d[k] + 1][d[k]] /\ r[k][d[k]] = r[d[k] + 1][d[k]]
        BY <1>7, <3>1, <4>1, <4>2
      <4>4. /\ r[j][k] = h[k][r[j - 1][d[k]]]
            /\ r[k + 1][k] = h[k][r[k][d[k]]]
        BY <3>2, <3>4 DEF Next1
      <4> QED BY <4>3, <4>4
    <3> QED BY <3>3, <3>4
  <2> QED BY <2>1
<1>8. \A m \in Nat : m \in T
  <2> HIDE DEF T
  <2> QED BY <1>6, <1>7, NaturalInduction
<1>9. ASSUME NEW k \in Nat, NEW j \in Nat, j > k PROVE r[j][k] = r[k + 1][k]
  <2>1. k + 1 \in T /\ k < k + 1
    <3> HIDE DEF T
    <3> QED BY <1>8
  <2> QED BY <1>9, <2>1
<1> HIDE DEF T
<1> DEFINE f == [n \in Nat |-> r[n + 1][n]]
<1>10. f \in [Nat -> S]
  <2>1. ASSUME NEW n \in Nat PROVE r[n + 1][n] \in S
    <3>1. r[n + 1] \in [Nat -> S]
      BY <1>4
    <3> QED BY <3>1
  <2> QED BY <2>1
<1>11. ASSUME NEW n \in Nat
       PROVE  f[n] = IF n < c THEN a[n] ELSE h[n][f[d[n]]]
  <2>1. f[n] = Next1(r[n])[n]
    BY <1>5
  <2>2. CASE n < c
    BY <2>1, <2>2 DEF Next1
  <2>3. CASE ~(n < c)
    <3>1. d[n] \in Nat /\ n > d[n]
      BY <2>3
    <3>2. f[d[n]] = r[n][d[n]]
      BY <1>9, <3>1
    <3> QED BY <2>1, <2>3, <3>2 DEF Next1
  <2> QED BY <2>2, <2>3
<1> HIDE DEF f
<1> QED BY <1>10, <1>11 DEF Descends

------------------------------------------------------------------------------
(* Parts of a sequence *)

\* part stands in b behind its first at elements, as far as b goes.
StandsAt(b, at, part) ==
  \A k \in 1..Len(part) : at + k <= Len(b) => b[at + k] = part[k]

\* s is how b begins.
Begins(s, b) ==
  /\ Len(s) <= Len(b)
  /\ \A k \in 1..Len(s) : b[k] = s[k]

\* What is appended stands behind what was there, and that is the beginning.
LEMMA ConcatParts ==
  ASSUME NEW S, NEW s \in Seq(S), NEW t \in Seq(S)
  PROVE  /\ s \o t \in Seq(S)
         /\ Len(s \o t) = Len(s) + Len(t)
         /\ StandsAt(s \o t, Len(s), t)
         /\ Begins(s, s \o t)
<1>1. /\ Len(s) \in Nat /\ Len(t) \in Nat
      /\ s \o t \in Seq(S) /\ Len(s \o t) = Len(s) + Len(t)
  OBVIOUS
<1>2. ASSUME NEW k \in 1..Len(t) PROVE (s \o t)[Len(s) + k] = t[k]
  OBVIOUS
<1>3. ASSUME NEW k \in 1..Len(s) PROVE (s \o t)[k] = s[k]
  OBVIOUS
<1> QED BY <1>1, <1>2, <1>3 DEF StandsAt, Begins

LEMMA BeginsTransitive ==
  ASSUME NEW S, NEW r \in Seq(S), NEW s \in Seq(S), NEW t \in Seq(S),
         Begins(r, s), Begins(s, t)
  PROVE  Begins(r, t)
<1>1. Len(r) \in Nat /\ Len(s) \in Nat /\ Len(t) \in Nat
  OBVIOUS
<1> QED BY <1>1 DEF Begins

\* A part of the beginning is a part of the whole.
LEMMA StandsInWhole ==
  ASSUME NEW S, NEW s \in Seq(S), NEW b \in Seq(S), NEW part \in Seq(S),
         NEW at \in Nat, Begins(s, b), at + Len(part) <= Len(s),
         StandsAt(s, at, part)
  PROVE  StandsAt(b, at, part)
<1>1. Len(s) \in Nat /\ Len(b) \in Nat /\ Len(part) \in Nat
  OBVIOUS
<1>2. ASSUME NEW k \in 1..Len(part) PROVE b[at + k] = part[k]
  <2>1. at + k \in 1..Len(s) /\ at + k <= Len(s)
    BY <1>1
  <2> QED BY <2>1 DEF Begins, StandsAt
<1> QED BY <1>2 DEF StandsAt

\* What arrives of a message, perhaps with something behind it, holds its parts
\* where they were.
LEMMA StandsInArrived ==
  ASSUME NEW S, NEW s \in Seq(S), NEW more \in Seq(S), NEW part \in Seq(S),
         NEW at \in Nat, at + Len(part) <= Len(s), StandsAt(s, at, part),
         NEW n \in 0..Len(s \o more)
  PROVE  /\ SubSeq(s \o more, 1, n) \in Seq(S)
         /\ Len(SubSeq(s \o more, 1, n)) = n
         /\ StandsAt(SubSeq(s \o more, 1, n), at, part)
<1> DEFINE b == SubSeq(s \o more, 1, n)
<1>1. StandsAt(s \o more, at, part) /\ s \o more \in Seq(S)
  BY ConcatParts, StandsInWhole
<1>2. b \in Seq(S) /\ Len(b) = n /\ \A k \in 1..n : b[k] = (s \o more)[k]
  BY <1>1
<1>3. Len(s \o more) \in Nat /\ Len(part) \in Nat /\ n \in Nat /\ n <= Len(s \o more)
  BY <1>1
<1>4. ASSUME NEW k \in 1..Len(part), at + k <= n PROVE b[at + k] = part[k]
  <2>1. at + k \in 1..n /\ at + k <= Len(s \o more)
    BY <1>3, <1>4
  <2> QED BY <1>1, <1>2, <2>1 DEF StandsAt
<1> QED BY <1>2, <1>4 DEF StandsAt

\* A message taken apart from its end: what begins with p \o t begins with p and
\* has t behind it.
LEMMA PartOfBeginning ==
  ASSUME NEW S, NEW p \in Seq(S), NEW t \in Seq(S), NEW b \in Seq(S),
         Begins(p \o t, b)
  PROVE  Begins(p, b) /\ StandsAt(b, Len(p), t)
<1> DEFINE s == p \o t
<1>1. /\ s \in Seq(S) /\ Len(s) = Len(p) + Len(t) /\ Len(p) \in Nat
      /\ StandsAt(s, Len(p), t) /\ Begins(p, s)
  BY ConcatParts
<1>2. Begins(s, b)
  OBVIOUS
<1> HIDE DEF s
<1>3. Begins(p, b)
  BY <1>1, <1>2, BeginsTransitive
<1>4. StandsAt(b, Len(p), t)
  <2>1. Len(p) + Len(t) <= Len(s)
    BY <1>1
  <2> QED BY <1>1, <1>2, <2>1, StandsInWhole
<1> QED BY <1>3, <1>4

LEMMA BeginningStands ==
  ASSUME NEW S, NEW p \in Seq(S), NEW b \in Seq(S), Begins(p, b)
  PROVE  StandsAt(b, 0, p) /\ Len(p) <= Len(b)
BY DEF Begins, StandsAt

LEMMA BeginsItself ==
  ASSUME NEW S, NEW b \in Seq(S)
  PROVE  Begins(b, b)
BY DEF Begins

\* Where a concatenation stands, its halves stand.
LEMMA HalvesOfPart ==
  ASSUME NEW S, NEW b \in Seq(S), NEW p \in Seq(S), NEW t \in Seq(S), NEW at \in Nat,
         StandsAt(b, at, p \o t)
  PROVE  StandsAt(b, at, p) /\ StandsAt(b, at + Len(p), t)
<1> DEFINE s == p \o t
<1>1. /\ Len(p) \in Nat /\ Len(t) \in Nat /\ Len(b) \in Nat
      /\ Len(s) = Len(p) + Len(t)
  OBVIOUS
<1>2. \A k \in 1..Len(p) : s[k] = p[k]
  OBVIOUS
<1>3. \A k \in 1..Len(t) : s[Len(p) + k] = t[k]
  OBVIOUS
<1>4. StandsAt(b, at, s)
  OBVIOUS
<1> HIDE DEF s
<1>5. ASSUME NEW k \in 1..Len(p), at + k <= Len(b) PROVE b[at + k] = p[k]
  <2>1. k \in 1..Len(s)
    BY <1>1
  <2> QED BY <1>2, <1>4, <1>5, <2>1 DEF StandsAt
<1>6. ASSUME NEW k \in 1..Len(t), (at + Len(p)) + k <= Len(b)
      PROVE  b[(at + Len(p)) + k] = t[k]
  <2>1. Len(p) + k \in 1..Len(s) /\ at + (Len(p) + k) = (at + Len(p)) + k
    BY <1>1
  <2>2. b[at + (Len(p) + k)] = s[Len(p) + k]
    BY <1>4, <1>6, <2>1 DEF StandsAt
  <2> QED BY <1>3, <2>1, <2>2
<1> QED BY <1>5, <1>6 DEF StandsAt

------------------------------------------------------------------------------
(* Remainders, and recursion along a rank *)

\* A multiple of b strictly between -b and b is 0.
LEMMA Multiples ==
  ASSUME NEW b \in Nat \ {0}, NEW x \in Int, b * x > -b, b * x < b
  PROVE  x = 0
<1>1. x >= 1 => b * x >= b
  OBVIOUS
<1>2. x <= -1 => b * x <= -b
  OBVIOUS
<1> QED BY <1>1, <1>2

\* Quotient and remainder give the number back.
LEMMA DividesOut ==
  ASSUME NEW b \in Nat \ {0}, NEW a \in Int
  PROVE  /\ a = b * (a \div b) + (a % b)
         /\ a \div b \in Int /\ a % b \in 0..(b - 1)
OBVIOUS

\* Multiples of the divisor do not count in the remainder.
LEMMA ModOfMultiple ==
  ASSUME NEW b \in Nat \ {0}, NEW a \in Int, NEW k \in Int
  PROVE  (a + k * b) % b = a % b
<1> DEFINE c == a + k * b
           q == a \div b
           r == a % b
           p == c \div b
           s == c % b
<1>0. c \in Int
  OBVIOUS
<1>1. a = (b * q) + r /\ q \in Int /\ r \in 0..(b - 1)
  BY DividesOut
<1>2. c = b * p + s /\ p \in Int /\ s \in 0..(b - 1)
  <2> HIDE DEF c
  <2> QED BY <1>0, DividesOut
<1>3. c = a + b * k
  OBVIOUS
<1> HIDE DEF c, q, r, p, s
<1>4. b * p - b * q - b * k = r - s
  BY <1>0, <1>1, <1>2, <1>3
<1> DEFINE x == p - q - k
<1>5. x \in Int /\ b * x = b * p - b * q - b * k
  BY <1>1, <1>2
<1>6. b * x > -b /\ b * x < b
  BY <1>1, <1>2, <1>4, <1>5
<1>7. x = 0
  <2> HIDE DEF x
  <2> QED BY <1>5, <1>6, Multiples
<1>8. b * x = 0
  BY <1>7
<1>9. r - s = 0
  BY <1>4, <1>5, <1>8
<1> QED BY <1>1, <1>2, <1>9 DEF r, s, c

\* Nor does the divisor itself.
LEMMA ModOfOneMore ==
  ASSUME NEW b \in Nat \ {0}, NEW a \in Int
  PROVE  (a + b) % b = a % b
<1>1. 1 \in Int /\ 1 * b = b
  OBVIOUS
<1>2. (a + 1 * b) % b = a % b
  BY <1>1, ModOfMultiple, Zenon
<1> QED BY <1>1, <1>2

\* A number below the divisor is its own remainder.
LEMMA SmallMod ==
  ASSUME NEW b \in Nat \ {0}, NEW a \in 0..(b - 1)
  PROVE  a % b = a
OBVIOUS

\* Numbers that are closer than the divisor are told by their remainders.
LEMMA CloseNumbers ==
  ASSUME NEW b \in Nat \ {0}, NEW v \in Int, NEW w \in Int, v - w < b, w - v < b,
         v % b = w % b
  PROVE  v = w
<1> DEFINE q == v \div b
           r == v % b
           p == w \div b
           s == w % b
<1>1. v = b * q + r /\ q \in Int /\ r \in 0..(b - 1)
  BY DividesOut
<1>2. w = b * p + s /\ p \in Int /\ s \in 0..(b - 1) /\ s = r
  BY DividesOut
<1> HIDE DEF q, r, p, s
<1> DEFINE x == q - p
<1>3. x \in Int /\ b * x = b * q - b * p
  BY <1>1, <1>2
<1>4. b * x = v - w
  BY <1>1, <1>2, <1>3
<1>5. b * x > -b /\ b * x < b
  BY <1>4
<1>6. x = 0
  <2> HIDE DEF x
  <2> QED BY <1>3, <1>5, Multiples
<1>7. b * x = 0
  BY <1>6
<1> QED BY <1>4, <1>7

\* What H makes of a function is at x what the function is below x.
FromBelow(D, S, rank, H) ==
  \A x \in D : \A g, h \in [D -> S] :
    (\A y \in D : rank[y] < rank[x] => g[y] = h[y]) => H[g][x] = H[h][x]

\* f is what H makes of f.
Repeats(f, H) == f = H[f]

\* Recursion along a rank.
LEMMA RankedRecursion ==
  ASSUME NEW D, NEW S, NEW a \in [D -> S], NEW rank \in [D -> Nat],
         NEW H \in [[D -> S] -> [D -> S]], FromBelow(D, S, rank, H)
  PROVE  \E f \in [D -> S] : Repeats(f, H)
<1> DEFINE F == [D -> S]
           h == [n \in Nat |-> H]
<1>1. h \in [Nat -> [F -> F]] /\ a \in F
  OBVIOUS
<1> HIDE DEF F, h
<1>2. PICK g \in [Nat -> F] : Iterates(g, a, h)
  BY <1>1, RecursionOnNat
<1>3. \A n \in Nat : g[n] \in [D -> S] /\ g[n + 1] = H[g[n]]
  BY <1>2 DEF Iterates, F, h
<1> DEFINE T == {n \in Nat : \A x \in D : rank[x] < n => g[n + 1][x] = g[n][x]}
<1>4. 0 \in T
  OBVIOUS
<1>5. ASSUME NEW n \in Nat, n \in T PROVE n + 1 \in T
  <2>1. ASSUME NEW x \in D, rank[x] < n + 1
        PROVE  g[(n + 1) + 1][x] = g[n + 1][x]
    <3>1. n + 1 \in Nat
      OBVIOUS
    <3>2. g[(n + 1) + 1] = H[g[n + 1]] /\ g[n + 1] = H[g[n]] /\ g[n + 1] \in [D -> S] /\ g[n] \in [D -> S]
      BY <1>3, <3>1
    <3>3. \A y \in D : rank[y] < rank[x] => g[n + 1][y] = g[n][y]
      BY <1>5, <2>1
    <3>4. H[g[n + 1]][x] = H[g[n]][x]
      BY <3>2, <3>3 DEF FromBelow
    <3> QED BY <3>2, <3>4
  <2> QED BY <2>1
<1>6. \A n \in Nat : n \in T
  <2> HIDE DEF T
  <2> QED BY <1>4, <1>5, NaturalInduction
<1>7. ASSUME NEW x \in D, NEW k \in Nat PROVE g[(rank[x] + 1) + k][x] = g[rank[x] + 1][x]
  <2> DEFINE m == rank[x] + 1
             U == {i \in Nat : g[m + i][x] = g[m][x]}
  <2>1. m \in Nat /\ rank[x] \in Nat /\ m + 0 = m
    OBVIOUS
  <2>2. 0 \in U
    BY <2>1
  <2>3. ASSUME NEW i \in Nat, i \in U PROVE i + 1 \in U
    <3>1. m + i \in Nat /\ rank[x] < m + i /\ m + (i + 1) = (m + i) + 1
      BY <2>1
    <3>2. g[(m + i) + 1][x] = g[m + i][x]
      BY <1>6, <3>1
    <3> QED BY <2>3, <3>1, <3>2
  <2>4. \A i \in Nat : i \in U
    <3> HIDE DEF U
    <3> QED BY <2>2, <2>3, NaturalInduction
  <2> QED BY <2>4
<1> DEFINE f == [x \in D |-> g[rank[x] + 1][x]]
<1>8. f \in [D -> S]
  BY <1>3
<1>9. ASSUME NEW x \in D PROVE H[f][x] = f[x]
  <2>1. rank[x] \in Nat /\ g[rank[x]] \in [D -> S] /\ g[rank[x] + 1] = H[g[rank[x]]]
    BY <1>3
  <2>2. ASSUME NEW y \in D, rank[y] < rank[x] PROVE f[y] = g[rank[x]][y]
    <3> DEFINE k == rank[x] - (rank[y] + 1)
    <3>1. k \in Nat /\ (rank[y] + 1) + k = rank[x]
      BY <2>2
    <3> HIDE DEF k
    <3>2. g[(rank[y] + 1) + k][y] = g[rank[y] + 1][y]
      BY <1>7, <3>1
    <3> QED BY <3>1, <3>2
  <2>3. H[f][x] = H[g[rank[x]]][x]
    <3> HIDE DEF f
    <3> QED BY <1>8, <2>1, <2>2 DEF FromBelow
  <2> QED BY <2>1, <2>3
<1>10. H[f] \in [D -> S]
  BY <1>8
<1>11. f = H[f]
  <2> HIDE DEF f
  <2> QED BY <1>8, <1>9, <1>10
<1> QED BY <1>8, <1>11 DEF Repeats

==============================================================================
