--------------------------- MODULE NaturalsLemmas ---------------------------
(***************************************************************************)
(* What the proofs need of the numbers. In the place of induction: a set   *)
(* of naturals has a least member, so a statement that fails somewhere     *)
(* fails somewhere first; and the function that a recursion over the       *)
(* naturals defines exists. Then, division with rest, the products the     *)
(* provers find only when they are told, and finite sets with an order.    *)
(***************************************************************************)
EXTENDS Integers, Sequences, FiniteSets, FiniteSetTheorems, TLAPS, WellFoundedInduction

(* A set of naturals that is not empty has a least member.                 *)
LEMMA LeastNat ==
  ASSUME NEW S, S \subseteq Nat, S # {}
  PROVE  \E m \in S : \A k \in S : m <= k
<1> DEFINE R == {ss \in Nat \X Nat : ss[1] < ss[2]}
<1>1. OpToRel(<, Nat) = R
  BY Zenon DEF OpToRel
<1>2. IsWellFoundedOn(R, Nat)
  BY <1>1, Zenon, NatLessThanWellFounded
<1>3. PICK m \in S : \A k \in Nat : <<k, m>> \in R => k \notin S
  BY <1>2, WFMin, Zenon
<1>4. \A k \in S : ~(k < m)
  BY <1>3
<1> QED
  BY <1>4

(* The function that starts with first and goes on by step.                *)
Iterates(f, S, step, first) ==
  /\ f \in [Nat -> S]
  /\ f[0] = first
  /\ \A n \in Nat : f[n + 1] = step[f[n]]

(* Every first value and every step define such a function.                *)
LEMMA IterationExists ==
  ASSUME NEW S, NEW step \in [S -> S], NEW first \in S
  PROVE  \E f : Iterates(f, S, step, first)
<1> DEFINE Begins(n, g) == /\ g[0] = first
                           /\ \A k \in 0 .. n - 1 : g[k + 1] = step[g[k]]
<1>1. \A n \in Nat : \E g \in [0 .. n -> S] : Begins(n, g)
  <2> DEFINE Bad == {n \in Nat : ~ \E g \in [0 .. n -> S] : Begins(n, g)}
  <2> SUFFICES ASSUME Bad # {} PROVE FALSE
    OBVIOUS
  <2>1. PICK n \in Bad : \A k \in Bad : n <= k
    BY LeastNat
  <2>2. CASE n = 0
    <3>1. [k \in 0 .. 0 |-> first] \in [0 .. 0 -> S]
      OBVIOUS
    <3>2. Begins(0, [k \in 0 .. 0 |-> first])
      OBVIOUS
    <3> QED
      BY <2>2, <3>1, <3>2
  <2>3. CASE n # 0
    <3>1. n - 1 \in Nat /\ n - 1 \notin Bad
      BY <2>1, <2>3
    <3>2. PICK g \in [0 .. n - 1 -> S] : Begins(n - 1, g)
      BY <3>1
    <3> DEFINE h == [k \in 0 .. n |-> IF k = n THEN step[g[n - 1]] ELSE g[k]]
    <3>3. h \in [0 .. n -> S]
      BY <3>1, <3>2
    <3>4. h[0] = first
      BY <3>1, <3>2
    <3>5. ASSUME NEW k \in 0 .. n - 1 PROVE h[k + 1] = step[h[k]]
      <4>1. CASE k = n - 1
        BY <3>1, <4>1
      <4>2. CASE k # n - 1
        <5>1. k \in 0 .. (n - 1) - 1 /\ k + 1 # n /\ k + 1 \in 0 .. n /\ k \in 0 .. n /\ k # n
          BY <3>1, <4>2
        <5> QED
          BY <3>2, <5>1
      <4> QED
        BY <4>1, <4>2
    <3> HIDE DEF h
    <3> QED
      BY <3>3, <3>4, <3>5
  <2> QED
    BY <2>2, <2>3
<1>2. ASSUME NEW n \in Nat, NEW m \in Nat, n <= m,
             NEW g \in [0 .. n -> S], Begins(n, g), NEW h \in [0 .. m -> S], Begins(m, h)
      PROVE  g[n] = h[n]
  <2> DEFINE Bad == {k \in 0 .. n : g[k] # h[k]}
  <2> SUFFICES ASSUME Bad # {} PROVE FALSE
    OBVIOUS
  <2>1. PICK k \in Bad : \A j \in Bad : k <= j
    <3>1. Bad \subseteq Nat
      OBVIOUS
    <3> HIDE DEF Bad
    <3> QED
      BY <3>1, LeastNat
  <2>2. k # 0
    BY <1>2, <2>1
  <2>3. k - 1 \in 0 .. n - 1 /\ k - 1 \in 0 .. m - 1 /\ k - 1 \notin Bad
    BY <1>2, <2>1, <2>2
  <2>4. g[k] = step[g[k - 1]] /\ h[k] = step[h[k - 1]]
    <3>1. k \in Nat /\ (k - 1) + 1 = k
      BY <2>1
    <3>2. \A j \in 0 .. n - 1 : g[j + 1] = step[g[j]]
      BY <1>2
    <3>3. \A j \in 0 .. m - 1 : h[j + 1] = step[h[j]]
      BY <1>2
    <3> QED
      BY <2>3, <3>1, <3>2, <3>3
  <2> QED
    BY <2>1, <2>3, <2>4
<1> DEFINE Upto(n) == CHOOSE g \in [0 .. n -> S] : Begins(n, g)
           f == [n \in Nat |-> Upto(n)[n]]
<1>3. \A n \in Nat : Upto(n) \in [0 .. n -> S] /\ Begins(n, Upto(n))
  BY <1>1
<1> HIDE DEF Upto
<1>4. f \in [Nat -> S]
  BY <1>3
<1>5. f[0] = first
  BY <1>3
<1>6. ASSUME NEW n \in Nat PROVE f[n + 1] = step[f[n]]
  <2>1. Upto(n)[n] = Upto(n + 1)[n]
    <3>1. n + 1 \in Nat /\ n <= n + 1
      OBVIOUS
    <3>2. /\ Upto(n) \in [0 .. n -> S] /\ Begins(n, Upto(n))
          /\ Upto(n + 1) \in [0 .. n + 1 -> S] /\ Begins(n + 1, Upto(n + 1))
      BY <1>3, <3>1
    <3> HIDE DEF Begins
    <3> QED
      BY <1>2, <3>1, <3>2
  <2>2. Upto(n + 1)[n + 1] = step[Upto(n + 1)[n]]
    BY <1>3
  <2> QED
    BY <2>1, <2>2
<1> HIDE DEF f
<1> QED
  BY <1>4, <1>5, <1>6 DEF Iterates

(* The sums of the first members of a sequence of naturals.                *)
LEMMA SumsExist ==
  ASSUME NEW a \in [Nat -> Nat]
  PROVE  \E g : g = [n \in Nat |-> IF n = 0 THEN 0 ELSE g[n - 1] + a[n]]
<1> DEFINE S == Nat \X Nat
           step == [s \in S |-> <<s[1] + 1, s[2] + a[s[1] + 1]>>]
<1>1. step \in [S -> S] /\ <<0, 0>> \in S
  OBVIOUS
<1>2. PICK f : Iterates(f, S, step, <<0, 0>>)
  <2> HIDE DEF step, S
  <2> QED
    BY <1>1, IterationExists
<1>3. /\ f \in [Nat -> S] /\ f[0] = <<0, 0>>
      /\ \A n \in Nat : f[n + 1] = step[f[n]]
  BY <1>2 DEF Iterates
<1>4. \A n \in Nat : f[n] \in S
  BY <1>3
<1>5. \A n \in Nat : /\ f[n + 1][1] = f[n][1] + 1
                     /\ f[n + 1][2] = f[n][2] + a[f[n][1] + 1]
  <2>1. \A s \in S : step[s] = <<s[1] + 1, s[2] + a[s[1] + 1]>>
    OBVIOUS
  <2> HIDE DEF step, S
  <2>2. \A n \in Nat : f[n + 1] = <<f[n][1] + 1, f[n][2] + a[f[n][1] + 1]>>
    BY <1>3, <1>4, <2>1
  <2> QED
    BY <2>2
<1>6. \A n \in Nat : f[n][1] = n
  <2> DEFINE Bad == {n \in Nat : f[n][1] # n}
  <2> SUFFICES ASSUME Bad # {} PROVE FALSE
    OBVIOUS
  <2>1. PICK n \in Bad : \A k \in Bad : n <= k
    <3>1. Bad \subseteq Nat
      OBVIOUS
    <3> HIDE DEF Bad
    <3> QED
      BY <3>1, LeastNat
  <2>2. n # 0
    BY <1>3, <2>1
  <2>3. n - 1 \in Nat /\ n - 1 \notin Bad /\ (n - 1) + 1 = n
    BY <2>1, <2>2
  <2>4. f[n][1] = (n - 1) + 1
    BY <1>5, <2>3
  <2> QED
    BY <2>1, <2>3, <2>4
<1> DEFINE g == [n \in Nat |-> f[n][2]]
<1>7. \A n \in Nat : g[n] = IF n = 0 THEN 0 ELSE g[n - 1] + a[n]
  <2> TAKE n \in Nat
  <2>1. CASE n = 0
    BY <1>3, <2>1
  <2>2. CASE n # 0
    <3>1. n - 1 \in Nat /\ (n - 1) + 1 = n
      BY <2>2
    <3>2. f[n][2] = f[n - 1][2] + a[n]
      BY <1>5, <1>6, <3>1
    <3> QED
      BY <2>2, <3>1, <3>2
  <2> QED
    BY <2>1, <2>2
<1>8. g = [n \in Nat |-> g[n]]
  OBVIOUS
<1> HIDE DEF g
<1>9. g = [n \in Nat |-> IF n = 0 THEN 0 ELSE g[n - 1] + a[n]]
  BY <1>7, <1>8
<1> QED
  BY <1>9

(* Of the members of a set that are weighed by naturals, one weighs least. *)
LEMMA LeastOf ==
  ASSUME NEW S, S # {}, NEW value \in [S -> Nat]
  PROVE  \E x \in S : \A y \in S : value[x] <= value[y]
<1> DEFINE V == {value[x] : x \in S}
<1>1. V \subseteq Nat /\ V # {}
  OBVIOUS
<1> HIDE DEF V
<1>2. PICK m \in V : \A k \in V : m <= k
  BY <1>1, LeastNat
<1> QED
  BY <1>2 DEF V

-----------------------------------------------------------------------------
(* Division with rest.                                                     *)
LEMMA Divided ==
  ASSUME NEW a \in Int, NEW b \in Int, b > 0
  PROVE  /\ a \div b \in Int /\ a % b \in 0 .. b - 1
         /\ a = b * (a \div b) + (a % b)
OBVIOUS

(* There is but one quotient and one rest.                                 *)
LEMMA DividedOnce ==
  ASSUME NEW b \in Int, b > 0, NEW q \in Int, NEW r \in 0 .. b - 1
  PROVE  (b * q + r) % b = r /\ (b * q + r) \div b = q
OBVIOUS

(* What leaves no rest is a multiple.                                      *)
LEMMA MultipleOf ==
  ASSUME NEW x \in Nat \ {0}, NEW m \in Nat, m > 1, x % m = 0
  PROVE  \E k \in Nat \ {0} : x = k * m
<1> DEFINE d == x \div m
<1>1. d \in Int /\ x = m * d
  BY Divided
<1> HIDE DEF d
<1>2. CASE d <= 0
  <2>1. m * d <= m * 0
    BY <1>1, <1>2
  <2> QED
    BY <1>1, <2>1
<1> QED
  BY <1>1, <1>2

(* A multiple leaves no rest.                                              *)
LEMMA WholeMultiple ==
  ASSUME NEW m \in Nat, m > 1, NEW n \in Nat
  PROVE  (n * m) % m = 0
<1>1. m \in Int /\ m > 0 /\ n \in Int /\ 0 \in 0 .. m - 1
  OBVIOUS
<1>2. (m * n + 0) % m = 0
  BY <1>1, DividedOnce
<1>3. n * m = m * n + 0
  OBVIOUS
<1> QED
  BY <1>2, <1>3

(* More of more is no less.                                                *)
LEMMA TimesMonotone ==
  ASSUME NEW a \in Nat, NEW b \in Nat, NEW c \in Nat, NEW d \in Nat, a <= b, c <= d
  PROVE  a * c <= b * d
<1>1. a * c <= b * c
  OBVIOUS
<1>2. b * c <= b * d
  OBVIOUS
<1> QED
  BY <1>1, <1>2

(* What is split between two prices costs no more when it is moved towards *)
(* the lower one.                                                          *)
LEMMA Moved ==
  ASSUME NEW a \in Nat, NEW c \in Nat, NEW n \in Int, NEW x \in Int, NEW z \in Int,
         \/ a >= c /\ z <= x
         \/ a <= c /\ z >= x
  PROVE  a * z + c * (n - z) <= a * x + c * (n - x)
<1>1. (a - c) * (x - z) >= 0
  <2>1. CASE a >= c /\ z <= x
    BY <2>1
  <2>2. CASE a <= c /\ z >= x
    <3>1. (c - a) * (z - x) >= 0
      BY <2>2
    <3> QED
      BY <3>1
  <2> QED
    BY <2>1, <2>2
<1> QED
  BY <1>1

(* Integers given to a finite set have a least one.                        *)
LEMMA LeastOfFinite ==
  ASSUME NEW S, IsFiniteSet(S), NEW value \in [S -> Int], NEW T \in SUBSET S, T # {}
  PROVE  \E x \in T : \A y \in T : value[x] <= value[y]
<1>1. PICK seq \in Seq(S) : \A s \in S : \E n \in 1 .. Len(seq) : seq[n] = s
  BY DEF IsFiniteSet
<1> DEFINE N == Len(seq)
           In(n) == {k \in 1 .. n : seq[k] \in T}
           Least(n) == \E m \in In(n) : \A k \in In(n) : value[seq[m]] <= value[seq[k]]
           Bad == {n \in 0 .. N : In(n) # {} /\ ~Least(n)}
<1>2. /\ N \in Nat /\ \A k \in 1 .. N : seq[k] \in S /\ value[seq[k]] \in Int
      /\ \A s \in S : \E k \in 1 .. N : seq[k] = s
  <2>1. N \in Nat /\ \A k \in 1 .. N : seq[k] \in S /\ value[seq[k]] \in Int
    OBVIOUS
  <2>2. \A s \in S : \E k \in 1 .. N : seq[k] = s
    BY <1>1, Zenon
  <2> QED
    BY <2>1, <2>2
<1> HIDE DEF N
<1>3. Bad = {}
  <2> SUFFICES ASSUME Bad # {} PROVE FALSE
    OBVIOUS
  <2>1. PICK n \in Bad : \A k \in Bad : n <= k
    <3>1. Bad \subseteq Nat
      BY <1>2
    <3> HIDE DEF Bad
    <3> QED
      BY <3>1, LeastNat
  <2>2. n \in 1 .. N /\ n - 1 \in 0 .. N /\ n - 1 \notin Bad /\ In(n) # {} /\ ~Least(n)
    <3>1. n \in 0 .. N /\ In(n) # {} /\ ~Least(n)
      BY <2>1
    <3>2. PICK k \in 1 .. n : TRUE
      BY <3>1
    <3>3. n \in 1 .. N /\ n - 1 \in 0 .. N /\ ~(n <= n - 1)
      BY <1>2, <3>1, <3>2
    <3>4. n - 1 \notin Bad
      <4> HIDE DEF Bad
      <4> QED
        BY <2>1, <3>3
    <3> QED
      BY <3>1, <3>3, <3>4
  <2>3. In(n - 1) \subseteq In(n) /\ \A k \in In(n) : k = n \/ k \in In(n - 1)
    <3>1. n \in Nat \ {0}
      BY <1>2, <2>2
    <3>2. \A k \in 1 .. n - 1 : k \in 1 .. n
      BY <3>1
    <3>3. \A k \in 1 .. n : k = n \/ k \in 1 .. n - 1
      BY <3>1
    <3> QED
      BY <3>2, <3>3
  <2>4. \A k \in In(n) : value[seq[k]] \in Int
    BY <1>2, <2>2
  <2>5. In(n - 1) = {} \/ Least(n - 1)
    BY <2>2
  <2> HIDE DEF In, Bad
  <2>6. n \in In(n)
    BY <2>2, <2>3, <2>5
  <2>7. PICK m \in In(n - 1) : \A k \in In(n - 1) : value[seq[m]] <= value[seq[k]]
    <3>1. CASE In(n - 1) = {}
      <4>1. \A k \in In(n) : k = n
        BY <2>3, <3>1
      <4> QED
        BY <2>2, <2>4, <2>6, <4>1
    <3> QED
      BY <2>5, <3>1
  <2>8. CASE value[seq[n]] <= value[seq[m]]
    <3>1. \A k \in In(n) : value[seq[n]] <= value[seq[k]]
      BY <2>3, <2>4, <2>6, <2>7, <2>8
    <3> QED
      BY <2>2, <2>6, <3>1
  <2>9. CASE value[seq[m]] <= value[seq[n]]
    <3>1. \A k \in In(n) : value[seq[m]] <= value[seq[k]]
      BY <2>3, <2>4, <2>7, <2>9
    <3> QED
      BY <2>2, <2>3, <2>7, <3>1
  <2> QED
    BY <2>3, <2>4, <2>6, <2>7, <2>8, <2>9
<1>4. In(N) # {}
  BY <1>1, <1>2
<1>5. PICK m \in In(N) : \A k \in In(N) : value[seq[m]] <= value[seq[k]]
  <2>1. N \in 0 .. N
    BY <1>2
  <2>2. N \notin Bad
    BY <1>3
  <2> QED
    BY <1>4, <2>1, <2>2
<1>6. \A y \in T : \E k \in In(N) : seq[k] = y
  BY <1>1, <1>2
<1>7. seq[m] \in T
  OBVIOUS
<1> HIDE DEF In
<1> QED
  BY <1>5, <1>6, <1>7

(* A part of a finite set is finite.                                       *)
LEMMA PartOfFinite ==
  ASSUME NEW S, IsFiniteSet(S), NEW T \in SUBSET S
  PROVE  IsFiniteSet(T)
<1>1. CASE T = {}
  <2>1. << >> \in Seq(T) /\ Len(<< >>) = 0
    OBVIOUS
  <2> QED
    BY <1>1, <2>1 DEF IsFiniteSet
<1>2. CASE T # {}
  <2>1. PICK seq \in Seq(S) : \A s \in S : \E n \in 1 .. Len(seq) : seq[n] = s
    BY DEF IsFiniteSet
  <2>2. PICK t \in T : TRUE
    BY <1>2
  <2> DEFINE N == Len(seq)
             part == [n \in 1 .. N |-> IF seq[n] \in T THEN seq[n] ELSE t]
  <2>3. part \in Seq(T) /\ Len(part) = N
    OBVIOUS
  <2>4. ASSUME NEW s \in T PROVE \E n \in 1 .. Len(part) : part[n] = s
    <3>1. PICK n \in 1 .. N : seq[n] = s
      BY <2>1, Zenon
    <3> QED
      BY <2>3, <3>1
  <2> HIDE DEF part
  <2> QED
    BY <2>3, <2>4, Zenon DEF IsFiniteSet
<1> QED
  BY <1>1, <1>2

(* So is an interval.                                                      *)
LEMMA IntervalIsFinite == \A N \in Nat : IsFiniteSet(1 .. N)
<1> SUFFICES ASSUME NEW N \in Nat PROVE IsFiniteSet(1 .. N)
  OBVIOUS
<1> DEFINE seq == [n \in 1 .. N |-> n]
<1>1. seq \in Seq(1 .. N) /\ Len(seq) = N
  OBVIOUS
<1>2. \A s \in 1 .. N : \E n \in 1 .. Len(seq) : seq[n] = s
  BY <1>1
<1> HIDE DEF seq
<1> QED
  BY <1>1, <1>2 DEF IsFiniteSet

(* The order of two sequences of numbers: the first difference decides.    *)
Before(a, b, n) == \E i \in 1 .. n : a[i] < b[i] /\ \A j \in 1 .. i - 1 : a[j] = b[j]

(* Some member of a finite set is first by a sequence of criteria.         *)
LEMMA FirstExists ==
  ASSUME NEW S, IsFiniteSet(S), S # {}, NEW N \in Nat,
         NEW key, \A x \in S : \A i \in 1 .. N : key[x][i] \in Int
  PROVE  \E x \in S : \A y \in S : ~Before(key[y], key[x], N)
<1> DEFINE First(n) == {x \in S : \A y \in S : ~Before(key[y], key[x], n)}
           Bad == {n \in 0 .. N : First(n) = {}}
<1> SUFFICES ASSUME Bad # {} PROVE FALSE
  <2>1. N \in 0 .. N
    OBVIOUS
  <2> QED
    BY <2>1
<1>1. PICK n \in Bad : \A k \in Bad : n <= k
  <2>1. Bad \subseteq Nat
    OBVIOUS
  <2> HIDE DEF Bad
  <2> QED
    BY <2>1, LeastNat
<1>2. n \in 0 .. N /\ First(n) = {}
  BY <1>1
<1>3. n # 0
  <2>1. 1 .. 0 = {}
    OBVIOUS
  <2>2. First(0) = S
    BY <2>1 DEF Before
  <2> QED
    BY <1>2, <2>2
<1>4. n \in 1 .. N /\ n - 1 \in 0 .. N /\ n - 1 \notin Bad
  BY <1>1, <1>2, <1>3
<1>5. First(n - 1) # {} /\ First(n - 1) \in SUBSET S
  BY <1>4
<1> HIDE DEF Bad
<1>6. PICK x \in First(n - 1) : \A y \in First(n - 1) : key[x][n] <= key[y][n]
  <2> DEFINE value == [y \in S |-> key[y][n]]
  <2>1. value \in [S -> Int]
    BY <1>4
  <2>2. PICK m \in First(n - 1) : \A y \in First(n - 1) : value[m] <= value[y]
    <3> HIDE DEF value, First
    <3> QED
      BY <1>5, <2>1, LeastOfFinite
  <2> QED
    BY <1>5, <2>2
<1>7. x \in S /\ \A y \in S : ~Before(key[y], key[x], n - 1)
  BY <1>6
<1>8. ASSUME NEW y \in S, Before(key[y], key[x], n) PROVE FALSE
  <2>1. PICK i \in 1 .. n : key[y][i] < key[x][i] /\ \A j \in 1 .. i - 1 : key[y][j] = key[x][j]
    BY <1>8 DEF Before
  <2>2. i = n
    <3>1. i \notin 1 .. n - 1
      BY <1>7, <2>1 DEF Before
    <3> QED
      BY <1>4, <2>1, <3>1
  <2>3. \A j \in 1 .. n - 1 : key[y][j] = key[x][j]
    BY <2>1, <2>2
  <2>4. y \in First(n - 1)
    <3> SUFFICES ASSUME NEW z \in S, Before(key[z], key[y], n - 1) PROVE FALSE
      BY <1>8
    <3>1. PICK k \in 1 .. n - 1 : key[z][k] < key[y][k] /\ \A j \in 1 .. k - 1 : key[z][j] = key[y][j]
      BY DEF Before
    <3>2. \A j \in 1 .. k - 1 : j \in 1 .. n - 1
      BY <1>4, <3>1
    <3>3. key[z][k] < key[x][k] /\ \A j \in 1 .. k - 1 : key[z][j] = key[x][j]
      BY <2>3, <3>1, <3>2
    <3> QED
      BY <1>7, <3>1, <3>3 DEF Before
  <2>5. key[x][n] <= key[y][n]
    BY <1>6, <2>4
  <2>6. key[x][n] \in Int /\ key[y][n] \in Int
    BY <1>4, <1>7, <1>8
  <2> QED
    BY <2>1, <2>2, <2>5, <2>6
<1>9. x \in First(n)
  BY <1>7, <1>8
<1> QED
  BY <1>2, <1>9

(* The partial sums of a finite sequence exist.                            *)
LEMMA PartialSums ==
  ASSUME NEW N \in Nat, NEW a \in [1 .. N -> Nat]
  PROVE  \E g : g = [n \in 0 .. N |-> IF n = 0 THEN 0 ELSE g[n - 1] + a[n]]
<1> DEFINE b == [n \in Nat |-> IF n \in 1 .. N THEN a[n] ELSE 0]
<1>1. b \in [Nat -> Nat]
  OBVIOUS
<1>2. PICK h : h = [n \in Nat |-> IF n = 0 THEN 0 ELSE h[n - 1] + b[n]]
  <2> HIDE DEF b
  <2> QED
    BY <1>1, SumsExist
<1>3. \A n \in 0 .. N : h[n] = IF n = 0 THEN 0 ELSE h[n - 1] + a[n]
  <2> SUFFICES ASSUME NEW n \in 0 .. N PROVE h[n] = IF n = 0 THEN 0 ELSE h[n - 1] + a[n]
    OBVIOUS
  <2>1. h[n] = IF n = 0 THEN 0 ELSE h[n - 1] + b[n]
    <3> HIDE DEF b
    <3> QED
      BY <1>2
  <2>2. n # 0 => b[n] = a[n]
    OBVIOUS
  <2> QED
    BY <2>1, <2>2
<1> DEFINE g == [n \in 0 .. N |-> h[n]]
<1>4. \A n \in 0 .. N : g[n] = IF n = 0 THEN 0 ELSE g[n - 1] + a[n]
  BY <1>3
<1>5. g = [n \in 0 .. N |-> g[n]]
  OBVIOUS
<1> HIDE DEF g
<1>6. g = [n \in 0 .. N |-> IF n = 0 THEN 0 ELSE g[n - 1] + a[n]]
  BY <1>4, <1>5
<1> QED
  BY <1>6

(* The function over 0 .. N of which every value follows from the one      *)
(* before and its place.                                                   *)
Recurs(f, N, S, step, first) ==
  /\ f \in [0 .. N -> S]
  /\ f[0] = first
  /\ \A n \in 1 .. N : f[n] = step[<<n, f[n - 1]>>]

(* So do those that depend on the place.                                   *)
LEMMA RecursionExists ==
  ASSUME NEW N \in Nat, NEW S, NEW first \in S, NEW step \in [(1 .. N) \X S -> S]
  PROVE  \E f : Recurs(f, N, S, step, first)
<1> DEFINE P == Nat \X S
           next == [p \in P |-> <<p[1] + 1,
                      IF p[1] + 1 \in 1 .. N THEN step[<<p[1] + 1, p[2]>>] ELSE p[2]>>]
<1>1. next \in [P -> P] /\ <<0, first>> \in P
  <2>1. ASSUME NEW p \in P
        PROVE  <<p[1] + 1, IF p[1] + 1 \in 1 .. N THEN step[<<p[1] + 1, p[2]>>] ELSE p[2]>> \in P
    <3>1. p[1] \in Nat /\ p[2] \in S
      OBVIOUS
    <3>2. CASE p[1] + 1 \in 1 .. N
      <4>1. <<p[1] + 1, p[2]>> \in (1 .. N) \X S
        BY <3>1, <3>2
      <4>2. step[<<p[1] + 1, p[2]>>] \in S
        BY <4>1
      <4> QED
        BY <3>1, <3>2, <4>2
    <3>3. CASE p[1] + 1 \notin 1 .. N
      BY <3>1, <3>3
    <3> QED
      BY <3>2, <3>3
  <2> QED
    BY <2>1
<1>2. PICK f : Iterates(f, P, next, <<0, first>>)
  <2> HIDE DEF next, P
  <2> QED
    BY <1>1, IterationExists
<1>3. /\ f \in [Nat -> P] /\ f[0] = <<0, first>>
      /\ \A n \in Nat : f[n + 1] = next[f[n]]
  BY <1>2 DEF Iterates
<1>4. \A n \in Nat : f[n] \in P /\ f[n][1] \in Nat /\ f[n][2] \in S
  BY <1>3
<1>5. \A n \in Nat :
         f[n + 1] = <<f[n][1] + 1, IF f[n][1] + 1 \in 1 .. N THEN step[<<f[n][1] + 1, f[n][2]>>]
                                   ELSE f[n][2]>>
  <2>1. \A p \in P : next[p] = <<p[1] + 1, IF p[1] + 1 \in 1 .. N
                                             THEN step[<<p[1] + 1, p[2]>>] ELSE p[2]>>
    OBVIOUS
  <2> HIDE DEF next, P
  <2> QED
    BY <1>3, <1>4, <2>1
<1>6. \A n \in Nat : f[n + 1][1] = f[n][1] + 1
  <2> SUFFICES ASSUME NEW n \in Nat PROVE f[n + 1][1] = f[n][1] + 1
    OBVIOUS
  <2> DEFINE rest == IF f[n][1] + 1 \in 1 .. N THEN step[<<f[n][1] + 1, f[n][2]>>] ELSE f[n][2]
  <2>1. f[n + 1] = <<f[n][1] + 1, rest>>
    BY <1>5
  <2> HIDE DEF rest
  <2> QED
    BY <2>1
<1>7. \A n \in Nat : f[n][1] = n
  <2> DEFINE Bad == {n \in Nat : f[n][1] # n}
  <2> SUFFICES ASSUME Bad # {} PROVE FALSE
    OBVIOUS
  <2>1. PICK n \in Bad : \A k \in Bad : n <= k
    <3>1. Bad \subseteq Nat
      OBVIOUS
    <3> HIDE DEF Bad
    <3> QED
      BY <3>1, LeastNat
  <2>2. n # 0
    BY <1>3, <2>1
  <2>3. n - 1 \in Nat /\ n - 1 \notin Bad /\ (n - 1) + 1 = n
    BY <2>1, <2>2
  <2>4. f[n][1] = (n - 1) + 1
    BY <1>6, <2>3
  <2> QED
    BY <2>1, <2>3, <2>4
<1> DEFINE g == [n \in 0 .. N |-> f[n][2]]
<1>8. g \in [0 .. N -> S] /\ g[0] = first
  BY <1>3, <1>4
<1>9. ASSUME NEW n \in 1 .. N PROVE g[n] = step[<<n, g[n - 1]>>]
  <2>1. n - 1 \in Nat /\ (n - 1) + 1 = n /\ n - 1 \in 0 .. N /\ n \in 0 .. N
    OBVIOUS
  <2>2. f[n - 1][1] = n - 1
    BY <1>7, <2>1
  <2>3. f[(n - 1) + 1] = <<f[n - 1][1] + 1, IF f[n - 1][1] + 1 \in 1 .. N
                             THEN step[<<f[n - 1][1] + 1, f[n - 1][2]>>] ELSE f[n - 1][2]>>
    BY <1>5, <2>1
  <2>4. f[n] = <<n, step[<<n, f[n - 1][2]>>]>>
    BY <2>1, <2>2, <2>3
  <2> QED
    BY <2>1, <2>4
<1> HIDE DEF g
<1> QED
  BY <1>8, <1>9 DEF Recurs

(* Finitely many numbers can be put in order.                              *)
LEMMA AscendingExists ==
  ASSUME NEW K \in SUBSET Int, IsFiniteSet(K)
  PROVE  \E s \in [1 .. Cardinality(K) -> K] :
           /\ \A x \in K : \E i \in DOMAIN s : s[i] = x
           /\ \A i, j \in DOMAIN s : i < j => s[i] < s[j]
<1> DEFINE Ordered(T) == \E s \in [1 .. Cardinality(T) -> T] :
                           /\ \A x \in T : \E i \in DOMAIN s : s[i] = x
                           /\ \A i, j \in DOMAIN s : i < j => s[i] < s[j]
           Counter == {n \in Nat : \E T \in SUBSET K : Cardinality(T) = n /\ ~Ordered(T)}
<1>1. Cardinality(K) \in Nat
  BY FS_CardinalityType
<1>2. SUFFICES ASSUME Counter # {} PROVE FALSE
  BY <1>1
<1>3. PICK n \in Counter : \A k \in Counter : n <= k
  <2>1. Counter \subseteq Nat
    OBVIOUS
  <2> HIDE DEF Counter
  <2> QED
    BY <1>2, <2>1, LeastNat
<1>4. PICK T \in SUBSET K : Cardinality(T) = n /\ ~Ordered(T)
  OBVIOUS
<1>5. IsFiniteSet(T) /\ n \in Nat
  BY PartOfFinite
<1>6. CASE T = {}
  <2>1. n = 0
    BY <1>4, <1>6, FS_EmptySet
  <2>2. << >> \in [1 .. Cardinality(T) -> T]
    BY <1>4, <2>1
  <2>3. DOMAIN << >> = {}
    OBVIOUS
  <2> QED
    BY <1>4, <1>6, <2>2, <2>3
<1>7. CASE T # {}
  <2> DEFINE value == [x \in T |-> 0 - x]
  <2>1. PICK x \in T : \A y \in T : value[x] <= value[y]
    <3>1. value \in [T -> Int] /\ T \in SUBSET T
      OBVIOUS
    <3> HIDE DEF value
    <3> QED
      BY <1>5, <1>7, <3>1, LeastOfFinite
  <2>2. x \in Int /\ \A y \in T \ {x} : y \in Int /\ y < x
    BY <2>1
  <2>3. Cardinality(T \ {x}) = n - 1 /\ IsFiniteSet(T \ {x})
    BY <1>4, <1>5, FS_RemoveElement
  <2>4. n - 1 \in Nat
    BY <2>3, FS_CardinalityType
  <2>5. n - 1 \notin Counter
    BY <1>3, <1>5, <2>4
  <2>6. Ordered(T \ {x})
    BY <2>3, <2>4, <2>5
  <2>7. PICK s \in [1 .. n - 1 -> T \ {x}] :
          /\ \A y \in T \ {x} : \E i \in DOMAIN s : s[i] = y
          /\ \A i, j \in DOMAIN s : i < j => s[i] < s[j]
    BY <2>3, <2>6
  <2> DEFINE t == [i \in 1 .. n |-> IF i = n THEN x ELSE s[i]]
  <2>8. t \in [1 .. n -> T]
    <3> SUFFICES ASSUME NEW i \in 1 .. n PROVE (IF i = n THEN x ELSE s[i]) \in T
      OBVIOUS
    <3>1. i # n => i \in 1 .. n - 1
      BY <1>5
    <3> QED
      BY <2>7, <3>1
  <2>9. n \in 1 .. n /\ t[n] = x /\ \A i \in 1 .. n - 1 : i \in 1 .. n /\ t[i] = s[i] /\ s[i] \in T \ {x}
    BY <1>5, <2>4, <2>7
  <2>10. DOMAIN t = 1 .. n /\ DOMAIN s = 1 .. n - 1
    BY <2>7
  <2> HIDE DEF t
  <2>11. \A y \in T : \E i \in DOMAIN t : t[i] = y
    BY <2>7, <2>9, <2>10
  <2>12. ASSUME NEW i \in DOMAIN t, NEW j \in DOMAIN t, i < j PROVE t[i] < t[j]
    <3>1. i \in 1 .. n - 1
      BY <1>5, <2>10, <2>12
    <3>2. CASE j = n
      BY <2>2, <2>9, <3>1, <3>2
    <3>3. CASE j # n
      <4>1. j \in 1 .. n - 1
        BY <1>5, <2>10, <3>3
      <4> QED
        BY <2>7, <2>9, <2>10, <2>12, <3>1, <4>1
    <3> QED
      BY <3>2, <3>3
  <2> QED
    BY <1>4, <2>8, <2>11, <2>12
<1> QED
  BY <1>6, <1>7

(* The recursion behind a sum over a set.                                  *)
Sums(f, S, g) ==
  g = [s \in SUBSET S |->
        IF s = {} THEN 0 ELSE LET x == CHOOSE x \in s : TRUE IN f[x] + g[s \ {x}]]

(* The sums of all the parts of a set of numbers.                          *)
SumsUp(f, S, g) == g \in [SUBSET S -> Int] /\ Sums(f, S, g)

(* The members of a set are summed up as soon as it is finite.             *)
LEMMA SumsOverExist ==
  ASSUME NEW S, IsFiniteSet(S), NEW f, \A x \in S : f[x] \in Int
  PROVE  \E g : SumsUp(f, S, g)
<1> DEFINE F == [SUBSET S -> Int]
           At(g, s) == IF s = {} THEN 0
                       ELSE LET x == CHOOSE x \in s : TRUE IN f[x] + g[s \ {x}]
           next == [g \in F |-> [s \in SUBSET S |-> At(g, s)]]
           none == [s \in SUBSET S |-> 0]
<1>1. ASSUME NEW g \in F, NEW s \in SUBSET S PROVE At(g, s) \in Int
  <2>1. CASE s = {}
    BY <2>1
  <2>2. CASE s # {}
    <3> DEFINE x == CHOOSE x \in s : TRUE
    <3>1. x \in s
      BY <2>2
    <3> HIDE DEF x
    <3>2. f[x] \in Int /\ g[s \ {x}] \in Int
      BY <3>1
    <3>3. f[x] + g[s \ {x}] \in Int
      BY <3>2
    <3> QED
      BY <2>2, <3>3 DEF x
  <2> QED
    BY <2>1, <2>2
<1>2. next \in [F -> F] /\ none \in F
  <2>1. \A g \in F : [s \in SUBSET S |-> At(g, s)] \in F
    <3> HIDE DEF At
    <3> QED
      BY <1>1
  <2> HIDE DEF At
  <2> QED
    BY <2>1
<1>3. PICK h : Iterates(h, F, next, none)
  <2> HIDE DEF next, F, none
  <2> QED
    BY <1>2, IterationExists
<1>4. /\ h \in [Nat -> F]
      /\ \A n \in Nat : h[n] \in F
      /\ \A n \in Nat : \A s \in SUBSET S : h[n + 1][s] = At(h[n], s)
  <2>1. h \in [Nat -> F] /\ \A n \in Nat : h[n + 1] = next[h[n]]
    BY <1>3 DEF Iterates
  <2>2. \A g \in F : \A s \in SUBSET S : next[g][s] = At(g, s)
    BY Zenon
  <2> HIDE DEF next, F, At
  <2> QED
    BY <2>1, <2>2
<1>5. \A n \in Nat : \A s \in SUBSET S : Cardinality(s) <= n => h[n + 2][s] = h[n + 1][s]
  <2> DEFINE Wrong == {n \in Nat : \E s \in SUBSET S : Cardinality(s) <= n /\ h[n + 2][s] # h[n + 1][s]}
  <2> SUFFICES ASSUME Wrong # {} PROVE FALSE
    OBVIOUS
  <2>1. PICK n \in Wrong : \A k \in Wrong : n <= k
    <3>1. Wrong \subseteq Nat
      OBVIOUS
    <3> HIDE DEF Wrong
    <3> QED
      BY <3>1, LeastNat
  <2>2. PICK s \in SUBSET S : Cardinality(s) <= n /\ h[n + 2][s] # h[n + 1][s]
    BY <2>1
  <2>3. n \in Nat /\ n + 1 \in Nat /\ (n + 1) + 1 = n + 2
    OBVIOUS
  <2>4. h[n + 2][s] = At(h[n + 1], s) /\ h[n + 1][s] = At(h[n], s)
    <3> HIDE DEF At, Wrong
    <3> QED
      BY <1>4, <2>3
  <2>5. s # {}
    BY <2>2, <2>4
  <2> DEFINE x == CHOOSE x \in s : TRUE
  <2>6. x \in s
    BY <2>5
  <2>7. h[n + 1][s \ {x}] # h[n][s \ {x}]
    BY <2>2, <2>4, <2>5
  <2> HIDE DEF x
  <2>8. IsFiniteSet(s)
    BY PartOfFinite
  <2>9. Cardinality(s \ {x}) = Cardinality(s) - 1 /\ Cardinality(s) \in Nat /\ Cardinality(s \ {x}) \in Nat
    BY <2>6, <2>8, FS_RemoveElement, FS_CardinalityType
  <2>10. n - 1 \in Nat /\ Cardinality(s \ {x}) <= n - 1
    BY <2>2, <2>3, <2>9
  <2>11. (n - 1) + 2 = n + 1 /\ (n - 1) + 1 = n /\ ~(n <= n - 1)
    BY <2>3
  <2>12. n - 1 \notin Wrong
    BY <2>1, <2>10, <2>11
  <2>13. h[n + 1][s \ {x}] = h[n][s \ {x}]
    BY <2>10, <2>11, <2>12
  <2> QED
    BY <2>7, <2>13
<1> DEFINE N == Cardinality(S)
           g == h[N + 1]
<1>6. N \in Nat /\ N + 1 \in Nat /\ (N + 1) + 1 = N + 2
  BY FS_CardinalityType
<1>7. g \in F
  BY <1>4, <1>6
<1>8. ASSUME NEW s \in SUBSET S PROVE g[s] = At(g, s)
  <2>1. Cardinality(s) <= N
    BY FS_Subset
  <2>2. h[N + 2][s] = g[s]
    BY <1>5, <1>6, <2>1
  <2>3. h[(N + 1) + 1][s] = At(g, s)
    <3> HIDE DEF At, N
    <3> QED
      BY <1>4, <1>6
  <2> QED
    BY <1>6, <2>2, <2>3
<1> HIDE DEF g, N
<1>9. g = [s \in SUBSET S |-> At(g, s)]
  <2> HIDE DEF At
  <2> QED
    BY <1>7, <1>8
<1> QED
  BY <1>7, <1>9 DEF Sums, SumsUp

(* The order in which the members of a finite set are summed up does not   *)
(* matter: any of them may be the last.                                    *)
AnyIsLast(f, S, g) == \A T \in SUBSET S : \A x \in T : g[T] = f[x] + g[T \ {x}]

(* The sums over a finite set do not depend on the order.                  *)
LEMMA AnyOrder ==
  ASSUME NEW S, IsFiniteSet(S), NEW f, \A x \in S : f[x] \in Int,
         NEW g, SumsUp(f, S, g)
  PROVE  AnyIsLast(f, S, g)
<1> SUFFICES ASSUME NEW T \in SUBSET S, NEW x \in T
             PROVE  g[T] = f[x] + g[T \ {x}]
  BY DEF AnyIsLast
<1> USE DEF SumsUp
<1> DEFINE Wrong == {n \in Nat : \E t \in SUBSET S : \E y \in t :
                       Cardinality(t) = n /\ g[t] # f[y] + g[t \ {y}]}
<1>0. Cardinality(T) \in Nat
  BY PartOfFinite, FS_CardinalityType
<1> SUFFICES ASSUME Wrong # {} PROVE FALSE
  BY <1>0
<1>1. PICK n \in Wrong : \A k \in Wrong : n <= k
  <2>1. Wrong \subseteq Nat
    OBVIOUS
  <2> HIDE DEF Wrong
  <2> QED
    BY <2>1, LeastNat
<1>2. PICK t \in SUBSET S : \E y \in t : Cardinality(t) = n /\ g[t] # f[y] + g[t \ {y}]
  OBVIOUS
<1>3. PICK y \in t : Cardinality(t) = n /\ g[t] # f[y] + g[t \ {y}]
  BY <1>2
<1> DEFINE c == CHOOSE z \in t : TRUE
<1>4. c \in t
  BY <1>3
<1>5. g[t] = f[c] + g[t \ {c}]
  BY <1>3 DEF Sums
<1> HIDE DEF c
<1>6. c # y
  BY <1>3, <1>5
<1>7. IsFiniteSet(t) /\ n \in Nat
  BY PartOfFinite
<1>8. /\ Cardinality(t \ {c}) = n - 1 /\ Cardinality(t \ {y}) = n - 1
      /\ IsFiniteSet(t \ {c})
  BY <1>3, <1>4, <1>7, FS_RemoveElement
<1>9. n - 1 \in Nat /\ ~(n <= n - 1)
  BY <1>7, <1>8, FS_CardinalityType
<1>10. n - 1 \notin Wrong
  BY <1>1, <1>9
<1>11. /\ g[t \ {c}] = f[y] + g[(t \ {c}) \ {y}]
       /\ g[t \ {y}] = f[c] + g[(t \ {y}) \ {c}]
  <2>1. t \ {c} \in SUBSET S /\ y \in t \ {c} /\ t \ {y} \in SUBSET S /\ c \in t \ {y}
    BY <1>4, <1>6
  <2> QED
    BY <1>8, <1>9, <1>10, <2>1
<1>12. (t \ {c}) \ {y} = (t \ {y}) \ {c} /\ (t \ {y}) \ {c} \in SUBSET S
  OBVIOUS
<1>13. f[y] \in Int /\ f[c] \in Int /\ g[(t \ {y}) \ {c}] \in Int
  BY <1>4, <1>12
<1> DEFINE rest == g[(t \ {y}) \ {c}]
<1>14. g[t] = f[c] + (f[y] + rest)
  BY <1>5, <1>11, <1>12
<1>15. g[t] # f[y] + (f[c] + rest)
  BY <1>3, <1>11
<1> HIDE DEF rest
<1>16. rest \in Int
  BY <1>13 DEF rest
<1> QED
  BY <1>13, <1>14, <1>15, <1>16

(* A sum over the members of a set, and over some of them.                 *)
AgreesOnParts(f, S, g) == \A T \in SUBSET S : \A h : Sums(f, T, h) => h[T] = g[T]

(* The sums over a part are those of the whole.                            *)
LEMMA SumsOfPart ==
  ASSUME NEW S, IsFiniteSet(S), NEW f, \A x \in S : f[x] \in Int,
         NEW g, SumsUp(f, S, g)
  PROVE  AgreesOnParts(f, S, g)
<1> SUFFICES ASSUME NEW T \in SUBSET S, NEW h, Sums(f, T, h)
             PROVE  h[T] = g[T]
  BY DEF AgreesOnParts
<1> USE DEF SumsUp
<1> DEFINE Wrong == {n \in Nat : \E t \in SUBSET T : Cardinality(t) = n /\ h[t] # g[t]}
<1>0. IsFiniteSet(T) /\ Cardinality(T) \in Nat
  BY PartOfFinite, FS_CardinalityType
<1> SUFFICES ASSUME Wrong # {} PROVE FALSE
  BY <1>0
<1>1. PICK n \in Wrong : \A k \in Wrong : n <= k
  <2>1. Wrong \subseteq Nat
    OBVIOUS
  <2> HIDE DEF Wrong
  <2> QED
    BY <2>1, LeastNat
<1>2. PICK t \in SUBSET T : Cardinality(t) = n /\ h[t] # g[t]
  OBVIOUS
<1>3. t \in SUBSET S
  OBVIOUS
<1>4. t # {}
  BY <1>2, <1>3 DEF Sums
<1> DEFINE c == CHOOSE z \in t : TRUE
<1>5. c \in t
  BY <1>4
<1>6. h[t] = f[c] + h[t \ {c}] /\ g[t] = f[c] + g[t \ {c}]
  BY <1>3, <1>4 DEF Sums
<1> HIDE DEF c
<1>7. IsFiniteSet(t) /\ n \in Nat
  BY <1>0, PartOfFinite
<1>8. Cardinality(t \ {c}) = n - 1 /\ IsFiniteSet(t \ {c})
  BY <1>2, <1>5, <1>7, FS_RemoveElement
<1>9. n - 1 \in Nat /\ ~(n <= n - 1)
  BY <1>7, <1>8, FS_CardinalityType
<1>10. n - 1 \notin Wrong
  BY <1>1, <1>9
<1>11. h[t \ {c}] = g[t \ {c}]
  BY <1>8, <1>9, <1>10
<1> QED
  BY <1>2, <1>6, <1>11

(* There is a sum of every part of a finite set: any member may be added   *)
(* last, and summing up the part alone makes no difference.                *)
LEMMA SummedUp ==
  ASSUME NEW S, IsFiniteSet(S), NEW f, \A x \in S : f[x] \in Int
  PROVE  \E g : g[{}] = 0 /\ AnyIsLast(f, S, g) /\ AgreesOnParts(f, S, g)
<1>1. PICK g : SumsUp(f, S, g)
  BY SumsOverExist
<1>2. g[{}] = 0
  BY <1>1 DEF SumsUp, Sums
<1>3. AnyIsLast(f, S, g)
  BY <1>1, AnyOrder
<1>4. AgreesOnParts(f, S, g)
  BY <1>1, SumsOfPart
<1> QED
  BY <1>2, <1>3, <1>4
=============================================================================
