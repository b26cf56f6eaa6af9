----------------------------- MODULE ScanProofs -----------------------------
(***************************************************************************)
(* What a linear search returns, and what a sum over a finite set is: the    *)
(* folds of the community modules, unfolded by induction over the sets that  *)
(* they go through.  The induction is over sets of numbers and of sets, which *)
(* a prover can take, and not over predicates.                              *)
(***************************************************************************)
EXTENDS Scan, Integers, FiniteSetTheorems, WellFoundedInduction, TLAPS

\* Among the indices that match there is a first.
LEMMA LeastIndex ==
  ASSUME NEW S \in SUBSET Nat, S # {}
  PROVE  \E x \in S : \A y \in S : x <= y
<1> DEFINE Less == {p \in Nat \X Nat : p[1] < p[2]}
<1>1. IsWellFoundedOn(Less, Nat)
  BY NatLessThanWellFounded DEF OpToRel
<1> HIDE DEF Less
<1>2. \E x \in S : \A y \in S : <<y, x>> \notin Less
  BY <1>1, WFMin
<1>3. PICK x \in S : \A y \in S : <<y, x>> \notin Less
  BY <1>2
<1>4. ASSUME NEW y \in S PROVE x <= y
  <2>1. /\ <<y, x>> \in Nat \X Nat
        /\ <<y, x>>[1] = y /\ <<y, x>>[2] = x
    OBVIOUS
  <2>2. ~(y < x)
    BY <1>3, <2>1 DEF Less
  <2> QED
    BY <2>2
<1> QED
  BY <1>4

\* A scan that has a hit stops at one of the hits.
LEMMA FirstIsMember ==
  ASSUME NEW S \in SUBSET Nat, S # {}
  PROVE  First(S) \in S
BY LeastIndex DEF First

\* And at the first one.
LEMMA FirstIsLeast ==
  ASSUME NEW S \in SUBSET Nat, NEW j \in S
  PROVE  First(S) <= j
<1>1. \E x \in S : \A y \in S : x <= y
  BY LeastIndex
<1>2. \A y \in S : First(S) <= y
  BY <1>1, Zenon DEF First
<1> QED
  BY <1>2

-----------------------------------------------------------------------------
(* Induction, and sums *)

\* Induction, for a set of numbers.
LEMMA AllOfNat ==
  ASSUME NEW P \in SUBSET Nat, 0 \in P, \A n \in P : n + 1 \in P
  PROVE  P = Nat
<1> SUFFICES ASSUME Nat \ P # {} PROVE FALSE
  OBVIOUS
<1>1. PICK x \in Nat \ P : \A y \in Nat \ P : x <= y
  BY LeastIndex
<1>2. x # 0 /\ x - 1 \in Nat
  BY <1>1
<1>3. x - 1 \in P
  BY <1>1, <1>2
<1>4. (x - 1) + 1 \in P /\ (x - 1) + 1 = x
  BY <1>3
<1> QED
  BY <1>1, <1>4

\* The element that the folds of the library take from a set first.
Pick(s) == CHOOSE x \in s : TRUE

\* Induction along the elements that are taken.
LEMMA PickInduction ==
  ASSUME NEW D, IsFiniteSet(D), NEW P \in SUBSET SUBSET D,
         {} \in P,
         \A s \in SUBSET D : s # {} /\ s \ {Pick(s)} \in P => s \in P
  PROVE  P = SUBSET D
<1> DEFINE Q == {n \in Nat : \A s \in SUBSET D : Cardinality(s) = n => s \in P}
<1>1. \A s \in SUBSET D : IsFiniteSet(s) /\ Cardinality(s) \in Nat
  BY FS_Subset, FS_CardinalityType
<1>2. 0 \in Q
  BY <1>1, FS_EmptySet
<1>3. ASSUME NEW n \in Q PROVE n + 1 \in Q
  <2> SUFFICES ASSUME NEW s \in SUBSET D, Cardinality(s) = n + 1 PROVE s \in P
    BY <1>3
  <2>1. s # {} /\ n \in Nat
    BY <1>1, FS_EmptySet
  <2>2. Pick(s) \in s
    BY <2>1 DEF Pick
  <2>3. Cardinality(s \ {Pick(s)}) = Cardinality(s) - 1
    BY <1>1, <2>2, FS_RemoveElement
  <2>4. Cardinality(s \ {Pick(s)}) = n
    BY <2>1, <2>3
  <2> QED
    BY <1>3, <2>1, <2>4
<1>4. Q = Nat
  <2> HIDE DEF Q
  <2>1. Q \in SUBSET Nat
    BY DEF Q
  <2> QED
    BY <1>2, <1>3, <2>1, AllOfNat
<1>5. ASSUME NEW s \in SUBSET D PROVE s \in P
  BY <1>1, <1>4
<1> QED
  BY <1>5

\* g has the sum of f over every subset of D, as MapThenSumSet() adds it up.
AddsUp(g, D, f) ==
  g = [s \in SUBSET D |-> IF s = {} THEN 0 ELSE f[Pick(s)] + g[s \ {Pick(s)}]]

LEMMA AddsUpTyped ==
  ASSUME NEW D, IsFiniteSet(D), NEW f \in [D -> Int], NEW g, AddsUp(g, D, f)
  PROVE  g \in [SUBSET D -> Int]
<1> DEFINE P == {s \in SUBSET D : g[s] \in Int}
<1>1. /\ g[{}] = 0
      /\ \A s \in SUBSET D : s # {} => g[s] = f[Pick(s)] + g[s \ {Pick(s)}]
  BY DEF AddsUp
<1>2. \A s \in SUBSET D : s # {} => Pick(s) \in s
  BY DEF Pick
<1>3. {} \in P
  BY <1>1
<1>4. ASSUME NEW s \in SUBSET D, s # {}, s \ {Pick(s)} \in P PROVE s \in P
  <2>1. f[Pick(s)] \in Int /\ g[s \ {Pick(s)}] \in Int
    BY <1>2, <1>4
  <2>2. g[s] = f[Pick(s)] + g[s \ {Pick(s)}]
    BY <1>1, <1>4
  <2>3. g[s] \in Int
    BY <2>1, <2>2
  <2> QED
    BY <2>3
<1>5. P = SUBSET D
  <2> HIDE DEF P
  <2>1. P \in SUBSET SUBSET D
    BY DEF P
  <2> QED
    BY <1>3, <1>4, <2>1, PickInduction
<1>6. DOMAIN g = SUBSET D /\ g = [s \in SUBSET D |-> g[s]]
  BY DEF AddsUp
<1>7. \A s \in SUBSET D : g[s] \in Int
  BY <1>5
<1> QED
  BY <1>6, <1>7

\* There is such a sum.
Upto(D, n) == {s \in SUBSET D : Cardinality(s) <= n}

LEMMA SumExists ==
  ASSUME NEW D, IsFiniteSet(D), NEW f \in [D -> Int]
  PROVE  \E g \in [SUBSET D -> Int] : AddsUp(g, D, f)
<1> DEFINE Is(g, s) == g[s] = IF s = {} THEN 0 ELSE f[Pick(s)] + g[s \ {Pick(s)}]
           Q == {n \in Nat : \E g \in [Upto(D, n) -> Int] :
                               \A s \in Upto(D, n) : Is(g, s)}
<1>1. \A s \in SUBSET D : IsFiniteSet(s) /\ Cardinality(s) \in Nat
  BY FS_Subset, FS_CardinalityType
<1>2. \A s \in SUBSET D : s # {} =>
        /\ Pick(s) \in s /\ f[Pick(s)] \in Int
        /\ s \ {Pick(s)} \in SUBSET D
        /\ Cardinality(s \ {Pick(s)}) = Cardinality(s) - 1
  BY <1>1, FS_RemoveElement DEF Pick
<1>3. 0 \in Q
  <2>1. \A s \in Upto(D, 0) : s = {}
    BY <1>1, FS_EmptySet DEF Upto
  <2>2. [s \in Upto(D, 0) |-> 0] \in [Upto(D, 0) -> Int]
    OBVIOUS
  <2>3. \A s \in Upto(D, 0) : Is([t \in Upto(D, 0) |-> 0], s)
    BY <2>1
  <2> QED
    BY <2>2, <2>3
<1>4. ASSUME NEW n \in Q PROVE n + 1 \in Q
  <2>1. PICK g \in [Upto(D, n) -> Int] : \A s \in Upto(D, n) : Is(g, s)
    BY <1>4
  <2>2. n \in Nat
    BY <1>4
  <2> DEFINE h == [s \in Upto(D, n + 1) |->
                     IF s = {} THEN 0 ELSE f[Pick(s)] + g[s \ {Pick(s)}]]
  <2>3. ASSUME NEW s \in Upto(D, n + 1), s # {}
        PROVE  /\ s \ {Pick(s)} \in Upto(D, n) /\ f[Pick(s)] \in Int
               /\ s \ {Pick(s)} \in Upto(D, n + 1)
    BY <1>1, <1>2, <2>2, <2>3 DEF Upto
  <2>4. h \in [Upto(D, n + 1) -> Int]
    BY <2>3
  <2>5. ASSUME NEW s \in Upto(D, n) PROVE h[s] = g[s] /\ s \in Upto(D, n + 1)
    <3>1. s \in Upto(D, n + 1)
      BY <1>1, <2>2 DEF Upto
    <3> QED
      BY <2>1, <3>1
  <2>6. ASSUME NEW s \in Upto(D, n + 1) PROVE Is(h, s)
    BY <2>3, <2>5
  <2> HIDE DEF h
  <2> QED
    BY <2>2, <2>4, <2>6
<1>5. Q = Nat
  <2> HIDE DEF Q
  <2>1. Q \in SUBSET Nat
    BY DEF Q
  <2> QED
    BY <1>3, <1>4, <2>1, AllOfNat
<1>6. Upto(D, Cardinality(D)) = SUBSET D /\ Cardinality(D) \in Nat
  BY FS_Subset, FS_CardinalityType DEF Upto
<1>7. PICK g \in [SUBSET D -> Int] : \A s \in SUBSET D : Is(g, s)
  <2>1. \E g \in [Upto(D, Cardinality(D)) -> Int] :
           \A s \in Upto(D, Cardinality(D)) : Is(g, s)
    BY <1>5, <1>6
  <2> QED
    BY <1>6, <2>1
<1>8. g = [s \in SUBSET D |-> g[s]]
  OBVIOUS
<1> QED
  BY <1>7, <1>8 DEF AddsUp


\* How such a sum unfolds.
Unfolds(g, D, f) ==
  /\ g \in [SUBSET D -> Int] /\ g[{}] = 0
  /\ \A s \in SUBSET D : s # {} =>
       /\ Pick(s) \in s /\ s \ {Pick(s)} \in SUBSET D
       /\ g[s] = f[Pick(s)] + g[s \ {Pick(s)}]

LEMMA AddsUpFacts ==
  ASSUME NEW D, IsFiniteSet(D), NEW f \in [D -> Int], NEW g, AddsUp(g, D, f)
  PROVE  Unfolds(g, D, f)
BY AddsUpTyped DEF AddsUp, Pick, Unfolds

\* With nothing negative in it, a sum is at least each of its parts.
LEMMA PartsAreLess ==
  ASSUME NEW D, IsFiniteSet(D), NEW f \in [D -> Int], NEW g, Unfolds(g, D, f),
         \A x \in D : f[x] >= 0
  PROVE  \A s \in SUBSET D : g[s] >= 0 /\ \A x \in s : f[x] <= g[s]
<1> DEFINE P == {s \in SUBSET D : g[s] >= 0 /\ \A x \in s : f[x] <= g[s]}
<1>1. {} \in P
  BY DEF Unfolds
<1>2. ASSUME NEW s \in SUBSET D, s # {}, s \ {Pick(s)} \in P PROVE s \in P
  <2> DEFINE y == Pick(s)
             r == s \ {y}
  <2>1. /\ y \in s /\ r \in SUBSET D /\ g[s] = f[y] + g[r]
        /\ g[r] \in Int /\ g[s] \in Int /\ f[y] \in Int
    BY <1>2 DEF Unfolds
  <2>2. g[r] >= 0 /\ \A x \in r : f[x] <= g[r]
    BY <1>2
  <2>3. f[y] >= 0 /\ s = r \union {y}
    BY <2>1
  <2> HIDE DEF y, r
  <2>4. g[s] >= 0 /\ f[y] <= g[s] /\ g[r] <= g[s]
    BY <2>1, <2>2, <2>3
  <2>5. ASSUME NEW x \in r PROVE f[x] <= g[s]
    <3>1. f[x] \in Int /\ f[x] <= g[r]
      BY <2>1, <2>2
    <3> QED
      BY <2>1, <2>4, <3>1
  <2> QED
    BY <2>3, <2>4, <2>5
<1>3. P = SUBSET D
  <2> HIDE DEF P
  <2>1. P \in SUBSET SUBSET D
    BY DEF P
  <2> QED
    BY <1>1, <1>2, <2>1, PickInduction
<1> QED
  BY <1>3

\* A sum is that of any of its parts and the rest.
Splits(g, D, f) == \A s \in SUBSET D : \A x \in s : g[s] = f[x] + g[s \ {x}]

LEMMA AnyPart ==
  ASSUME NEW D, IsFiniteSet(D), NEW f \in [D -> Int], NEW g, Unfolds(g, D, f)
  PROVE  Splits(g, D, f)
<1> DEFINE Splitting(s) == \A x \in s : g[s] = f[x] + g[s \ {x}]
           Q == {n \in Nat : \A s \in SUBSET D : Cardinality(s) = n => Splitting(s)}
<1>1. \A s \in SUBSET D : /\ IsFiniteSet(s) /\ Cardinality(s) \in Nat
                          /\ \A x \in s : Cardinality(s \ {x}) = Cardinality(s) - 1
  BY FS_Subset, FS_CardinalityType, FS_RemoveElement
<1>2. 0 \in Q
  BY <1>1, FS_EmptySet
<1>3. ASSUME NEW n \in Q PROVE n + 1 \in Q
  <2> SUFFICES ASSUME NEW s \in SUBSET D, Cardinality(s) = n + 1, NEW x \in s
               PROVE  g[s] = f[x] + g[s \ {x}]
    BY <1>3
  <2> DEFINE y == Pick(s)
             r == s \ {x, y}
  <2>1. /\ y \in s /\ g[s] = f[y] + g[s \ {y}]
    BY DEF Unfolds
  <2> HIDE DEF y
  <2>2. /\ Cardinality(s \ {y}) = n /\ Cardinality(s \ {x}) = n
        /\ s \ {y} \in SUBSET D /\ s \ {x} \in SUBSET D
    BY <1>1, <1>3, <2>1
  <2>3. Splitting(s \ {y}) /\ Splitting(s \ {x})
    BY <1>3, <2>2
  <2>4. CASE x # y
    <3>1. /\ x \in s \ {y} /\ (s \ {y}) \ {x} = r
          /\ y \in s \ {x} /\ (s \ {x}) \ {y} = r /\ r \in SUBSET D
      BY <2>1, <2>4
    <3> HIDE DEF r
    <3>2. g[s \ {y}] = f[x] + g[r] /\ g[s \ {x}] = f[y] + g[r]
      BY <2>3, <3>1
    <3>3. f[x] \in Int /\ f[y] \in Int /\ g[r] \in Int
      BY <2>1, <3>1 DEF Unfolds
    <3> QED
      BY <2>1, <3>2, <3>3
  <2> QED
    BY <2>1, <2>4
<1>4. Q = Nat
  <2> HIDE DEF Q
  <2>1. Q \in SUBSET Nat
    BY DEF Q
  <2> QED
    BY <1>2, <1>3, <2>1, AllOfNat
<1>5. ASSUME NEW s \in SUBSET D PROVE Splitting(s)
  BY <1>1, <1>4
<1> QED
  BY <1>5 DEF Splits

\* It does not matter of which larger set the sum is.
AgreeOn(g, h, D) == \A s \in SUBSET D : g[s] = h[s]

LEMMA SameSum ==
  ASSUME NEW E, IsFiniteSet(E), NEW f \in [E -> Int], NEW h, Unfolds(h, E, f),
         NEW D \in SUBSET E, NEW g, AddsUp(g, D, f)
  PROVE  AgreeOn(g, h, D)
<1> DEFINE P == {s \in SUBSET D : g[s] = h[s]}
<1>1. {} \in P
  BY DEF AddsUp, Unfolds
<1>2. ASSUME NEW s \in SUBSET D, s # {}, s \ {Pick(s)} \in P PROVE s \in P
  <2>1. g[s] = f[Pick(s)] + g[s \ {Pick(s)}]
    BY <1>2 DEF AddsUp
  <2>2. h[s] = f[Pick(s)] + h[s \ {Pick(s)}]
    BY <1>2 DEF Unfolds
  <2> QED
    BY <1>2, <2>1, <2>2
<1>3. P = SUBSET D
  <2> HIDE DEF P
  <2>1. P \in SUBSET SUBSET D
    BY DEF P
  <2>2. IsFiniteSet(D)
    BY FS_Subset
  <2> QED
    BY <1>1, <1>2, <2>1, <2>2, PickInduction
<1> QED
  BY <1>3 DEF AgreeOn

\* K*(c+1) and m*(a+b).
LEMMA OnePartMore ==
  ASSUME NEW K \in Int, NEW m \in Int, NEW a \in Int, NEW b \in Int,
         NEW c \in Int, K * c <= m * b, K <= m * a
  PROVE  K * (c + 1) <= m * (a + b)
<1>1. K * (c + 1) = K * c + K /\ m * (a + b) = m * a + m * b
  OBVIOUS
<1>2. K * c \in Int /\ m * b \in Int /\ m * a \in Int
  OBVIOUS
<1> QED
  BY <1>1, <1>2

\* A sum is at least as much as its large parts are.
LEMMA LargePartsAreFew ==
  ASSUME NEW D, IsFiniteSet(D), NEW f \in [D -> Int], NEW g, Unfolds(g, D, f),
         \A x \in D : f[x] >= 0, NEW K \in Int, NEW m \in Nat,
         NEW large \in SUBSET D, \A x \in large : K <= m * f[x]
  PROVE  K * Cardinality(large) <= m * g[D]
<1> DEFINE P == {s \in SUBSET D : K * Cardinality(s \intersect large) <= m * g[s]}
<1>1. \A s \in SUBSET D : /\ IsFiniteSet(s \intersect large)
                          /\ Cardinality(s \intersect large) \in Nat
  BY FS_Subset, FS_CardinalityType
<1>2. {} \in P
  <2>1. Cardinality({} \intersect large) = 0 /\ g[{}] = 0
    BY FS_EmptySet DEF Unfolds
  <2> QED
    BY <2>1
<1>3. ASSUME NEW s \in SUBSET D, s # {}, s \ {Pick(s)} \in P PROVE s \in P
  <2> DEFINE y == Pick(s)
             r == s \ {y}
             c == Cardinality(r \intersect large)
             e == Cardinality(s \intersect large)
  <2>1. /\ y \in s /\ r \in SUBSET D /\ g[s] = f[y] + g[r]
        /\ g[r] \in Int /\ f[y] \in Int
    BY <1>3 DEF Unfolds
  <2>2. K * c <= m * g[r] /\ c \in Nat /\ f[y] >= 0 /\ y \in D
    BY <1>1, <1>3, <2>1
  <2>3. CASE y \in large
    <3>1. s \intersect large = (r \intersect large) \union {y}
          /\ y \notin r \intersect large
      BY <2>1, <2>3
    <3>2. e = c + 1
      BY <1>1, <2>1, <3>1, FS_AddElement
    <3>3. K <= m * f[y]
      BY <2>3
    <3> HIDE DEF y, r, c, e
    <3>4. K * (c + 1) <= m * (f[y] + g[r])
      BY <2>1, <2>2, <3>3, OnePartMore
    <3>5. K * e <= m * g[s]
      BY <2>1, <3>2, <3>4
    <3> QED
      BY <3>5 DEF e
  <2>4. CASE y \notin large
    <3>1. s \intersect large = r \intersect large
      BY <2>4
    <3>2. e = c
      BY <3>1
    <3> HIDE DEF y, r, c, e
    <3>3. m * g[s] = m * f[y] + m * g[r] /\ m * f[y] >= 0
          /\ m * f[y] \in Int /\ m * g[r] \in Int /\ K * c \in Int
      BY <2>1, <2>2
    <3>4. K * e <= m * g[s]
      BY <2>2, <3>2, <3>3
    <3> QED
      BY <3>4 DEF e
  <2> QED
    BY <2>3, <2>4
<1>4. P = SUBSET D
  <2> HIDE DEF P
  <2>1. P \in SUBSET SUBSET D
    BY DEF P
  <2> QED
    BY <1>2, <1>3, <2>1, PickInduction
<1>5. D \intersect large = large /\ D \in P
  BY <1>4
<1> QED
  BY <1>5

\* x*e >= 0 and x > 0.
LEMMA FactorIsPositive ==
  ASSUME NEW x \in Int, x > 0, NEW e \in Int, x * e >= 0
  PROVE  e >= 0
<1>1. CASE e < 0
  <2>1. e <= -1
    BY <1>1
  <2>2. x * e <= -x
    BY <2>1
  <2> QED
    BY <2>2
<1> QED
  BY <1>1

LEMMA NoSquareIsNegative ==
  ASSUME NEW x \in Int
  PROVE  x * x \in Int /\ x * x >= 0
<1>1. CASE x >= 0
  BY <1>1
<1>2. CASE x < 0
  BY <1>2
<1> QED
  BY <1>1, <1>2

\* One more number, in the inequality of Cauchy and Schwarz.
LEMMA CauchyStep ==
  ASSUME NEW c \in Nat, NEW G \in Int, NEW Q \in Int, Q >= 0, NEW a \in Int,
         G * G <= c * Q
  PROVE  (G + a) * (G + a) <= (c + 1) * (Q + a * a)
<1> DEFINE A == a * a
           B == G * a
           e == (Q + c * A) - 2 * B
<1>1. A \in Int /\ A >= 0 /\ B \in Int /\ G * G \in Int /\ G * G >= 0
      /\ c * Q \in Int /\ c * A \in Int /\ e \in Int
  BY NoSquareIsNegative
<1>2. e >= 0
  <2>1. CASE c = 0
    <3>1. G * G = 0
      BY <1>1, <2>1
    <3>2. G = 0
      BY <3>1
    <3>3. B = 0 /\ c * A = 0
      BY <2>1, <3>2
    <3> HIDE DEF A, B
    <3> QED
      BY <1>1, <3>3
  <2>2. CASE c > 0
    <3> DEFINE x == c * a
    <3>1. x \in Int /\ G - x \in Int
      OBVIOUS
    <3>2. (G - x) * (G - x) = G * G - 2 * (G * x) + x * x
      BY <3>1
    <3>3. G * x = c * B /\ x * x = c * (c * A)
      OBVIOUS
    <3>4. (G - x) * (G - x) >= 0
      BY <3>1, NoSquareIsNegative
    <3>5. c * e = c * Q + c * (c * A) - 2 * (c * B)
          /\ c * (c * A) \in Int /\ c * B \in Int /\ c * e \in Int
      <4> HIDE DEF A, B
      <4> QED
        BY <1>1
    <3>6. c * e >= 0
      <4> HIDE DEF A, B, e, x
      <4> QED
        BY <1>1, <3>2, <3>3, <3>4, <3>5
    <3> HIDE DEF e
    <3> QED
      BY <1>1, <2>2, <3>6, FactorIsPositive
  <2> QED
    BY <2>1, <2>2
<1>3. (G + a) * (G + a) = G * G + 2 * B + A
  OBVIOUS
<1>4. (c + 1) * (Q + A) = c * Q + c * A + Q + A
  <2> HIDE DEF A
  <2> QED
    BY <1>1
<1>5. (c + 1) * (Q + A) - (G + a) * (G + a) = (c * Q - G * G) + e
  <2> HIDE DEF A, B
  <2> QED
    BY <1>1, <1>3, <1>4
<1> HIDE DEF e
<1>6. (c + 1) * (Q + A) \in Int /\ (G + a) * (G + a) \in Int
  BY <1>1
<1> HIDE DEF A
<1>7. (G + a) * (G + a) <= (c + 1) * (Q + A)
  BY <1>1, <1>2, <1>5, <1>6
<1> QED
  BY <1>7 DEF A

\* Cauchy and Schwarz: the square of a sum is at most the number of its parts
\* times the sum of their squares.
SquaresOf(q, D, d) == q \in [D -> Int] /\ \A x \in D : q[x] = d[x] * d[x]

LEMMA CauchySchwarz ==
  ASSUME NEW D, IsFiniteSet(D), NEW d \in [D -> Int], NEW q, SquaresOf(q, D, d),
         NEW g, Unfolds(g, D, d), NEW h, Unfolds(h, D, q)
  PROVE  \A s \in SUBSET D : g[s] * g[s] <= Cardinality(s) * h[s]
<1> DEFINE P == {s \in SUBSET D : g[s] * g[s] <= Cardinality(s) * h[s]}
<1>1. \A s \in SUBSET D : IsFiniteSet(s) /\ Cardinality(s) \in Nat
  BY FS_Subset, FS_CardinalityType
<1>2. \A x \in D : q[x] >= 0
  BY NoSquareIsNegative DEF SquaresOf
<1>3. \A s \in SUBSET D : h[s] >= 0
  BY <1>2, PartsAreLess DEF SquaresOf
<1>4. {} \in P
  <2>1. g[{}] = 0 /\ h[{}] = 0 /\ Cardinality({}) = 0
    BY FS_EmptySet DEF Unfolds
  <2> QED
    BY <2>1
<1>5. ASSUME NEW s \in SUBSET D, s # {}, s \ {Pick(s)} \in P PROVE s \in P
  <2> DEFINE y == Pick(s)
             r == s \ {y}
             c == Cardinality(r)
  <2>1. /\ y \in s /\ r \in SUBSET D /\ g[s] = d[y] + g[r] /\ h[s] = q[y] + h[r]
        /\ g[r] \in Int /\ h[r] \in Int /\ d[y] \in Int
    BY <1>5 DEF Unfolds
  <2>2. Cardinality(s) = c + 1 /\ c \in Nat
    BY <1>1, <2>1, FS_RemoveElement
  <2>3. g[r] * g[r] <= c * h[r] /\ h[r] >= 0 /\ q[y] = d[y] * d[y]
    BY <1>3, <1>5, <2>1 DEF SquaresOf
  <2> HIDE DEF y, r, c
  <2>4. (g[r] + d[y]) * (g[r] + d[y]) <= (c + 1) * (h[r] + d[y] * d[y])
    BY <2>1, <2>2, <2>3, CauchyStep
  <2>5. g[s] = g[r] + d[y] /\ h[s] = h[r] + d[y] * d[y]
    BY <2>1, <2>3, NoSquareIsNegative
  <2> QED
    BY <2>2, <2>4, <2>5
<1>6. P = SUBSET D
  <2> HIDE DEF P
  <2>1. P \in SUBSET SUBSET D
    BY DEF P
  <2> QED
    BY <1>4, <1>5, <2>1, PickInduction
<1> QED
  BY <1>6

\* Of numbers that add up to nothing, none is far out among few.
LEMMA FarthestOne ==
  ASSUME NEW D, IsFiniteSet(D), NEW d \in [D -> Int], NEW q, SquaresOf(q, D, d),
         NEW g, Unfolds(g, D, d), NEW h, Unfolds(h, D, q),
         g[D] = 0, NEW o \in D
  PROVE  Cardinality(D) * q[o] <= (Cardinality(D) - 1) * h[D]
<1> DEFINE r == D \ {o}
           n == Cardinality(D)
<1>1. /\ r \in SUBSET D /\ Cardinality(r) = n - 1 /\ n \in Nat /\ n - 1 \in Nat
  BY FS_RemoveElement, FS_CardinalityType, FS_Subset
<1>2. g[D] = d[o] + g[r] /\ h[D] = q[o] + h[r]
  <2>1. Splits(g, D, d)
    BY AnyPart
  <2>2. q \in [D -> Int]
    BY DEF SquaresOf
  <2>3. Splits(h, D, q)
    BY <2>2, AnyPart
  <2>4. D \in SUBSET D
    OBVIOUS
  <2> QED
    BY <2>1, <2>3, <2>4 DEF Splits
<1>3. /\ g[r] \in Int /\ h[r] \in Int /\ h[D] \in Int /\ d[o] \in Int
      /\ q[o] \in Int /\ q[o] = d[o] * d[o]
  BY <1>1 DEF Unfolds, SquaresOf
<1>4. g[r] * g[r] <= Cardinality(r) * h[r]
  BY <1>1, CauchySchwarz
<1> HIDE DEF r, n
<1>5. g[r] = -d[o]
  <2>1. d[o] + g[r] = 0
    BY <1>2
  <2> QED
    BY <1>3, <2>1
<1>6. g[r] * g[r] = q[o]
  BY <1>3, <1>5
<1>7. q[o] <= (n - 1) * (h[D] - q[o])
  <2>1. h[r] = h[D] - q[o]
    BY <1>2, <1>3
  <2> QED
    BY <1>1, <1>4, <1>6, <2>1
<1>8. (n - 1) * (h[D] - q[o]) = (n - 1) * h[D] - n * q[o] + q[o]
      /\ (n - 1) * h[D] \in Int /\ n * q[o] \in Int
  BY <1>1, <1>3
<1>9. n * q[o] <= (n - 1) * h[D]
  BY <1>3, <1>7, <1>8
<1> QED
  BY <1>9 DEF n

\* The sum of what a linear function makes of numbers.
IsLinear(d, D, n, f, t) == \A x \in D : d[x] = n * f[x] - t

LEMMA LinearSum ==
  ASSUME NEW D, IsFiniteSet(D), NEW f \in [D -> Int], NEW d \in [D -> Int],
         NEW n \in Int, NEW t \in Int, IsLinear(d, D, n, f, t),
         NEW g, Unfolds(g, D, f), NEW h, Unfolds(h, D, d)
  PROVE  h[D] = n * g[D] - Cardinality(D) * t
<1> DEFINE P == {s \in SUBSET D : h[s] = n * g[s] - Cardinality(s) * t}
<1>1. \A s \in SUBSET D : IsFiniteSet(s) /\ Cardinality(s) \in Nat
  BY FS_Subset, FS_CardinalityType
<1>2. {} \in P
  <2>1. g[{}] = 0 /\ h[{}] = 0 /\ Cardinality({}) = 0
    BY FS_EmptySet DEF Unfolds
  <2>2. h[{}] = n * g[{}] - Cardinality({}) * t
    BY <2>1
  <2> QED
    BY <2>2
<1>3. ASSUME NEW s \in SUBSET D, s # {}, s \ {Pick(s)} \in P PROVE s \in P
  <2> DEFINE y == Pick(s)
             r == s \ {y}
             c == Cardinality(r)
  <2>1. /\ y \in s /\ r \in SUBSET D /\ g[s] = f[y] + g[r] /\ h[s] = d[y] + h[r]
        /\ g[r] \in Int /\ h[r] \in Int /\ f[y] \in Int
    BY <1>3 DEF Unfolds
  <2>2. Cardinality(s) = c + 1 /\ c \in Nat
    BY <1>1, <2>1, FS_RemoveElement
  <2>3. h[r] = n * g[r] - c * t /\ d[y] = n * f[y] - t
    BY <1>3, <2>1 DEF IsLinear
  <2> HIDE DEF y, r, c
  <2>4. n * (f[y] + g[r]) = n * f[y] + n * g[r] /\ (c + 1) * t = c * t + t
        /\ n * f[y] \in Int /\ n * g[r] \in Int /\ c * t \in Int
    BY <2>1, <2>2
  <2>5. h[s] = n * g[s] - Cardinality(s) * t
    BY <2>1, <2>2, <2>3, <2>4
  <2> QED
    BY <2>5
<1>4. P = SUBSET D
  <2> HIDE DEF P
  <2>1. P \in SUBSET SUBSET D
    BY DEF P
  <2> QED
    BY <1>2, <1>3, <2>1, PickInduction
<1> QED
  BY <1>4

\* Induction up to a number.
LEMMA AllUpTo ==
  ASSUME NEW n \in Nat, NEW P \in SUBSET (0..n), 0 \in P,
         \A k \in 1..n : k - 1 \in P => k \in P
  PROVE  P = 0..n
<1> DEFINE Q == {k \in Nat : k <= n => k \in P}
<1>1. 0 \in Q
  OBVIOUS
<1>2. ASSUME NEW k \in Q PROVE k + 1 \in Q
  <2> SUFFICES ASSUME k + 1 <= n PROVE k + 1 \in P
    BY <1>2
  <2>1. k \in Nat /\ k + 1 \in 1..n /\ (k + 1) - 1 = k
    BY <1>2
  <2>2. k \in P
    BY <1>2, <2>1
  <2> QED
    BY <2>1, <2>2
<1>3. Q = Nat
  <2> HIDE DEF Q
  <2>1. Q \in SUBSET Nat
    BY DEF Q
  <2> QED
    BY <1>1, <1>2, <2>1, AllOfNat
<1>4. ASSUME NEW k \in 0..n PROVE k \in P
  <2>1. k \in Q
    BY <1>3
  <2> QED
    BY <2>1
<1> QED
  BY <1>4

\* The element that a fold of a sequence takes from a set of indices first, the
\* last one, so that the first is folded first.
Greatest(s) == CHOOSE x \in s : \A y \in s : x >= y

LEMMA GreatestOf ==
  ASSUME NEW n \in Nat, NEW s \in SUBSET (1..n), s # {}
  PROVE  Greatest(s) \in s /\ \A y \in s : Greatest(s) >= y
<1> DEFINE T == {n - x : x \in s}
<1>1. T \in SUBSET Nat /\ T # {}
  <2>1. \A x \in s : n - x \in Nat
    OBVIOUS
  <2> QED
    BY <2>1
<1>2. PICK t \in T : \A u \in T : t <= u
  BY <1>1, LeastIndex
<1>3. PICK x \in s : t = n - x
  BY <1>2
<1>4. \A y \in s : x >= y
  <2> SUFFICES ASSUME NEW y \in s PROVE x >= y
    OBVIOUS
  <2>1. n - y \in T /\ x \in Int /\ y \in Int
    OBVIOUS
  <2>2. t <= n - y
    BY <1>2, <2>1
  <2> QED
    BY <1>3, <2>1, <2>2
<1> QED
  BY <1>4 DEF Greatest

LEMMA GreatestUpTo ==
  ASSUME NEW n \in Nat, NEW k \in 1..n
  PROVE  /\ 1..k \in SUBSET (1..n) /\ 1..k # {}
         /\ Greatest(1..k) = k /\ (1..k) \ {Greatest(1..k)} = 1..(k - 1)
<1>1. 1..k \in SUBSET (1..n) /\ 1..k # {} /\ k \in 1..k
  OBVIOUS
<1>2. Greatest(1..k) \in 1..k /\ Greatest(1..k) >= k
  BY <1>1, GreatestOf
<1>3. Greatest(1..k) = k
  BY <1>2
<1>4. (1..k) \ {k} = 1..(k - 1)
  OBVIOUS
<1> QED
  BY <1>1, <1>3, <1>4

\* A fold of a sequence goes through its sets of indices, and has a value for
\* each of them, if its steps stay in a set T: step is the operation as a
\* function, which a lemma can be about.
Unwinds(g, n, base, step, seq) ==
  \A s \in SUBSET (1..n) :
    g[s] = IF s = {} THEN base
           ELSE step[<<g[s \ {Greatest(s)}], seq[Greatest(s)]>>]

LEMMA FoldExists ==
  ASSUME NEW n \in Nat, NEW T, NEW E, NEW base \in T,
         NEW seq \in [1..n -> E], NEW step \in [T \X E -> T]
  PROVE  \E g \in [SUBSET (1..n) -> T] :
           Unwinds(g, n, base, step, seq)
<1> DEFINE D == 1..n
           Is(g, s) == g[s] = IF s = {} THEN base
                              ELSE step[<<g[s \ {Greatest(s)}], seq[Greatest(s)]>>]
           Q == {k \in Nat : \E g \in [Upto(D, k) -> T] :
                               \A s \in Upto(D, k) : Is(g, s)}
<1>0. IsFiniteSet(D)
  BY FS_Interval
<1>1. \A s \in SUBSET D : IsFiniteSet(s) /\ Cardinality(s) \in Nat
  BY <1>0, FS_Subset, FS_CardinalityType
<1>2. \A s \in SUBSET D : s # {} =>
        /\ Greatest(s) \in s /\ seq[Greatest(s)] \in E
        /\ s \ {Greatest(s)} \in SUBSET D
        /\ Cardinality(s \ {Greatest(s)}) = Cardinality(s) - 1
  BY <1>1, FS_RemoveElement, GreatestOf
<1> HIDE DEF D
<1>3. 0 \in Q
  <2>1. \A s \in Upto(D, 0) : s = {}
    BY <1>1, FS_EmptySet DEF Upto
  <2>2. [s \in Upto(D, 0) |-> base] \in [Upto(D, 0) -> T]
    OBVIOUS
  <2>3. \A s \in Upto(D, 0) : Is([t \in Upto(D, 0) |-> base], s)
    BY <2>1
  <2> QED
    BY <2>2, <2>3
<1>4. ASSUME NEW k \in Q PROVE k + 1 \in Q
  <2>1. PICK g \in [Upto(D, k) -> T] : \A s \in Upto(D, k) : Is(g, s)
    BY <1>4
  <2>2. k \in Nat
    BY <1>4
  <2> DEFINE Value(s) == IF s = {} THEN base
                         ELSE step[<<g[s \ {Greatest(s)}], seq[Greatest(s)]>>]
             h == [s \in Upto(D, k + 1) |-> Value(s)]
  <2>3. ASSUME NEW s \in Upto(D, k + 1), s # {}
        PROVE  /\ s \ {Greatest(s)} \in Upto(D, k)
               /\ s \ {Greatest(s)} \in Upto(D, k + 1)
               /\ seq[Greatest(s)] \in E
    <3>1. /\ s \in SUBSET D /\ Cardinality(s) <= k + 1 /\ Cardinality(s) \in Nat
          /\ s \ {Greatest(s)} \in SUBSET D /\ seq[Greatest(s)] \in E
          /\ Cardinality(s \ {Greatest(s)}) = Cardinality(s) - 1
      BY <1>1, <1>2, <2>3 DEF Upto
    <3> DEFINE c == Cardinality(s)
               d == Cardinality(s \ {Greatest(s)})
    <3>2. c \in Nat /\ c <= k + 1 /\ d = c - 1
      BY <3>1
    <3> HIDE DEF c, d
    <3>3. d <= k /\ d <= k + 1
      BY <2>2, <3>2
    <3> QED
      BY <3>1, <3>3 DEF Upto, d
  <2>4. h \in [Upto(D, k + 1) -> T]
    <3> SUFFICES ASSUME NEW s \in Upto(D, k + 1) PROVE Value(s) \in T
      OBVIOUS
    <3>1. CASE s = {}
      BY <3>1
    <3>2. CASE s # {}
      <4>1. <<g[s \ {Greatest(s)}], seq[Greatest(s)]>> \in T \X E
        BY <2>1, <2>3, <3>2
      <4> QED
        BY <3>2, <4>1
    <3> QED
      BY <3>1, <3>2
  <2>5. ASSUME NEW s \in Upto(D, k) PROVE h[s] = g[s] /\ s \in Upto(D, k + 1)
    <3>1. s \in Upto(D, k + 1)
      BY <1>1, <2>2 DEF Upto
    <3>2. h[s] = Value(s)
      BY <3>1
    <3>3. g[s] = Value(s)
      BY <2>1
    <3> QED
      BY <3>1, <3>2, <3>3
  <2>6. ASSUME NEW s \in Upto(D, k + 1) PROVE Is(h, s)
    <3>1. h[s] = Value(s)
      OBVIOUS
    <3>2. CASE s = {}
      BY <3>1, <3>2
    <3>3. CASE s # {}
      <4>1. h[s \ {Greatest(s)}] = g[s \ {Greatest(s)}]
        BY <2>3, <2>5, <3>3
      <4> HIDE DEF h
      <4> QED
        BY <3>1, <3>3, <4>1
    <3> QED
      BY <3>2, <3>3
  <2> HIDE DEF h, Is
  <2>7. \E i \in [Upto(D, k + 1) -> T] : \A s \in Upto(D, k + 1) : Is(i, s)
    BY <2>4, <2>6
  <2> QED
    BY <2>2, <2>7
<1>5. Q = Nat
  <2> HIDE DEF Q
  <2>1. Q \in SUBSET Nat
    BY DEF Q
  <2> QED
    BY <1>3, <1>4, <2>1, AllOfNat
<1>6. Upto(D, Cardinality(D)) = SUBSET D /\ Cardinality(D) \in Nat
  BY <1>0, FS_Subset, FS_CardinalityType DEF Upto
<1>7. \E g \in [Upto(D, Cardinality(D)) -> T] :
        \A s \in Upto(D, Cardinality(D)) : Is(g, s)
  BY <1>5, <1>6
<1> QED
  BY <1>6, <1>7 DEF D, Unwinds

\* And its values for the first elements of the sequence, one after the other,
\* are what the operation makes of one another.
Unfolded(g, n, T, base, step, seq) ==
  /\ g[{}] = base
  /\ \A s \in SUBSET (1..n) : s # {} /\ g[s \ {Greatest(s)}] \in T =>
       g[s] = step[<<g[s \ {Greatest(s)}], seq[Greatest(s)]>>]

Trace(at, n, base, step, seq) ==
  /\ at[0] = base
  /\ \A k \in 1..n : at[k] = step[<<at[k - 1], seq[k]>>]

LEMMA TraceOf ==
  ASSUME NEW n \in Nat, NEW T, NEW E, NEW base \in T,
         NEW seq \in [1..n -> E], NEW step \in [T \X E -> T],
         NEW g, Unfolded(g, n, T, base, step, seq)
  PROVE  \E at \in [0..n -> T] : at[n] = g[1..n] /\ Trace(at, n, base, step, seq)
<1> DEFINE at == [k \in 0..n |-> g[1..k]]
<1>1. at[0] = base /\ at[n] = g[1..n] /\ 0 \in 0..n
  BY DEF Unfolded
<1>2. ASSUME NEW k \in 1..n, at[k - 1] \in T
      PROVE  at[k] = step[<<at[k - 1], seq[k]>>] /\ at[k] \in T
  <2>1. /\ 1..k \in SUBSET (1..n) /\ 1..k # {}
        /\ Greatest(1..k) = k /\ (1..k) \ {Greatest(1..k)} = 1..(k - 1)
    BY GreatestUpTo
  <2>2. at[k - 1] = g[1..(k - 1)] /\ at[k] = g[1..k]
    OBVIOUS
  <2>3. g[1..k] = step[<<g[1..(k - 1)], seq[k]>>]
    BY <1>2, <2>1, <2>2 DEF Unfolded
  <2>4. <<g[1..(k - 1)], seq[k]>> \in T \X E
    BY <1>2, <2>2
  <2> QED
    BY <2>2, <2>3, <2>4
<1>3. \A k \in 0..n : at[k] \in T
  <2> DEFINE P == {k \in 0..n : at[k] \in T}
  <2> HIDE DEF at
  <2>1. 0 \in P
    BY <1>1
  <2>2. \A k \in 1..n : k - 1 \in P => k \in P
    <3>1. \A k \in 1..n : k \in 0..n
      OBVIOUS
    <3> QED
      BY <1>2, <3>1
  <2>3. P = 0..n
    <3> HIDE DEF P
    <3>1. P \in SUBSET (0..n)
      BY DEF P
    <3> QED
      BY <2>1, <2>2, <3>1, AllUpTo
  <2> QED
    BY <2>3
<1>4. at \in [0..n -> T]
  BY <1>3
<1>5. Trace(at, n, base, step, seq)
  <2>1. \A k \in 1..n : k - 1 \in 0..n
    OBVIOUS
  <2> HIDE DEF at
  <2> QED
    BY <1>1, <1>2, <1>3, <2>1 DEF Trace
<1> HIDE DEF at
<1> QED
  BY <1>1, <1>4, <1>5
=============================================================================
