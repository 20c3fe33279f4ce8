------------------------------- MODULE DataFacts -------------------------------
(* Facts about numbers and sequences that the proofs share.  The library states *)
(* induction for an operator, which the provers cannot instantiate; here it is  *)
(* stated for a set, from the well-foundedness of the order.                    *)
EXTENDS Selection, WellFoundedInduction, FiniteSetTheorems, TLAPS

\* The order of the natural numbers, as a set of pairs, has no endless descent.
LEMMA OrderIsWellFounded == IsWellFoundedOn({ss \in Nat \X Nat : ss[1] < ss[2]}, Nat)
<1>1. OpToRel(<, Nat) = {ss \in Nat \X Nat : ss[1] < ss[2]}
  BY DEF OpToRel
<1> QED BY <1>1, NatLessThanWellFounded

\* A set of natural numbers that is not empty has a least element.
LEMMA LeastNumber ==
  ASSUME NEW S \in SUBSET Nat, S # {}
  PROVE  \E x \in S : \A y \in S : x <= y
<1> DEFINE R == {ss \in Nat \X Nat : ss[1] < ss[2]}
<1>1. \E x \in S : \A y \in S : ~(<<y, x>> \in R)
  <2>1. IsWellFoundedOn(R, Nat)
    BY OrderIsWellFounded
  <2> HIDE DEF R
  <2> QED BY <2>1, WFMin
<1>2. PICK x \in S : \A y \in S : ~(<<y, x>> \in R)
  BY <1>1
<1>3. ASSUME NEW y \in S PROVE x <= y
  <2>1. x \in Nat /\ y \in Nat
    OBVIOUS
  <2>2. y < x => <<y, x>> \in R
    BY <2>1
  <2> QED BY <1>2, <2>1, <2>2
<1> QED BY <1>3

\* What holds of zero and passes from each number to the next holds of all.
LEMMA SetInduction ==
  ASSUME NEW S, 0 \in S, \A n \in Nat : n \in S => n + 1 \in S
  PROVE  Nat \subseteq S
<1> DEFINE Rest == Nat \ S
<1>1. SUFFICES ASSUME Rest # {} PROVE FALSE
  OBVIOUS
<1>2. PICK x \in Rest : \A y \in Rest : x <= y
  <2> HIDE DEF Rest
  <2>1. Rest \in SUBSET Nat
    BY DEF Rest
  <2> QED BY <1>1, <2>1, LeastNumber
<1>3. x # 0 /\ x - 1 \in Nat
  BY <1>2
<1>4. x - 1 \in S
  BY <1>2, <1>3
<1> QED BY <1>2, <1>3, <1>4

\* Every natural number has an integer square root.
LEMMA SquareRootExists ==
  ASSUME NEW n \in Nat
  PROVE  \E r \in 0..n : r * r <= n /\ n < (r + 1) * (r + 1)
<1> DEFINE Above == {r \in Nat : n < (r + 1) * (r + 1)}
<1>1. n \in Above
  <2>1. (n + 1) * (n + 1) = n * n + n + n + 1 /\ n * n \in Nat
    OBVIOUS
  <2> QED BY <2>1
<1>2. PICK r \in Above : \A y \in Above : r <= y
  <2> HIDE DEF Above
  <2>1. Above \in SUBSET Nat
    BY DEF Above
  <2> QED BY <1>1, <2>1, LeastNumber
<1>3. r \in 0..n /\ n < (r + 1) * (r + 1)
  BY <1>1, <1>2
<1>4. r * r <= n
  <2>1. CASE r = 0
    BY <2>1
  <2>2. CASE r # 0
    <3>1. r - 1 \in Nat /\ r - 1 \notin Above
      BY <1>2, <2>2
    <3>2. ~(n < (r - 1 + 1) * (r - 1 + 1)) /\ r * r \in Nat
      BY <3>1
    <3>3. r - 1 + 1 = r
      BY <1>3
    <3> QED BY <3>2, <3>3
  <2> QED BY <2>1, <2>2
<1> QED BY <1>3, <1>4

\* The quotient of a division is the last multiple that still fits.
LEMMA Quotient ==
  ASSUME NEW a \in Nat, NEW b \in Nat \ {0}
  PROVE  a \div b \in Nat /\ (a \div b) * b <= a /\ a < (a \div b + 1) * b
<1>1. a = b * (a \div b) + (a % b) /\ a % b \in 0..(b - 1) /\ a \div b \in Int
  OBVIOUS
<1>2. a \div b >= 0
  BY <1>1
<1>3. (a \div b + 1) * b = b * (a \div b) + b /\ (a \div b) * b = b * (a \div b)
  BY <1>1
<1> QED BY <1>1, <1>2, <1>3

\* A factor that both sides share can be cancelled.
LEMMA CancelLess ==
  ASSUME NEW a \in Nat, NEW b \in Nat, NEW c \in Nat, a * c < b * c
  PROVE  a < b
OBVIOUS

\* The greater number has the greater square.
LEMMA CancelSquare ==
  ASSUME NEW a \in Nat, NEW b \in Nat, a * a < b * b
  PROVE  a < b
OBVIOUS

\* Products grow with their factors.
LEMMA ProductGrows ==
  ASSUME NEW a \in Nat, NEW b \in Nat, NEW c \in Nat, NEW d \in Nat, a <= b, c <= d
  PROVE  a * c <= b * d /\ a * c \in Nat /\ b * d \in Nat
<1>1. a * c <= b * c /\ a * c \in Nat
  OBVIOUS
<1>2. b * c <= b * d /\ b * d \in Nat
  OBVIOUS
<1>3. b * c \in Nat
  OBVIOUS
<1> QED BY <1>1, <1>2, <1>3

------------------------------------------------------------------------------
(* Recursion over a segment of the numbers.                                  *)

\* g begins with base and goes on by step.
Recurs(g, base, step, N) ==
  /\ g[0] = base
  /\ \A n \in 1..N : g[n] = step[n][g[n - 1]]

\* Whatever a function is to begin with and however it is to go on, some function
\* does.
LEMMA RecursionExists ==
  ASSUME NEW V, NEW base \in V, NEW step \in [Nat -> [V -> V]], NEW N \in Nat
  PROVE  \E g \in [0..N -> V] : Recurs(g, base, step, N)
<1> DEFINE Good == {n \in Nat : \E g \in [0..n -> V] : Recurs(g, base, step, n)}
<1>1. 0 \in Good
  <2>1. [i \in 0..0 |-> base] \in [0..0 -> V] /\ Recurs([i \in 0..0 |-> base], base, step, 0)
    BY DEF Recurs
  <2> QED BY <2>1
<1>2. ASSUME NEW n \in Nat, n \in Good
      PROVE  n + 1 \in Good
  <2>1. PICK g \in [0..n -> V] : Recurs(g, base, step, n)
    BY <1>2
  <2> DEFINE h == [i \in 0..(n + 1) |-> IF i = n + 1 THEN step[n + 1][g[n]] ELSE g[i]]
  <2>2. h \in [0..(n + 1) -> V]
    OBVIOUS
  <2>3. Recurs(h, base, step, n + 1)
    <3>1. h[0] = base
      BY <2>1 DEF Recurs
    <3>2. ASSUME NEW i \in 1..(n + 1)
          PROVE  h[i] = step[i][h[i - 1]]
      <4>1. CASE i = n + 1
        BY <4>1
      <4>2. CASE i # n + 1
        BY <2>1, <4>2 DEF Recurs
      <4> QED BY <4>1, <4>2
    <3> HIDE DEF h
    <3> QED BY <3>1, <3>2 DEF Recurs
  <2> HIDE DEF h
  <2> QED BY <2>2, <2>3
<1> HIDE DEF Good
<1>3. Nat \subseteq Good
  BY <1>1, <1>2, SetInduction
<1> QED BY <1>3 DEF Good

------------------------------------------------------------------------------
(* Selections.                                                               *)

\* f[n] is what is selected from the first n members.
SelectionUpTo(f, s, set) ==
  /\ f[0] = <<>>
  /\ \A n \in 1..Len(s) :
       f[n] = IF s[n] \in set THEN Append(f[n - 1], s[n]) ELSE f[n - 1]

\* The recursion of Selected ends in the whole selection.
LEMMA SelectionSteps ==
  ASSUME NEW T, NEW s \in Seq(T), NEW set
  PROVE  \E f \in [0..Len(s) -> Seq(T)] :
           SelectionUpTo(f, s, set) /\ Selected(s, set) = f[Len(s)]
<1> DEFINE N == Len(s)
           Is(g) == g = [n \in 0..N |->
                           IF n = 0 THEN <<>>
                           ELSE IF s[n] \in set THEN Append(g[n - 1], s[n]) ELSE g[n - 1]]
           step == [n \in Nat |-> [v \in Seq(T) |->
                      IF n \in 1..N /\ s[n] \in set THEN Append(v, s[n]) ELSE v]]
           F == CHOOSE g : Is(g)
<1>1. N \in Nat
  OBVIOUS
<1>2. \E g : Is(g)
  <2>1. step \in [Nat -> [Seq(T) -> Seq(T)]]
    OBVIOUS
  <2>2. PICK g \in [0..N -> Seq(T)] : Recurs(g, <<>>, step, N)
    <3> HIDE DEF step, N
    <3>1. <<>> \in Seq(T)
      OBVIOUS
    <3> QED BY <1>1, <2>1, <3>1, RecursionExists
  <2>3. ASSUME NEW n \in 0..N
        PROVE  g[n] = IF n = 0 THEN <<>>
                      ELSE IF s[n] \in set THEN Append(g[n - 1], s[n]) ELSE g[n - 1]
    <3>1. CASE n = 0
      BY <2>2, <3>1 DEF Recurs
    <3>2. CASE n # 0
      <4>1. n \in Nat /\ n \in 1..N /\ g[n - 1] \in Seq(T)
        BY <3>2
      <4>2. g[n] = step[n][g[n - 1]]
        BY <2>2, <4>1 DEF Recurs
      <4> QED BY <3>2, <4>1, <4>2
    <3> QED BY <3>1, <3>2
  <2>4. g = [n \in 0..N |-> g[n]]
    OBVIOUS
  <2>5. Is(g)
    BY <2>3, <2>4
  <2> QED BY <2>5
<1>3. Is(F)
  BY <1>2
<1>4. Selected(s, set) = F[N]
  BY DEF Selected
<1> HIDE DEF F
<1>5. SelectionUpTo(F, s, set) /\ F = [n \in 0..N |-> F[n]]
  <2>1. \A n \in 0..N :
          F[n] = IF n = 0 THEN <<>>
                 ELSE IF s[n] \in set THEN Append(F[n - 1], s[n]) ELSE F[n - 1]
    BY <1>3
  <2>2. F = [n \in 0..N |-> F[n]]
    <3> DEFINE body(n) == IF n = 0 THEN <<>>
                          ELSE IF s[n] \in set THEN Append(F[n - 1], s[n]) ELSE F[n - 1]
    <3>1. F = [n \in 0..N |-> body(n)]
      BY <1>3
    <3> HIDE DEF body
    <3> QED BY <3>1
  <2>3. SelectionUpTo(F, s, set)
    BY <1>1, <2>1 DEF SelectionUpTo
  <2> QED BY <2>2, <2>3
<1>6. F \in [0..N -> Seq(T)]
  <2> DEFINE Good == {n \in Nat : n <= N => F[n] \in Seq(T)}
  <2>1. 0 \in Good
    BY <1>5 DEF SelectionUpTo
  <2>2. ASSUME NEW n \in Nat, n \in Good
        PROVE  n + 1 \in Good
    <3>1. SUFFICES ASSUME n + 1 <= N PROVE F[n + 1] \in Seq(T)
      OBVIOUS
    <3>2. F[n] \in Seq(T) /\ n + 1 \in 1..N /\ n + 1 - 1 = n
      BY <1>1, <2>2, <3>1
    <3>3. s[n + 1] \in T
      BY <3>2
    <3>4. \A m \in 1..N :
            F[m] = IF s[m] \in set THEN Append(F[m - 1], s[m]) ELSE F[m - 1]
      BY <1>5 DEF SelectionUpTo
    <3>5. F[n + 1] = IF s[n + 1] \in set THEN Append(F[n + 1 - 1], s[n + 1])
                                          ELSE F[n + 1 - 1]
      BY ONLY <3>2, <3>4
    <3>6. F[n + 1] = IF s[n + 1] \in set THEN Append(F[n], s[n + 1]) ELSE F[n]
      BY ONLY <3>2, <3>5
    <3> QED BY <3>2, <3>3, <3>6
  <2> HIDE DEF Good
  <2>3. Nat \subseteq Good
    BY <2>1, <2>2, SetInduction
  <2>4. \A n \in 0..N : F[n] \in Seq(T)
    BY <2>3 DEF Good
  <2> QED BY <1>5, <2>4
<1> QED BY <1>4, <1>5, <1>6

\* A position of r stands for one of the first n of s, in the same order and with
\* the same member, and every member of the set among these has one.
Keeps(r, g, s, n, set) ==
  /\ g \in [1..Len(r) -> 1..n]
  /\ \A i \in 1..Len(r) : r[i] = s[g[i]] /\ r[i] \in set
  /\ \A i, j \in 1..Len(r) : i < j => g[i] < g[j]
  /\ \A m \in 1..n : s[m] \in set => \E i \in 1..Len(r) : g[i] = m

\* One more member of the set is selected.
LEMMA KeepsOneMore ==
  ASSUME NEW T, NEW s \in Seq(T), NEW set, NEW n \in Nat, n + 1 \in 1..Len(s),
         NEW r \in Seq(T), NEW g, Keeps(r, g, s, n, set), s[n + 1] \in set
  PROVE  \E h : Keeps(Append(r, s[n + 1]), h, s, n + 1, set)
<1> DEFINE l == Len(r)
           q == Append(r, s[n + 1])
           h == [i \in 1..(l + 1) |-> IF i = l + 1 THEN n + 1 ELSE g[i]]
<1>1. /\ l \in Nat /\ Len(q) = l + 1 /\ q[l + 1] = s[n + 1]
      /\ \A i \in 1..l : q[i] = r[i]
  OBVIOUS
<1>2. /\ g \in [1..l -> 1..n]
      /\ \A i \in 1..l : r[i] = s[g[i]] /\ r[i] \in set
      /\ \A i, j \in 1..l : i < j => g[i] < g[j]
      /\ \A m \in 1..n : s[m] \in set => \E i \in 1..l : g[i] = m
  BY DEF Keeps
<1> HIDE DEF l, q
<1>3. h \in [1..(l + 1) -> 1..(n + 1)]
  BY <1>1, <1>2
<1>4. h[l + 1] = n + 1 /\ \A i \in 1..l : h[i] = g[i]
  BY <1>1
<1> HIDE DEF h
<1>5. ASSUME NEW i \in 1..(l + 1)
      PROVE  q[i] = s[h[i]] /\ q[i] \in set
  <2>1. CASE i = l + 1
    BY <1>1, <1>4, <2>1
  <2>2. CASE i # l + 1
    <3>1. i \in 1..l
      BY <1>1, <2>2
    <3> QED BY <1>1, <1>2, <1>4, <3>1
  <2> QED BY <2>1, <2>2
<1>6. ASSUME NEW i \in 1..(l + 1), NEW j \in 1..(l + 1), i < j
      PROVE  h[i] < h[j]
  <2>1. i \in 1..l
    BY <1>1, <1>6
  <2>2. h[i] = g[i] /\ g[i] \in 1..n
    BY <1>2, <1>4, <2>1
  <2>3. CASE j = l + 1
    BY <1>4, <2>2, <2>3
  <2>4. CASE j # l + 1
    <3>1. j \in 1..l
      BY <1>1, <2>4
    <3> QED BY <1>2, <1>4, <1>6, <2>1, <3>1
  <2> QED BY <2>3, <2>4
<1>7. ASSUME NEW m \in 1..(n + 1), s[m] \in set
      PROVE  \E i \in 1..(l + 1) : h[i] = m
  <2>1. CASE m = n + 1
    <3>1. h[l + 1] = m /\ l + 1 \in 1..(l + 1)
      BY <1>1, <1>4, <2>1
    <3> QED BY <3>1
  <2>2. CASE m # n + 1
    <3>1. m \in 1..n
      BY <2>2
    <3>2. PICK i \in 1..l : g[i] = m
      BY <1>2, <1>7, <3>1
    <3>3. h[i] = m /\ i \in 1..(l + 1)
      BY <1>1, <1>4, <3>2
    <3> QED BY <3>3
  <2> QED BY <2>1, <2>2
<1>8. Keeps(q, h, s, n + 1, set)
  BY <1>1, <1>3, <1>5, <1>6, <1>7 DEF Keeps
<1> QED BY <1>8 DEF q

\* A selection keeps every member of the set, in its order, and nothing else.
LEMMA SelectionKeeps ==
  ASSUME NEW T, NEW s \in Seq(T), NEW set
  PROVE  /\ Selected(s, set) \in Seq(T)
         /\ \E g : Keeps(Selected(s, set), g, s, Len(s), set)
<1>1. PICK f \in [0..Len(s) -> Seq(T)] :
        SelectionUpTo(f, s, set) /\ Selected(s, set) = f[Len(s)]
  BY SelectionSteps
<1> DEFINE To(n) == \E g : Keeps(f[n], g, s, n, set)
           Good == {n \in Nat : n <= Len(s) => To(n)}
<1>2. 0 \in Good
  <2>1. f[0] = <<>>
    BY <1>1 DEF SelectionUpTo
  <2>2. Keeps(<<>>, <<>>, s, 0, set)
    BY DEF Keeps
  <2> QED BY <2>1, <2>2
<1>3. ASSUME NEW n \in Nat, n \in Good
      PROVE  n + 1 \in Good
  <2>1. SUFFICES ASSUME n + 1 <= Len(s) PROVE To(n + 1)
    OBVIOUS
  <2>2. n <= Len(s) /\ n + 1 \in 1..Len(s) /\ n + 1 - 1 = n
    BY <2>1
  <2>3. PICK g : Keeps(f[n], g, s, n, set)
    BY <1>3, <2>2
  <2>4. /\ f[n] \in Seq(T)
        /\ f[n + 1] = IF s[n + 1] \in set THEN Append(f[n], s[n + 1]) ELSE f[n]
    BY <1>1, <2>2 DEF SelectionUpTo
  <2>5. CASE s[n + 1] \notin set
    <3>1. f[n + 1] = f[n]
      BY <2>4, <2>5
    <3>2. Keeps(f[n], g, s, n + 1, set)
      <4>1. g \in [1..Len(f[n]) -> 1..(n + 1)]
        BY <2>3, <2>4 DEF Keeps
      <4>2. \A m \in 1..(n + 1) : s[m] \in set => m \in 1..n
        BY <2>5
      <4> QED BY <2>3, <4>1, <4>2 DEF Keeps
    <3> QED BY <3>1, <3>2
  <2>6. CASE s[n + 1] \in set
    BY <2>2, <2>3, <2>4, <2>6, KeepsOneMore
  <2> QED BY <2>5, <2>6
<1> HIDE DEF Good
<1>4. Nat \subseteq Good
  BY <1>2, <1>3, SetInduction
<1>5. To(Len(s))
  BY <1>4 DEF Good
<1> QED BY <1>1, <1>5
------------------------------------------------------------------------------
(* Sequences in which nothing stands twice.                                  *)

Members(s) == {s[n] : n \in DOMAIN s}
Distinct(s) == \A m, n \in DOMAIN s : s[m] = s[n] => m = n

\* Such a sequence is as long as the set of its members.
LEMMA MembersAreCounted ==
  ASSUME NEW T, NEW s \in Seq(T), Distinct(s)
  PROVE  IsFiniteSet(Members(s)) /\ Cardinality(Members(s)) = Len(s) /\ Len(s) \in Nat
<1>1. Len(s) \in Nat /\ DOMAIN s = 1..Len(s)
  OBVIOUS
<1>2. s \in Bijection(1..Len(s), Members(s))
  BY <1>1 DEF Bijection, Injection, Surjection, IsInjective, Members, Distinct
<1>3. ExistsBijection(1..Len(s), Members(s))
  BY <1>2 DEF ExistsBijection
<1> QED BY <1>1, <1>3, FS_CountingElements, FS_NatBijection

\* What is selected from a sequence are its members that are in the set.
LEMMA SelectedMembers ==
  ASSUME NEW T, NEW s \in Seq(T), NEW set
  PROVE  Selected(s, set) \in Seq(T) /\ Members(Selected(s, set)) = Members(s) \cap set
<1> DEFINE r == Selected(s, set)
<1>1. r \in Seq(T) /\ \E g : Keeps(r, g, s, Len(s), set)
  BY SelectionKeeps
<1> HIDE DEF r
<1>2. PICK g : Keeps(r, g, s, Len(s), set)
  BY <1>1
<1>3. DOMAIN s = 1..Len(s) /\ DOMAIN r = 1..Len(r)
  BY <1>1
<1>4. /\ g \in [DOMAIN r -> DOMAIN s]
      /\ \A i \in DOMAIN r : r[i] = s[g[i]] /\ r[i] \in set
      /\ \A m \in DOMAIN s : s[m] \in set => \E i \in DOMAIN r : g[i] = m
  BY <1>2, <1>3 DEF Keeps
<1>5. Members(r) = Members(s) \cap set
  BY <1>4 DEF Members
<1> QED BY <1>1, <1>5 DEF r

\* Nothing is selected twice.
LEMMA SelectedDistinct ==
  ASSUME NEW T, NEW s \in Seq(T), Distinct(s), NEW set
  PROVE  Distinct(Selected(s, set))
<1> DEFINE r == Selected(s, set)
<1>1. r \in Seq(T) /\ \E g : Keeps(r, g, s, Len(s), set)
  BY SelectionKeeps
<1> HIDE DEF r
<1>2. PICK g : Keeps(r, g, s, Len(s), set)
  BY <1>1
<1>3. DOMAIN s = 1..Len(s) /\ DOMAIN r = 1..Len(r)
  BY <1>1
<1>4. /\ g \in [DOMAIN r -> DOMAIN s]
      /\ \A i \in DOMAIN r : r[i] = s[g[i]]
      /\ \A i, j \in DOMAIN r : i < j => g[i] < g[j]
  BY <1>2, <1>3 DEF Keeps
<1>5. ASSUME NEW i \in DOMAIN r, NEW j \in DOMAIN r, r[i] = r[j]
      PROVE  i = j
  <2>1. g[i] = g[j] /\ g[i] \in DOMAIN s
    BY <1>4, <1>5 DEF Distinct
  <2>2. ~(g[i] < g[i])
    BY <1>3, <2>1
  <2>3. ~(i < j) /\ ~(j < i)
    BY <1>4, <2>1, <2>2
  <2> QED BY <1>1, <1>3, <2>3
<1> QED BY <1>5 DEF Distinct, r
\* What follows the first n members of a sequence.
LEMMA SuffixFollows ==
  ASSUME NEW T, NEW q \in Seq(T), NEW n \in 0..Len(q)
  PROVE  LET r == SubSeq(q, n + 1, Len(q))
         IN /\ r \in Seq(T) /\ Len(r) = Len(q) - n
            /\ \A i \in 1..(Len(q) - n) : r[i] = q[n + i]
            /\ DOMAIN r = 1..(Len(q) - n)
<1> DEFINE r == SubSeq(q, n + 1, Len(q))
<1>1. Len(q) \in Nat /\ n \in Nat /\ n <= Len(q)
  OBVIOUS
<1>2. \A i \in (n + 1)..Len(q) : q[i] \in T
  BY <1>1
<1>3. /\ r \in Seq(T)
      /\ Len(r) = IF n + 1 <= Len(q) THEN Len(q) - (n + 1) + 1 ELSE 0
  BY <1>1, <1>2
<1>4. \A i \in 1..(Len(q) - (n + 1) + 1) : r[i] = q[(n + 1) + i - 1]
  BY <1>1, <1>2
<1> HIDE DEF r
<1>5. Len(r) = Len(q) - n
  BY <1>1, <1>3
<1>6. ASSUME NEW i \in 1..(Len(q) - n)
      PROVE  r[i] = q[n + i]
  <2>1. i \in 1..(Len(q) - (n + 1) + 1) /\ (n + 1) + i - 1 = n + i
    BY <1>1
  <2> QED BY <1>4, <2>1
<1>7. DOMAIN r = 1..(Len(q) - n)
  BY <1>3, <1>5
<1> QED BY <1>3, <1>5, <1>6, <1>7 DEF r
=============================================================================
