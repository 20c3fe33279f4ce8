--------------------------- MODULE RenderPageProofs ---------------------------
(* What the loop of the pages makes of every document: it walks a snapshot      *)
(* while it changes the tree, and still leaves the harmless part of it, whole    *)
(* and in its order.  What the pages keep for any number of calls, any drawings  *)
(* and any order of library, image and timers: nothing of a call is left         *)
(* behind, a picture is clean, its text stays where Mermaid drew it, its size    *)
(* fits, and the host takes it.                                                 *)
EXTENDS RenderPage, DataFacts, TLAPS

------------------------------------------------------------------------------
(* Sequences of nodes in document order.                                     *)

Increasing(s) == \A m, n \in DOMAIN s : m < n => s[m] < s[n]

\* s is the nodes of a set in document order.
Orders(s, set) == s \in Seq(Nat) /\ Increasing(s) /\ Members(s) = set

\* A selection is in the order of what it selects from.
LEMMA SelectedOrders ==
  ASSUME NEW s, NEW whole, Orders(s, whole), NEW set
  PROVE  Orders(Selected(s, set), whole \cap set)
<1> DEFINE r == Selected(s, set)
<1>1. s \in Seq(Nat) /\ Increasing(s) /\ Members(s) = whole
  BY DEF Orders
<1>2. r \in Seq(Nat) /\ \E g : Keeps(r, g, s, Len(s), set)
  BY <1>1, SelectionKeeps
<1>3. Members(r) = whole \cap set
  BY <1>1, SelectedMembers
<1> HIDE DEF r
<1>4. PICK g : Keeps(r, g, s, Len(s), set)
  BY <1>2
<1>5. DOMAIN s = 1..Len(s) /\ DOMAIN r = 1..Len(r)
  BY <1>1, <1>2
<1>6. /\ g \in [DOMAIN r -> DOMAIN s]
      /\ \A i \in DOMAIN r : r[i] = s[g[i]]
      /\ \A i, j \in DOMAIN r : i < j => g[i] < g[j]
  BY <1>4, <1>5 DEF Keeps
<1>7. Increasing(r)
  BY <1>1, <1>6 DEF Increasing
<1> QED BY <1>2, <1>3, <1>7 DEF Orders, r

\* In document order nothing stands twice.
LEMMA IncreasingIsDistinct ==
  ASSUME NEW s \in Seq(Nat), Increasing(s)
  PROVE  Distinct(s)
<1>1. SUFFICES ASSUME NEW m \in DOMAIN s, NEW n \in DOMAIN s, s[m] = s[n], m # n
               PROVE  FALSE
  BY DEF Distinct
<1>2. m \in Nat /\ n \in Nat /\ s[m] \in Nat
  OBVIOUS
<1>3. m < n \/ n < m
  BY <1>1, <1>2
<1> QED BY <1>1, <1>2, <1>3 DEF Increasing

\* A set of nodes has one document order.
LEMMA OrderIsUnique ==
  ASSUME NEW s, NEW t, NEW set, Orders(s, set), Orders(t, set)
  PROVE  s = t
<1>1. /\ s \in Seq(Nat) /\ Increasing(s) /\ Members(s) = set
      /\ t \in Seq(Nat) /\ Increasing(t) /\ Members(t) = set
  BY DEF Orders
<1>2. Len(s) = Len(t) /\ Len(s) \in Nat
  BY <1>1, IncreasingIsDistinct, MembersAreCounted
<1>3. DOMAIN s = 1..Len(s) /\ DOMAIN t = 1..Len(s)
  BY <1>1, <1>2
<1> DEFINE Bad == {n \in 1..Len(s) : s[n] # t[n]}
<1>4. SUFFICES ASSUME Bad # {} PROVE FALSE
  BY <1>1, <1>2
<1>5. PICK n \in Bad : \A m \in Bad : n <= m
  <2>1. Bad \in SUBSET Nat
    BY <1>2
  <2> HIDE DEF Bad
  <2> QED BY <1>4, <2>1, LeastNumber
<1>6. n \in 1..Len(s) /\ s[n] # t[n] /\ \A m \in 1..Len(s) : m < n => s[m] = t[m]
  BY <1>2, <1>5
<1> HIDE DEF Bad
<1>7. s[n] \in Nat /\ t[n] \in Nat /\ n \in Nat
  BY <1>1, <1>3, <1>6
<1>8. PICK i \in 1..Len(s) : t[i] = s[n]
  <2>1. s[n] \in Members(t)
    BY <1>1, <1>3, <1>6 DEF Members
  <2> QED BY <1>3, <2>1 DEF Members
<1>9. PICK j \in 1..Len(s) : s[j] = t[n]
  <2>1. t[n] \in Members(s)
    BY <1>1, <1>3, <1>6 DEF Members
  <2> QED BY <1>3, <2>1 DEF Members
<1>10. ~(i < n) /\ ~(j < n)
  <2>1. i < n => s[i] = s[n] /\ s[i] < s[n]
    BY <1>1, <1>3, <1>6, <1>8 DEF Increasing
  <2>2. j < n => t[j] = t[n] /\ t[j] < t[n]
    BY <1>1, <1>3, <1>6, <1>9 DEF Increasing
  <2> QED BY <1>7, <2>1, <2>2
<1>11. i # n /\ j # n
  BY <1>6, <1>8, <1>9
<1>12. n < i /\ n < j
  BY <1>7, <1>10, <1>11
<1>13. t[n] < t[i] /\ s[n] < s[j]
  BY <1>1, <1>3, <1>6, <1>12 DEF Increasing
<1> QED BY <1>7, <1>8, <1>9, <1>13

\* InOrder is the document order.
LEMMA InOrderOrders ==
  ASSUME NEW drawing, Len(drawing.kind) \in Nat,
         NEW members \in SUBSET (1..Len(drawing.kind))
  PROVE  Orders(InOrder(drawing, members), members)
<1> DEFINE N == Len(drawing.kind)
           s == [i \in 1..N |-> i]
<1>1. s \in Seq(Nat) /\ DOMAIN s = 1..N /\ \A i \in 1..N : s[i] = i
  OBVIOUS
<1> HIDE DEF s
<1>2. Orders(s, 1..N)
  BY <1>1 DEF Orders, Increasing, Members
<1>3. Orders(Selected(s, members), (1..N) \cap members)
  BY <1>2, SelectedOrders
<1>4. (1..N) \cap members = members
  OBVIOUS
<1> QED BY <1>3, <1>4 DEF InOrder, s
\* Where the members of two sequences stand when one follows the other.
LEMMA Concatenated ==
  ASSUME NEW a \in Seq(Nat), NEW b \in Seq(Nat)
  PROVE  /\ a \o b \in Seq(Nat) /\ Len(a \o b) = Len(a) + Len(b)
         /\ \A n \in 1..Len(a) : (a \o b)[n] = a[n]
         /\ \A n \in 1..Len(b) : (a \o b)[Len(a) + n] = b[n]
<1>1. a \o b \in Seq(Nat) /\ Len(a \o b) = Len(a) + Len(b)
  OBVIOUS
<1>2. \A n \in 1..Len(a) : (a \o b)[n] = a[n]
  OBVIOUS
<1>3. \A n \in 1..Len(b) : (a \o b)[Len(a) + n] = b[n]
  OBVIOUS
<1> QED BY <1>1, <1>2, <1>3

\* One node of a sequence gives way to others: what stood before and after it stays
\* where it is.
LEMMA SplicedMembers ==
  ASSUME NEW s \in Seq(Nat), NEW b \in Seq(Nat), NEW k \in 1..Len(s)
  PROVE  LET r == SubSeq(s, 1, k - 1) \o b \o SubSeq(s, k + 1, Len(s))
         IN /\ r \in Seq(Nat) /\ Len(r) = Len(s) - 1 + Len(b)
            /\ \A n \in 1..(k - 1) : r[n] = s[n]
            /\ \A n \in 1..Len(b) : r[k - 1 + n] = b[n]
            /\ \A n \in 1..(Len(s) - k) : r[k - 1 + Len(b) + n] = s[k + n]
<1> DEFINE a == SubSeq(s, 1, k - 1)
           c == SubSeq(s, k + 1, Len(s))
           ab == a \o b
           r == ab \o c
<1>1. Len(s) \in Nat /\ Len(b) \in Nat /\ k \in Nat /\ k >= 1 /\ k <= Len(s)
  OBVIOUS
<1>2. a \in Seq(Nat) /\ Len(a) = k - 1 /\ \A n \in 1..(k - 1) : a[n] = s[n]
  BY <1>1
<1>3. c \in Seq(Nat) /\ Len(c) = Len(s) - k /\ \A n \in 1..(Len(s) - k) : c[n] = s[k + n]
  <2>1. k \in 0..Len(s)
    BY <1>1
  <2> QED BY <2>1, SuffixFollows
<1> HIDE DEF a, c
<1>4. /\ ab \in Seq(Nat) /\ Len(ab) = k - 1 + Len(b)
      /\ \A n \in 1..(k - 1) : ab[n] = s[n]
      /\ \A n \in 1..Len(b) : ab[k - 1 + n] = b[n]
  <2>1. /\ a \o b \in Seq(Nat) /\ Len(a \o b) = Len(a) + Len(b)
        /\ \A n \in 1..Len(a) : (a \o b)[n] = a[n]
        /\ \A n \in 1..Len(b) : (a \o b)[Len(a) + n] = b[n]
    BY <1>2, Concatenated
  <2> QED BY <1>1, <1>2, <2>1
<1> HIDE DEF ab
<1>5. /\ r \in Seq(Nat) /\ Len(r) = k - 1 + Len(b) + (Len(s) - k)
      /\ \A n \in 1..(k - 1 + Len(b)) : r[n] = ab[n]
      /\ \A n \in 1..(Len(s) - k) : r[k - 1 + Len(b) + n] = c[n]
  <2>1. /\ ab \o c \in Seq(Nat) /\ Len(ab \o c) = Len(ab) + Len(c)
        /\ \A n \in 1..Len(ab) : (ab \o c)[n] = ab[n]
        /\ \A n \in 1..Len(c) : (ab \o c)[Len(ab) + n] = c[n]
    BY <1>3, <1>4, Concatenated
  <2> QED BY <1>1, <1>3, <1>4, <2>1
<1> HIDE DEF r
<1>6. Len(r) = Len(s) - 1 + Len(b)
  BY <1>1, <1>5
<1>7. \A n \in 1..(k - 1) : r[n] = s[n]
  BY <1>1, <1>4, <1>5
<1>8. \A n \in 1..Len(b) : r[k - 1 + n] = b[n]
  BY <1>1, <1>4, <1>5
<1>9. \A n \in 1..(Len(s) - k) : r[k - 1 + Len(b) + n] = s[k + n]
  BY <1>3, <1>5
<1> QED BY <1>5, <1>6, <1>7, <1>8, <1>9 DEF r, ab, a, c

\* When what a node gives way to stands between its neighbours, the order is kept.
LEMMA SplicedOrders ==
  ASSUME NEW s, NEW set, Orders(s, set), NEW b, NEW others, Orders(b, others),
         NEW k \in DOMAIN s,
         \A x \in others : \A y \in set : (y < s[k] => y < x) /\ (s[k] < y => x < y)
  PROVE  Orders(SubSeq(s, 1, k - 1) \o b \o SubSeq(s, k + 1, Len(s)),
                (set \ {s[k]}) \cup others)
<1> DEFINE r == SubSeq(s, 1, k - 1) \o b \o SubSeq(s, k + 1, Len(s))
           L == Len(s)
           B == Len(b)
<1>1. /\ s \in Seq(Nat) /\ Increasing(s) /\ Members(s) = set
      /\ b \in Seq(Nat) /\ Increasing(b) /\ Members(b) = others
  BY DEF Orders
<1>3. L \in Nat /\ B \in Nat /\ k \in Nat /\ k >= 1 /\ k <= L
  BY <1>1
<1>2. /\ r \in Seq(Nat) /\ Len(r) = L - 1 + B
      /\ \A n \in 1..(k - 1) : r[n] = s[n]
      /\ \A n \in 1..B : r[k - 1 + n] = b[n]
      /\ \A n \in 1..(L - k) : r[k - 1 + B + n] = s[k + n]
  <2>1. k \in 1..Len(s)
    BY <1>3
  <2> QED BY <1>1, <2>1, SplicedMembers
<1> HIDE DEF r
<1>4. DOMAIN s = 1..L /\ DOMAIN b = 1..B /\ DOMAIN r = 1..(L - 1 + B)
  BY <1>1, <1>2
<1>5. /\ \A n \in 1..L : s[n] \in set /\ s[n] \in Nat
      /\ \A n \in 1..B : b[n] \in others /\ b[n] \in Nat
      /\ \A y \in set : \E n \in 1..L : s[n] = y
      /\ \A x \in others : \E n \in 1..B : b[n] = x
      /\ \A m, n \in 1..L : m < n => s[m] < s[n]
      /\ \A m, n \in 1..B : m < n => b[m] < b[n]
  <2>1. /\ \A n \in DOMAIN s : s[n] \in set /\ s[n] \in Nat
        /\ \A n \in DOMAIN b : b[n] \in others /\ b[n] \in Nat
    BY <1>1 DEF Members
  <2>2. /\ \A y \in set : \E n \in DOMAIN s : s[n] = y
        /\ \A x \in others : \E n \in DOMAIN b : b[n] = x
    BY <1>1 DEF Members
  <2>3. /\ \A m, n \in DOMAIN s : m < n => s[m] < s[n]
        /\ \A m, n \in DOMAIN b : m < n => b[m] < b[n]
    BY <1>1 DEF Increasing
  <2> HIDE DEF L, B
  <2> QED BY <1>4, <2>1, <2>2, <2>3
<1> HIDE DEF L, B
<1> DEFINE Before(n) == n \in 1..(k - 1) /\ r[n] = s[n]
           Within(n) == n - (k - 1) \in 1..B /\ r[n] = b[n - (k - 1)]
           After(n) == n - B + 1 \in (k + 1)..L /\ r[n] = s[n - B + 1]
<1>6. ASSUME NEW n \in DOMAIN r
      PROVE  Before(n) \/ Within(n) \/ After(n)
  <2>1. n \in Nat /\ n >= 1 /\ n <= L - 1 + B
    BY <1>3, <1>4
  <2>2. CASE n <= k - 1
    <3>1. n \in 1..(k - 1)
      BY <1>3, <2>1, <2>2
    <3> QED BY <1>2, <3>1
  <2>3. CASE n > k - 1 /\ n <= k - 1 + B
    <3>1. n - (k - 1) \in 1..B /\ k - 1 + (n - (k - 1)) = n
      BY <1>3, <2>1, <2>3
    <3> QED BY <1>2, <3>1
  <2>4. CASE n > k - 1 + B
    <3>1. n - (k - 1 + B) \in 1..(L - k) /\ k - 1 + B + (n - (k - 1 + B)) = n
      BY <1>3, <2>1, <2>4
    <3>2. k + (n - (k - 1 + B)) = n - B + 1 /\ n - B + 1 \in (k + 1)..L
      BY <1>3, <2>1, <2>4
    <3> QED BY <1>2, <3>1, <3>2
  <2> QED BY <1>3, <2>1, <2>2, <2>3, <2>4
<1>7. ASSUME NEW m \in DOMAIN r, NEW n \in DOMAIN r, m < n
      PROVE  r[m] < r[n]
  <2>1. m \in Nat /\ n \in Nat
    BY <1>3, <1>4
  <2>2. CASE Before(m) /\ Before(n)
    BY <1>3, <1>5, <1>7, <2>1, <2>2
  <2>3. CASE Before(m) /\ Within(n)
    <3>1. s[m] < s[k] /\ s[m] \in set
      BY <1>3, <1>5, <2>3
    <3> QED BY <1>5, <2>3, <3>1
  <2>4. CASE Before(m) /\ After(n)
    BY <1>3, <1>5, <2>1, <2>4
  <2>5. CASE Within(m) /\ Within(n)
    BY <1>3, <1>5, <1>7, <2>1, <2>5
  <2>6. CASE Within(m) /\ After(n)
    <3>1. s[k] < s[n - B + 1] /\ s[n - B + 1] \in set
      BY <1>3, <1>5, <2>6
    <3> QED BY <1>5, <2>6, <3>1
  <2>7. CASE After(m) /\ After(n)
    BY <1>3, <1>5, <1>7, <2>1, <2>7
  <2>8. ~(Within(m) /\ Before(n))
    BY <1>3, <1>7, <2>1
  <2>9. ~(After(m) /\ Before(n))
    BY <1>3, <1>7, <2>1
  <2>10. ~(After(m) /\ Within(n))
    BY <1>3, <1>7, <2>1
  <2> HIDE DEF Before, Within, After
  <2> QED BY <1>6, <2>2, <2>3, <2>4, <2>5, <2>6, <2>7, <2>8, <2>9, <2>10
<1>8. Increasing(r)
  BY <1>7 DEF Increasing
<1>9. ASSUME NEW n \in DOMAIN r
      PROVE  r[n] \in (set \ {s[k]}) \cup others
  <2>1. CASE Before(n)
    <3>1. s[n] < s[k] /\ s[n] \in set /\ s[n] \in Nat /\ s[k] \in Nat
      BY <1>3, <1>5, <2>1
    <3> QED BY <2>1, <3>1
  <2>2. CASE Within(n)
    BY <1>5, <2>2
  <2>3. CASE After(n)
    <3>1. /\ s[k] < s[n - B + 1] /\ s[n - B + 1] \in set
          /\ s[n - B + 1] \in Nat /\ s[k] \in Nat
      BY <1>3, <1>5, <2>3
    <3> QED BY <2>3, <3>1
  <2> QED BY <1>6, <2>1, <2>2, <2>3
<1>10. ASSUME NEW x \in (set \ {s[k]}) \cup others
       PROVE  \E n \in DOMAIN r : r[n] = x
  <2>1. CASE x \in others
    <3>1. PICK n \in 1..B : b[n] = x
      BY <1>5, <2>1
    <3>2. r[k - 1 + n] = x /\ k - 1 + n \in DOMAIN r
      BY <1>2, <1>3, <1>4, <3>1
    <3> QED BY <3>2
  <2>2. CASE x \in set \ {s[k]}
    <3>1. PICK n \in 1..L : s[n] = x
      BY <1>5, <2>2
    <3>2. CASE n < k
      <4>1. n \in 1..(k - 1) /\ n \in 1..(L - 1 + B)
        BY <1>3, <3>1, <3>2
      <4>2. r[n] = x /\ n \in DOMAIN r
        BY <1>2, <1>4, <3>1, <4>1
      <4> QED BY <4>2
    <3>3. CASE n > k
      <4>1. n - k \in 1..(L - k) /\ k + (n - k) = n
        BY <1>3, <3>1, <3>3
      <4>2. r[k - 1 + B + (n - k)] = x
        BY <1>2, <3>1, <4>1
      <4>3. k - 1 + B + (n - k) \in DOMAIN r
        BY <1>3, <1>4, <3>1, <3>3
      <4> QED BY <4>2, <4>3
    <3>4. n # k
      BY <2>2, <3>1
    <3> QED BY <1>3, <3>1, <3>2, <3>3, <3>4
  <2> QED BY <2>1, <2>2
<1>11. Members(r) = (set \ {s[k]}) \cup others
  <2>1. \A x \in Members(r) : x \in (set \ {s[k]}) \cup others
    BY <1>9 DEF Members
  <2>2. \A x \in (set \ {s[k]}) \cup others : x \in Members(r)
    BY <1>10 DEF Members
  <2> QED BY <2>1, <2>2
<1> QED BY <1>2, <1>8, <1>11 DEF Orders, r

------------------------------------------------------------------------------
(* The nodes above a node.                                                   *)

\* What is reached is the least set that has from and that no step leaves.
LEMMA ReachedIsLeast ==
  ASSUME NEW steps, NEW from \in SUBSET DOMAIN steps,
         \A j \in DOMAIN steps : steps[j] \subseteq DOMAIN steps
  PROVE  LET r == Reached(from, steps)
         IN /\ r \subseteq DOMAIN steps /\ from \subseteq r
            /\ \A j \in r : steps[j] \subseteq r
            /\ \A S \in SUBSET DOMAIN steps :
                 from \subseteq S /\ (\A j \in S : steps[j] \subseteq S) => r \subseteq S
BY DEF Reached

IsTree(drawing) ==
  /\ Len(drawing.kind) \in Nat
  /\ DOMAIN drawing.kind = 1..Len(drawing.kind)
  /\ Len(drawing.parent) = Len(drawing.kind)
  /\ \A i \in 1..Len(drawing.kind) :
       /\ drawing.parent[i] \in 0..(i - 1)
       /\ drawing.parent[i] \in {0} \cup Lineage(drawing, i - 1)
       /\ drawing.kind[i] = "text" => drawing.attributes[i] = {}
  /\ drawing.attributes \in [0..Len(drawing.kind) -> SUBSET Attributes]

LEMMA DrawingIsTree == ASSUME NEW d, IsDrawing(d) PROVE IsTree(d)
<1>1. /\ d.kind \in Seq(Kinds) /\ d.parent \in Seq(Nat) /\ Len(d.kind) = Len(d.parent)
      /\ \A i \in DOMAIN d.parent :
           /\ d.parent[i] < i
           /\ d.parent[i] \in {0} \cup Lineage(d, i - 1)
      /\ d.attributes \in [0..Len(d.kind) -> SUBSET Attributes]
      /\ \A i \in DOMAIN d.kind : d.kind[i] = "text" => d.attributes[i] = {}
  BY DEF IsDrawing
<1>2. /\ DOMAIN d.kind = 1..Len(d.kind) /\ DOMAIN d.parent = 1..Len(d.kind)
      /\ Len(d.kind) \in Nat
  BY <1>1
<1>3. ASSUME NEW i \in 1..Len(d.kind)
      PROVE  d.parent[i] \in 0..(i - 1)
  <2>1. d.parent[i] \in Nat /\ d.parent[i] < i /\ i \in Nat
    BY <1>1, <1>2
  <2> QED BY <2>1
<1> QED BY <1>1, <1>2, <1>3 DEF IsTree

\* The lineage of a node is the node and the lineage of what it stands below.
LEMMA LineageSteps ==
  ASSUME NEW d, IsTree(d)
  PROVE  /\ Lineage(d, 0) = {}
         /\ \A i \in 1..Len(d.kind) :
              /\ Lineage(d, i) = {i} \cup Lineage(d, d.parent[i])
              /\ Lineage(d, i) \subseteq 1..i
         /\ \A i \in 0..Len(d.kind) : \A j \in Lineage(d, i) :
              Lineage(d, j) \subseteq Lineage(d, i)
<1> DEFINE N == Len(d.kind)
           above == [j \in 0..Len(d.parent) |-> IF j = 0 THEN {} ELSE {d.parent[j]}]
           R(i) == Reached({i}, above)
<1>1. N \in Nat /\ \A i \in 1..N : d.parent[i] \in 0..(i - 1)
  BY DEF IsTree
<1>2. /\ DOMAIN above = 0..N /\ above[0] = {}
      /\ \A i \in 1..N : above[i] = {d.parent[i]}
  BY <1>1 DEF IsTree
<1>3. \A i : Lineage(d, i) = R(i) \ {0}
  BY DEF Lineage
<1> HIDE DEF above
<1>4. \A j \in DOMAIN above : above[j] \subseteq DOMAIN above
  BY <1>1, <1>2
<1>5. \A i \in 0..N : /\ R(i) \subseteq 0..N /\ i \in R(i)
                      /\ \A j \in R(i) : above[j] \subseteq R(i)
                      /\ \A S \in SUBSET (0..N) :
                           i \in S /\ (\A j \in S : above[j] \subseteq S) => R(i) \subseteq S
  <2>1. SUFFICES ASSUME NEW i \in 0..N
                 PROVE  /\ R(i) \subseteq 0..N /\ i \in R(i)
                        /\ \A j \in R(i) : above[j] \subseteq R(i)
                        /\ \A S \in SUBSET (0..N) :
                             i \in S /\ (\A j \in S : above[j] \subseteq S) => R(i) \subseteq S
    OBVIOUS
  <2>2. {i} \in SUBSET DOMAIN above
    BY <1>2
  <2>3. /\ R(i) \subseteq DOMAIN above /\ {i} \subseteq R(i)
        /\ \A j \in R(i) : above[j] \subseteq R(i)
        /\ \A S \in SUBSET DOMAIN above :
             {i} \subseteq S /\ (\A j \in S : above[j] \subseteq S) => R(i) \subseteq S
    BY <1>4, <2>2, ReachedIsLeast
  <2> HIDE DEF R
  <2>4. \A S \in SUBSET (0..N) : i \in S => S \in SUBSET DOMAIN above /\ {i} \subseteq S
    BY <1>2
  <2> QED BY <1>2, <2>3, <2>4
<1> HIDE DEF R
<1>6. R(0) = {0}
  <2>1. 0 \in 0..N /\ {0} \in SUBSET (0..N)
    BY <1>1
  <2>2. \A j \in {0} : above[j] \subseteq {0}
    BY <1>2
  <2>3. 0 \in R(0) /\ R(0) \subseteq {0}
    BY <1>5, <2>1, <2>2
  <2> QED BY <2>3
<1>7. ASSUME NEW i \in 0..N, NEW j \in R(i)
      PROVE  R(j) \subseteq R(i)
  <2>1. j \in 0..N /\ R(i) \in SUBSET (0..N) /\ \A k \in R(i) : above[k] \subseteq R(i)
    BY <1>5
  <2> QED BY <1>5, <1>7, <2>1
<1>8. ASSUME NEW i \in 1..N
      PROVE  R(i) = {i} \cup R(d.parent[i]) /\ R(i) \subseteq 0..i
  <2>1. i \in 0..N /\ d.parent[i] \in 0..N
    BY <1>1
  <2>2. {i} \cup R(d.parent[i]) \subseteq R(i)
    <3>1. d.parent[i] \in R(i)
      BY <1>2, <1>5, <2>1
    <3> QED BY <1>5, <1>7, <2>1, <3>1
  <2>3. R(i) \subseteq {i} \cup R(d.parent[i])
    <3> DEFINE S == {i} \cup R(d.parent[i])
    <3>1. S \in SUBSET (0..N)
      BY <1>5, <2>1
    <3>2. \A j \in S : above[j] \subseteq S
      <4>1. above[i] \subseteq S
        <5>1. d.parent[i] \in R(d.parent[i])
          BY <1>5, <2>1
        <5> QED BY <1>2, <2>1, <5>1
      <4>2. \A j \in R(d.parent[i]) : above[j] \subseteq R(d.parent[i])
        BY <1>5, <2>1
      <4> QED BY <4>1, <4>2
    <3> HIDE DEF S
    <3>3. i \in S
      BY DEF S
    <3>4. R(i) \subseteq S
      BY <1>5, <2>1, <3>1, <3>2, <3>3
    <3> QED BY <3>4 DEF S
  <2>4. R(i) \subseteq 0..i
    <3>1. 0..i \in SUBSET (0..N)
      BY <1>1
    <3>2. \A j \in 0..i : above[j] \subseteq 0..i
      BY <1>1, <1>2
    <3>3. i \in 0..i
      BY <1>1
    <3> QED BY <1>5, <2>1, <3>1, <3>2, <3>3
  <2> QED BY <2>2, <2>3, <2>4
<1>9. Lineage(d, 0) = {}
  BY <1>3, <1>6
<1>10. ASSUME NEW i \in 1..N
       PROVE  /\ Lineage(d, i) = {i} \cup Lineage(d, d.parent[i])
              /\ Lineage(d, i) \subseteq 1..i
  <2>1. i # 0
    BY <1>1
  <2>2. /\ Lineage(d, i) = R(i) \ {0}
        /\ Lineage(d, d.parent[i]) = R(d.parent[i]) \ {0}
    BY <1>3
  <2>3. Lineage(d, i) = {i} \cup Lineage(d, d.parent[i])
    BY <1>8, <2>1, <2>2
  <2>4. \A j \in 0..i : j # 0 => j \in 1..i
    BY <1>1
  <2> QED BY <1>8, <2>2, <2>3, <2>4
<1>11. ASSUME NEW i \in 0..N, NEW j \in Lineage(d, i)
       PROVE  Lineage(d, j) \subseteq Lineage(d, i)
  BY <1>3, <1>7, <1>11
<1> QED BY <1>9, <1>10, <1>11
\* A node that is above another is above everything between the two: the document
\* order lists a subtree without a gap.
LEMMA SubtreesHaveNoGap ==
  ASSUME NEW d, IsTree(d), NEW b \in 1..Len(d.kind), NEW i \in Lineage(d, b),
         NEW a \in i..b
  PROVE  i \in Lineage(d, a)
<1> DEFINE N == Len(d.kind)
           Good == {n \in Nat : i <= b - n => i \in Lineage(d, b - n)}
<1>1. /\ N \in Nat
      /\ \A c \in 1..N : /\ d.parent[c] \in 0..(c - 1)
                         /\ d.parent[c] \in {0} \cup Lineage(d, c - 1)
  BY DEF IsTree
<1>2. /\ Lineage(d, 0) = {}
      /\ \A c \in 1..N : /\ Lineage(d, c) = {c} \cup Lineage(d, d.parent[c])
                         /\ Lineage(d, c) \subseteq 1..c
      /\ \A c \in 0..N : \A j \in Lineage(d, c) : Lineage(d, j) \subseteq Lineage(d, c)
  BY LineageSteps
<1>3. i \in Nat /\ i >= 1 /\ b \in Nat /\ b <= N /\ i <= b
  BY <1>1, <1>2
<1> HIDE DEF N
<1>4. 0 \in Good
  BY <1>3
<1>5. ASSUME NEW n \in Nat, n \in Good
      PROVE  n + 1 \in Good
  <2>1. SUFFICES ASSUME i <= b - (n + 1) PROVE i \in Lineage(d, b - (n + 1))
    OBVIOUS
  <2> DEFINE c == b - n
  <2>2. c \in 1..N /\ c - 1 \in 0..N /\ c - 1 = b - (n + 1) /\ i < c
    BY <1>1, <1>3, <2>1
  <2>3. i \in Lineage(d, c)
    BY <1>3, <1>5, <2>2
  <2> HIDE DEF c
  <2>4. i \in Lineage(d, d.parent[c])
    BY <1>2, <1>3, <2>2, <2>3
  <2>5. d.parent[c] \in Lineage(d, c - 1)
    BY <1>1, <1>2, <2>2, <2>4
  <2>6. i \in Lineage(d, c - 1)
    BY <1>2, <2>2, <2>4, <2>5
  <2> QED BY <2>2, <2>6
<1> HIDE DEF Good
<1>6. Nat \subseteq Good
  BY <1>4, <1>5, SetInduction
<1>7. b - a \in Nat /\ i <= b - (b - a) /\ b - (b - a) = a
  BY <1>3
<1>8. \A n \in Nat : i <= b - n => i \in Lineage(d, b - n)
  BY <1>6 DEF Good
<1>9. i <= b - (b - a) => i \in Lineage(d, b - (b - a))
  BY <1>7, <1>8
<1> QED BY <1>7, <1>9

\* A set of numbers up to a bound that is not empty has a greatest element.
LEMMA GreatestNumber ==
  ASSUME NEW N \in Nat, NEW S \in SUBSET (0..N), S # {}
  PROVE  \E x \in S : \A y \in S : y <= x
<1> DEFINE T == {N - x : x \in S}
<1>1. T \in SUBSET Nat /\ T # {}
  <2>1. \A x \in S : N - x \in Nat
    OBVIOUS
  <2>2. PICK x \in S : TRUE
    OBVIOUS
  <2>3. N - x \in T
    OBVIOUS
  <2> QED BY <2>1, <2>3
<1>2. PICK t \in T : \A u \in T : t <= u
  <2> HIDE DEF T
  <2> QED BY <1>1, LeastNumber
<1>3. PICK x \in S : t = N - x
  BY <1>2
<1>4. \A y \in S : N - x <= N - y
  BY <1>2, <1>3
<1>5. \A y \in S : y <= x
  BY <1>4
<1> QED BY <1>5

------------------------------------------------------------------------------
(* The tree while the loop walks it.                                         *)

\* The nodes a node was drawn in.
Above(d, i) == Lineage(d, i) \ {i}

\* The links among the first k nodes, which have given way to their children.
Gone(d, k) == {j \in 1..k : d.kind[j] = "link"}

\* What the loop takes from the element that holds it.
Taken(pg) == {"link"} \cup ForbiddenKinds(pg)

\* After k nodes, i still is where it was drawn, but for the links above it.
Stands(pg, d, k, i) == i > k \/ d.kind[i] \notin Taken(pg)

\* p is the nearest node above i that is no link gone: 0 if there is none.
Holds(d, k, p, i) ==
  /\ p \in {0} \cup Above(d, i)
  /\ p \notin Gone(d, k)
  /\ \A q \in Above(d, i) : q > p => q \in Gone(d, k)

\* What p holds after k nodes.
Held(pg, d, k, p) ==
  {i \in 1..Len(d.kind) : Stands(pg, d, k, i) /\ Holds(d, k, p, i)}

LiveTrees(d) ==
  [children : [{0} \cup (1..Len(d.kind)) -> Seq(Nat)],
   attributes : [0..Len(d.kind) -> SUBSET Attributes]]

\* After k nodes every node holds what it should, in order, and of the first k those
\* that are kept have lost their active attributes; the svg element has its own.
Walked(pg, d, k, tree) ==
  /\ tree \in LiveTrees(d)
  /\ \A p \in 0..Len(d.kind) : Orders(tree.children[p], Held(pg, d, k, p))
  /\ tree.attributes[0] = d.attributes[0]
  /\ \A i \in 1..Len(d.kind) :
       d.kind[i] \notin Taken(pg) =>
         tree.attributes[i] = IF i <= k THEN d.attributes[i] \ ForbiddenAttributes(pg)
                                        ELSE d.attributes[i]

\* Every node has one nearest node above it.
LEMMA OneHolds ==
  ASSUME NEW d, IsTree(d), NEW k \in Nat, NEW i \in 1..Len(d.kind)
  PROVE  /\ \E p \in 0..(i - 1) : Holds(d, k, p, i)
         /\ \A p, q : Holds(d, k, p, i) /\ Holds(d, k, q, i) => p = q
<1>1. i \in Nat /\ i - 1 \in Nat /\ Lineage(d, i) \subseteq 1..i
  <2>1. Len(d.kind) \in Nat
    BY DEF IsTree
  <2>2. Lineage(d, i) \subseteq 1..i
    BY LineageSteps
  <2> QED BY <2>1, <2>2
<1>2. Above(d, i) \subseteq 1..(i - 1)
  BY <1>1 DEF Above
<1> DEFINE S == ({0} \cup Above(d, i)) \ Gone(d, k)
<1>3. 0 \in S /\ S \in SUBSET (0..(i - 1))
  BY <1>1, <1>2 DEF Gone
<1>4. PICK p \in S : \A q \in S : q <= p
  <2> HIDE DEF S
  <2>1. S # {}
    BY <1>3
  <2> QED BY <1>1, <1>3, <2>1, GreatestNumber
<1>5. Holds(d, k, p, i) /\ p \in 0..(i - 1)
  <2>1. p \in 0..(i - 1) /\ p \in {0} \cup Above(d, i) /\ p \notin Gone(d, k)
    BY <1>3, <1>4
  <2>2. ASSUME NEW q \in Above(d, i), q > p
        PROVE  q \in Gone(d, k)
    <3>1. q \in Int /\ p \in Int
      BY <1>2, <2>1
    <3>2. ~(q <= p)
      BY <2>2, <3>1
    <3>3. q \notin S
      BY <1>4, <3>2
    <3> QED BY <3>3
  <2> QED BY <2>1, <2>2 DEF Holds
<1>6. ASSUME NEW r, NEW q, Holds(d, k, r, i), Holds(d, k, q, i)
      PROVE  r = q
  <2>1. r \in 0..(i - 1) /\ q \in 0..(i - 1)
    BY <1>1, <1>2, <1>6 DEF Holds
  <2>2. r \in Int /\ q \in Int /\ r >= 0 /\ q >= 0
    BY <2>1
  <2>3. ~(r > q)
    <3>1. SUFFICES ASSUME r > q PROVE FALSE
      OBVIOUS
    <3>2. r # 0
      BY <2>2, <3>1
    <3> QED BY <1>6, <3>1, <3>2 DEF Holds
  <2>4. ~(q > r)
    <3>1. SUFFICES ASSUME q > r PROVE FALSE
      OBVIOUS
    <3>2. q # 0
      BY <2>2, <3>1
    <3> QED BY <1>6, <3>1, <3>2 DEF Holds
  <2> QED BY <2>2, <2>3, <2>4
<1> QED BY <1>5, <1>6

\* What a step of the loop changes about who holds what: only a link does, and its
\* children go to the node that held it.
LEMMA HoldsNext ==
  ASSUME NEW d, IsTree(d), NEW k \in Nat, NEW i, i = k + 1, i \in 1..Len(d.kind),
         NEW j \in 1..Len(d.kind)
  PROVE  /\ d.kind[i] # "link" =>
              \A q : Holds(d, i, q, j) <=> Holds(d, k, q, j)
         /\ d.kind[i] = "link" /\ d.parent[j] # i =>
              \A q : Holds(d, i, q, j) <=> Holds(d, k, q, j)
         /\ d.kind[i] = "link" /\ d.parent[j] = i =>
              \A q : Holds(d, i, q, j) <=> Holds(d, k, q, i)
         /\ \A q : q = i => (Holds(d, k, q, j) <=> d.parent[j] = i)
<1> DEFINE N == Len(d.kind)
           u == d.parent[j]
<1>1. /\ N \in Nat /\ i \in Nat /\ j \in Nat /\ u \in 0..(j - 1) /\ u \in 0..N
      /\ 1 <= i /\ i <= N
  BY DEF IsTree
<1>2. /\ Lineage(d, j) = {j} \cup Lineage(d, u) /\ Lineage(d, j) \subseteq 1..j
      /\ (u # 0 => u \in Lineage(d, u) /\ Lineage(d, u) \subseteq 1..u)
      /\ (u = 0 => Lineage(d, u) = {})
  BY <1>1, LineageSteps
<1>3. Lineage(d, i) \subseteq 1..i /\ i \in Lineage(d, i)
  BY LineageSteps
<1>4. /\ Above(d, j) = Lineage(d, u)
      /\ Above(d, j) \subseteq 1..u
      /\ (u # 0 => u \in Above(d, j))
  BY <1>1, <1>2 DEF Above
<1>5. Gone(d, i) = IF d.kind[i] = "link" THEN Gone(d, k) \cup {i} ELSE Gone(d, k)
  BY <1>1 DEF Gone
<1>6. Gone(d, k) \subseteq 1..k /\ i \notin Gone(d, k)
  BY <1>1 DEF Gone
<1> HIDE DEF N
<1>7. ASSUME d.kind[i] # "link", NEW q
      PROVE  Holds(d, i, q, j) <=> Holds(d, k, q, j)
  <2>1. Gone(d, i) = Gone(d, k)
    BY <1>5, <1>7
  <2> QED BY <2>1 DEF Holds
<1>8. ASSUME d.kind[i] = "link", u # i, NEW q
      PROVE  Holds(d, i, q, j) <=> Holds(d, k, q, j)
  <2>1. CASE i \notin Above(d, j)
    <3>1. i # 0
      BY <1>1
    <3> QED BY <1>5, <1>8, <2>1, <3>1 DEF Holds
  <2>2. CASE i \in Above(d, j)
    <3>1. u > i /\ u \in Above(d, j) /\ u \notin Gone(d, i) /\ u \notin Gone(d, k)
      <4>1. i \in 1..u
        BY <1>4, <2>2
      <4>2. u > i
        BY <1>1, <1>8, <4>1
      <4> QED BY <1>1, <1>4, <1>5, <1>6, <4>2
    <3>2. ASSUME NEW m, m \in {k, i}
          PROVE  Holds(d, m, q, j) <=> q = u
      <4>1. u \notin Gone(d, m) /\ \A x \in Above(d, j) : x <= u
        BY <1>1, <1>4, <3>1, <3>2
      <4>2. Holds(d, m, u, j)
        <5>1. \A x \in Above(d, j) : ~(x > u)
          BY <1>1, <1>4
        <5> QED BY <3>1, <4>1, <5>1 DEF Holds
      <4>3. m \in Nat
        BY <1>1, <3>2
      <4> QED BY <4>2, <4>3, OneHolds
    <3> QED BY <3>2
  <2> QED BY <2>1, <2>2
<1>9. ASSUME NEW q, q = i
      PROVE  Holds(d, k, q, j) <=> u = i
  <2>1. CASE u = i
    <3>1. \A x \in Above(d, j) : ~(x > i)
      BY <1>1, <1>4, <2>1
    <3> QED BY <1>1, <1>4, <1>6, <1>9, <2>1, <3>1 DEF Holds
  <2>2. CASE u # i
    <3>1. SUFFICES ASSUME Holds(d, k, i, j) PROVE FALSE
      BY <1>9, <2>2
    <3>2. i \in Above(d, j)
      BY <1>1, <3>1 DEF Holds
    <3>3. u > i
      BY <1>1, <1>4, <2>2, <3>2
    <3>4. u \in Above(d, j) /\ u \notin Gone(d, k)
      BY <1>1, <1>4, <1>6, <3>3
    <3> QED BY <3>1, <3>3, <3>4 DEF Holds
  <2> QED BY <2>1, <2>2
<1>10. ASSUME d.kind[i] = "link", u = i, NEW q
       PROVE  Holds(d, i, q, j) <=> Holds(d, k, q, i)
  <2>1. Above(d, j) = {i} \cup Above(d, i) /\ i \notin Above(d, i)
    BY <1>3, <1>4, <1>10 DEF Above
  <2>2. Gone(d, i) = Gone(d, k) \cup {i}
    BY <1>5, <1>10
  <2>3. i # 0
    BY <1>1
  <2>4. \A x \in Above(d, i) : x \in Int /\ x # i
    BY <1>1, <1>3, <2>1 DEF Above
  <2> QED BY <2>1, <2>2, <2>3, <2>4 DEF Holds
<1> QED BY <1>7, <1>8, <1>9, <1>10
\* Before the loop every node holds what was drawn in it.
LEMMA LiveTreeIsWalked ==
  ASSUME NEW pg, NEW d, IsTree(d)
  PROVE  Walked(pg, d, 0, LiveTree(d))
<1> DEFINE N == Len(d.kind)
           Below(p) == {i \in 1..N : d.parent[i] = p}
<1>1. N \in Nat /\ \A i \in 1..N : d.parent[i] \in 0..(i - 1)
  BY DEF IsTree
<1>2. ASSUME NEW i \in 1..N, NEW p
      PROVE  Holds(d, 0, p, i) <=> p = d.parent[i]
  <2> DEFINE u == d.parent[i]
  <2>1. u \in 0..(i - 1) /\ u \in 0..N /\ i \in Nat
    BY <1>1
  <2>2. /\ Lineage(d, i) = {i} \cup Lineage(d, u) /\ Lineage(d, i) \subseteq 1..i
        /\ (u # 0 => u \in Lineage(d, u) /\ Lineage(d, u) \subseteq 1..u)
        /\ (u = 0 => Lineage(d, u) = {})
    BY <1>1, <2>1, LineageSteps
  <2> HIDE DEF u
  <2>3. /\ Above(d, i) \subseteq 1..u
        /\ (u # 0 => u \in Above(d, i))
    BY <2>1, <2>2 DEF Above
  <2>4. Gone(d, 0) = {}
    BY DEF Gone
  <2>5. \A q \in Above(d, i) : ~(q > u)
    BY <2>1, <2>3
  <2>6. Holds(d, 0, u, i)
    BY <2>3, <2>4, <2>5 DEF Holds
  <2> QED BY <2>6, OneHolds DEF u
<1>3. ASSUME NEW p
      PROVE  Held(pg, d, 0, p) = Below(p)
  <2>1. \A i \in 1..N : Stands(pg, d, 0, i)
    BY <1>1 DEF Stands
  <2> QED BY <1>2, <2>1 DEF Held
<1>4. ASSUME NEW p
      PROVE  Orders(InOrder(d, Below(p)), Below(p))
  <2>1. Below(p) \in SUBSET (1..N)
    OBVIOUS
  <2> HIDE DEF Below
  <2> QED BY <1>1, <2>1, InOrderOrders
<1>5. ASSUME NEW p
      PROVE  InOrder(d, Below(p)) \in Seq(Nat)
  BY <1>4 DEF Orders
<1>6. 0..N = {0} \cup (1..N)
  BY <1>1
<1> DEFINE t == LiveTree(d)
<1>7. t = [children |-> [p \in {0} \cup (1..N) |-> InOrder(d, Below(p))],
           attributes |-> d.attributes]
  BY DEF LiveTree
<1> HIDE DEF Below, t
<1>8. t.children = [p \in {0} \cup (1..N) |-> InOrder(d, Below(p))]
  BY <1>7
<1>9. t \in LiveTrees(d)
  BY <1>5, <1>7 DEF LiveTrees, IsTree
<1>10. \A p \in 0..N : Orders(t.children[p], Held(pg, d, 0, p))
  BY <1>3, <1>4, <1>6, <1>8
<1>11. t.attributes = d.attributes /\ \A i \in 1..N : ~(i <= 0)
  BY <1>1, <1>7
<1> QED BY <1>9, <1>10, <1>11 DEF Walked, t

\* The element that holds the next node is the one the page finds.
LEMMA HolderIsFound ==
  ASSUME NEW pg, NEW d, IsTree(d), NEW k \in Nat, NEW i, i = k + 1,
         i \in 1..Len(d.kind), NEW tree, Walked(pg, d, k, tree)
  PROVE  LET p == HolderOf(tree, i)
         IN /\ p \in 0..(i - 1) /\ Holds(d, k, p, i)
            /\ \E n \in DOMAIN tree.children[p] : tree.children[p][n] = i
<1> DEFINE N == Len(d.kind)
           p == HolderOf(tree, i)
<1>1. N \in Nat /\ i \in Nat /\ k < i /\ i <= N /\ 1 <= i
  BY DEF IsTree
<1>2. DOMAIN tree.children = 0..N
  <2>1. tree.children \in [{0} \cup (1..N) -> Seq(Nat)]
    BY DEF Walked, LiveTrees
  <2>2. {0} \cup (1..N) = 0..N
    BY <1>1
  <2> QED BY <2>1, <2>2
<1>3. ASSUME NEW q \in 0..N
      PROVE  /\ Contains(tree.children[q], i) <=> Holds(d, k, q, i)
             /\ Holds(d, k, q, i) => \E n \in DOMAIN tree.children[q] : tree.children[q][n] = i
  <2> DEFINE s == tree.children[q]
  <2>1. s \in Seq(Nat) /\ Members(s) = Held(pg, d, k, q)
    BY DEF Walked, Orders
  <2>2. i \in Held(pg, d, k, q) <=> Holds(d, k, q, i)
    BY <1>1 DEF Held, Stands
  <2> HIDE DEF s
  <2>3. Contains(s, i) <=> \E n \in DOMAIN s : s[n] = i
    BY <2>1 DEF Contains
  <2>4. i \in Members(s) <=> \E n \in DOMAIN s : s[n] = i
    BY DEF Members
  <2> QED BY <2>1, <2>2, <2>3, <2>4 DEF s
<1>4. PICK r \in 0..(i - 1) : Holds(d, k, r, i)
  BY OneHolds
<1>5. r \in 0..N
  BY <1>1, <1>4
<1>6. \E q \in DOMAIN tree.children : Contains(tree.children[q], i)
  BY <1>2, <1>3, <1>4, <1>5
<1>7. p \in 0..N /\ Contains(tree.children[p], i)
  BY <1>2, <1>6 DEF HolderOf
<1> HIDE DEF p
<1>8. Holds(d, k, p, i)
  BY <1>3, <1>7
<1>9. p = r
  BY <1>4, <1>8, OneHolds
<1> QED BY <1>3, <1>4, <1>7, <1>8, <1>9 DEF p

\* A link gives way to its children, and each stands where the order wants it.
LEMMA UnwrappedKeeps ==
  ASSUME NEW pg, NEW d, IsTree(d), NEW k \in Nat, NEW i, i = k + 1,
         i \in 1..Len(d.kind), NEW tree, Walked(pg, d, k, tree), d.kind[i] = "link"
  PROVE  Walked(pg, d, i, Unwrapped(tree, i))
<1> DEFINE N == Len(d.kind)
           p == HolderOf(tree, i)
           s == tree.children[p]
           b == tree.children[i]
           t == Position(s, i)
           r == SubSeq(s, 1, t - 1) \o b \o SubSeq(s, t + 1, Len(s))
           next == Unwrapped(tree, i)
<1>1. /\ N \in Nat /\ i \in Nat /\ k < i /\ i <= N /\ 1 <= i
      /\ i \in 0..N /\ {0} \cup (1..N) = 0..N
  BY DEF IsTree
<1>0. \A m, o : Held(pg, d, m, o) \subseteq 1..N
  BY DEF Held
<1>2. /\ p \in 0..(i - 1) /\ Holds(d, k, p, i)
      /\ \E n \in DOMAIN s : s[n] = i
  BY HolderIsFound
<1>3. p \in 0..N /\ p # i
  BY <1>1, <1>2
<1>4. t \in DOMAIN s /\ s[t] = i
  BY <1>2 DEF Position
<1> HIDE DEF p, t
<1>5. /\ tree \in LiveTrees(d)
      /\ \A q \in 0..N : Orders(tree.children[q], Held(pg, d, k, q))
      /\ tree.attributes[0] = d.attributes[0]
      /\ \A j \in 1..N : d.kind[j] \notin Taken(pg) =>
           tree.attributes[j] = IF j <= k THEN d.attributes[j] \ ForbiddenAttributes(pg)
                                          ELSE d.attributes[j]
  BY DEF Walked
<1>6. Orders(s, Held(pg, d, k, p)) /\ Orders(b, Held(pg, d, k, i))
  BY <1>1, <1>3, <1>5
<1>7. \A x : x \in Held(pg, d, k, i) <=> x \in 1..N /\ d.parent[x] = i
  <2>1. ASSUME NEW x \in 1..N
        PROVE  x \in Held(pg, d, k, i) <=> d.parent[x] = i
    <3>1. Holds(d, k, i, x) <=> d.parent[x] = i
      BY HoldsNext
    <3>2. d.parent[x] = i => x > k
      BY <1>1 DEF IsTree
    <3> QED BY <3>1, <3>2 DEF Held, Stands
  <2> QED BY <2>1 DEF Held
<1>8. ASSUME NEW x \in Held(pg, d, k, i), NEW y \in Held(pg, d, k, p)
      PROVE  (y < i => y < x) /\ (i < y => x < y)
  <2>1. x \in 1..N /\ d.parent[x] = i /\ y \in 1..N /\ Holds(d, k, p, y)
    BY <1>7 DEF Held
  <2>2. x \in Nat /\ y \in Nat /\ i < x
    BY <1>1, <2>1 DEF IsTree
  <2>3. ASSUME i < y, y <= x
        PROVE  FALSE
    <3>1. i \in Lineage(d, x)
      BY <1>1, <2>1, LineageSteps
    <3>2. y \in i..x
      BY <1>1, <2>2, <2>3
    <3>3. i \in Lineage(d, y)
      BY <2>1, <3>1, <3>2, SubtreesHaveNoGap
    <3>4. i \in Above(d, y) /\ i > p
      BY <1>1, <1>2, <2>2, <2>3, <3>3 DEF Above
    <3>5. i \in Gone(d, k)
      BY <2>1, <3>4 DEF Holds
    <3> QED BY <1>1, <3>5 DEF Gone
  <2> QED BY <1>1, <2>2, <2>3
<1>9. Orders(r, (Held(pg, d, k, p) \ {i}) \cup Held(pg, d, k, i))
  <2> HIDE DEF s, b
  <2> QED BY <1>4, <1>6, <1>8, SplicedOrders
<1>10. r \in Seq(Nat)
  BY <1>9 DEF Orders
<1>11. next = [tree EXCEPT !.children = [@ EXCEPT ![p] = r, ![i] = <<>>]]
  BY DEF Unwrapped, p, t
<1> HIDE DEF r, s, b
<1>12. /\ tree.children \in [0..N -> Seq(Nat)]
       /\ tree.attributes \in [0..N -> SUBSET Attributes]
       /\ tree = [children |-> tree.children, attributes |-> tree.attributes]
  BY <1>1, <1>5 DEF LiveTrees
<1>13. /\ next.attributes = tree.attributes
       /\ next.children = [tree.children EXCEPT ![p] = r, ![i] = <<>>]
       /\ next = [children |-> next.children, attributes |-> next.attributes]
  BY <1>11, <1>12
<1> HIDE DEF next
<1>14. <<>> \in Seq(Nat)
  OBVIOUS
<1>15. next.children \in [0..N -> Seq(Nat)]
  BY <1>10, <1>12, <1>13, <1>14
<1>16. next \in LiveTrees(d)
  BY <1>1, <1>12, <1>13, <1>15 DEF LiveTrees
<1>17. /\ next.children[i] = <<>> /\ next.children[p] = r
       /\ \A q \in 0..N : q # p /\ q # i => next.children[q] = tree.children[q]
  BY <1>1, <1>3, <1>12, <1>13
<1>18. ASSUME NEW x \in 1..N, NEW q
       PROVE  x \in Held(pg, d, i, q) <=>
                /\ x # i /\ q # i
                /\ x \in Held(pg, d, k, q) \/ (q = p /\ x \in Held(pg, d, k, i))
  <2>1. Stands(pg, d, i, x) <=> x # i /\ Stands(pg, d, k, x)
    BY <1>1 DEF Stands, Taken
  <2>2. i \in Gone(d, i)
    BY <1>1 DEF Gone
  <2>3. q = i => ~Holds(d, i, q, x)
    BY <2>2 DEF Holds
  <2>4. CASE d.parent[x] = i
    <3>1. \A o : Holds(d, i, o, x) <=> Holds(d, k, o, i)
      BY <2>4, HoldsNext
    <3>2. Holds(d, k, q, i) <=> q = p
      BY <1>2, OneHolds
    <3>3. x \in Held(pg, d, k, i) /\ Stands(pg, d, k, x) /\ x # i
      <4>1. x # i
        BY <1>1, <2>4 DEF IsTree
      <4> QED BY <1>7, <2>4, <4>1 DEF Held
    <3>4. q # i => x \notin Held(pg, d, k, q)
      <4>1. Holds(d, k, i, x)
        BY <3>3 DEF Held
      <4> QED BY <4>1, OneHolds DEF Held
    <3> QED BY <1>3, <2>1, <3>1, <3>2, <3>3, <3>4 DEF Held
  <2>5. CASE d.parent[x] # i
    <3>1. Holds(d, i, q, x) <=> Holds(d, k, q, x)
      BY <2>5, HoldsNext
    <3>2. x \notin Held(pg, d, k, i)
      BY <1>7, <2>5
    <3> QED BY <2>1, <2>3, <3>1, <3>2 DEF Held
  <2> QED BY <2>4, <2>5
<1>19. ASSUME NEW q \in 0..N
       PROVE  Orders(next.children[q], Held(pg, d, i, q))
  <2>1. CASE q = i
    <3>1. Held(pg, d, i, q) = {}
      BY <1>18, <2>1 DEF Held
    <3>2. Orders(<<>>, {})
      BY DEF Orders, Increasing, Members
    <3> QED BY <1>17, <2>1, <3>1, <3>2
  <2>2. CASE q = p
    <3>1. Held(pg, d, i, q) = (Held(pg, d, k, p) \ {i}) \cup Held(pg, d, k, i)
      <4>1. i \notin Held(pg, d, k, i)
        BY <1>1, <1>7 DEF IsTree
      <4>3. /\ Held(pg, d, i, q) \subseteq 1..N
            /\ Held(pg, d, k, p) \subseteq 1..N /\ Held(pg, d, k, i) \subseteq 1..N
        BY <1>0
      <4> QED BY <1>3, <1>18, <2>2, <4>1, <4>3
    <3> QED BY <1>9, <1>17, <2>2, <3>1
  <2>3. CASE q # p /\ q # i
    <3>1. i \notin Held(pg, d, k, q)
      BY <1>2, <2>3, OneHolds DEF Held
    <3>2. Held(pg, d, i, q) = Held(pg, d, k, q)
      <4>1. Held(pg, d, i, q) \subseteq 1..N /\ Held(pg, d, k, q) \subseteq 1..N
        BY <1>0
      <4>2. ASSUME NEW x \in 1..N
            PROVE  x \in Held(pg, d, i, q) <=> x \in Held(pg, d, k, q)
        <5>1. x \in Held(pg, d, i, q) <=> x # i /\ x \in Held(pg, d, k, q)
          BY <1>18, <2>3
        <5> QED BY <3>1, <5>1
      <4> QED BY <4>1, <4>2
    <3> QED BY <1>5, <1>17, <2>3, <3>2
  <2> QED BY <2>1, <2>2, <2>3
<1>20. ASSUME NEW j \in 1..N, d.kind[j] \notin Taken(pg)
       PROVE  next.attributes[j] = IF j <= i THEN d.attributes[j] \ ForbiddenAttributes(pg)
                                             ELSE d.attributes[j]
  <2>1. j # i
    BY <1>20 DEF Taken
  <2>2. j <= k <=> j <= i
    BY <1>1, <2>1
  <2> QED BY <1>5, <1>13, <1>20, <2>2
<1>21. next.attributes[0] = d.attributes[0]
  BY <1>5, <1>13
<1> QED BY <1>16, <1>19, <1>20, <1>21 DEF Walked, next
\* A forbidden element goes, and what it holds goes with it.
LEMMA DetachedKeeps ==
  ASSUME NEW pg, NEW d, IsTree(d), NEW k \in Nat, NEW i, i = k + 1,
         i \in 1..Len(d.kind), NEW tree, Walked(pg, d, k, tree),
         d.kind[i] \in ForbiddenKinds(pg), d.kind[i] # "link"
  PROVE  Walked(pg, d, i, Detached(tree, i))
<1> DEFINE N == Len(d.kind)
           p == HolderOf(tree, i)
           next == Detached(tree, i)
           r == Selected(tree.children[p], DOMAIN tree.children \ {i})
<1>1. /\ N \in Nat /\ i \in Nat /\ k < i /\ i <= N /\ 1 <= i
      /\ i \in 0..N /\ {0} \cup (1..N) = 0..N
  BY DEF IsTree
<1>2. /\ p \in 0..(i - 1) /\ Holds(d, k, p, i)
  BY HolderIsFound
<1>3. p \in 0..N
  BY <1>1, <1>2
<1> HIDE DEF p
<1>4. /\ tree \in LiveTrees(d)
      /\ \A q \in 0..N : Orders(tree.children[q], Held(pg, d, k, q))
      /\ tree.attributes[0] = d.attributes[0]
      /\ \A j \in 1..N : d.kind[j] \notin Taken(pg) =>
           tree.attributes[j] = IF j <= k THEN d.attributes[j] \ ForbiddenAttributes(pg)
                                          ELSE d.attributes[j]
  BY DEF Walked
<1>5. /\ tree.children \in [0..N -> Seq(Nat)]
      /\ tree.attributes \in [0..N -> SUBSET Attributes]
      /\ tree = [children |-> tree.children, attributes |-> tree.attributes]
  BY <1>1, <1>4 DEF LiveTrees
<1>6. \A m, o : Held(pg, d, m, o) \subseteq 1..N
  BY DEF Held
<1>7. Orders(r, Held(pg, d, k, p) \ {i})
  <2>1. Orders(r, Held(pg, d, k, p) \cap (DOMAIN tree.children \ {i}))
    BY <1>3, <1>4, SelectedOrders
  <2>2. DOMAIN tree.children = 0..N
    BY <1>5
  <2>3. Held(pg, d, k, p) \cap (DOMAIN tree.children \ {i}) = Held(pg, d, k, p) \ {i}
    BY <1>1, <1>6, <2>2
  <2> QED BY <2>1, <2>3
<1>8. r \in Seq(Nat)
  BY <1>7 DEF Orders
<1>9. next = [tree EXCEPT !.children[p] = r]
  BY DEF Detached, p
<1> HIDE DEF r
<1>10. /\ next.attributes = tree.attributes
       /\ next.children = [tree.children EXCEPT ![p] = r]
       /\ next = [children |-> next.children, attributes |-> next.attributes]
  BY <1>5, <1>9
<1> HIDE DEF next
<1>11. next.children \in [0..N -> Seq(Nat)]
  BY <1>5, <1>8, <1>10
<1>12. next \in LiveTrees(d)
  BY <1>1, <1>5, <1>10, <1>11 DEF LiveTrees
<1>13. ASSUME NEW q \in 0..N
       PROVE  Held(pg, d, i, q) = Held(pg, d, k, q) \ {i}
  <2>1. ASSUME NEW x \in 1..N
        PROVE  x \in Held(pg, d, i, q) <=> x \in Held(pg, d, k, q) /\ x # i
    <3>1. Stands(pg, d, i, x) <=> x # i /\ Stands(pg, d, k, x)
      BY <1>1 DEF Stands, Taken
    <3>2. Holds(d, i, q, x) <=> Holds(d, k, q, x)
      BY HoldsNext
    <3> QED BY <3>1, <3>2 DEF Held
  <2> QED BY <1>6, <2>1
<1>14. ASSUME NEW q \in 0..N
       PROVE  Orders(next.children[q], Held(pg, d, i, q))
  <2>1. CASE q = p
    <3>1. next.children[q] = r
      BY <1>3, <1>5, <1>10, <2>1
    <3> QED BY <1>7, <1>13, <2>1, <3>1
  <2>2. CASE q # p
    <3>1. next.children[q] = tree.children[q]
      BY <1>5, <1>10, <2>2
    <3>2. i \notin Held(pg, d, k, q)
      BY <1>2, <2>2, OneHolds DEF Held
    <3>3. Held(pg, d, i, q) = Held(pg, d, k, q)
      BY <1>13, <3>2
    <3> QED BY <1>4, <3>1, <3>3
  <2> QED BY <2>1, <2>2
<1>15. ASSUME NEW j \in 1..N, d.kind[j] \notin Taken(pg)
       PROVE  next.attributes[j] = IF j <= i THEN d.attributes[j] \ ForbiddenAttributes(pg)
                                             ELSE d.attributes[j]
  <2>1. j # i
    BY <1>15 DEF Taken
  <2>2. j <= k <=> j <= i
    BY <1>1, <2>1
  <2> QED BY <1>4, <1>10, <1>15, <2>2
<1>16. next.attributes[0] = d.attributes[0]
  BY <1>4, <1>10
<1> QED BY <1>12, <1>14, <1>15, <1>16 DEF Walked, next
\* What stays where it is changes nothing about who holds what.
LEMMA StayingKeepsHeld ==
  ASSUME NEW pg, NEW d, IsTree(d), NEW k \in Nat, NEW i, i = k + 1,
         i \in 1..Len(d.kind), d.kind[i] \notin Taken(pg), NEW q
  PROVE  Held(pg, d, i, q) = Held(pg, d, k, q)
<1> DEFINE N == Len(d.kind)
<1>1. /\ N \in Nat /\ i \in Nat /\ k < i
  BY DEF IsTree
<1>2. \A m, o : Held(pg, d, m, o) \subseteq 1..N
  BY DEF Held
<1>3. ASSUME NEW x \in 1..N
      PROVE  x \in Held(pg, d, i, q) <=> x \in Held(pg, d, k, q)
  <2>1. Stands(pg, d, i, x) <=> Stands(pg, d, k, x)
    BY <1>1 DEF Stands
  <2>2. d.kind[i] # "link"
    BY DEF Taken
  <2>3. x \in 1..Len(d.kind)
    OBVIOUS
  <2>4. IsTree(d) /\ k \in Nat /\ i = k + 1 /\ i \in 1..Len(d.kind)
    OBVIOUS
  <2>5. d.kind[i] # "link" =>
          \A r : Holds(d, i, r, x) <=> Holds(d, k, r, x)
    BY ONLY <2>3, <2>4, HoldsNext
  <2>6. \A r : Holds(d, i, r, x) <=> Holds(d, k, r, x)
    BY ONLY <2>2, <2>5
  <2> QED BY <2>1, <2>6 DEF Held
<1> QED BY <1>2, <1>3

\* An element that is kept stays where it is and loses its active attributes; a text
\* is not visited.
LEMMA StayingKeeps ==
  ASSUME NEW pg, NEW d, IsTree(d), NEW k \in Nat, NEW i, i = k + 1,
         i \in 1..Len(d.kind), NEW tree, Walked(pg, d, k, tree),
         d.kind[i] \notin Taken(pg),
         NEW next,
         next = IF d.kind[i] = "text" THEN tree
                ELSE [tree EXCEPT !.attributes[i] = @ \ ForbiddenAttributes(pg)]
  PROVE  Walked(pg, d, i, next)
<1> DEFINE N == Len(d.kind)
<1>1. /\ N \in Nat /\ i \in Nat /\ k < i /\ i <= N /\ 1 <= i
      /\ {0} \cup (1..N) = 0..N
  BY DEF IsTree
<1>2. /\ tree \in LiveTrees(d)
      /\ \A q \in 0..N : Orders(tree.children[q], Held(pg, d, k, q))
      /\ tree.attributes[0] = d.attributes[0]
      /\ \A j \in 1..N : d.kind[j] \notin Taken(pg) =>
           tree.attributes[j] = IF j <= k THEN d.attributes[j] \ ForbiddenAttributes(pg)
                                          ELSE d.attributes[j]
  BY DEF Walked
<1>3. /\ tree.children \in [0..N -> Seq(Nat)]
      /\ tree.attributes \in [0..N -> SUBSET Attributes]
      /\ tree = [children |-> tree.children, attributes |-> tree.attributes]
  BY <1>1, <1>2 DEF LiveTrees
<1>4. \A q \in 0..N : Orders(tree.children[q], Held(pg, d, i, q))
  BY <1>2, StayingKeepsHeld
<1>5. CASE d.kind[i] = "text"
  <2>1. ASSUME NEW j \in 1..N, d.kind[j] \notin Taken(pg)
        PROVE  tree.attributes[j] = IF j <= i THEN d.attributes[j] \ ForbiddenAttributes(pg)
                                              ELSE d.attributes[j]
    <3>1. CASE j = i
      <4>1. tree.attributes[j] = d.attributes[j] /\ d.attributes[j] = {}
        BY <1>1, <1>2, <1>5, <2>1, <3>1 DEF IsTree
      <4> QED BY <4>1
    <3>2. CASE j # i
      <4>1. j <= k <=> j <= i
        BY <1>1, <3>2
      <4> QED BY <1>2, <2>1, <4>1
    <3> QED BY <3>1, <3>2
  <2> QED BY <1>2, <1>4, <1>5, <2>1 DEF Walked
<1>6. CASE d.kind[i] # "text"
  <2> DEFINE left == tree.attributes[i] \ ForbiddenAttributes(pg)
  <2>1. next = [tree EXCEPT !.attributes[i] = left]
    BY <1>6
  <2>2. left \in SUBSET Attributes /\ left = d.attributes[i] \ ForbiddenAttributes(pg)
    <3>1. tree.attributes[i] = d.attributes[i] /\ d.attributes[i] \in SUBSET Attributes
      <4>1. i \in 1..N /\ i \in 0..N /\ ~(i <= k)
        BY <1>1
      <4>2. d.attributes[i] \in SUBSET Attributes
        BY <4>1 DEF IsTree
      <4>3. tree.attributes[i] = d.attributes[i]
        BY <1>2, <4>1
      <4> QED BY <4>2, <4>3
    <3> QED BY <3>1
  <2> HIDE DEF left
  <2>3. /\ next.children = tree.children
        /\ next.attributes = [tree.attributes EXCEPT ![i] = left]
        /\ next = [children |-> next.children, attributes |-> next.attributes]
    BY <1>3, <2>1
  <2>4. next \in LiveTrees(d)
    <3>1. next.attributes \in [0..N -> SUBSET Attributes]
      BY <1>3, <2>2, <2>3
    <3> QED BY <1>1, <1>3, <2>3, <3>1 DEF LiveTrees
  <2>5. \A q \in 0..N : Orders(next.children[q], Held(pg, d, i, q))
    BY <1>4, <2>3
  <2>6. ASSUME NEW j \in 1..N, d.kind[j] \notin Taken(pg)
        PROVE  next.attributes[j] = IF j <= i THEN d.attributes[j] \ ForbiddenAttributes(pg)
                                              ELSE d.attributes[j]
    <3>1. CASE j = i
      <4>1. next.attributes[i] = left /\ i <= i
        BY <1>1, <1>3, <2>3
      <4> QED BY <2>2, <3>1, <4>1
    <3>2. CASE j # i
      <4>1. next.attributes[j] = tree.attributes[j]
        BY <1>3, <2>3, <3>2
      <4>2. j <= k <=> j <= i
        BY <1>1, <3>2
      <4> QED BY <1>2, <2>6, <4>1, <4>2
    <3> QED BY <3>1, <3>2
  <2>7. next.attributes[0] = d.attributes[0]
    <3>1. 0 # i /\ 0 \in 0..N
      BY <1>1
    <3> QED BY <1>2, <1>3, <2>3, <3>1
  <2> QED BY <2>4, <2>5, <2>6, <2>7 DEF Walked
<1> QED BY <1>5, <1>6

\* One turn of the loop.
LEMMA TurnKeeps ==
  ASSUME NEW pg, NEW d, IsTree(d), NEW k \in Nat, NEW i, i = k + 1,
         i \in 1..Len(d.kind), NEW tree, Walked(pg, d, k, tree), NEW next,
         next = IF d.kind[i] = "text" THEN tree ELSE Visited(pg, d, tree, i)
  PROVE  Walked(pg, d, i, next)
<1>1. CASE d.kind[i] = "link"
  <2>1. d.kind[i] # "text" /\ d.kind[i] \notin ForbiddenKinds(pg)
    BY <1>1 DEF ForbiddenKinds
  <2>2. next = Unwrapped(tree, i)
    BY <1>1, <2>1 DEF Visited
  <2> QED BY <1>1, <2>2, UnwrappedKeeps
<1>2. CASE d.kind[i] \in ForbiddenKinds(pg)
  <2>1. d.kind[i] # "text" /\ d.kind[i] # "link"
    BY <1>2 DEF ForbiddenKinds
  <2>2. next = Detached(tree, i)
    BY <1>2, <2>1 DEF Visited
  <2> QED BY <1>2, <2>1, <2>2, DetachedKeeps
<1>3. CASE d.kind[i] \notin Taken(pg)
  <2>1. d.kind[i] # "link" /\ d.kind[i] \notin ForbiddenKinds(pg)
    BY <1>3 DEF Taken
  <2>2. next = IF d.kind[i] = "text" THEN tree
               ELSE [tree EXCEPT !.attributes[i] = @ \ ForbiddenAttributes(pg)]
    BY <2>1 DEF Visited
  <2> QED BY <1>3, <2>2, StayingKeeps
<1> QED BY <1>1, <1>2, <1>3 DEF Taken
\* A function that goes on by turns as long as they lead to a tree.
Turns(pg, d, f) ==
  /\ f[0] = LiveTree(d)
  /\ \A n \in 1..Len(d.kind) :
       LET next == IF d.kind[n] = "text" THEN f[n - 1] ELSE Visited(pg, d, f[n - 1], n)
       IN next \in LiveTrees(d) => f[n] = next

\* Every turn does lead to a tree.
LEMMA TurnsWalk ==
  ASSUME NEW pg, NEW d, IsTree(d), NEW f, Turns(pg, d, f)
  PROVE  \A n \in 0..Len(d.kind) : Walked(pg, d, n, f[n])
<1> DEFINE N == Len(d.kind)
           Good == {n \in Nat : n <= N => Walked(pg, d, n, f[n])}
<1>1. N \in Nat
  BY DEF IsTree
<1>2. 0 \in Good
  BY LiveTreeIsWalked DEF Turns
<1>3. ASSUME NEW n \in Nat, n \in Good
      PROVE  n + 1 \in Good
  <2>1. SUFFICES ASSUME n + 1 <= N PROVE Walked(pg, d, n + 1, f[n + 1])
    OBVIOUS
  <2> DEFINE i == n + 1
             next == IF d.kind[i] = "text" THEN f[n] ELSE Visited(pg, d, f[n], i)
  <2>2. i \in 1..N /\ i - 1 = n /\ Walked(pg, d, n, f[n])
    BY <1>1, <1>3, <2>1
  <2>3. Walked(pg, d, i, next)
    BY <2>2, TurnKeeps
  <2>4. next \in LiveTrees(d)
    <3> HIDE DEF next
    <3> QED BY <2>3 DEF Walked
  <2>5. f[i] = next
    <3>1. LET other == IF d.kind[i] = "text" THEN f[i - 1] ELSE Visited(pg, d, f[i - 1], i)
          IN other \in LiveTrees(d) => f[i] = other
      BY <2>2 DEF Turns
    <3> QED BY <2>2, <2>4, <3>1
  <2> QED BY <2>3, <2>5
<1> HIDE DEF Good
<1>4. Nat \subseteq Good
  BY <1>2, <1>3, SetInduction
<1> QED BY <1>1, <1>4 DEF Good

\* The loop as a whole.
LEMMA SanitizedIsWalked ==
  ASSUME NEW pg, NEW d, IsTree(d)
  PROVE  Walked(pg, d, Len(d.kind), Sanitized(pg, d))
<1> DEFINE N == Len(d.kind)
           V == LiveTrees(d)
           turn(n, v) == IF d.kind[n] = "text" THEN v ELSE Visited(pg, d, v, n)
           Is(g) == g = [n \in 0..N |->
                           IF n = 0 THEN LiveTree(d)
                           ELSE IF d.kind[n] = "text" THEN g[n - 1]
                           ELSE Visited(pg, d, g[n - 1], n)]
           F == CHOOSE g : Is(g)
           step == [n \in Nat |-> [v \in V |-> IF turn(n, v) \in V THEN turn(n, v) ELSE v]]
<1>1. N \in Nat
  BY DEF IsTree
<1>2. \E g : Is(g)
  <2>1. step \in [Nat -> [V -> V]]
    <3> HIDE DEF turn, V
    <3> QED OBVIOUS
  <2>2. LiveTree(d) \in V
    BY LiveTreeIsWalked DEF Walked
  <2>3. PICK g \in [0..N -> V] : Recurs(g, LiveTree(d), step, N)
    <3> HIDE DEF step, V, N
    <3> QED BY <1>1, <2>1, <2>2, RecursionExists
  <2>4. \A n \in 1..N : n \in Nat /\ n - 1 \in 0..N /\ g[n - 1] \in V
    BY <1>1, <2>3
  <2>5. ASSUME NEW n \in 1..N
        PROVE  g[n] = IF turn(n, g[n - 1]) \in V THEN turn(n, g[n - 1]) ELSE g[n - 1]
    <3>1. g[n] = step[n][g[n - 1]]
      BY <2>3 DEF Recurs
    <3> HIDE DEF turn, V
    <3> QED BY <2>4, <3>1
  <2>6. Turns(pg, d, g)
    <3>1. g[0] = LiveTree(d)
      BY <2>3 DEF Recurs
    <3>2. \A n \in 1..N : turn(n, g[n - 1]) \in V => g[n] = turn(n, g[n - 1])
      <4> HIDE DEF turn, V
      <4> QED BY <2>5
    <3> QED BY <3>1, <3>2 DEF Turns
  <2>7. \A n \in 0..N : Walked(pg, d, n, g[n])
    BY <2>6, TurnsWalk
  <2>8. ASSUME NEW n \in 1..N
        PROVE  g[n] = turn(n, g[n - 1])
    <3>1. n - 1 \in Nat /\ n = (n - 1) + 1 /\ n - 1 \in 0..N
      BY <1>1
    <3>2. Walked(pg, d, n - 1, g[n - 1])
      BY <2>7, <3>1
    <3>3. Walked(pg, d, n, turn(n, g[n - 1]))
      BY <3>1, <3>2, TurnKeeps
    <3>4. turn(n, g[n - 1]) \in V
      <4> HIDE DEF turn
      <4> QED BY <3>3 DEF Walked
    <3> HIDE DEF turn, V
    <3> QED BY <2>5, <3>4
  <2>9. ASSUME NEW n \in 0..N
        PROVE  g[n] = IF n = 0 THEN LiveTree(d)
                      ELSE IF d.kind[n] = "text" THEN g[n - 1]
                      ELSE Visited(pg, d, g[n - 1], n)
    <3>1. CASE n = 0
      BY <2>3, <3>1 DEF Recurs
    <3>2. CASE n # 0
      <4>1. n \in 1..N
        BY <1>1, <3>2
      <4>2. g[n] = turn(n, g[n - 1])
        BY <2>8, <4>1
      <4> QED BY <3>2, <4>2
    <3> QED BY <3>1, <3>2
  <2>10. g = [n \in 0..N |-> g[n]]
    OBVIOUS
  <2>11. Is(g)
    BY <2>9, <2>10
  <2> QED BY <2>11
<1>3. Is(F)
  BY <1>2
<1>4. Sanitized(pg, d) = F[N]
  BY DEF Sanitized
<1> HIDE DEF F
<1>5. \A n \in 0..N : F[n] = IF n = 0 THEN LiveTree(d)
                             ELSE IF d.kind[n] = "text" THEN F[n - 1]
                             ELSE Visited(pg, d, F[n - 1], n)
  BY <1>3
<1>6. Turns(pg, d, F)
  <2>1. F[0] = LiveTree(d)
    BY <1>1, <1>5
  <2>2. ASSUME NEW n \in 1..N
        PROVE  F[n] = IF d.kind[n] = "text" THEN F[n - 1] ELSE Visited(pg, d, F[n - 1], n)
    <3>1. n \in 0..N /\ n # 0
      BY <1>1
    <3> QED BY <1>5, <3>1
  <2> QED BY <2>1, <2>2 DEF Turns
<1>7. Walked(pg, d, N, F[N])
  <2>1. \A n \in 0..N : Walked(pg, d, n, F[n])
    BY <1>6, TurnsWalk
  <2>2. N \in 0..N
    BY <1>1
  <2> HIDE DEF N
  <2> QED BY <2>1, <2>2
<1> QED BY <1>4, <1>7
------------------------------------------------------------------------------
(* What the loop leaves.                                                     *)

\* A node is kept if it is no link and nothing above it is forbidden.
LEMMA KeptNodes ==
  ASSUME NEW pg, NEW d, IsTree(d), NEW i \in 1..Len(d.kind)
  PROVE  /\ i \in Kept(pg, d) <=>
              /\ d.kind[i] \notin Taken(pg)
              /\ \A j \in Above(d, i) : d.kind[j] \notin ForbiddenKinds(pg)
         /\ \A j \in Above(d, i) :
              /\ j \in 1..(i - 1) /\ j \in 1..Len(d.kind)
              /\ Lineage(d, j) \subseteq Lineage(d, i)
<1>1. Len(d.kind) \in Nat /\ DOMAIN d.kind = 1..Len(d.kind)
  BY DEF IsTree
<1>2. Lineage(d, i) \subseteq 1..i /\ i \in Lineage(d, i)
  BY LineageSteps
<1>3. i \in Kept(pg, d) <=>
        /\ d.kind[i] \notin Taken(pg)
        /\ \A j \in Above(d, i) : d.kind[j] \notin ForbiddenKinds(pg)
  BY <1>1, <1>2 DEF Kept, Taken, Above
<1>4. ASSUME NEW j \in Above(d, i)
      PROVE  /\ j \in 1..(i - 1) /\ j \in 1..Len(d.kind)
             /\ Lineage(d, j) \subseteq Lineage(d, i)
  <2>1. j \in 1..i /\ j # i /\ j \in Lineage(d, i) /\ i \in 0..Len(d.kind)
    BY <1>1, <1>2 DEF Above
  <2> QED BY <1>1, <2>1, LineageSteps
<1> QED BY <1>3, <1>4

\* The home of a node that is kept is the greatest of the nodes above it that are.
LEMMA HomeIsGreatest ==
  ASSUME NEW pg, NEW d, IsTree(d), NEW i \in 1..Len(d.kind)
  PROVE  LET h == Home(pg, d, i)
             S == Above(d, i) \cap Kept(pg, d)
         IN /\ S = {} => h = 0
            /\ S # {} => h \in S /\ \A j \in S : j <= h
<1> DEFINE S == Above(d, i) \cap Kept(pg, d)
<1>1. S \in SUBSET (0..i) /\ i \in Nat
  <2>1. i \in Nat
    OBVIOUS
  <2>2. \A j \in Above(d, i) : j \in 1..(i - 1)
    BY KeptNodes
  <2>3. \A j \in 1..(i - 1) : j \in 0..i
    BY <2>1
  <2> QED BY <2>1, <2>2, <2>3
<1>2. Home(pg, d, i) = IF S = {} THEN 0 ELSE CHOOSE j \in S : \A k \in S : k <= j
  BY DEF Home, Above
<1> HIDE DEF S
<1>3. S # {} => \E j \in S : \A k \in S : k <= j
  BY <1>1, GreatestNumber
<1> QED BY <1>2, <1>3 DEF S

\* After the loop a node of the picture holds the nodes whose home it is.
LEMMA HeldIsHome ==
  ASSUME NEW pg, NEW d, IsTree(d), NEW p \in Kept(pg, d) \cup {0}, p \in 0..Len(d.kind),
         NEW i \in 1..Len(d.kind)
  PROVE  i \in Held(pg, d, Len(d.kind), p) <=>
           i \in Kept(pg, d) /\ Home(pg, d, i) = p
<1> DEFINE N == Len(d.kind)
           S == Above(d, i) \cap Kept(pg, d)
           h == Home(pg, d, i)
<1>1. N \in Nat /\ i \in Nat /\ i <= N
  BY DEF IsTree
<1>2. /\ \A j \in Above(d, i) :
           /\ j \in 1..(i - 1) /\ j \in 1..N /\ Lineage(d, j) \subseteq Lineage(d, i)
      /\ i \in Kept(pg, d) <=>
           /\ d.kind[i] \notin Taken(pg)
           /\ \A j \in Above(d, i) : d.kind[j] \notin ForbiddenKinds(pg)
  BY KeptNodes
<1>3. \A j \in 1..N : j \in Gone(d, N) <=> d.kind[j] = "link"
  BY DEF Gone
<1>4. "link" \notin ForbiddenKinds(pg)
  BY DEF ForbiddenKinds
<1>5. i \in Held(pg, d, N, p) <=> d.kind[i] \notin Taken(pg) /\ Holds(d, N, p, i)
  <2>1. ~(i > N)
    BY <1>1
  <2> QED BY <2>1 DEF Held, Stands
<1>6. /\ S = {} => h = 0
      /\ S # {} => h \in S /\ \A j \in S : j <= h
  BY HomeIsGreatest
<1>7. p # 0 => p \in Kept(pg, d) /\ p \in 1..N
  BY <1>1
<1>8. p # 0 => /\ d.kind[p] \notin Taken(pg)
               /\ \A j \in Lineage(d, p) : d.kind[j] \notin ForbiddenKinds(pg)
  <2>1. SUFFICES ASSUME p # 0
                 PROVE  /\ d.kind[p] \notin Taken(pg)
                        /\ \A j \in Lineage(d, p) : d.kind[j] \notin ForbiddenKinds(pg)
    OBVIOUS
  <2>2. p \in Kept(pg, d) /\ p \in 1..N
    BY <1>7, <2>1
  <2> QED BY <2>2, KeptNodes DEF Kept
<1> HIDE DEF h, N
<1>9. ASSUME d.kind[i] \notin Taken(pg), Holds(d, N, p, i)
      PROVE  i \in Kept(pg, d) /\ h = p
  <2>1. /\ p \in {0} \cup Above(d, i)
        /\ \A q \in Above(d, i) : q > p => d.kind[q] = "link"
    BY <1>2, <1>3, <1>9 DEF Holds
  <2>2. ASSUME NEW j \in Above(d, i)
        PROVE  d.kind[j] \notin ForbiddenKinds(pg)
    <3>1. j \in Nat /\ p \in Nat
      BY <1>1, <1>2
    <3>2. CASE j > p
      BY <1>4, <2>1, <3>2
    <3>3. CASE ~(j > p)
      <4>1. p # 0 /\ p \in Above(d, i)
        <5>1. j >= 1
          BY <1>2
        <5> QED BY <2>1, <3>1, <3>3, <5>1
      <4>2. p \in j..i /\ j \in Lineage(d, i) /\ i \in 1..N
        <5>1. p \in 1..(i - 1) /\ j <= p
          BY <1>2, <3>1, <3>3, <4>1
        <5> QED BY <1>1, <3>1, <5>1 DEF Above, N
      <4>3. j \in Lineage(d, p)
        BY <4>2, SubtreesHaveNoGap DEF N
      <4> QED BY <1>8, <4>1, <4>3
    <3> QED BY <3>2, <3>3
  <2>3. i \in Kept(pg, d)
    BY <1>2, <1>9, <2>2
  <2>4. \A q \in S : ~(q > p)
    <3>1. ASSUME NEW q \in S PROVE d.kind[q] # "link"
      BY <1>2, KeptNodes DEF N, Taken
    <3> QED BY <2>1, <3>1
  <2>5. \A q \in S : q \in Nat /\ q >= 1
    BY <1>2
  <2>6. CASE p = 0
    <3>1. S = {}
      BY <2>4, <2>5, <2>6
    <3> QED BY <1>6, <2>3, <2>6, <3>1
  <2>7. CASE p # 0
    <3>1. p \in S
      BY <1>7, <2>1, <2>7
    <3>2. h \in S /\ p <= h /\ ~(h > p)
      BY <1>6, <2>4, <3>1
    <3>3. h = p
      <4>1. h \in Nat /\ p \in Nat
        BY <2>5, <3>1, <3>2
      <4> QED BY <3>2, <4>1
    <3> QED BY <2>3, <3>3
  <2> QED BY <2>6, <2>7
<1>10. ASSUME i \in Kept(pg, d), h = p
       PROVE  d.kind[i] \notin Taken(pg) /\ Holds(d, N, p, i)
  <2>1. d.kind[i] \notin Taken(pg)
    BY <1>2, <1>10
  <2>2. p \in {0} \cup Above(d, i)
    BY <1>6, <1>10
  <2>3. p \notin Gone(d, N)
    <3>1. p # 0 => d.kind[p] # "link"
      BY <1>8 DEF Taken
    <3>2. 0 \notin Gone(d, N)
      BY DEF Gone
    <3> QED BY <1>3, <1>7, <3>1, <3>2
  <2>4. ASSUME NEW q \in Above(d, i), q > p
        PROVE  q \in Gone(d, N)
    <3>1. SUFFICES ASSUME d.kind[q] # "link" PROVE FALSE
      BY <1>2, <1>3
    <3>2. /\ q \in 1..N /\ Lineage(d, q) \subseteq Lineage(d, i)
          /\ d.kind[q] \notin ForbiddenKinds(pg)
      BY <1>2, <1>10
    <3>3. \A j \in Lineage(d, i) : d.kind[j] \notin ForbiddenKinds(pg)
      BY <1>10 DEF Kept
    <3>4. q \in Kept(pg, d)
      <4>1. q \in DOMAIN d.kind
        BY <3>2 DEF IsTree, N
      <4> QED BY <3>1, <3>2, <3>3, <4>1 DEF Kept
    <3>5. h \in S /\ q <= h
      BY <1>6, <3>4
    <3>6. q \in Nat /\ h \in Nat
      BY <1>2, <3>5
    <3> QED BY <1>10, <2>4, <3>5, <3>6
  <2> QED BY <2>1, <2>2, <2>3, <2>4 DEF Holds
<1> QED BY <1>5, <1>9, <1>10 DEF h, N

\* Whatever document a page is given, its loop leaves the harmless part of what is
\* below the svg element, whole and in its order, with the harmless ones of its
\* attributes, and leaves the attributes of the svg element alone.
THEOREM SanitizedIsClean ==
  ASSUME NEW pg, NEW d, IsDrawing(d)
  PROVE  LET tree == Sanitized(pg, d)
         IN /\ IsCleanPictureOf(pg, d, tree)
            /\ tree.attributes[0] = d.attributes[0]
            /\ tree \in LiveTrees(d)
<1> DEFINE N == Len(d.kind)
           tree == Sanitized(pg, d)
           kept == Kept(pg, d)
           Own(p) == {i \in kept : Home(pg, d, i) = p}
<1>1. IsTree(d)
  BY DrawingIsTree
<1>2. N \in Nat /\ DOMAIN d.kind = 1..N
  BY <1>1 DEF IsTree
<1>3. kept \subseteq 1..N
  BY <1>2 DEF Kept
<1>4. Walked(pg, d, N, tree)
  BY <1>1, SanitizedIsWalked
<1> HIDE DEF tree
<1>5. ASSUME NEW p \in kept \cup {0}
      PROVE  tree.children[p] = InOrder(d, Own(p))
  <2>1. p \in 0..N
    BY <1>2, <1>3
  <2>2. Held(pg, d, N, p) = Own(p)
    <3>1. Held(pg, d, N, p) \subseteq 1..N
      BY DEF Held
    <3>2. \A i \in 1..N : i \in Held(pg, d, N, p) <=> i \in kept /\ Home(pg, d, i) = p
      BY <1>1, <2>1, HeldIsHome
    <3> QED BY <1>3, <3>1, <3>2
  <2>3. Orders(tree.children[p], Own(p))
    BY <1>4, <2>1, <2>2 DEF Walked
  <2>4. Orders(InOrder(d, Own(p)), Own(p))
    <3>1. Own(p) \in SUBSET (1..N)
      BY <1>3
    <3> HIDE DEF Own
    <3> QED BY <1>2, <3>1, InOrderOrders
  <2> HIDE DEF Own
  <2> QED BY <2>3, <2>4, OrderIsUnique
<1>6. ASSUME NEW i \in kept
      PROVE  tree.attributes[i] = d.attributes[i] \ ForbiddenAttributes(pg)
  <2>1. i \in 1..N /\ i <= N
    BY <1>2, <1>3
  <2>2. d.kind[i] \notin Taken(pg)
    BY <1>1, <1>6, <2>1, KeptNodes
  <2> QED BY <1>4, <2>1, <2>2 DEF Walked
<1>7. tree.attributes[0] = d.attributes[0] /\ tree \in LiveTrees(d)
  BY <1>4 DEF Walked
<1> QED BY <1>5, <1>6, <1>7 DEF IsCleanPictureOf, tree

\* A clean picture shows nothing else.
LEMMA CleanShowsKept ==
  ASSUME NEW pg, NEW d, IsDrawing(d), NEW tree, IsCleanPictureOf(pg, d, tree),
         DOMAIN tree.children = 0..Len(d.kind)
  PROVE  Shown(tree) \subseteq Kept(pg, d)
<1> DEFINE N == Len(d.kind)
           kept == Kept(pg, d)
           S == kept \cup {0}
           steps == [p \in DOMAIN tree.children |-> ToSet(tree.children[p])]
<1>1. IsTree(d)
  BY DrawingIsTree
<1>2. N \in Nat /\ DOMAIN d.kind = 1..N
  BY <1>1 DEF IsTree
<1>3. kept \subseteq 1..N
  BY <1>2 DEF Kept
<1>4. S \in SUBSET DOMAIN steps
  BY <1>2, <1>3
<1>5. ASSUME NEW p \in S
      PROVE  steps[p] \subseteq S
  <2> DEFINE own == {i \in kept : Home(pg, d, i) = p}
  <2>1. tree.children[p] = InOrder(d, own)
    BY DEF IsCleanPictureOf
  <2>2. Orders(InOrder(d, own), own)
    <3>1. own \in SUBSET (1..N)
      BY <1>3
    <3> HIDE DEF own
    <3> QED BY <1>2, <3>1, InOrderOrders
  <2>3. ToSet(tree.children[p]) = own
    BY <2>1, <2>2 DEF ToSet, Orders, Members
  <2>4. steps[p] = own
    BY <1>4, <2>3
  <2> QED BY <2>4
<1> HIDE DEF steps
<1>6. Reached({0}, steps) \subseteq S
  <2>1. {0} \subseteq S
    OBVIOUS
  <2> HIDE DEF S
  <2> QED BY <1>4, <1>5, <2>1 DEF Reached
<1> QED BY <1>6 DEF Shown, steps

------------------------------------------------------------------------------
(* The inductive invariant.                                                  *)

CallIsRecord ==
  /\ call = [number |-> call.number, phase |-> call.phase,
             fontSize |-> call.fontSize, output |-> call.output]
  /\ call.number \in Nat

\* A call that waits has its own timer armed; there is no other timer.
OneTimer == timers = IF call.phase = "idle" THEN {} ELSE {ThisTimer}

\* The Mermaid page holds its own picture only while that becomes an image; any
\* scratch is of a render the library still has.
MermaidNodes ==
  /\ library \in Seq(Nat)
  /\ \A n \in nodes :
       \/ \E m \in Nat : n = [node |-> "scratch", call |-> m] /\ Contains(library, m)
       \/ call.phase = "raster" /\ n = [node |-> "svg", call |-> call.number]

\* The MathJax page holds at most one formula and loads no image.
MathJaxNodes ==
  /\ images = {}
  /\ nodes = {} \/ \E number \in Nat : nodes = {[node |-> "svg", call |-> number]}

\* A picture of the Mermaid page, of a drawing it accepts and with whatever PNG
\* its canvas made.
MermaidPicture(o) ==
  \E d \in Drawings["mermaid"] :
    /\ MermaidAccepts(d)
    /\ o.drawing = d /\ o.tree = Unstyled(Sanitized("mermaid", d))
    /\ o.textAt = NormalizedBaseline(d.text)
    /\ o.size = Dimensions(d) /\ o.pixels = RasterDimensions(Dimensions(d))

MermaidPictures ==
  /\ IF call.phase = "raster"
     THEN \E d \in Drawings["mermaid"] :
            MermaidAccepts(d) /\ call.output = MermaidOutput(d)
     ELSE call.output = None
  /\ answer # None /\ answer.kind = "svg" =>
       MermaidPicture(answer.output) /\ answer.output.png.prefixed

\* A picture of the MathJax page.
MathJaxPicture(o) ==
  \E d \in Drawings["mathjax"] :
    /\ o.drawing = d /\ o.tree = Sanitized("mathjax", d)
    /\ FinitePositive(o.size.width) /\ FinitePositive(o.size.height)

MathJaxPictures ==
  /\ call.output = None
  /\ answer # None /\ answer.kind = "svg" => MathJaxPicture(answer.output)

Clean ==
  /\ page \in Pages
  /\ CallIsRecord /\ OneTimer
  /\ page = "mermaid" => MermaidNodes
  /\ page = "mathjax" => MathJaxNodes

IInv ==
  /\ Clean
  /\ page = "mermaid" => MermaidPictures
  /\ page = "mathjax" => MathJaxPictures

------------------------------------------------------------------------------
(* Sequences of the calls the library works for.                             *)

\* A call that is appended is contained with all others.
LEMMA AppendContains ==
  ASSUME NEW s \in Seq(Nat), NEW n \in Nat, NEW m, Contains(s, m)
  PROVE  Append(s, n) \in Seq(Nat) /\ Contains(Append(s, n), m)
<1>1. PICK i \in 1..Len(s) : s[i] = m
  BY DEF Contains
<1>2. i \in 1..Len(Append(s, n)) /\ Append(s, n)[i] = m
  BY <1>1
<1> QED BY <1>2 DEF Contains

\* What is not at the head is still there without it.
LEMMA TailContains ==
  ASSUME NEW s \in Seq(Nat), s # <<>>, NEW m, Contains(s, m), m # Head(s)
  PROVE  Contains(Tail(s), m)
<1>1. PICK i \in 1..Len(s) : s[i] = m
  BY DEF Contains
<1>2. i # 1
  BY <1>1
<1>3. i - 1 \in 1..Len(Tail(s)) /\ Tail(s)[i - 1] = m
  BY <1>1, <1>2
<1> QED BY <1>3 DEF Contains

\* The head is contained.
LEMMA HeadIsContained ==
  ASSUME NEW s \in Seq(Nat), s # <<>>
  PROVE  Contains(s, Head(s)) /\ Tail(s) \in Seq(Nat)
<1>1. 1 \in 1..Len(s) /\ s[1] = Head(s)
  OBVIOUS
<1> QED BY <1>1 DEF Contains

------------------------------------------------------------------------------
(* The steps of the Mermaid page.                                            *)

\* A call begins.
LEMMA RenderMermaidKeeps ==
  ASSUME IInv, NEW blank \in BOOLEAN, RenderMermaid(blank)
  PROVE  IInv'
<1> USE DEF IInv, Clean, RenderMermaid, HostMayCall
<1>1. CASE blank \/ ~loaded
  BY <1>1 DEF CallIsRecord, OneTimer, MermaidNodes, MermaidPictures, Idle, Failed,
              LeftInDocument, Pages
<1>2. CASE ~(blank \/ ~loaded)
  <2>1. call' = [number |-> call.number + 1, phase |-> "library", fontSize |-> 0,
                 output |-> None]
    BY <1>2 DEF Idle
  <2>2. CallIsRecord'
    BY <2>1 DEF CallIsRecord
  <2>3. OneTimer'
    BY <1>2, <2>1 DEF OneTimer, Armed, ThisTimer
  <2>4. MermaidNodes'
    <3>1. nodes' = {} /\ library' = Append(library, call.number + 1)
      BY <1>2
    <3>2. library \in Seq(Nat) /\ call.number + 1 \in Nat
      BY DEF MermaidNodes, CallIsRecord
    <3> QED BY <3>1, <3>2 DEF MermaidNodes
  <2>5. MermaidPictures'
    BY <1>2, <2>1 DEF MermaidPictures
  <2> QED BY <1>2, <2>2, <2>3, <2>4, <2>5
<1> QED BY <1>1, <1>2

\* The library draws.
LEMMA LibraryDrawsKeeps ==
  ASSUME IInv, LibraryDraws
  PROVE  IInv'
<1> USE DEF IInv, Clean, LibraryDraws
<1>1. Contains(library, Head(library))
  BY HeadIsContained DEF MermaidNodes
<1>2. MermaidNodes'
  BY <1>1 DEF MermaidNodes
<1> QED BY <1>2 DEF CallIsRecord, OneTimer, ThisTimer, MermaidPictures

\* The library ends a render and takes its scratch away.
LEMMA ScratchGoes ==
  ASSUME MermaidNodes, NEW number, LibraryEnds(number)
  PROVE  /\ library' \in Seq(Nat)
         /\ \A n \in WithoutScratch(number) :
              \/ \E m \in Nat : /\ n = [node |-> "scratch", call |-> m]
                                /\ Contains(library', m)
              \/ call.phase = "raster" /\ n = [node |-> "svg", call |-> call.number]
<1> USE DEF LibraryEnds
<1>1. library' \in Seq(Nat)
  BY HeadIsContained DEF MermaidNodes
<1>2. ASSUME NEW m \in Nat, [node |-> "scratch", call |-> m] \in WithoutScratch(number),
             Contains(library, m)
      PROVE  Contains(library', m)
  <2>1. m # number
    BY <1>2 DEF WithoutScratch
  <2> QED BY <1>2, <2>1, TailContains DEF MermaidNodes
<1>3. WithoutScratch(number) \subseteq nodes
  BY DEF WithoutScratch
<1> QED BY <1>1, <1>2, <1>3 DEF MermaidNodes

\* Nobody waits for the render that ends.
LEMMA LateRenderKeeps ==
  ASSUME IInv, NEW number, LateRender(number)
  PROVE  IInv'
<1> USE DEF IInv, Clean, LateRender
<1>1. MermaidNodes'
  BY ScratchGoes DEF MermaidNodes
<1> QED BY <1>1 DEF CallIsRecord, OneTimer, ThisTimer, MermaidPictures

\* A call that is answered leaves no timer and, on the Mermaid page, no node.
LEMMA AnsweredIsClean ==
  ASSUME IInv, NEW a, NEW remaining, Answered(a, remaining),
         call.phase # "idle", timers' = Disarmed
  PROVE  /\ CallIsRecord' /\ OneTimer'
         /\ call'.phase = "idle" /\ call'.output = None
         /\ page = "mermaid" => nodes' = {}
         /\ page = "mathjax" => nodes' = remaining
<1>1. call' = [number |-> call.number, phase |-> "idle", fontSize |-> 0, output |-> None]
  BY DEF Answered, Idle
<1>2. timers' = {}
  BY DEF IInv, Clean, OneTimer, Disarmed
<1>3. CallIsRecord'
  BY <1>1 DEF IInv, Clean, CallIsRecord
<1>4. OneTimer'
  BY <1>1, <1>2 DEF OneTimer
<1> QED BY <1>1, <1>3, <1>4 DEF Answered, LeftInDocument, IInv, Clean

\* The library refuses a source.
LEMMA RenderRejectedKeeps ==
  ASSUME IInv, NEW number, RenderRejected(number)
  PROVE  IInv'
<1> USE DEF IInv, RenderRejected
<1>1. /\ CallIsRecord' /\ OneTimer' /\ nodes' = {}
      /\ call'.phase = "idle" /\ call'.output = None
  BY AnsweredIsClean DEF IsAwaited
<1>2. library' \in Seq(Nat)
  BY ScratchGoes DEF Clean
<1>3. answer'.kind = "error"
  BY DEF Answered, Failed
<1> QED BY <1>1, <1>2, <1>3 DEF Clean, MermaidNodes, MermaidPictures

\* The library has drawn.
LEMMA RenderResolvedKeeps ==
  ASSUME IInv, NEW number, NEW d \in Drawings["mermaid"], RenderResolved(number, d)
  PROVE  IInv'
<1> USE DEF IInv, RenderResolved
<1>0. call.phase = "library" /\ call.number = number /\ library' \in Seq(Nat)
  BY ScratchGoes DEF Clean, IsAwaited
<1>1. CASE MermaidAccepts(d)
  <2>1. call' = [number |-> call.number, phase |-> "raster",
                 fontSize |-> call.fontSize, output |-> MermaidOutput(d)]
    BY <1>1 DEF Clean, CallIsRecord
  <2>2. CallIsRecord'
    BY <2>1 DEF Clean, CallIsRecord
  <2>3. OneTimer'
    <3>1. timers' = {[call |-> call.number, phase |-> "raster"]}
      BY <1>0, <1>1 DEF Clean, OneTimer, ThisTimer, Disarmed, Armed
    <3> QED BY <2>1, <3>1 DEF OneTimer, ThisTimer
  <2>4. MermaidNodes'
    BY <1>0, <1>1, <2>1 DEF MermaidNodes
  <2>6. MermaidPictures'
    BY <1>0, <1>1, <2>1 DEF MermaidPictures
  <2> QED BY <2>2, <2>3, <2>4, <2>6 DEF Clean
<1>2. CASE ~MermaidAccepts(d)
  <2>1. /\ CallIsRecord' /\ OneTimer' /\ nodes' = {}
        /\ call'.phase = "idle" /\ call'.output = None
    BY <1>0, <1>2, AnsweredIsClean
  <2>2. answer'.kind = "error"
    BY <1>2 DEF Answered, Failed
  <2> QED BY <1>0, <2>1, <2>2 DEF Clean, MermaidNodes, MermaidPictures
<1> QED BY <1>1, <1>2

\* The outcome of an image leaves what the library works for alone.
LEMMA AnsweredKeepsRest ==
  ASSUME IInv, page = "mermaid", NEW a, Answered(a, nodes), call.phase # "idle",
         timers' = Disarmed, UNCHANGED <<page, library>>,
         a.kind = "svg" => MermaidPicture(a.output) /\ a.output.png.prefixed
  PROVE  IInv'
<1>1. /\ CallIsRecord' /\ OneTimer' /\ nodes' = {}
      /\ call'.phase = "idle" /\ call'.output = None
  BY AnsweredIsClean
<1>2. answer' = a
  BY DEF Answered
<1> QED BY <1>1, <1>2 DEF IInv, Clean, MermaidNodes, MermaidPictures

\* An image ends, well or badly, whether or not its call still waits.
LEMMA ImageEndsKeeps ==
  ASSUME IInv, page = "mermaid", ImageEnds
  PROVE  IInv'
<1>1. ASSUME NEW n \in images, NEW context \in BOOLEAN, NEW png \in PNGs,
             ImageLoads(n, context, png), IsAwaited(n, "raster")
      PROVE  IInv'
  <2>1. PICK d \in Drawings["mermaid"] :
          MermaidAccepts(d) /\ call.output = MermaidOutput(d)
    BY <1>1 DEF IInv, MermaidPictures, IsAwaited
  <2> DEFINE o == [call.output EXCEPT !.png = png]
             encodes == /\ context /\ png.prefixed
                        /\ DataURLLength(png.bytes) <= MaximumPNGLength
  <2>2. MermaidPicture(o) /\ o.png = png
    BY <2>1 DEF MermaidPicture, MermaidOutput
  <2>3. CASE encodes
    BY <1>1, <2>2, <2>3, AnsweredKeepsRest DEF ImageLoads, IsAwaited
  <2>4. CASE ~encodes
    BY <1>1, <2>4, AnsweredKeepsRest DEF ImageLoads, IsAwaited, Failed
  <2> QED BY <2>3, <2>4
<1>2. ASSUME NEW n \in images, ImageFails(n), IsAwaited(n, "raster")
      PROVE  IInv'
  BY <1>2, AnsweredKeepsRest DEF ImageFails, IsAwaited, Failed
<1>3. ASSUME NEW n \in images, ~IsAwaited(n, "raster"),
             \/ ImageFails(n)
             \/ \E context \in BOOLEAN, png \in PNGs : ImageLoads(n, context, png)
      PROVE  IInv'
  BY <1>3 DEF ImageFails, ImageLoads, IInv, Clean, CallIsRecord, OneTimer, ThisTimer,
              MermaidNodes, MermaidPictures
<1> QED BY <1>1, <1>2, <1>3 DEF ImageEnds

------------------------------------------------------------------------------
(* The steps of the MathJax page.                                            *)

\* A call begins.
LEMMA RenderLaTeXKeeps ==
  ASSUME IInv, NEW fontSize, NEW refused \in BOOLEAN, RenderLaTeX(fontSize, refused)
  PROVE  IInv'
<1> USE DEF IInv, Clean, RenderLaTeX, HostMayCall
<1>1. CASE refused \/ ~loaded
  <2>1. call' = [number |-> call.number + 1, phase |-> "idle", fontSize |-> 0,
                 output |-> None]
    BY <1>1 DEF Idle
  <2>2. timers' = timers /\ nodes' \in {nodes, {}} /\ answer'.kind = "error"
    BY <1>1 DEF Failed
  <2> QED BY <2>1, <2>2 DEF CallIsRecord, OneTimer, MathJaxNodes, MathJaxPictures
<1>2. CASE ~refused /\ loaded
  <2>1. call' = [number |-> call.number + 1, phase |-> "startup",
                 fontSize |-> fontSize, output |-> None]
    BY <1>2 DEF Idle
  <2>2. OneTimer'
    BY <1>2, <2>1 DEF OneTimer, Armed, ThisTimer
  <2> QED BY <1>2, <2>1, <2>2 DEF CallIsRecord, MathJaxNodes, MathJaxPictures
<1> QED BY <1>1, <1>2

\* The startup is over and the formula is converted.
LEMMA StartupPassesKeeps ==
  ASSUME IInv, StartupPasses
  PROVE  IInv'
<1> USE DEF IInv, Clean, StartupPasses
<1>1. call' = [number |-> call.number, phase |-> "library",
               fontSize |-> call.fontSize, output |-> call.output]
  BY DEF CallIsRecord
<1>2. timers' = {[call |-> call.number, phase |-> "library"]}
  BY DEF OneTimer, ThisTimer, Disarmed, Armed
<1>3. OneTimer'
  BY <1>1, <1>2 DEF OneTimer, ThisTimer
<1> QED BY <1>1, <1>3 DEF CallIsRecord, MathJaxNodes, MathJaxPictures

\* The startup fails.
LEMMA StartupThrowsKeeps ==
  ASSUME IInv, StartupThrows
  PROVE  IInv'
<1>1. /\ CallIsRecord' /\ OneTimer' /\ nodes' = nodes
      /\ call'.phase = "idle" /\ call'.output = None
  BY AnsweredIsClean DEF StartupThrows
<1>2. answer'.kind = "error"
  BY DEF StartupThrows, Answered, Failed
<1> QED BY <1>1, <1>2 DEF StartupThrows, IInv, Clean, MathJaxNodes, MathJaxPictures

\* A conversion ends.
LEMMA TypesetKeeps ==
  ASSUME IInv, NEW number \in Nat, NEW d \in Drawings["mathjax"], Typeset(number, d)
  PROVE  IInv'
<1>1. CASE IsAwaited(number, "library")
  <2>1. /\ CallIsRecord' /\ OneTimer' /\ call'.phase = "idle" /\ call'.output = None
        /\ nodes' = {[node |-> "svg", call |-> number]}
    BY <1>1, AnsweredIsClean DEF Typeset, IsAwaited
  <2>2. answer'.kind = "svg" => MathJaxPicture(answer'.output)
    <3>1. CASE MathJaxAccepts(d, call.fontSize)
      <4>1. answer'.output = MathJaxOutput(d, call.fontSize)
        BY <1>1, <3>1 DEF Typeset, Answered
      <4> QED BY <3>1, <4>1
              DEF MathJaxPicture, MathJaxOutput, MathJaxAccepts, SizeIsAccepted
    <3>2. CASE ~MathJaxAccepts(d, call.fontSize)
      BY <1>1, <3>2 DEF Typeset, Answered, Failed
    <3> QED BY <3>1, <3>2
  <2>3. MathJaxPictures'
    BY <2>1, <2>2 DEF MathJaxPictures
  <2> QED BY <1>1, <2>1, <2>3 DEF Typeset, IInv, Clean, MathJaxNodes
<1>2. CASE ~IsAwaited(number, "library")
  BY <1>2 DEF Typeset, IInv, Clean, CallIsRecord, OneTimer, ThisTimer, MathJaxNodes,
              MathJaxPictures
<1> QED BY <1>1, <1>2

\* A conversion is rejected.
LEMMA TypesetRejectedKeeps ==
  ASSUME IInv, NEW number \in Nat, TypesetRejected(number)
  PROVE  IInv'
<1>1. CASE IsAwaited(number, "library")
  <2>1. /\ CallIsRecord' /\ OneTimer' /\ nodes' = nodes
        /\ call'.phase = "idle" /\ call'.output = None
    BY <1>1, AnsweredIsClean DEF TypesetRejected, IsAwaited
  <2> DEFINE error == CaughtError("mathjax", "library", "typeset failed")
  <2>2. answer'.kind = "error"
    <3>1. answer' = Failed(error)
      BY <1>1 DEF TypesetRejected, Answered
    <3> HIDE DEF error
    <3> QED BY <3>1 DEF Failed
  <2> QED BY <2>1, <2>2
          DEF TypesetRejected, IInv, Clean, MathJaxNodes, MathJaxPictures
<1>2. CASE ~IsAwaited(number, "library")
  BY <1>2 DEF TypesetRejected, IInv, Clean, CallIsRecord, OneTimer, ThisTimer,
              MathJaxNodes, MathJaxPictures
<1> QED BY <1>1, <1>2

\* A timer fires.
LEMMA TimerFiresKeeps ==
  ASSUME IInv, TimerFires
  PROVE  IInv'
<1>1. /\ CallIsRecord' /\ OneTimer' /\ call'.phase = "idle" /\ call'.output = None
      /\ page = "mermaid" => nodes' = {}
      /\ page = "mathjax" => nodes' = nodes
  BY AnsweredIsClean DEF TimerFires
<1>2. answer'.kind = "error"
  BY DEF TimerFires, Answered, Failed
<1> QED BY <1>1, <1>2
        DEF TimerFires, IInv, Clean, MermaidNodes, MathJaxNodes, MermaidPictures, MathJaxPictures

------------------------------------------------------------------------------
(* The invariant.                                                            *)

\* At the start there is no call and nothing in the document.
LEMMA InitHolds == ASSUME Init PROVE IInv
<1>1. page \in Pages
  BY RenderPageAssumption DEF Init
<1> QED BY <1>1 DEF Init, Idle, IInv, Clean, CallIsRecord, OneTimer, MermaidNodes,
                    MathJaxNodes, MermaidPictures, MathJaxPictures

\* Every step keeps the invariant.
LEMMA NextKeeps == ASSUME IInv, [Next]_vars PROVE IInv'
<1>1. CASE HostCalls
  BY <1>1, RenderMermaidKeeps, RenderLaTeXKeeps DEF HostCalls
<1>2. CASE LibraryDraws
  BY <1>2, LibraryDrawsKeeps
<1>3. CASE LibraryAnswers
  <2>1. ASSUME NEW n \in 1..MaxCalls, LateRender(n) \/ RenderRejected(n)
        PROVE  IInv'
    BY <2>1, LateRenderKeeps, RenderRejectedKeeps
  <2>2. ASSUME NEW n \in 1..MaxCalls, NEW d \in Drawings["mermaid"], RenderResolved(n, d)
        PROVE  IInv'
    BY <2>2, RenderResolvedKeeps
  <2>3. ASSUME NEW n \in 1..MaxCalls, NEW d \in Drawings["mathjax"], Typeset(n, d)
        PROVE  IInv'
    <3>1. n \in Nat
      BY RenderPageAssumption
    <3> QED BY <2>3, <3>1, TypesetKeeps
  <2>4. ASSUME NEW n \in 1..MaxCalls, TypesetRejected(n)
        PROVE  IInv'
    <3>1. n \in Nat
      BY RenderPageAssumption
    <3> QED BY <2>4, <3>1, TypesetRejectedKeeps
  <2> QED BY <1>3, <2>1, <2>2, <2>3, <2>4 DEF LibraryAnswers
<1>4. CASE ImageEnds /\ page = "mermaid"
  BY <1>4, ImageEndsKeeps
<1>5. CASE ImageEnds /\ page # "mermaid"
  BY <1>5 DEF ImageEnds, IInv, Clean, Pages, MathJaxNodes
<1>6. CASE \E r \in BOOLEAN : StartupSettles(r)
  BY <1>6 DEF StartupSettles, IInv, Clean, CallIsRecord, OneTimer, ThisTimer,
              MermaidNodes, MathJaxNodes, MermaidPictures, MathJaxPictures
<1>7. CASE StartupPasses \/ StartupThrows
  BY <1>7, StartupPassesKeeps, StartupThrowsKeeps
<1>8. CASE TimerFires
  BY <1>8, TimerFiresKeeps
<1>9. CASE UNCHANGED vars
  BY <1>9 DEF vars, IInv, Clean, CallIsRecord, OneTimer, ThisTimer, MermaidNodes,
              MathJaxNodes, MermaidPictures, MathJaxPictures
<1> QED BY <1>1, <1>2, <1>3, <1>4, <1>5, <1>6, <1>7, <1>8, <1>9 DEF Next

\* The invariant holds of every reachable state.
LEMMA Inductive == Spec => []IInv
BY InitHolds, NextKeeps, PTL DEF Spec

\* For any number of calls, whenever the library, the image and the timers end:
\* between two calls no timer is armed and no node of an ended call is left.
THEOREM PagesAreLeftClean == Spec => []PageIsLeftClean
<1>1. ASSUME IInv PROVE PageIsLeftClean
  <2>1. CASE page = "mermaid"
    <3>1. SUFFICES ASSUME call.phase = "idle" PROVE PageIsLeftClean
      BY DEF PageIsLeftClean
    <3>2. \A n \in nodes : n.node = "scratch" /\ Contains(library, n.call)
      BY <1>1, <2>1, <3>1 DEF IInv, Clean, MermaidNodes
    <3>3. {n \in nodes : n.node = "svg"} = {}
      BY <3>2
    <3>4. Cardinality({n \in nodes : n.node = "svg"}) <= 1
      BY <3>3, FS_EmptySet
    <3> QED BY <1>1, <3>1, <3>2, <3>4 DEF IInv, Clean, OneTimer, PageIsLeftClean
  <2>2. CASE page = "mathjax"
    <3>1. SUFFICES ASSUME call.phase = "idle" PROVE PageIsLeftClean
      BY DEF PageIsLeftClean
    <3>2. CASE nodes = {}
      <4>1. {n \in nodes : n.node = "svg"} = {}
        BY <3>2
      <4>2. Cardinality({n \in nodes : n.node = "svg"}) <= 1
        BY <4>1, FS_EmptySet
      <4>3. timers = {}
        BY <1>1, <3>1 DEF IInv, Clean, OneTimer
      <4> QED BY <3>2, <4>2, <4>3 DEF PageIsLeftClean
    <3>3. CASE nodes # {}
      <4>1. PICK number \in Nat : nodes = {[node |-> "svg", call |-> number]}
        BY <1>1, <2>2, <3>3 DEF IInv, Clean, MathJaxNodes
      <4>2. {n \in nodes : n.node = "svg"} = {[node |-> "svg", call |-> number]}
        BY <4>1
      <4>3. Cardinality({n \in nodes : n.node = "svg"}) <= 1
        <5>1. Cardinality({[node |-> "svg", call |-> number]}) = 1
          BY FS_Singleton
        <5> QED BY <4>2, <5>1
      <4>4. timers = {}
        BY <1>1, <3>1 DEF IInv, Clean, OneTimer
      <4>5. \A n \in nodes : n.node = "svg"
        BY <4>1
      <4> QED BY <2>2, <4>3, <4>4, <4>5 DEF PageIsLeftClean
    <3> QED BY <3>2, <3>3
  <2> QED BY <1>1, <2>1, <2>2 DEF IInv, Clean, Pages
<1> QED BY <1>1, Inductive, PTL

\* What a page has in hand is a picture of a drawing it accepts.
LEMMA OutputsArePictures ==
  ASSUME IInv, NEW o \in Outputs
  PROVE  /\ page = "mermaid" => MermaidPicture(o)
         /\ page = "mathjax" => MathJaxPicture(o)
<1>1. CASE page = "mermaid" /\ o = call.output
  <2>1. o # None
    BY DEF Outputs
  <2>2. PICK d \in Drawings["mermaid"] : MermaidAccepts(d) /\ call.output = MermaidOutput(d)
    BY <1>1, <2>1 DEF IInv, MermaidPictures
  <2> QED BY <1>1, <2>2 DEF MermaidOutput, MermaidPicture
<1>2. CASE page = "mermaid" /\ o # call.output
  BY <1>2 DEF IInv, MermaidPictures, Outputs
<1>3. CASE page = "mathjax"
  BY <1>3 DEF IInv, MathJaxPictures, Outputs
<1> QED BY <1>1, <1>2, <1>3

\* Wherever Mermaid put the text of a drawing, and however often it could be
\* measured but once, the picture shows it less than the threshold away.
THEOREM TextsStay == Spec => []TextStaysInPlace
<1>1. ASSUME IInv PROVE TextStaysInPlace
  <2>1. SUFFICES ASSUME page = "mermaid", NEW o \in Outputs,
                        o.drawing.text.measured # 1
                 PROVE  /\ o.textAt - o.drawing.text.y < BaselineThreshold
                        /\ o.drawing.text.y - o.textAt < BaselineThreshold
    BY DEF TextStaysInPlace
  <2>2. PICK d \in Drawings["mermaid"] :
          o.drawing = d /\ o.textAt = NormalizedBaseline(d.text)
    BY <1>1, <2>1, OutputsArePictures DEF MermaidPicture
  <2>3. d.text.y \in Int /\ d.text.reset \in Int /\ d.text.measured # 1
    BY <2>1, <2>2, DrawingAssumption
  <2> QED BY <2>2, <2>3 DEF NormalizedBaseline, BaselineThreshold
<1> QED BY <1>1, Inductive, PTL

------------------------------------------------------------------------------
(* The size of a raster picture.                                             *)

\* The square root of the model is the integer square root.
LEMMA RootIsTaken ==
  ASSUME NEW n \in Nat
  PROVE  /\ SquareRoot(n) \in Nat
         /\ SquareRoot(n) * SquareRoot(n) <= n
         /\ n < (SquareRoot(n) + 1) * (SquareRoot(n) + 1)
<1>1. \E r \in 0..n : r * r <= n /\ n < (r + 1) * (r + 1)
  BY SquareRootExists
<1>2. /\ SquareRoot(n) \in 0..n
      /\ SquareRoot(n) * SquareRoot(n) <= n
      /\ n < (SquareRoot(n) + 1) * (SquareRoot(n) + 1)
  BY <1>1 DEF SquareRoot
<1> QED BY <1>2

\* The least of four numbers is one of them and not above any.
LEMMA LeastOfFour ==
  ASSUME NEW a \in Nat, NEW b \in Nat, NEW c \in Nat, NEW d \in Nat
  PROVE  /\ Min({a, b, c, d}) \in {a, b, c, d}
         /\ \A y \in {a, b, c, d} : Min({a, b, c, d}) <= y
<1>1. {a, b, c, d} \in SUBSET Nat /\ {a, b, c, d} # {}
  OBVIOUS
<1>2. \E x \in {a, b, c, d} : \A y \in {a, b, c, d} : x <= y
  BY <1>1, LeastNumber
<1> QED BY <1>2 DEF Min

\* The greater of one and a number.
LEMMA AtLeastOne ==
  ASSUME NEW a \in Nat
  PROVE  Max({1, a}) = IF a = 0 THEN 1 ELSE a
<1>1. CASE a = 0
  BY <1>1 DEF Max
<1>2. CASE a # 0
  BY <1>2 DEF Max
<1> QED BY <1>1, <1>2

\* What the scale makes of a side: at most twice the side, not over the longest,
\* in proportion to the other side and to the number of pixels; and one more would
\* break one of these limits.
Fits(w, side, other) ==
  /\ w * Unit <= 2 * side
  /\ w <= MaximumDimension["mermaid"]
  /\ w * other <= MaximumDimension["mermaid"] * side
  /\ (w * w) * other <= MaximumRasterPixels * side

LEMMA ScaledSideFits ==
  ASSUME NEW side \in Nat \ {0}, NEW other \in Nat \ {0}
  PROVE  /\ ScaledSide(side, other) \in Nat
         /\ Fits(ScaledSide(side, other), side, other)
         /\ ~Fits(ScaledSide(side, other) + 1, side, other)
<1> DEFINE D == MaximumDimension["mermaid"]
           P == MaximumRasterPixels
           twice == (2 * side) \div Unit
           share == (D * side) \div other
           area == (P * side) \div other
           w == ScaledSide(side, other)
<1>1. D \in Nat \ {0} /\ P \in Nat /\ Unit \in Nat \ {0}
  BY RenderPageAssumption DEF Pages
<1>2. 2 * side \in Nat /\ D * side \in Nat /\ P * side \in Nat
  BY <1>1
<1>3. twice \in Nat /\ twice * Unit <= 2 * side /\ 2 * side < (twice + 1) * Unit
  BY <1>1, <1>2, Quotient
<1>4. share \in Nat /\ share * other <= D * side /\ D * side < (share + 1) * other
  BY <1>1, <1>2, Quotient
<1>5. area \in Nat /\ area * other <= P * side /\ P * side < (area + 1) * other
  BY <1>1, <1>2, Quotient
<1> DEFINE root == SquareRoot(area)
<1>6. root \in Nat /\ root * root <= area /\ area < (root + 1) * (root + 1)
  BY <1>5, RootIsTaken
<1>7. w \in {twice, D, share, root} /\ \A y \in {twice, D, share, root} : w <= y
  <2>1. w = Min({twice, D, share, root})
    BY DEF ScaledSide
  <2> HIDE DEF D, P, twice, share, area, w, root
  <2> QED BY <1>1, <1>3, <1>4, <1>6, <2>1, LeastOfFour
<1>8. w \in Nat
  BY <1>1, <1>3, <1>4, <1>6, <1>7
<1> HIDE DEF D, P, twice, share, area, w, root
<1>9. Fits(w, side, other)
  <2>1. w * Unit <= 2 * side
    <3>1. w * Unit <= twice * Unit /\ w * Unit \in Nat /\ twice * Unit \in Nat
      BY <1>1, <1>3, <1>7, <1>8, ProductGrows
    <3> QED BY <1>2, <1>3, <3>1
  <2>2. w <= D
    BY <1>7
  <2>3. w * other <= D * side
    <3>1. w * other <= share * other /\ w * other \in Nat /\ share * other \in Nat
      BY <1>4, <1>7, <1>8, ProductGrows
    <3> QED BY <1>2, <1>4, <3>1
  <2>4. (w * w) * other <= P * side
    <3>1. w * w <= root * root /\ w * w \in Nat /\ root * root \in Nat
      BY <1>6, <1>7, <1>8, ProductGrows
    <3>2. w * w <= area
      BY <1>5, <1>6, <3>1
    <3>3. (w * w) * other <= area * other /\ (w * w) * other \in Nat
          /\ area * other \in Nat
      BY <1>5, <3>1, <3>2, ProductGrows
    <3> QED BY <1>2, <1>5, <3>3
  <2> QED BY <2>1, <2>2, <2>3, <2>4 DEF Fits, D, P
<1>10. ~Fits(w + 1, side, other)
  <2>1. CASE w = twice
    BY <1>1, <1>2, <1>3, <2>1 DEF Fits
  <2>2. CASE w = D
    BY <1>1, <2>2 DEF Fits, D
  <2>3. CASE w = share
    BY <1>1, <1>2, <1>4, <2>3 DEF Fits, D
  <2>4. CASE w = root
    <3>1. area + 1 <= (w + 1) * (w + 1) /\ (w + 1) * (w + 1) \in Nat
      BY <1>5, <1>6, <2>4
    <3>2. (area + 1) * other <= ((w + 1) * (w + 1)) * other
          /\ (area + 1) * other \in Nat /\ ((w + 1) * (w + 1)) * other \in Nat
      BY <1>5, <3>1, ProductGrows
    <3>3. P * side < ((w + 1) * (w + 1)) * other
      BY <1>2, <1>5, <3>2
    <3> QED BY <1>2, <3>2, <3>3 DEF Fits, P
  <2> QED BY <1>7, <2>1, <2>2, <2>3, <2>4
<1> QED BY <1>8, <1>9, <1>10 DEF w

\* Two sides that fit have the proportions of the drawing to a pixel: if the other
\* side, one pixel longer, would still lag behind, it would fit too.
LEMMA Proportions ==
  ASSUME NEW side \in Nat \ {0}, NEW other \in Nat \ {0},
         NEW w \in Nat, NEW h \in Nat, Fits(w, side, other), ~Fits(h + 1, other, side)
  PROVE  w * other < (h + 1) * side
<1> DEFINE D == MaximumDimension["mermaid"]
           P == MaximumRasterPixels
           x == (h + 1) * side
           y == w * other
<1>1. D \in Nat \ {0} /\ P \in Nat /\ Unit \in Nat \ {0}
  BY RenderPageAssumption DEF Pages
<1>2. x \in Nat /\ y \in Nat /\ h + 1 \in Nat
  OBVIOUS
<1>3. SUFFICES ASSUME x <= y PROVE Fits(h + 1, other, side)
  BY <1>2
<1>4. (h + 1) * Unit <= 2 * other
  <2>1. SUFFICES ASSUME 2 * other < (h + 1) * Unit PROVE FALSE
    BY <1>1
  <2>2. (2 * other) * side < ((h + 1) * Unit) * side
    BY <1>1, <2>1
  <2>3. ((h + 1) * Unit) * side = x * Unit
    BY <1>1
  <2>4. x * Unit <= y * Unit
    BY <1>1, <1>2, <1>3, ProductGrows
  <2>5. y * Unit = (w * Unit) * other
    BY <1>1
  <2>6. (w * Unit) * other <= (2 * side) * other
    <3>1. w * Unit <= 2 * side /\ w * Unit \in Nat /\ 2 * side \in Nat
      BY <1>1 DEF Fits
    <3> QED BY <3>1, ProductGrows
  <2>7. (2 * side) * other = (2 * other) * side
    OBVIOUS
  <2>8. /\ (2 * other) * side \in Nat /\ x * Unit \in Nat /\ y * Unit \in Nat
    BY <1>1, <1>2
  <2> HIDE DEF x, y
  <2> QED BY <2>2, <2>3, <2>4, <2>5, <2>6, <2>7, <2>8
<1>5. y <= D * side
  BY DEF Fits
<1>6. h + 1 <= D
  <2>1. SUFFICES ASSUME D < h + 1 PROVE FALSE
    BY <1>1
  <2>2. D * side < (h + 1) * side
    BY <1>1, <2>1
  <2> HIDE DEF x, y
  <2> QED BY <1>1, <1>2, <1>3, <1>5, <2>2 DEF x
<1>7. (h + 1) * side <= D * other
  <2>1. w * other <= D * other
    BY <1>1, ProductGrows DEF Fits
  <2> QED BY <1>1, <1>2, <1>3, <2>1
<1>8. ((h + 1) * (h + 1)) * side <= P * other
  <2>1. SUFFICES ASSUME P * other < ((h + 1) * (h + 1)) * side PROVE FALSE
    BY <1>1
  <2>2. (P * other) * side < (((h + 1) * (h + 1)) * side) * side
    BY <1>1, <2>1
  <2>3. (((h + 1) * (h + 1)) * side) * side = x * x
    OBVIOUS
  <2>4. x * x <= y * y
    BY <1>2, <1>3, ProductGrows
  <2>5. y * y = ((w * w) * other) * other
    OBVIOUS
  <2>6. ((w * w) * other) * other <= (P * side) * other
    <3>1. (w * w) * other <= P * side /\ (w * w) * other \in Nat /\ P * side \in Nat
      BY <1>1 DEF Fits
    <3> QED BY <3>1, ProductGrows
  <2>7. (P * side) * other = (P * other) * side /\ (P * other) * side \in Nat
    BY <1>1
  <2>8. x * x \in Nat /\ y * y \in Nat
    BY <1>2
  <2> HIDE DEF x, y
  <2> QED BY <2>2, <2>3, <2>4, <2>5, <2>6, <2>7, <2>8
<1> QED BY <1>4, <1>6, <1>7, <1>8 DEF Fits

\* Two sides that fit have no more pixels than allowed.
LEMMA PixelsFit ==
  ASSUME NEW side \in Nat \ {0}, NEW other \in Nat \ {0},
         NEW w \in Nat, NEW h \in Nat, Fits(w, side, other), Fits(h, other, side)
  PROVE  w * h <= MaximumRasterPixels
<1> DEFINE P == MaximumRasterPixels
           a == side * other
           q == w * h
<1>1. P \in Nat
  BY RenderPageAssumption
<1>2. a \in Nat \ {0} /\ q \in Nat
  OBVIOUS
<1>3. SUFFICES ASSUME P < q PROVE FALSE
  BY <1>1, <1>2
<1>4. ((w * w) * other) * ((h * h) * side) <= (P * side) * (P * other)
  <2>1. /\ (w * w) * other <= P * side /\ (w * w) * other \in Nat /\ P * side \in Nat
        /\ (h * h) * side <= P * other /\ (h * h) * side \in Nat /\ P * other \in Nat
    BY <1>1 DEF Fits
  <2> QED BY <2>1, ProductGrows
<1>5. ((w * w) * other) * ((h * h) * side) = (q * q) * a
  OBVIOUS
<1>6. (P * side) * (P * other) = (P * P) * a
  BY <1>1
<1>7. P * P < q * q /\ P * P \in Nat /\ q * q \in Nat
  BY <1>1, <1>2, <1>3
<1>8. (P * P) * a < (q * q) * a
  BY <1>2, <1>7
<1>9. (P * P) * a \in Nat /\ (q * q) * a \in Nat
  BY <1>2, <1>7
<1> HIDE DEF P, a, q
<1> QED BY <1>4, <1>5, <1>6, <1>8, <1>9
\* A side that no limit of its own keeps from being a pixel longer lags behind the
\* other one.
LEMMA HeldBack ==
  ASSUME NEW side \in Nat \ {0}, NEW other \in Nat \ {0},
         NEW w \in Nat, NEW h \in Nat, ~Fits(w + 1, side, other),
         (w + 1) * Unit <= 2 * side,
         w + 1 <= MaximumDimension["mermaid"], h + 1 <= MaximumDimension["mermaid"],
         (w + 1) * (h + 1) <= MaximumRasterPixels
  PROVE  (h + 1) * side < (w + 1) * other
<1> DEFINE D == MaximumDimension["mermaid"]
           P == MaximumRasterPixels
           x == (h + 1) * side
           y == (w + 1) * other
<1>1. D \in Nat /\ P \in Nat /\ x \in Nat /\ y \in Nat /\ w + 1 \in Nat /\ h + 1 \in Nat
  BY RenderPageAssumption DEF Pages
<1>2. SUFFICES ASSUME y <= x PROVE Fits(w + 1, side, other)
  BY <1>1
<1>3. (w + 1) * other <= D * side
  <2>1. x <= D * side /\ D * side \in Nat
    BY <1>1, ProductGrows
  <2> QED BY <1>1, <1>2, <2>1
<1>4. ((w + 1) * (w + 1)) * other <= P * side
  <2>1. (w + 1) * y <= (w + 1) * x /\ (w + 1) * y \in Nat /\ (w + 1) * x \in Nat
    <3> HIDE DEF x, y
    <3> QED BY <1>1, <1>2, ProductGrows
  <2>2. (w + 1) * x = ((w + 1) * (h + 1)) * side
    OBVIOUS
  <2>3. ((w + 1) * (h + 1)) * side <= P * side /\ P * side \in Nat
    <3>1. (w + 1) * (h + 1) \in Nat
      OBVIOUS
    <3> QED BY <1>1, <3>1, ProductGrows
  <2>4. ((w + 1) * (w + 1)) * other = (w + 1) * y
    OBVIOUS
  <2> HIDE DEF x, y
  <2> QED BY <2>1, <2>2, <2>3, <2>4
<1> QED BY <1>3, <1>4 DEF Fits

\* Of two sides that cannot each be longer, one is at a limit of its own or both
\* together have all the pixels there may be.
LEMMA NoLargerFits ==
  ASSUME NEW W \in Nat \ {0}, NEW H \in Nat \ {0}, NEW w \in Nat, NEW h \in Nat,
         Fits(w, W, H), ~Fits(w + 1, W, H), Fits(h, H, W), ~Fits(h + 1, H, W)
  PROVE  \/ (w + 1) * Unit > 2 * W \/ (h + 1) * Unit > 2 * H
         \/ w = MaximumDimension["mermaid"] \/ h = MaximumDimension["mermaid"]
         \/ (w + 1) * (h + 1) > MaximumRasterPixels
<1>1. /\ MaximumDimension["mermaid"] \in Nat /\ MaximumRasterPixels \in Nat
      /\ Unit \in Nat /\ (w + 1) * (h + 1) \in Nat
      /\ (w + 1) * Unit \in Nat /\ (h + 1) * Unit \in Nat
  BY RenderPageAssumption DEF Pages
<1>2. SUFFICES ASSUME (w + 1) * Unit <= 2 * W, (h + 1) * Unit <= 2 * H,
                      w # MaximumDimension["mermaid"], h # MaximumDimension["mermaid"],
                      (w + 1) * (h + 1) <= MaximumRasterPixels
               PROVE  FALSE
  BY <1>1
<1>3. w + 1 <= MaximumDimension["mermaid"] /\ h + 1 <= MaximumDimension["mermaid"]
  BY <1>1, <1>2 DEF Fits
<1>4. (h + 1) * W < (w + 1) * H
  BY <1>2, <1>3, HeldBack
<1>5. (w + 1) * H < (h + 1) * W
  <2>1. (h + 1) * (w + 1) = (w + 1) * (h + 1)
    OBVIOUS
  <2> QED BY <1>2, <1>3, <2>1, HeldBack
<1>6. (h + 1) * W \in Nat /\ (w + 1) * H \in Nat
  OBVIOUS
<1> QED BY <1>4, <1>5, <1>6

\* A drawing the page accepts has two sides, and its picture the two sides that fit,
\* but for a side of less than a pixel, which is one pixel long.
LEMMA PictureFits ==
  ASSUME NEW d \in Drawings["mermaid"], MermaidAccepts(d),
         NEW size, size = Dimensions(d), NEW pixels, pixels = RasterDimensions(size)
  PROVE  /\ size.width \in Nat \ {0} /\ size.height \in Nat \ {0}
         /\ \E w, h \in Nat :
              /\ Fits(w, size.width, size.height) /\ ~Fits(w + 1, size.width, size.height)
              /\ Fits(h, size.height, size.width) /\ ~Fits(h + 1, size.height, size.width)
              /\ pixels.width = IF w = 0 THEN 1 ELSE w
              /\ pixels.height = IF h = 0 THEN 1 ELSE h
<1>1. {d.viewBox.width, d.viewBox.height, d.bounds.width, d.bounds.height}
        \subseteq Int \cup {NaN}
  BY DrawingAssumption
<1>2. FinitePositive(size.width) /\ FinitePositive(size.height)
  BY DEF MermaidAccepts, SizeIsAccepted
<1>3. size.width \in Int \cup {NaN} /\ size.height \in Int \cup {NaN}
  BY <1>1 DEF Dimensions
<1>4. size.width \in Nat \ {0} /\ size.height \in Nat \ {0}
  BY <1>2, <1>3 DEF FinitePositive
<1> DEFINE w == ScaledSide(size.width, size.height)
           h == ScaledSide(size.height, size.width)
<1>5. w \in Nat /\ Fits(w, size.width, size.height) /\ ~Fits(w + 1, size.width, size.height)
  BY <1>4, ScaledSideFits
<1>6. h \in Nat /\ Fits(h, size.height, size.width) /\ ~Fits(h + 1, size.height, size.width)
  BY <1>4, ScaledSideFits
<1>7. pixels.width = Max({1, w}) /\ pixels.height = Max({1, h})
  BY DEF RasterDimensions
<1> HIDE DEF w, h
<1>8. /\ pixels.width = IF w = 0 THEN 1 ELSE w
      /\ pixels.height = IF h = 0 THEN 1 ELSE h
  BY <1>5, <1>6, <1>7, AtLeastOne
<1> QED BY <1>4, <1>5, <1>6, <1>8

\* The picture of a drawing is within every limit of the page and of the host, at most
\* twice as large as the drawing, in proportion to a pixel, and no larger one is.
LEMMA PictureOfPageFits ==
  ASSUME NEW o, MermaidPicture(o)
  PROVE  LET w == o.pixels.width
             h == o.pixels.height
             longest == MaximumDimension["mermaid"]
         IN /\ w \in 1..longest /\ h \in 1..longest
            /\ w * h <= MaximumRasterPixels
            /\ w = 1 \/ (w * Unit <= 2 * o.size.width
                           /\ w * o.size.height < (h + 1) * o.size.width)
            /\ h = 1 \/ (h * Unit <= 2 * o.size.height
                           /\ h * o.size.width < (w + 1) * o.size.height)
            /\ \/ (w + 1) * Unit > 2 * o.size.width
               \/ (h + 1) * Unit > 2 * o.size.height
               \/ w = longest \/ h = longest
               \/ (w + 1) * (h + 1) > MaximumRasterPixels
<1>3. PICK d \in Drawings["mermaid"] :
        /\ MermaidAccepts(d)
        /\ o.size = Dimensions(d) /\ o.pixels = RasterDimensions(Dimensions(d))
  BY DEF MermaidPicture
<1> DEFINE W == o.size.width
           H == o.size.height
           D == MaximumDimension["mermaid"]
<1>4. /\ W \in Nat \ {0} /\ H \in Nat \ {0}
      /\ \E w, h \in Nat :
           /\ Fits(w, W, H) /\ ~Fits(w + 1, W, H)
           /\ Fits(h, H, W) /\ ~Fits(h + 1, H, W)
           /\ o.pixels.width = IF w = 0 THEN 1 ELSE w
           /\ o.pixels.height = IF h = 0 THEN 1 ELSE h
  BY <1>3, PictureFits
<1>5. PICK w \in Nat, h \in Nat :
           /\ Fits(w, W, H) /\ ~Fits(w + 1, W, H)
           /\ Fits(h, H, W) /\ ~Fits(h + 1, H, W)
           /\ o.pixels.width = IF w = 0 THEN 1 ELSE w
           /\ o.pixels.height = IF h = 0 THEN 1 ELSE h
  BY <1>4
<1>6. D \in Nat \ {0} /\ MaximumRasterPixels \in Nat /\ D <= MaximumRasterPixels
      /\ Unit \in Nat \ {0}
  BY RenderPageAssumption DEF Pages
<1>7. w <= D /\ h <= D /\ w * Unit <= 2 * W /\ h * Unit <= 2 * H
  BY <1>5 DEF Fits
<1>8. w * h <= MaximumRasterPixels
  BY <1>4, <1>5, PixelsFit
<1>9. w * H < (h + 1) * W /\ h * W < (w + 1) * H
  BY <1>4, <1>5, Proportions
<1> DEFINE pw == o.pixels.width
           ph == o.pixels.height
<1>10. /\ pw = IF w = 0 THEN 1 ELSE w
       /\ ph = IF h = 0 THEN 1 ELSE h
  BY <1>5
<1> HIDE DEF W, H, D, pw, ph
<1>11. pw \in 1..D /\ ph \in 1..D
  BY <1>6, <1>7, <1>10
<1>12. pw * ph <= MaximumRasterPixels
  <2>1. CASE w = 0 \/ h = 0
    BY <1>6, <1>7, <1>10, <2>1
  <2>2. CASE w # 0 /\ h # 0
    BY <1>8, <1>10, <2>2
  <2> QED BY <2>1, <2>2
<1>13. pw = 1 \/ (pw * Unit <= 2 * W /\ pw * H < (ph + 1) * W)
  <2>1. SUFFICES ASSUME pw # 1 PROVE pw * Unit <= 2 * W /\ pw * H < (ph + 1) * W
    OBVIOUS
  <2>2. pw = w
    BY <1>10, <2>1
  <2>3. (h + 1) * W <= (ph + 1) * W /\ (h + 1) * W \in Nat /\ (ph + 1) * W \in Nat
    <3>1. h + 1 <= ph + 1 /\ h + 1 \in Nat /\ ph + 1 \in Nat
      BY <1>10
    <3> QED BY <1>4, <3>1, ProductGrows
  <2>4. w * H \in Nat
    BY <1>4
  <2> QED BY <1>7, <1>9, <2>2, <2>3, <2>4
<1>14. ph = 1 \/ (ph * Unit <= 2 * H /\ ph * W < (pw + 1) * H)
  <2>1. SUFFICES ASSUME ph # 1 PROVE ph * Unit <= 2 * H /\ ph * W < (pw + 1) * H
    OBVIOUS
  <2>2. ph = h
    BY <1>10, <2>1
  <2>3. (w + 1) * H <= (pw + 1) * H /\ (w + 1) * H \in Nat /\ (pw + 1) * H \in Nat
    <3>1. w + 1 <= pw + 1 /\ w + 1 \in Nat /\ pw + 1 \in Nat
      BY <1>10
    <3> QED BY <1>4, <3>1, ProductGrows
  <2>4. h * W \in Nat
    BY <1>4
  <2> QED BY <1>7, <1>9, <2>2, <2>3, <2>4
<1>15. \/ (pw + 1) * Unit > 2 * W \/ (ph + 1) * Unit > 2 * H
       \/ pw = D \/ ph = D \/ (pw + 1) * (ph + 1) > MaximumRasterPixels
  <2>1. \/ (w + 1) * Unit > 2 * W \/ (h + 1) * Unit > 2 * H
        \/ w = D \/ h = D \/ (w + 1) * (h + 1) > MaximumRasterPixels
    BY <1>4, <1>5, NoLargerFits DEF D
  <2>2. /\ w <= pw /\ h <= ph /\ pw \in Nat /\ ph \in Nat
        /\ (w = D => pw = D) /\ (h = D => ph = D)
    BY <1>6, <1>10
  <2>3. /\ (w + 1) * Unit <= (pw + 1) * Unit /\ (w + 1) * Unit \in Nat
        /\ (pw + 1) * Unit \in Nat
    <3>1. w + 1 <= pw + 1 /\ w + 1 \in Nat /\ pw + 1 \in Nat
      BY <2>2
    <3> QED BY <1>6, <3>1, ProductGrows
  <2>4. /\ (h + 1) * Unit <= (ph + 1) * Unit /\ (h + 1) * Unit \in Nat
        /\ (ph + 1) * Unit \in Nat
    <3>1. h + 1 <= ph + 1 /\ h + 1 \in Nat /\ ph + 1 \in Nat
      BY <2>2
    <3> QED BY <1>6, <3>1, ProductGrows
  <2>5. /\ (w + 1) * (h + 1) <= (pw + 1) * (ph + 1) /\ (w + 1) * (h + 1) \in Nat
        /\ (pw + 1) * (ph + 1) \in Nat
    <3>1. w + 1 <= pw + 1 /\ h + 1 <= ph + 1 /\ w + 1 \in Nat /\ h + 1 \in Nat
          /\ pw + 1 \in Nat /\ ph + 1 \in Nat
      BY <2>2
    <3> QED BY <3>1, ProductGrows
  <2> QED BY <1>4, <1>6, <2>1, <2>2, <2>3, <2>4, <2>5
<1> QED BY <1>11, <1>12, <1>13, <1>14, <1>15 DEF W, H, D, pw, ph

\* Whatever the size of a drawing, its picture is within every limit of the page and of
\* the host, at most twice as large as the drawing, in proportion to a pixel, and a
\* pixel more each way would break a limit.
THEOREM PicturesFit == Spec => []RasterFits
<1>1. ASSUME IInv PROVE RasterFits
  <2>1. \A o \in Outputs : page = "mermaid" => MermaidPicture(o)
    BY <1>1, OutputsArePictures
  <2> QED BY <2>1, PictureOfPageFits DEF RasterFits
<1> QED BY <1>1, Inductive, PTL

------------------------------------------------------------------------------
(* What the host makes of an answer.                                         *)

\* What the Mermaid page makes of a document: the style of the svg element goes, and
\* what is below it stays as the loop left it.
LEMMA UnstyledIsClean ==
  ASSUME NEW d, IsDrawing(d), NEW tree, tree = Unstyled(Sanitized("mermaid", d))
  PROVE  /\ IsCleanPictureOf("mermaid", d, tree)
         /\ tree.attributes[0] = {a \in d.attributes[0] : a.name # "style"}
         /\ DOMAIN tree.children = 0..Len(d.kind)
<1> DEFINE N == Len(d.kind)
           old == Sanitized("mermaid", d)
           root == {a \in old.attributes[0] : a.name # "style"}
<1>1. /\ IsCleanPictureOf("mermaid", d, old)
      /\ old.attributes[0] = d.attributes[0] /\ old \in LiveTrees(d)
  BY SanitizedIsClean
<1>2. IsTree(d) /\ N \in Nat /\ DOMAIN d.kind = 1..N
  BY DrawingIsTree DEF IsTree
<1>3. tree = [old EXCEPT !.attributes[0] = root]
  BY DEF Unstyled
<1> HIDE DEF old, root
<1>4. /\ old.children \in [{0} \cup (1..N) -> Seq(Nat)]
      /\ old.attributes \in [0..N -> SUBSET Attributes]
      /\ old = [children |-> old.children, attributes |-> old.attributes]
  BY <1>1 DEF LiveTrees
<1>5. /\ tree.children = old.children
      /\ tree.attributes = [old.attributes EXCEPT ![0] = root]
  BY <1>3, <1>4
<1>6. tree.attributes[0] = root
  BY <1>2, <1>4, <1>5
<1>7. \A i \in Kept("mermaid", d) : tree.attributes[i] = old.attributes[i]
  <2>1. \A i \in Kept("mermaid", d) : i \in 0..N /\ i # 0
    BY <1>2 DEF Kept
  <2> QED BY <1>4, <1>5, <2>1
<1>8. DOMAIN tree.children = 0..N
  BY <1>2, <1>4, <1>5
<1>9. IsCleanPictureOf("mermaid", d, tree)
  BY <1>1, <1>5, <1>7 DEF IsCleanPictureOf
<1>10. root = {a \in d.attributes[0] : a.name # "style"}
  BY <1>1 DEF root
<1> QED BY <1>6, <1>8, <1>9, <1>10

\* Whatever document the library draws, the picture the page has in hand shows below
\* its svg element the harmless part of the document, whole and in its order, without
\* active attributes; the svg element has its own, but for a style on the Mermaid page.
THEOREM PicturesAreClean == Spec => []PictureIsClean
<1>1. ASSUME IInv PROVE PictureIsClean
  <2>1. SUFFICES ASSUME NEW o \in Outputs
                 PROVE  /\ IsCleanPictureOf(page, o.drawing, o.tree)
                        /\ o.tree.attributes[0] =
                             {a \in o.drawing.attributes[0] :
                                page = "mermaid" => a.name # "style"}
    BY DEF PictureIsClean
  <2>2. CASE page = "mermaid"
    <3>1. PICK d \in Drawings["mermaid"] :
            o.drawing = d /\ o.tree = Unstyled(Sanitized("mermaid", d))
      BY <1>1, <2>1, <2>2, OutputsArePictures DEF MermaidPicture
    <3>2. IsDrawing(d)
      BY DrawingAssumption DEF Pages
    <3>3. /\ IsCleanPictureOf("mermaid", d, o.tree)
          /\ o.tree.attributes[0] = {a \in d.attributes[0] : a.name # "style"}
      BY <3>1, <3>2, UnstyledIsClean
    <3> QED BY <2>2, <3>1, <3>3
  <2>3. CASE page = "mathjax"
    <3>1. PICK d \in Drawings["mathjax"] :
            o.drawing = d /\ o.tree = Sanitized("mathjax", d)
      BY <1>1, <2>1, <2>3, OutputsArePictures DEF MathJaxPicture
    <3>2. IsDrawing(d)
      BY DrawingAssumption DEF Pages
    <3>3. /\ IsCleanPictureOf("mathjax", d, o.tree)
          /\ o.tree.attributes[0] = d.attributes[0]
      BY <3>1, <3>2, SanitizedIsClean
    <3> QED BY <2>3, <3>1, <3>3
  <2> QED BY <1>1, <2>2, <2>3 DEF IInv, Clean, Pages
<1> QED BY <1>1, Inductive, PTL

\* Of what the Mermaid page leaves an element, the host minds what only the host minds.
LEMMA AttributesDisputed ==
  ASSUME NEW a \in Attributes \ ForbiddenAttributes("mermaid")
  PROVE  ReadsActive(a) <=> OnlyTheHostMinds(a)
<1>1. a.name \in AttributeNames /\ a.value \in AttributeValues
  BY DEF Attributes
<1>2. /\ a.name # "event"
      /\ a.name \in {"href", "source"} => a.value \in {"anchor", "paddedAnchor"}
      /\ a.name = "style" => ~HasExternalCSS(a.value)
  BY DEF ForbiddenAttributes
<1> QED BY <1>1, <1>2
        DEF AttributeNames, AttributeValues, HasExternalCSS, ReadsActive, OnlyTheHostMinds

\* isSafeSVG lets a clean Mermaid picture pass, but for what only the host minds and
\* for what the svg element carries.
LEMMA CleanIsSafe ==
  ASSUME NEW o, IsDrawing(o.drawing),
         o.tree = Unstyled(Sanitized("mermaid", o.drawing))
  PROVE  IsSafeSVG(o) <=>
           /\ ~o.drawing.textReadsActive
           /\ \A i \in Shown(o.tree) :
                /\ o.drawing.kind[i] # "filing"
                /\ \A a \in o.tree.attributes[i] : ~OnlyTheHostMinds(a)
           /\ \A a \in o.tree.attributes[0] : ~ReadsActive(a)
<1> DEFINE d == o.drawing
           tree == o.tree
<1>1. IsCleanPictureOf("mermaid", d, tree) /\ DOMAIN tree.children = 0..Len(d.kind)
  BY UnstyledIsClean
<1>2. Shown(tree) \subseteq Kept("mermaid", d)
  BY <1>1, CleanShowsKept
<1>3. IsTree(d)
  BY DrawingIsTree
<1>4. ASSUME NEW i \in Shown(tree)
      PROVE  /\ d.kind[i] \notin {"link", "forbidden", "importing"}
             /\ \A a \in tree.attributes[i] : ReadsActive(a) <=> OnlyTheHostMinds(a)
  <2>1. i \in 1..Len(d.kind) /\ i \in 0..Len(d.kind)
    BY <1>2, <1>3 DEF Kept, IsTree
  <2>2. d.kind[i] \notin {"link", "forbidden", "importing"}
    BY <1>2, <1>3, <2>1, KeptNodes DEF Taken, ForbiddenKinds
  <2>3. tree.attributes[i] = d.attributes[i] \ ForbiddenAttributes("mermaid")
    BY <1>1, <1>2 DEF IsCleanPictureOf
  <2>4. d.attributes[i] \subseteq Attributes
    BY <1>3, <2>1 DEF IsTree
  <2> QED BY <2>2, <2>3, <2>4, AttributesDisputed
<1> HIDE DEF d, tree
<1>5. IsSafeSVG(o) <=>
        /\ ~o.drawing.textReadsActive
        /\ \A i \in Shown(tree) : d.kind[i] \notin {"link", "forbidden", "importing", "filing"}
        /\ \A i \in Shown(tree) : \A a \in tree.attributes[i] : ~ReadsActive(a)
        /\ \A a \in tree.attributes[0] : ~ReadsActive(a)
  BY DEF IsSafeSVG, d, tree
<1> QED BY <1>4, <1>5 DEF d, tree

\* What a page answers with a picture, the host takes for a failure that may pass in
\* the listed cases and in no other: bytes, what only the host minds, what the svg
\* element carries, and pictures that do not open.
THEOREM PicturesAreTaken == Spec => []HostAcceptsThePicture
<1>1. ASSUME IInv PROVE HostAcceptsThePicture
  <2> DEFINE o == answer.output
  <2>1. SUFFICES ASSUME answer # None, answer.kind = "svg"
                 PROVE  HostOutcome(page, answer) = "transientFailure" <=>
                          \/ page = "mermaid" /\ HostDisagrees(o)
                          \/ page = "mathjax"
                               /\ \/ ~(o.drawing.bytes <= MaximumSVGLength["mathjax"])
                                  \/ ~o.drawing.opens /\ MathJaxCost(o) <= MaximumCacheCost
    BY DEF HostAcceptsThePicture
  <2>2. page \in {"mermaid", "mathjax"}
    BY <1>1 DEF IInv, Clean, Pages
  <2>3. ASSUME page = "mermaid"
        PROVE  MermaidOutputIsValid(o) <=> ~HostDisagrees(o)
    <3>1. MermaidPicture(o) /\ o.png.prefixed
      BY <1>1, <2>1, <2>3 DEF IInv, MermaidPictures
    <3>2. PICK d \in Drawings["mermaid"] :
            /\ MermaidAccepts(d) /\ o.drawing = d
            /\ o.tree = Unstyled(Sanitized("mermaid", d))
            /\ o.size = Dimensions(d) /\ o.pixels = RasterDimensions(Dimensions(d))
      BY <3>1 DEF MermaidPicture
    <3>3. IsSafeSVG(o) <=>
            /\ ~o.drawing.textReadsActive
            /\ \A i \in Shown(o.tree) :
                 /\ o.drawing.kind[i] # "filing"
                 /\ \A a \in o.tree.attributes[i] : ~OnlyTheHostMinds(a)
            /\ \A a \in o.tree.attributes[0] : ~ReadsActive(a)
      <4>1. IsDrawing(d)
        BY DrawingAssumption DEF Pages
      <4> QED BY <3>2, <4>1, CleanIsSafe
    <3>4. SizeIsAccepted("mermaid", o.size)
      BY <3>2 DEF MermaidAccepts
    <3>5. /\ o.pixels.width <= MaximumDimension["mermaid"]
          /\ o.pixels.height <= MaximumDimension["mermaid"]
          /\ o.pixels.width * o.pixels.height <= MaximumRasterPixels
      <4> DEFINE w == o.pixels.width
                 h == o.pixels.height
      <4>1. /\ w \in 1..MaximumDimension["mermaid"]
            /\ h \in 1..MaximumDimension["mermaid"]
            /\ w * h <= MaximumRasterPixels
        BY <3>1, PictureOfPageFits
      <4>2. MaximumDimension["mermaid"] \in Nat
        BY RenderPageAssumption DEF Pages
      <4> QED BY <4>1, <4>2
    <3> HIDE DEF o
    <3>6. MermaidOutputIsValid(o) <=>
            /\ o.drawing.bytes <= MaximumSVGLength["mermaid"]
            /\ IsSafeSVG(o)
            /\ o.png.decodes /\ o.png.opens /\ o.png.bytes <= MaximumPNGBytes
      BY <3>1, <3>4, <3>5 DEF MermaidOutputIsValid, OpensAsImage
    <3>7. HostDisagrees(o) <=>
            \/ ~(o.drawing.bytes <= MaximumSVGLength["mermaid"])
            \/ o.drawing.textReadsActive
            \/ \E i \in Shown(o.tree) :
                 \/ o.drawing.kind[i] = "filing"
                 \/ \E a \in o.tree.attributes[i] : OnlyTheHostMinds(a)
            \/ \E a \in o.tree.attributes[0] : ReadsActive(a)
            \/ ~o.png.decodes \/ ~o.png.opens
            \/ ~(o.png.bytes <= MaximumPNGBytes)
      BY DEF HostDisagrees
    <3> QED BY <3>3, <3>6, <3>7
  <2>4. ASSUME page = "mathjax"
        PROVE  MathJaxOutputIsValid(o) <=> o.drawing.bytes <= MaximumSVGLength["mathjax"]
    BY <1>1, <2>1, <2>4 DEF IInv, MathJaxPictures, MathJaxPicture, MathJaxOutputIsValid
  <2>5. CASE page = "mermaid"
    <3>1. HostOutcome(page, answer) = "transientFailure" <=> ~MermaidOutputIsValid(o)
      BY <2>1, <2>5 DEF HostOutcome
    <3> QED BY <2>3, <2>5, <3>1
  <2>6. CASE page = "mathjax"
    <3>1. HostOutcome(page, answer) = "transientFailure" <=>
            \/ ~MathJaxOutputIsValid(o)
            \/ MathJaxCost(o) <= MaximumCacheCost /\ ~o.drawing.opens
      BY <2>1, <2>6 DEF HostOutcome
    <3> QED BY <2>4, <2>6, <3>1
  <2> QED BY <2>2, <2>5, <2>6
<1> QED BY <1>1, Inductive, PTL

\* A wait that a timer ended, in whatever phase and of whatever page, is a failure that
\* may pass: the host will draw the source again.
THEOREM TimeoutsAreTransient == Spec => TimeoutIsTransient
<1>1. ASSUME IInv, [Next]_vars
      PROVE  [TimerFires => HostOutcome(page, answer') = "transientFailure"]_vars
  <2>1. SUFFICES ASSUME TimerFires
                 PROVE  HostOutcome(page, answer') = "transientFailure"
    OBVIOUS
  <2> DEFINE error == CaughtError(page, call.phase, "timeout")
  <2>2. answer' = [kind |-> "error", error |-> error]
    BY <2>1 DEF TimerFires, Answered, Failed
  <2>3. page \in {"mermaid", "mathjax"}
    BY <1>1 DEF IInv, Clean, Pages
  <2>4. error \in {"render-timeout", "startup-timeout", "typeset-timeout"}
    BY <2>3 DEF CaughtError
  <2>5. error \notin PermanentErrors(page)
    BY <2>3, <2>4 DEF PermanentErrors
  <2> HIDE DEF error
  <2> QED BY <2>2, <2>5 DEF HostOutcome
<1> QED BY <1>1, Inductive, PTL DEF Spec, TimeoutIsTransient
=============================================================================
