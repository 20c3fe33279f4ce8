-------------------------- MODULE RecoveryDiskProofs --------------------------
(* The scripts of the recovery store: whatever call of a transaction or a        *)
(* replay is the last, the directory is in order, and the records and            *)
(* generations its journals promise change as AtomicRecovery says.               *)
EXTENDS RecoveryInvariant, DataFacts, TLAPS

------------------------------------------------------------------------------
(* Courses.                                                                  *)

\* a goes through a script.
Passes(a, d, script) ==
  /\ a = [n \in 0..Len(script) |-> a[n]]
  /\ a[0] = d
  /\ \A n \in 1..Len(script) : a[n] = Apply(a[n - 1], script[n])

LEMMA CoursePasses ==
  ASSUME NEW T, NEW s \in Seq(T), NEW d
  PROVE  Passes(Course(d, s), d, s)
<1> DEFINE N == Len(s)
           Is(g) == g = [n \in 0..N |-> IF n = 0 THEN d ELSE Apply(g[n - 1], s[n])]
           F == CHOOSE g : Is(g)
           Upto(g, m) == /\ g[0] = d
                         /\ \A n \in 1..m : g[n] = Apply(g[n - 1], s[n])
           Good == {m \in Nat : \E g : Upto(g, m)}
<1>1. N \in Nat
  OBVIOUS
<1>2. Nat \subseteq Good
  <2>1. 0 \in Good
    <3>1. Upto([n \in {0} |-> d], 0)
      OBVIOUS
    <3> HIDE DEF Upto
    <3> QED BY <3>1
  <2>2. ASSUME NEW m \in Nat, m \in Good
        PROVE  m + 1 \in Good
    <3>1. PICK g : Upto(g, m)
      BY <2>2
    <3> DEFINE h == [n \in 0..(m + 1) |-> IF n = m + 1 THEN Apply(g[m], s[m + 1]) ELSE g[n]]
    <3>2. h[0] = d
      BY <3>1
    <3>3. ASSUME NEW n \in 1..(m + 1)
          PROVE  h[n] = Apply(h[n - 1], s[n])
      <4>1. CASE n = m + 1
        BY <4>1
      <4>2. CASE n # m + 1
        <5>1. n \in 1..m /\ n - 1 # m + 1 /\ n - 1 \in 0..(m + 1) /\ n \in 0..(m + 1)
          BY <4>2
        <5> QED BY <3>1, <5>1, <4>2
      <4> QED BY <4>1, <4>2
    <3> HIDE DEF h
    <3>4. Upto(h, m + 1)
      BY <3>2, <3>3
    <3> HIDE DEF Upto
    <3> QED BY <3>4
  <2> HIDE DEF Good
  <2> QED BY <2>1, <2>2, SetInduction
<1>3. \E g : Is(g)
  <2>1. PICK g : Upto(g, N)
    BY <1>1, <1>2
  <2> DEFINE h == [n \in 0..N |-> g[n]]
  <2>2. ASSUME NEW n \in 0..N
        PROVE  h[n] = IF n = 0 THEN d ELSE Apply(h[n - 1], s[n])
    <3>1. CASE n = 0
      BY <2>1, <3>1
    <3>2. CASE n # 0
      <4>1. n \in 1..N /\ n - 1 \in 0..N
        BY <1>1, <3>2
      <4> QED BY <2>1, <3>2, <4>1
    <3> QED BY <3>1, <3>2
  <2>3. h = [n \in 0..N |-> h[n]]
    OBVIOUS
  <2> HIDE DEF h
  <2>4. Is(h)
    BY <2>2, <2>3
  <2> QED BY <2>4
<1>4. Is(F)
  BY <1>3
<1>5. Course(d, s) = F
  BY DEF Course
<1> HIDE DEF F
<1>6. \A n \in 0..N : F[n] = IF n = 0 THEN d ELSE Apply(F[n - 1], s[n])
  BY <1>4
<1>7. F = [n \in 0..N |-> F[n]]
  <2> DEFINE body(n) == IF n = 0 THEN d ELSE Apply(F[n - 1], s[n])
  <2>1. F = [n \in 0..N |-> body(n)]
    BY <1>4
  <2> HIDE DEF body
  <2> QED BY <2>1
<1>8. Passes(F, d, s)
  BY <1>1, <1>6, <1>7 DEF Passes
<1> QED BY <1>5, <1>8

\* There is one way through a script.
LEMMA CourseIsUnique ==
  ASSUME NEW T, NEW s \in Seq(T), NEW d, NEW a, Passes(a, d, s)
  PROVE  \A n \in 0..Len(s) : a[n] = Course(d, s)[n]
<1> DEFINE N == Len(s)
           b == Course(d, s)
           Good == {n \in Nat : n <= N => a[n] = b[n]}
<1>1. N \in Nat /\ Passes(b, d, s)
  BY CoursePasses
<1> HIDE DEF b
<1>2. 0 \in Good
  BY <1>1 DEF Passes
<1>3. ASSUME NEW n \in Nat, n \in Good
      PROVE  n + 1 \in Good
  <2>1. SUFFICES ASSUME n + 1 <= N PROVE a[n + 1] = b[n + 1]
    OBVIOUS
  <2>2. a[n] = b[n] /\ n + 1 \in 1..N /\ n + 1 - 1 = n
    BY <1>1, <1>3, <2>1
  <2>3. /\ a[n + 1] = Apply(a[n + 1 - 1], s[n + 1])
        /\ b[n + 1] = Apply(b[n + 1 - 1], s[n + 1])
    BY <1>1, <2>2 DEF Passes
  <2> QED BY ONLY <2>2, <2>3
<1>4. Nat \subseteq Good
  <2> HIDE DEF Good
  <2> QED BY <1>2, <1>3, SetInduction
<1>5. \A n \in 0..N : a[n] = b[n]
  BY <1>1, <1>4
<1> QED BY <1>5 DEF b

\* A script that is not empty begins with its first call and goes on with the rest.
LEMMA CourseGoesOn ==
  ASSUME NEW T, NEW s \in Seq(T), NEW c \in T, NEW d
  PROVE  LET t == <<c>> \o s IN
         /\ t \in Seq(T) /\ Len(t) = Len(s) + 1
         /\ t[1] = c /\ \A n \in 1..Len(s) : t[n + 1] = s[n]
         /\ Course(d, t)[0] = d
         /\ \A n \in 0..Len(s) : Course(d, t)[n + 1] = Course(Apply(d, c), s)[n]
<1> DEFINE t == <<c>> \o s
           N == Len(s)
           b == Course(Apply(d, c), s)
           a == [n \in 0..(N + 1) |-> IF n = 0 THEN d ELSE b[n - 1]]
<1>1. /\ t \in Seq(T) /\ Len(t) = N + 1 /\ N \in Nat
      /\ t[1] = c /\ \A n \in 1..N : t[n + 1] = s[n]
  OBVIOUS
<1>2. Passes(b, Apply(d, c), s)
  BY CoursePasses
<1> HIDE DEF t, b
<1>3. ASSUME NEW n \in 1..(N + 1)
      PROVE  a[n] = Apply(a[n - 1], t[n])
  <2>1. CASE n = 1
    BY <1>1, <1>2, <2>1 DEF Passes
  <2>2. CASE n # 1
    <3>1. /\ n - 1 \in 1..N /\ n - 1 # 0 /\ n - 1 - 1 \in 0..N
          /\ a[n] = b[n - 1] /\ a[n - 1] = b[n - 1 - 1]
      BY <1>1, <2>2
    <3>2. b[n - 1] = Apply(b[n - 1 - 1], s[n - 1])
      BY <1>2, <3>1 DEF Passes
    <3>3. t[n] = s[n - 1]
      <4>1. t[n - 1 + 1] = s[n - 1] /\ n - 1 + 1 = n
        BY <1>1, <3>1
      <4> QED BY <4>1
    <3> QED BY <3>1, <3>2, <3>3
  <2> QED BY <2>1, <2>2
<1>4. a[0] = d /\ a = [n \in 0..(N + 1) |-> a[n]]
  BY <1>1
<1>5. \A n \in 0..N : a[n + 1] = b[n]
  BY <1>1
<1> HIDE DEF a
<1>6. Passes(a, d, t)
  BY <1>1, <1>3, <1>4 DEF Passes
<1>7. \A n \in 0..(N + 1) : a[n] = Course(d, t)[n]
  BY <1>1, <1>6, CourseIsUnique
<1>8. Course(d, t)[0] = d
  BY <1>1, <1>4, <1>7
<1>9. \A n \in 0..N : Course(d, t)[n + 1] = b[n]
  BY <1>1, <1>5, <1>7
<1> QED BY <1>1, <1>8, <1>9 DEF t, b

LEMMA NothingIsApplied ==
  ASSUME NEW d
  PROVE  ApplyAll(d, <<>>) = d
<1>1. <<>> \in Seq({}) /\ Len(<<>>) = 0
  OBVIOUS
<1>2. Passes(Course(d, <<>>), d, <<>>)
  BY <1>1, CoursePasses
<1> QED BY <1>1, <1>2 DEF ApplyAll, Passes

LEMMA ApplyGoesOn ==
  ASSUME NEW T, NEW s \in Seq(T), NEW c \in T, NEW d
  PROVE  ApplyAll(d, <<c>> \o s) = ApplyAll(Apply(d, c), s)
<1>1. /\ Len(<<c>> \o s) = Len(s) + 1 /\ Len(s) \in Nat
      /\ \A n \in 0..Len(s) :
           Course(d, <<c>> \o s)[n + 1] = Course(Apply(d, c), s)[n]
  BY CourseGoesOn
<1> QED BY <1>1 DEF ApplyAll

------------------------------------------------------------------------------
(* Scripts.                                                                  *)

LEMMA EmptyFollows ==
  ASSUME NEW d, NEW w
  PROVE  Follows(d, <<>>, w) <=> IsState(d, w)
BY NothingIsApplied DEF Follows

LEMMA FollowsOn ==
  ASSUME NEW d, NEW w, NEW s \in Seq(Calls), NEW c \in Calls
  PROVE  Follows(d, <<c>> \o s, w)
           <=> Allowed(d, c, w) /\ Follows(Apply(d, c), s, w)
<1> DEFINE t == <<c>> \o s
           N == Len(s)
           a == Course(d, t)
           b == Course(Apply(d, c), s)
<1>1. /\ t \in Seq(Calls) /\ Len(t) = N + 1 /\ N \in Nat
      /\ t[1] = c /\ (\A n \in 1..N : t[n + 1] = s[n])
      /\ a[0] = d /\ \A n \in 0..N : a[n + 1] = b[n]
  BY CourseGoesOn
<1>2. ApplyAll(d, t) = ApplyAll(Apply(d, c), s)
  BY ApplyGoesOn
<1> HIDE DEF t, a, b
<1>3. (\A n \in 1..(N + 1) : Allowed(a[n - 1], t[n], w))
        <=> Allowed(d, c, w) /\ \A n \in 1..N : Allowed(b[n - 1], s[n], w)
  <2>1. ASSUME \A n \in 1..(N + 1) : Allowed(a[n - 1], t[n], w)
        PROVE  Allowed(d, c, w) /\ \A n \in 1..N : Allowed(b[n - 1], s[n], w)
    <3>1. Allowed(a[1 - 1], t[1], w) /\ 1 - 1 = 0
      BY <1>1, <2>1
    <3>2. ASSUME NEW n \in 1..N
          PROVE  Allowed(b[n - 1], s[n], w)
      <4>1. n + 1 \in 1..(N + 1) /\ n + 1 - 1 = n - 1 + 1 /\ n - 1 \in 0..N
        BY <1>1
      <4>2. Allowed(a[n + 1 - 1], t[n + 1], w)
        BY <2>1, <4>1
      <4>3. a[n - 1 + 1] = b[n - 1] /\ t[n + 1] = s[n]
        BY <1>1, <4>1
      <4> QED BY ONLY <4>1, <4>2, <4>3
    <3>3. a[0] = d /\ t[1] = c
      BY <1>1
    <3>4. Allowed(d, c, w)
      BY ONLY <3>1, <3>3
    <3> QED BY <3>2, <3>4
  <2>2. ASSUME Allowed(d, c, w), \A n \in 1..N : Allowed(b[n - 1], s[n], w),
               NEW n \in 1..(N + 1)
        PROVE  Allowed(a[n - 1], t[n], w)
    <3>1. CASE n = 1
      <4>1. n - 1 = 0 /\ a[n - 1] = d /\ t[n] = c
        BY <1>1, <3>1
      <4> QED BY ONLY <2>2, <4>1
    <3>2. CASE n # 1
      <4>1. n - 1 \in 1..N /\ n - 1 - 1 \in 0..N /\ n - 1 - 1 + 1 = n - 1 /\ n - 1 + 1 = n
        BY <1>1, <3>2
      <4>2. a[n - 1 - 1 + 1] = b[n - 1 - 1] /\ t[n - 1 + 1] = s[n - 1]
        BY <1>1, <4>1
      <4>3. Allowed(b[n - 1 - 1], s[n - 1], w)
        BY <2>2, <4>1
      <4> QED BY ONLY <4>1, <4>2, <4>3
    <3> QED BY <3>1, <3>2
  <2> QED BY <2>1, <2>2
<1>4. Follows(d, t, w) <=> Allowed(d, c, w) /\ Follows(Apply(d, c), s, w)
  BY <1>1, <1>2, <1>3 DEF Follows, a, b
<1> QED BY <1>4 DEF t
------------------------------------------------------------------------------
(* What a call does.                                                         *)

Dir(files, tombs, index, deletion, migration) ==
  [files |-> files, tombs |-> tombs, index |-> index, deletion |-> deletion,
   migration |-> migration]

\* Functions, given by their values.
LEMMA SameFunction ==
  ASSUME NEW f, NEW g, IsFunction(f), IsFunction(g),
         \A x : x \in DOMAIN f <=> x \in DOMAIN g,
         \A x \in DOMAIN f : f[x] = g[x]
  PROVE  f = g
<1>1. DOMAIN f = DOMAIN g
  OBVIOUS
<1> QED BY <1>1 DEF IsFunction

LEMMA NamedIs ==
  ASSUME NEW set, NEW key
  PROVE  /\ \A x : x \in DOMAIN Named(set, key) <=> x \in set
         /\ \A x \in set : Named(set, key)[x] = key
         /\ IsFunction(Named(set, key))
BY DEF Named, IsFunction

LEMMA OnlyIs ==
  ASSUME NEW f, NEW set
  PROVE  /\ \A x : x \in DOMAIN Only(f, set) <=> x \in set
         /\ \A x \in set : Only(f, set)[x] = f[x]
         /\ IsFunction(Only(f, set))
BY DEF Only, IsFunction

LEMMA OverIs ==
  ASSUME NEW f, NEW g
  PROVE  /\ \A x : x \in DOMAIN Over(f, g) <=> x \in DOMAIN f \/ x \in DOMAIN g
         /\ \A x \in DOMAIN f : Over(f, g)[x] = f[x]
         /\ \A x \in DOMAIN g : x \notin DOMAIN f => Over(f, g)[x] = g[x]
         /\ IsFunction(Over(f, g))
BY DEF Over, IsFunction

LEMMA WriteApplied ==
  ASSUME NEW f, NEW t, NEW i, NEW x, NEW m, NEW S, NEW k
  PROVE  Apply(Dir(f, t, i, x, m), Write(S, k)) = Dir(Over(Named(S, k), f), t, i, x, m)
BY DEF Apply, Dir, Write, Named

LEMMA BuryApplied ==
  ASSUME NEW f, NEW t, NEW i, NEW x, NEW m, NEW S
  PROVE  Apply(Dir(f, t, i, x, m), Bury(S))
           = Dir(Only(f, DOMAIN f \ S), Over(Only(f, S), t), i, x, m)
BY DEF Apply, Dir, Bury

LEMMA UnburyApplied ==
  ASSUME NEW f, NEW t, NEW i, NEW x, NEW m, NEW S
  PROVE  Apply(Dir(f, t, i, x, m), Unbury(S))
           = Dir(Over(Only(t, S), f), Only(t, DOMAIN t \ S), i, x, m)
BY DEF Apply, Dir, Unbury

LEMMA UnlinkApplied ==
  ASSUME NEW f, NEW t, NEW i, NEW x, NEW m, NEW S
  PROVE  Apply(Dir(f, t, i, x, m), Unlink(S)) = Dir(f, Only(t, DOMAIN t \ S), i, x, m)
BY DEF Apply, Dir, Unlink

LEMMA IndexApplied ==
  ASSUME NEW f, NEW t, NEW i, NEW x, NEW m, NEW v
  PROVE  Apply(Dir(f, t, i, x, m), Index(v)) = Dir(f, t, v, x, m)
BY DEF Apply, Dir, Index

LEMMA DeletionApplied ==
  ASSUME NEW f, NEW t, NEW i, NEW x, NEW m, NEW v
  PROVE  Apply(Dir(f, t, i, x, m), Deletion(v)) = Dir(f, t, i, v, m)
BY DEF Apply, Dir, Deletion

LEMMA MigrationApplied ==
  ASSUME NEW f, NEW t, NEW i, NEW x, NEW m, NEW v
  PROVE  Apply(Dir(f, t, i, x, m), Migration(v)) = Dir(f, t, i, x, v)
BY DEF Apply, Dir, Migration

\* The calls of a loop, whatever it is a loop over.
LEMMA LoopForms ==
  ASSUME NEW c \in LoopCalls
  PROVE  /\ c.files \subseteq Artifacts
         /\ \/ /\ c.call = "write" /\ c.key \in Keys
               /\ \A S : [c EXCEPT !.files = S] = Write(S, c.key)
            \/ c.call = "bury" /\ \A S : [c EXCEPT !.files = S] = Bury(S)
            \/ c.call = "unbury" /\ \A S : [c EXCEPT !.files = S] = Unbury(S)
            \/ c.call = "unlink" /\ \A S : [c EXCEPT !.files = S] = Unlink(S)
         /\ c = [c EXCEPT !.files = c.files]
         /\ \A S : S \subseteq Artifacts => [c EXCEPT !.files = S] \in LoopCalls
         /\ \A S : /\ [c EXCEPT !.files = S].files = S
                   /\ [c EXCEPT !.files = S].call = c.call
<1>1. CASE c \in [call : {"write"}, files : SUBSET Artifacts, key : Keys]
  <2>1. c = Write(c.files, c.key) /\ c.call = "write" /\ c.key \in Keys
    BY <1>1 DEF Write
  <2>2. \A S : [c EXCEPT !.files = S] = Write(S, c.key)
    BY <1>1 DEF Write
  <2>3. \A S : S \subseteq Artifacts => Write(S, c.key) \in LoopCalls
    BY <2>1 DEF Write, LoopCalls
  <2>4. \A S : Write(S, c.key).files = S /\ Write(S, c.key).call = "write"
    BY DEF Write
  <2> QED BY <1>1, <2>1, <2>2, <2>3, <2>4
<1>2. CASE c \in [call : {"bury", "unbury", "unlink"}, files : SUBSET Artifacts]
  <2>1. \A S : [c EXCEPT !.files = S] = [call |-> c.call, files |-> S]
    BY <1>2
  <2>2. \A S : S \subseteq Artifacts => [call |-> c.call, files |-> S] \in LoopCalls
    BY <1>2 DEF LoopCalls
  <2>3. c = [call |-> c.call, files |-> c.files]
    BY <1>2
  <2> QED BY <1>2, <2>1, <2>2, <2>3 DEF Bury, Unbury, Unlink
<1> QED BY <1>1, <1>2 DEF LoopCalls

LEMMA LoopPart ==
  ASSUME NEW c \in LoopCalls, NEW S, NEW R
  PROVE  [[c EXCEPT !.files = S] EXCEPT !.files = R] = [c EXCEPT !.files = R]
<1>1. CASE c \in [call : {"write"}, files : SUBSET Artifacts, key : Keys]
  BY <1>1
<1>2. CASE c \in [call : {"bury", "unbury", "unlink"}, files : SUBSET Artifacts]
  BY <1>2
<1> QED BY <1>1, <1>2 DEF LoopCalls

\* Files that are there once can be taken in any order.
LEMMA NamesCommute ==
  ASSUME NEW f, NEW A, NEW D, NEW k
  PROVE  Over(Named(D, k), Over(Named(A, k), f)) = Over(Named(D \cup A, k), f)
<1> DEFINE g == Over(Named(D, k), Over(Named(A, k), f))
           h == Over(Named(D \cup A, k), f)
<1>1. IsFunction(g) /\ IsFunction(h)
  BY OverIs
<1>2. \A x : x \in DOMAIN g <=> x \in DOMAIN h
  BY OverIs, NamedIs
<1>3. \A x \in DOMAIN g : g[x] = h[x]
  BY OverIs, NamedIs
<1> HIDE DEF g, h
<1>4. g = h
  BY <1>1, <1>2, <1>3, SameFunction
<1> QED BY <1>4 DEF g, h

LEMMA RestsCommute ==
  ASSUME NEW f, NEW a, NEW D
  PROVE  Only(Only(f, DOMAIN f \ {a}), DOMAIN Only(f, DOMAIN f \ {a}) \ D)
           = Only(f, DOMAIN f \ (D \cup {a}))
BY DEF Only

LEMMA MovesCommute ==
  ASSUME NEW f, NEW t, NEW a \in DOMAIN f, NEW D, D \subseteq DOMAIN f, a \notin D
  PROVE  Over(Only(Only(f, DOMAIN f \ {a}), D), Over(Only(f, {a}), t))
           = Over(Only(f, D \cup {a}), t)
BY DEF Over, Only

LEMMA NothingIsNamed ==
  ASSUME NEW f, IsFunction(f), NEW k
  PROVE  Over(Named({}, k), f) = f
BY DEF Over, Named, IsFunction

LEMMA NothingMoves ==
  ASSUME NEW f, IsFunction(f), NEW g
  PROVE  Over(Only(g, {}), f) = f
BY DEF Over, Only, IsFunction

LEMMA EverythingStays ==
  ASSUME NEW f, IsFunction(f)
  PROVE  Only(f, DOMAIN f \ {}) = f
<1>1. DOMAIN f \ {} = DOMAIN f
  OBVIOUS
<1> QED BY <1>1 DEF Only, IsFunction

\* Directories of functions.
IsDir(d) ==
  /\ d = Dir(d.files, d.tombs, d.index, d.deletion, d.migration)
  /\ IsFunction(d.files)
  /\ IsFunction(d.tombs)

LEMMA DirIs ==
  ASSUME NEW f, NEW t, NEW i, NEW x, NEW m
  PROVE  LET d == Dir(f, t, i, x, m) IN
         /\ d.files = f /\ d.tombs = t /\ d.index = i /\ d.deletion = x /\ d.migration = m
         /\ d = Dir(d.files, d.tombs, d.index, d.deletion, d.migration)
BY DEF Dir

LEMMA DiskIsDir ==
  ASSUME NEW d, IsDisk(d)
  PROVE  IsDir(d)
BY DEF IsDisk, IsDirectory, IsDir, Dir

LEMMA WritesCommute ==
  ASSUME NEW f, IsFunction(f), NEW t, NEW i, NEW x, NEW m, NEW k,
         NEW a, NEW D, a \notin D
  PROVE  /\ Apply(Apply(Dir(f, t, i, x, m), Write({a}, k)), Write(D, k))
              = Apply(Dir(f, t, i, x, m), Write(D \cup {a}, k))
         /\ Apply(Dir(f, t, i, x, m), Write({}, k)) = Dir(f, t, i, x, m)
<1>1. Apply(Apply(Dir(f, t, i, x, m), Write({a}, k)), Write(D, k))
        = Apply(Dir(f, t, i, x, m), Write(D \cup {a}, k))
  <2>1. Apply(Dir(f, t, i, x, m), Write({a}, k)) = Dir(Over(Named({a}, k), f), t, i, x, m)
    BY WriteApplied
  <2>2. Apply(Dir(Over(Named({a}, k), f), t, i, x, m), Write(D, k))
          = Dir(Over(Named(D, k), Over(Named({a}, k), f)), t, i, x, m)
    BY WriteApplied
  <2>3. Apply(Dir(f, t, i, x, m), Write(D \cup {a}, k))
          = Dir(Over(Named(D \cup {a}, k), f), t, i, x, m)
    BY WriteApplied
  <2>4. Over(Named(D, k), Over(Named({a}, k), f)) = Over(Named(D \cup {a}, k), f)
    <3> DEFINE A == {a}
    <3> HIDE DEF A
    <3>1. Over(Named(D, k), Over(Named(A, k), f)) = Over(Named(D \cup A, k), f)
      BY NamesCommute
    <3> QED BY <3>1 DEF A
  <2> QED BY <2>1, <2>2, <2>3, <2>4
<1>2. Apply(Dir(f, t, i, x, m), Write({}, k)) = Dir(f, t, i, x, m)
  BY WriteApplied, NothingIsNamed, NothingMoves, EverythingStays
<1> QED BY <1>1, <1>2

LEMMA BuriesCommute ==
  ASSUME NEW f, IsFunction(f), NEW t, IsFunction(t),
         NEW i, NEW x, NEW m, NEW a, NEW D, a \notin D, a \in DOMAIN f, D \subseteq DOMAIN f
  PROVE  /\ Apply(Apply(Dir(f, t, i, x, m), Bury({a})), Bury(D))
              = Apply(Dir(f, t, i, x, m), Bury(D \cup {a}))
         /\ Apply(Dir(f, t, i, x, m), Bury({})) = Dir(f, t, i, x, m)
<1>1. Apply(Apply(Dir(f, t, i, x, m), Bury({a})), Bury(D))
        = Apply(Dir(f, t, i, x, m), Bury(D \cup {a}))
  <2> DEFINE g == Only(f, DOMAIN f \ {a})
             u == Over(Only(f, {a}), t)
  <2>1. Apply(Dir(f, t, i, x, m), Bury({a})) = Dir(g, u, i, x, m)
    BY BuryApplied
  <2>2. Apply(Dir(g, u, i, x, m), Bury(D))
          = Dir(Only(g, DOMAIN g \ D), Over(Only(g, D), u), i, x, m)
    BY BuryApplied
  <2>3. Apply(Dir(f, t, i, x, m), Bury(D \cup {a}))
          = Dir(Only(f, DOMAIN f \ (D \cup {a})), Over(Only(f, D \cup {a}), t), i, x, m)
    BY BuryApplied
  <2>4. Only(g, DOMAIN g \ D) = Only(f, DOMAIN f \ (D \cup {a}))
    BY RestsCommute
  <2>5. Over(Only(g, D), u) = Over(Only(f, D \cup {a}), t)
    BY MovesCommute
  <2> QED BY <2>1, <2>2, <2>3, <2>4, <2>5
<1>2. Apply(Dir(f, t, i, x, m), Bury({})) = Dir(f, t, i, x, m)
  BY BuryApplied, NothingIsNamed, NothingMoves, EverythingStays
<1> QED BY <1>1, <1>2

LEMMA UnburiesCommute ==
  ASSUME NEW f, IsFunction(f), NEW t, IsFunction(t),
         NEW i, NEW x, NEW m, NEW a, NEW D, a \notin D, a \in DOMAIN t, D \subseteq DOMAIN t
  PROVE  /\ Apply(Apply(Dir(f, t, i, x, m), Unbury({a})), Unbury(D))
              = Apply(Dir(f, t, i, x, m), Unbury(D \cup {a}))
         /\ Apply(Dir(f, t, i, x, m), Unbury({})) = Dir(f, t, i, x, m)
<1>1. Apply(Apply(Dir(f, t, i, x, m), Unbury({a})), Unbury(D))
        = Apply(Dir(f, t, i, x, m), Unbury(D \cup {a}))
  <2> DEFINE g == Only(t, DOMAIN t \ {a})
             u == Over(Only(t, {a}), f)
  <2>1. Apply(Dir(f, t, i, x, m), Unbury({a})) = Dir(u, g, i, x, m)
    BY UnburyApplied
  <2>2. Apply(Dir(u, g, i, x, m), Unbury(D))
          = Dir(Over(Only(g, D), u), Only(g, DOMAIN g \ D), i, x, m)
    BY UnburyApplied
  <2>3. Apply(Dir(f, t, i, x, m), Unbury(D \cup {a}))
          = Dir(Over(Only(t, D \cup {a}), f), Only(t, DOMAIN t \ (D \cup {a})), i, x, m)
    BY UnburyApplied
  <2>4. Only(g, DOMAIN g \ D) = Only(t, DOMAIN t \ (D \cup {a}))
    BY RestsCommute
  <2>5. Over(Only(g, D), u) = Over(Only(t, D \cup {a}), f)
    BY MovesCommute
  <2> QED BY <2>1, <2>2, <2>3, <2>4, <2>5
<1>2. Apply(Dir(f, t, i, x, m), Unbury({})) = Dir(f, t, i, x, m)
  BY UnburyApplied, NothingIsNamed, NothingMoves, EverythingStays
<1> QED BY <1>1, <1>2

LEMMA UnlinksCommute ==
  ASSUME NEW f, NEW t, IsFunction(t), NEW i, NEW x, NEW m,
         NEW a, NEW D, a \notin D
  PROVE  /\ Apply(Apply(Dir(f, t, i, x, m), Unlink({a})), Unlink(D))
              = Apply(Dir(f, t, i, x, m), Unlink(D \cup {a}))
         /\ Apply(Dir(f, t, i, x, m), Unlink({})) = Dir(f, t, i, x, m)
<1>1. Apply(Apply(Dir(f, t, i, x, m), Unlink({a})), Unlink(D))
        = Apply(Dir(f, t, i, x, m), Unlink(D \cup {a}))
  <2> DEFINE g == Only(t, DOMAIN t \ {a})
  <2>1. Apply(Dir(f, t, i, x, m), Unlink({a})) = Dir(f, g, i, x, m)
    BY UnlinkApplied
  <2>2. Apply(Dir(f, g, i, x, m), Unlink(D)) = Dir(f, Only(g, DOMAIN g \ D), i, x, m)
    BY UnlinkApplied
  <2>3. Apply(Dir(f, t, i, x, m), Unlink(D \cup {a}))
          = Dir(f, Only(t, DOMAIN t \ (D \cup {a})), i, x, m)
    BY UnlinkApplied
  <2>4. Only(g, DOMAIN g \ D) = Only(t, DOMAIN t \ (D \cup {a}))
    BY RestsCommute
  <2> QED BY <2>1, <2>2, <2>3, <2>4
<1>2. Apply(Dir(f, t, i, x, m), Unlink({})) = Dir(f, t, i, x, m)
  BY UnlinkApplied, NothingIsNamed, NothingMoves, EverythingStays
<1> QED BY <1>1, <1>2

\* The calls of a loop can be made one by one, in any order.
LEMMA LoopCommutes ==
  ASSUME NEW d, IsDir(d), NEW c \in LoopCalls,
         c.call = "bury" => c.files \subseteq DOMAIN d.files,
         c.call = "unbury" => c.files \subseteq DOMAIN d.tombs
  PROVE  /\ Partly(d, c, {}) = d
         /\ Partly(d, c, c.files) = Apply(d, c)
         /\ \A a \in c.files : \A D \in SUBSET (c.files \ {a}) :
              Partly(Apply(d, [c EXCEPT !.files = {a}]), [c EXCEPT !.files = c.files \ {a}], D)
                = Partly(d, c, D \cup {a})
<1> DEFINE f == d.files
           t == d.tombs
           i == d.index
           x == d.deletion
           m == d.migration
           With(S) == [c EXCEPT !.files = S]
<1>1. /\ d = Dir(f, t, i, x, m)
      /\ IsFunction(f) /\ IsFunction(t)
  BY DEF IsDir
<1>2. /\ c.call = "bury" => c.files \subseteq DOMAIN f
      /\ c.call = "unbury" => c.files \subseteq DOMAIN t
  OBVIOUS
<1>3. /\ \A D : Partly(d, c, D) = Apply(d, With(D))
      /\ Partly(d, c, c.files) = Apply(d, c)
  BY LoopForms DEF Partly
<1>7. ASSUME NEW a, NEW D
      PROVE  Partly(Apply(d, With({a})), With(c.files \ {a}), D)
               = Apply(Apply(d, With({a})), With(D))
  <2>1. [With(c.files \ {a}) EXCEPT !.files = D] = With(D)
    BY LoopPart
  <2> QED BY <2>1 DEF Partly
<1>4. \/ c.call = "write" /\ \A S : With(S) = Write(S, c.key)
      \/ c.call = "bury" /\ \A S : With(S) = Bury(S)
      \/ c.call = "unbury" /\ \A S : With(S) = Unbury(S)
      \/ c.call = "unlink" /\ \A S : With(S) = Unlink(S)
  BY LoopForms
<1> HIDE DEF f, t, i, x, m, With
<1>5. ASSUME NEW a \in c.files, NEW D \in SUBSET (c.files \ {a})
      PROVE  Apply(Apply(d, With({a})), With(D)) = Apply(d, With(D \cup {a}))
  <2>1. a \notin D
    OBVIOUS
  <2>2. CASE c.call = "write" /\ \A S : With(S) = Write(S, c.key)
    BY <1>1, <2>1, <2>2, WritesCommute
  <2>3. CASE c.call = "bury" /\ \A S : With(S) = Bury(S)
    <3>1. a \in DOMAIN f /\ D \subseteq DOMAIN f
      BY <1>2, <2>3
    <3> QED BY <1>1, <2>1, <2>3, <3>1, BuriesCommute
  <2>4. CASE c.call = "unbury" /\ \A S : With(S) = Unbury(S)
    <3>1. a \in DOMAIN t /\ D \subseteq DOMAIN t
      BY <1>2, <2>4
    <3> QED BY <1>1, <2>1, <2>4, <3>1, UnburiesCommute
  <2>5. CASE c.call = "unlink" /\ \A S : With(S) = Unlink(S)
    BY <1>1, <2>1, <2>5, UnlinksCommute
  <2> QED BY <1>4, <2>2, <2>3, <2>4, <2>5
<1>6. Apply(d, With({})) = d
  <2>1. CASE c.call = "write" /\ \A S : With(S) = Write(S, c.key)
    BY <1>1, <2>1, WriteApplied, NothingIsNamed, NothingMoves, EverythingStays
  <2>2. CASE c.call = "bury" /\ \A S : With(S) = Bury(S)
    BY <1>1, <2>2, BuryApplied, NothingIsNamed, NothingMoves, EverythingStays
  <2>3. CASE c.call = "unbury" /\ \A S : With(S) = Unbury(S)
    BY <1>1, <2>3, UnburyApplied, NothingIsNamed, NothingMoves, EverythingStays
  <2>4. CASE c.call = "unlink" /\ \A S : With(S) = Unlink(S)
    BY <1>1, <2>4, UnlinkApplied, NothingIsNamed, NothingMoves, EverythingStays
  <2> QED BY <1>4, <2>1, <2>2, <2>3, <2>4
<1>8. ASSUME NEW a \in c.files, NEW D \in SUBSET (c.files \ {a})
      PROVE  Partly(Apply(d, With({a})), With(c.files \ {a}), D) = Partly(d, c, D \cup {a})
  <2>1. Partly(d, c, D \cup {a}) = Apply(d, With(D \cup {a}))
    BY <1>3
  <2>2. Partly(Apply(d, With({a})), With(c.files \ {a}), D)
          = Apply(Apply(d, With({a})), With(D))
    BY <1>7
  <2> QED BY <1>5, <2>1, <2>2
<1> QED BY <1>3, <1>6, <1>8 DEF With
------------------------------------------------------------------------------
(* One call of a script.                                                     *)

LEMMA HeadAndTail ==
  ASSUME NEW T, NEW s \in Seq(T), s # <<>>
  PROVE  /\ Head(s) \in T /\ Tail(s) \in Seq(T)
         /\ s = <<Head(s)>> \o Tail(s)
OBVIOUS

LEMMA FollowsState ==
  ASSUME NEW d, NEW w, NEW s \in Seq(Calls), Follows(d, s, w)
  PROVE  IsState(d, w)
<1>1. CASE s = <<>>
  BY <1>1, EmptyFollows
<1>2. CASE s # <<>>
  <2>1. Allowed(d, Head(s), w)
    <3>1. Head(s) \in Calls /\ Tail(s) \in Seq(Calls) /\ s = <<Head(s)>> \o Tail(s)
      BY <1>2, HeadAndTail
    <3> QED BY <3>1, FollowsOn
  <2> QED BY <2>1 DEF Allowed
<1> QED BY <1>1, <1>2

\* After one call of a loop the rest of it is left, and leads where the loop led.
LEMMA LoopGoesOn ==
  ASSUME NEW d, NEW w, NEW c \in LoopCalls, Allowed(d, c, w), NEW a \in c.files
  PROVE  LET part == [c EXCEPT !.files = {a}]
             rest == [c EXCEPT !.files = c.files \ {a}]
         IN /\ IsStep(d, Apply(d, part), w)
            /\ c.files = {a} => Apply(d, part) = Apply(d, c)
            /\ c.files # {a} => /\ Allowed(Apply(d, part), rest, w)
                                /\ Apply(Apply(d, part), rest) = Apply(d, c)
<1> DEFINE part == [c EXCEPT !.files = {a}]
           rest == [c EXCEPT !.files = c.files \ {a}]
           e == Apply(d, part)
<1>1. IsState(d, w) /\ IsDir(d)
  BY DiskIsDir DEF Allowed, IsState
<1>2. /\ c.call = "bury" => c.files \subseteq DOMAIN d.files
      /\ c.call = "unbury" => c.files \subseteq DOMAIN d.tombs
      /\ \A done \in SUBSET c.files : done # c.files =>
           /\ IsState(Partly(d, c, done), w)
           /\ \A f \in c.files \ done :
                IsStep(Partly(d, c, done), Partly(d, c, done \cup {f}), w)
  BY DEF Allowed
<1>3. /\ Partly(d, c, {}) = d
      /\ Partly(d, c, c.files) = Apply(d, c)
      /\ \A D \in SUBSET (c.files \ {a}) : Partly(e, rest, D) = Partly(d, c, D \cup {a})
  BY <1>1, <1>2, LoopCommutes
<1>4. Partly(d, c, {a}) = e
  BY DEF Partly
<1>5. c = [c EXCEPT !.files = c.files]
  BY LoopForms
<1>6. rest \in LoopCalls /\ rest.files = c.files \ {a} /\ rest.call = c.call
  BY LoopForms
<1>7. IsStep(d, e, w)
  <2>1. IsStep(Partly(d, c, {}), Partly(d, c, {} \cup {a}), w)
    BY <1>2
  <2>2. {} \cup {a} = {a}
    OBVIOUS
  <2> QED BY <1>3, <1>4, <2>1, <2>2
<1>8. c.files = {a} => e = Apply(d, c)
  BY <1>5
<1>9. ASSUME c.files # {a}
      PROVE  Allowed(e, rest, w) /\ Apply(e, rest) = Apply(d, c)
  <2> HIDE DEF rest, e
  <2>1. IsState(e, w)
    <3>1. IsState(Partly(d, c, {a}), w)
      BY <1>2, <1>9
    <3> QED BY <1>4, <3>1
  <2>2. ASSUME NEW done \in SUBSET rest.files, done # rest.files
        PROVE  /\ IsState(Partly(e, rest, done), w)
               /\ \A f \in rest.files \ done :
                    IsStep(Partly(e, rest, done), Partly(e, rest, done \cup {f}), w)
    <3>1. done \cup {a} \in SUBSET c.files /\ done \cup {a} # c.files
      BY <1>6, <2>2
    <3>2. Partly(e, rest, done) = Partly(d, c, done \cup {a})
      BY <1>3, <1>6
    <3>3. IsState(Partly(d, c, done \cup {a}), w)
      BY <1>2, <3>1
    <3>4. ASSUME NEW f \in rest.files \ done
          PROVE  IsStep(Partly(e, rest, done), Partly(e, rest, done \cup {f}), w)
      <4>1. f \in c.files \ (done \cup {a}) /\ done \cup {f} \in SUBSET (c.files \ {a})
        BY <1>6
      <4>2. Partly(e, rest, done \cup {f}) = Partly(d, c, (done \cup {f}) \cup {a})
        BY <1>3, <4>1
      <4>3. (done \cup {f}) \cup {a} = (done \cup {a}) \cup {f}
        OBVIOUS
      <4>4. IsStep(Partly(d, c, done \cup {a}), Partly(d, c, (done \cup {a}) \cup {f}), w)
        BY <1>2, <3>1, <4>1
      <4> QED BY <3>2, <4>2, <4>3, <4>4
    <3> QED BY <3>2, <3>3, <3>4
  <2>3. /\ rest.call = "bury" => rest.files \subseteq DOMAIN e.files
        /\ rest.call = "unbury" => rest.files \subseteq DOMAIN e.tombs
    <3>1. d = Dir(d.files, d.tombs, d.index, d.deletion, d.migration)
      BY <1>1 DEF IsDir
    <3>2. CASE c.call = "bury"
      <4>1. part = Bury({a})
        BY <3>2, LoopForms
      <4>2. e.files = Only(d.files, DOMAIN d.files \ {a})
        <5>1. Apply(Dir(d.files, d.tombs, d.index, d.deletion, d.migration), Bury({a}))
                = Dir(Only(d.files, DOMAIN d.files \ {a}), Over(Only(d.files, {a}), d.tombs),
                  d.index, d.deletion, d.migration)
          BY BuryApplied
        <5>2. e = Dir(Only(d.files, DOMAIN d.files \ {a}), Over(Only(d.files, {a}), d.tombs),
                  d.index, d.deletion, d.migration)
          BY <3>1, <4>1, <5>1 DEF e
        <5> QED BY <5>2, DirIs
      <4> QED BY <1>2, <1>6, <3>2, <4>2, OnlyIs
    <3>3. CASE c.call = "unbury"
      <4>1. part = Unbury({a})
        BY <3>3, LoopForms
      <4>2. e.tombs = Only(d.tombs, DOMAIN d.tombs \ {a})
        <5>1. Apply(Dir(d.files, d.tombs, d.index, d.deletion, d.migration), Unbury({a}))
                = Dir(Over(Only(d.tombs, {a}), d.files), Only(d.tombs, DOMAIN d.tombs \ {a}),
                  d.index, d.deletion, d.migration)
          BY UnburyApplied
        <5>2. e = Dir(Over(Only(d.tombs, {a}), d.files), Only(d.tombs, DOMAIN d.tombs \ {a}),
                  d.index, d.deletion, d.migration)
          BY <3>1, <4>1, <5>1 DEF e
        <5> QED BY <5>2, DirIs
      <4> QED BY <1>2, <1>6, <3>3, <4>2, OnlyIs
    <3> QED BY <1>6, <3>2, <3>3
  <2>4. rest.files # {}
    BY <1>6, <1>9
  <2>5. Allowed(e, rest, w)
    BY <1>6, <2>1, <2>2, <2>3, <2>4 DEF Allowed, Calls
  <2>6. Apply(e, rest) = Apply(d, c)
    <3>1. Partly(e, rest, rest.files) = Partly(d, c, rest.files \cup {a})
      BY <1>3, <1>6
    <3>2. rest.files \cup {a} = c.files
      BY <1>6
    <3>3. Partly(e, rest, rest.files) = Apply(e, rest)
      <4>1. rest = [rest EXCEPT !.files = rest.files]
        BY <1>6, LoopForms
      <4> QED BY <4>1 DEF Partly
    <3> QED BY <1>3, <3>1, <3>2, <3>3
  <2> QED BY <2>5, <2>6
<1> QED BY <1>7, <1>8, <1>9
\* A step of a running script: the directory stays in order, what is left of the
\* script follows, and leads where the script led.
LEMMA StepFollows ==
  ASSUME NEW d, NEW w, NEW s \in Seq(Calls), s # <<>>, Follows(d, s, w),
         NEW part \in Parts(Head(s))
  PROVE  /\ IsStep(d, Apply(d, part), w)
         /\ Left(s, part) \in Seq(Calls)
         /\ Follows(Apply(d, part), Left(s, part), w)
         /\ ApplyAll(Apply(d, part), Left(s, part)) = ApplyAll(d, s)
<1> DEFINE c == Head(s)
           t == Tail(s)
           e == Apply(d, part)
<1>1. c \in Calls /\ t \in Seq(Calls) /\ s = <<c>> \o t
  BY HeadAndTail
<1>2. /\ Allowed(d, c, w) /\ Follows(Apply(d, c), t, w)
      /\ ApplyAll(d, s) = ApplyAll(Apply(d, c), t)
  BY <1>1, FollowsOn, ApplyGoesOn
<1>3. Left(s, part) = Each([c EXCEPT !.files = c.files \ part.files]) \o t
  BY DEF Left
<1> HIDE DEF c, t, e
<1>4. <<>> \o t = t
  BY <1>1
<1>5. \A b : b.files = {} => Each(b) = <<>>
  BY DEF Each
<1>6. \A b : b.files # {} => Each(b) = <<b>>
  BY DEF Each
<1>7. CASE c.files = {}
  <2>1. part = c
    BY <1>7 DEF Parts, c
  <2>2. [c EXCEPT !.files = c.files \ part.files].files = {}
    <3>1. \E S, v : \/ c = [call |-> c.call, files |-> {}, key |-> v]
                    \/ c = [call |-> c.call, files |-> {}]
                    \/ c = [call |-> c.call, files |-> {}, value |-> v]
      BY <1>1, <1>7 DEF Calls, LoopCalls, SingleCalls
    <3> QED BY <1>7, <3>1
  <2>3. Left(s, part) = t
    BY <1>3, <1>4, <1>5, <2>2
  <2>4. IsStep(d, Apply(d, c), w)
    BY <1>2, <1>7 DEF Allowed
  <2> QED BY <1>1, <1>2, <2>1, <2>3, <2>4
<1>8. CASE c.files # {}
  <2>1. c \in LoopCalls
    BY <1>1, <1>8 DEF Calls, SingleCalls
  <2>2. PICK a \in c.files : part = [c EXCEPT !.files = {a}]
    BY <1>8 DEF Parts, c
  <2> DEFINE rest == [c EXCEPT !.files = c.files \ {a}]
  <2>3. /\ IsStep(d, e, w)
        /\ c.files = {a} => e = Apply(d, c)
        /\ c.files # {a} => Allowed(e, rest, w) /\ Apply(e, rest) = Apply(d, c)
    BY <1>2, <2>1, <2>2, LoopGoesOn DEF e
  <2>4. part.files = {a} /\ rest.files = c.files \ {a}
    BY <2>1, <2>2, LoopForms
  <2>5. Left(s, part) = Each(rest) \o t
    BY <1>3, <2>4
  <2> HIDE DEF rest
  <2>6. CASE c.files = {a}
    <3>1. Left(s, part) = t
      BY <1>4, <1>5, <2>4, <2>5, <2>6
    <3> QED BY <1>1, <1>2, <2>3, <2>6, <3>1 DEF e
  <2>7. CASE c.files # {a}
    <3>1. Left(s, part) = <<rest>> \o t
      BY <1>6, <2>4, <2>5, <2>7
    <3>2. rest \in Calls
      BY <2>3, <2>7 DEF Allowed
    <3>3. <<rest>> \o t \in Seq(Calls)
      BY <1>1, <3>2
    <3>4. Follows(e, <<rest>> \o t, w)
      BY <1>1, <1>2, <2>3, <2>7, <3>2, FollowsOn
    <3>5. ApplyAll(e, <<rest>> \o t) = ApplyAll(d, s)
      BY <1>1, <1>2, <2>3, <2>7, <3>2, ApplyGoesOn
    <3> QED BY <2>3, <3>1, <3>3, <3>4, <3>5 DEF e
  <2> QED BY <2>6, <2>7
<1> QED BY <1>7, <1>8

\* A script that begins with a loop.
LEMMA FollowsEach ==
  ASSUME NEW d, IsDir(d), NEW w, NEW s \in Seq(Calls), NEW c \in LoopCalls,
         c.files # {} => Allowed(d, c, w),
         Follows(Apply(d, c), s, w)
  PROVE  /\ Each(c) \o s \in Seq(Calls)
         /\ Follows(d, Each(c) \o s, w)
         /\ ApplyAll(d, Each(c) \o s) = ApplyAll(Apply(d, c), s)
<1>1. CASE c.files = {}
  <2>1. Each(c) \o s = s
    BY <1>1 DEF Each
  <2>2. Apply(d, c) = d
    <3>1. Partly(d, c, {}) = d /\ Partly(d, c, c.files) = Apply(d, c)
      BY <1>1, LoopCommutes
    <3> QED BY <1>1, <3>1
  <2> QED BY <2>1, <2>2
<1>2. CASE c.files # {}
  <2>1. Each(c) = <<c>>
    BY <1>2 DEF Each
  <2>2. c \in Calls
    BY DEF Calls
  <2>3. <<c>> \o s \in Seq(Calls)
    BY <2>2
  <2>4. Follows(d, <<c>> \o s, w)
    BY <1>2, <2>2, FollowsOn
  <2>5. ApplyAll(d, <<c>> \o s) = ApplyAll(Apply(d, c), s)
    BY <2>2, ApplyGoesOn
  <2> QED BY <2>1, <2>3, <2>4, <2>5
<1> QED BY <1>1, <1>2
------------------------------------------------------------------------------
(* Directories in the middle of a deletion.                                  *)

LEMMA BoundedSubset ==
  ASSUME NEW A, NEW B, Bounded(B), A \subseteq B
  PROVE  Bounded(A)
BY DEF Bounded

LEMMA BoundedUnion ==
  ASSUME NEW A \in SUBSET Nat, NEW B \in SUBSET Nat, Bounded(A), Bounded(B)
  PROVE  Bounded(A \cup B)
<1>1. PICK a \in Nat : \A i \in A : i < a
  BY DEF Bounded
<1>2. PICK b \in Nat : \A i \in B : i < b
  BY DEF Bounded
<1>3. \A i \in A \cup B : i < a + b
  BY <1>1, <1>2
<1>4. a + b \in Nat
  OBVIOUS
<1> QED BY <1>3, <1>4 DEF Bounded

LEMMA NumbersAre ==
  ASSUME NEW files, files \subseteq Artifacts
  PROVE  NumbersOf(files) \subseteq Nat
BY DEF NumbersOf, Artifacts

LEMMA OnlyDirectory ==
  ASSUME NEW f, IsDirectory(f), NEW set, set \subseteq DOMAIN f
  PROVE  IsDirectory(Only(f, set))
<1> DEFINE g == Only(f, set)
<1>1. IsFunction(g) /\ (\A x : x \in DOMAIN g <=> x \in set) /\ \A x \in set : g[x] = f[x]
  BY OnlyIs
<1> HIDE DEF g
<1>2. DOMAIN g \subseteq DOMAIN f
  BY <1>1
<1>3. Bounded(NumbersOf(DOMAIN g))
  <2>1. NumbersOf(DOMAIN g) \subseteq NumbersOf(DOMAIN f)
    BY <1>2 DEF NumbersOf
  <2> QED BY <2>1, BoundedSubset DEF IsDirectory
<1> QED BY <1>1, <1>2, <1>3 DEF IsDirectory, g

LEMMA OverDirectory ==
  ASSUME NEW f, IsDirectory(f), NEW g, IsDirectory(g)
  PROVE  IsDirectory(Over(f, g))
<1> DEFINE h == Over(f, g)
<1>1. /\ IsFunction(h)
      /\ \A x : x \in DOMAIN h <=> x \in DOMAIN f \/ x \in DOMAIN g
      /\ \A x \in DOMAIN f : h[x] = f[x]
      /\ \A x \in DOMAIN g : x \notin DOMAIN f => h[x] = g[x]
  BY OverIs
<1> HIDE DEF h
<1>2. Bounded(NumbersOf(DOMAIN h))
  <2>1. NumbersOf(DOMAIN h) = NumbersOf(DOMAIN f) \cup NumbersOf(DOMAIN g)
    BY <1>1 DEF NumbersOf
  <2>2. NumbersOf(DOMAIN f) \subseteq Nat /\ NumbersOf(DOMAIN g) \subseteq Nat
    BY NumbersAre DEF IsDirectory
  <2>3. Bounded(NumbersOf(DOMAIN f) \cup NumbersOf(DOMAIN g))
    BY <2>2, BoundedUnion DEF IsDirectory
  <2> QED BY <2>1, <2>3
<1>3. DOMAIN h \subseteq Artifacts /\ \A x \in DOMAIN h : h[x] \in Keys
  BY <1>1 DEF IsDirectory
<1> QED BY <1>1, <1>2, <1>3 DEF IsDirectory, h

LEMMA NamedDirectory ==
  ASSUME NEW set \in SUBSET Artifacts, Bounded(NumbersOf(set)), NEW key \in Keys
  PROVE  IsDirectory(Named(set, key))
<1> DEFINE h == Named(set, key)
<1>1. /\ IsFunction(h) /\ \A x \in DOMAIN h : h[x] = key
  BY NamedIs
<1>2. DOMAIN h = set
  BY NamedIs
<1> HIDE DEF h
<1> QED BY <1>1, <1>2 DEF IsDirectory, h

\* The files F without gone, the tombstones T.
Half(F, gone, T, i, j) == Dir(Only(F, DOMAIN F \ gone), Only(F, T), i, j, None)

LEMMA HalfIs ==
  ASSUME NEW F, NEW gone, NEW T, NEW i, NEW j
  PROVE  LET d == Half(F, gone, T, i, j) IN
         /\ d.files = Only(F, DOMAIN F \ gone) /\ d.tombs = Only(F, T)
         /\ d.index = i /\ d.deletion = j /\ d.migration = None
         /\ d = Dir(d.files, d.tombs, d.index, d.deletion, d.migration)
BY DirIs DEF Half

LEMMA HalfIsDisk ==
  ASSUME NEW F, IsDirectory(F), NEW gone, NEW T, T \subseteq DOMAIN F, T \subseteq gone,
         NEW i \in Generations, NEW j \in DeletionJournals \cup {None},
         T # {} => j # None /\ T \subseteq j.entries
  PROVE  IsDisk(Half(F, gone, T, i, j))
<1> DEFINE f == Only(F, DOMAIN F \ gone)
           t == Only(F, T)
           d == Half(F, gone, T, i, j)
<1>1. /\ d.files = f /\ d.tombs = t /\ d.index = i /\ d.deletion = j /\ d.migration = None
      /\ d = Dir(d.files, d.tombs, d.index, d.deletion, d.migration)
  BY HalfIs
<1>2. IsDirectory(f) /\ IsDirectory(t)
  BY OnlyDirectory
<1>3. (\A x : x \in DOMAIN f <=> x \in DOMAIN F \ gone) /\ \A x : x \in DOMAIN t <=> x \in T
  BY OnlyIs
<1> HIDE DEF f, t, d
<1>4. d = [files |-> d.files, tombs |-> d.tombs, index |-> d.index,
           deletion |-> d.deletion, migration |-> d.migration]
  BY <1>1 DEF Dir
<1>5. DOMAIN f \cap DOMAIN t = {}
  BY <1>3
<1>6. \A x \in DOMAIN t : j # None /\ x \in j.entries
  BY <1>3
<1> QED BY <1>1, <1>2, <1>4, <1>5, <1>6 DEF IsDisk, d

\* What a file names, as a set of records.
Listing(f) ==
  {[kind |-> x.kind, id |-> x.id, key |-> f[x]] : x \in {y \in DOMAIN f : y.kind # "payload"}}

LEMMA RecordsWithoutMove ==
  ASSUME NEW d, d.migration = None
  PROVE  DurableRecords(d) = Listing(Believed(d))
BY DEF DurableRecords, Listing, Owner

LEMMA HalfPrepared ==
  ASSUME NEW F, IsFunction(F), NEW T, T \subseteq DOMAIN F, NEW i, NEW j, j # None,
         j.phase = "preparing", T \subseteq j.entries
  PROVE  LET d == Half(F, T, T, i, j) IN
         /\ Believed(d) = F
         /\ DurableRecords(d) = Listing(F)
         /\ DurableGenerations(d) = j.previous
<1> DEFINE f == Only(F, DOMAIN F \ T)
           t == Only(F, T)
           d == Half(F, T, T, i, j)
           u == Only(t, j.entries \cap DOMAIN t)
           g == Over(f, u)
<1>1. /\ d.files = f /\ d.tombs = t /\ d.index = i /\ d.deletion = j /\ d.migration = None
  BY HalfIs
<1>2. /\ \A x : x \in DOMAIN f <=> x \in DOMAIN F \ T
      /\ \A x : x \in DOMAIN t <=> x \in T
      /\ \A x : x \in DOMAIN F \ T => f[x] = F[x]
      /\ \A x \in T : t[x] = F[x]
  BY OnlyIs
<1>3. /\ \A x : x \in DOMAIN u <=> x \in T
      /\ \A x \in T : u[x] = F[x]
  <2> HIDE DEF t
  <2> QED BY <1>2, OnlyIs
<1>4. IsFunction(g) /\ (\A x : x \in DOMAIN g <=> x \in DOMAIN F) /\ \A x \in DOMAIN g : g[x] = F[x]
  <2> HIDE DEF f, u
  <2> QED BY <1>2, <1>3, OverIs
<1>5. g = F
  <2> HIDE DEF g
  <2> QED BY <1>4, SameFunction
<1>6. Believed(d) = g
  BY <1>1 DEF Believed
<1>7. DurableGenerations(d) = j.previous
  BY <1>1 DEF DurableGenerations
<1>8. DurableRecords(d) = Listing(Believed(d))
  BY <1>1, RecordsWithoutMove
<1> QED BY <1>5, <1>6, <1>7, <1>8

LEMMA HalfCommitted ==
  ASSUME NEW F, NEW gone, NEW T, NEW i, NEW j, j = None \/ j.phase = "committed"
  PROVE  LET d == Half(F, gone, T, i, j) IN
         /\ Believed(d) = Only(F, DOMAIN F \ gone)
         /\ DurableRecords(d) = Listing(Only(F, DOMAIN F \ gone))
         /\ DurableGenerations(d) = IF j = None THEN i ELSE j.next
<1> DEFINE d == Half(F, gone, T, i, j)
<1>1. /\ d.files = Only(F, DOMAIN F \ gone) /\ d.index = i /\ d.deletion = j
      /\ d.migration = None
  BY HalfIs
<1>2. Believed(d) = d.files
  BY <1>1 DEF Believed
<1>3. DurableGenerations(d) = IF j = None THEN i ELSE j.next
  BY <1>1 DEF DurableGenerations
<1>4. DurableRecords(d) = Listing(Believed(d))
  BY <1>1, RecordsWithoutMove
<1> QED BY <1>1, <1>2, <1>3, <1>4

\* The displaced file of a document is there when it is described.
Described(f) == \A i \in Keys : Metadata(i) \in DOMAIN f => Payload(i) \in DOMAIN f

LEMMA HalfPreparedIsSound ==
  ASSUME NEW F, IsFunction(F), Described(F), NEW T, T \subseteq DOMAIN F, NEW i, NEW j, j # None,
         j.phase = "preparing", T \subseteq j.entries, j.entries \subseteq DOMAIN F,
         DeletionSchema(j), IndexFits(j, i)
  PROVE  IsSound(Half(F, T, T, i, j))
<1> DEFINE d == Half(F, T, T, i, j)
<1>1. /\ d.files = Only(F, DOMAIN F \ T) /\ d.tombs = Only(F, T)
      /\ d.index = i /\ d.deletion = j /\ d.migration = None
  BY HalfIs
<1>2. Believed(d) = F
  BY HalfPrepared
<1>3. /\ \A x : x \in DOMAIN d.files <=> x \in DOMAIN F \ T
      /\ \A x : x \in DOMAIN d.tombs <=> x \in T
  BY <1>1, OnlyIs
<1> HIDE DEF d
<1>4. j.entries \subseteq DOMAIN d.files \cup DOMAIN d.tombs
  BY <1>3
<1>5. DeletionFits(d)
  BY <1>1, <1>4 DEF DeletionFits
<1> QED BY <1>1, <1>2, <1>5 DEF IsSound, Described, d

LEMMA HalfCommittedIsSound ==
  ASSUME NEW F, NEW gone, NEW T, NEW i, NEW j, Described(Only(F, DOMAIN F \ gone)),
         \/ j = None
         \/ /\ j.phase = "committed" /\ DeletionSchema(j) /\ i = j.next
            /\ j.entries \cap (DOMAIN F \ gone) = {}
  PROVE  IsSound(Half(F, gone, T, i, j))
<1> DEFINE d == Half(F, gone, T, i, j)
<1>1. /\ d.files = Only(F, DOMAIN F \ gone) /\ d.tombs = Only(F, T)
      /\ d.index = i /\ d.deletion = j /\ d.migration = None
  BY HalfIs
<1>2. Believed(d) = d.files
  BY <1>1, HalfCommitted
<1>3. \A x : x \in DOMAIN d.files <=> x \in DOMAIN F \ gone
  BY <1>1, OnlyIs
<1>4. Described(d.files)
  BY <1>1
<1> HIDE DEF d
<1>5. d.deletion # None => DeletionFits(d)
  <2> SUFFICES ASSUME j # None PROVE DeletionFits(d)
    BY <1>1
  <2>1. j.entries \cap DOMAIN d.files = {}
    BY <1>3
  <2> QED BY <1>1, <2>1 DEF DeletionFits
<1> QED BY <1>1, <1>2, <1>4, <1>5 DEF IsSound, Described, d
LEMMA HalfBuried ==
  ASSUME NEW F, NEW i, NEW j, NEW D, D \subseteq DOMAIN F
  PROVE  Apply(Half(F, {}, {}, i, j), Bury(D)) = Half(F, D, D, i, j)
<1> DEFINE f == Only(F, DOMAIN F \ {})
           t == Only(F, {})
<1>1. Apply(Dir(f, t, i, j, None), Bury(D))
        = Dir(Only(f, DOMAIN f \ D), Over(Only(f, D), t), i, j, None)
  BY BuryApplied
<1>2. Only(f, DOMAIN f \ D) = Only(F, DOMAIN F \ D)
  <2> DEFINE g == Only(f, DOMAIN f \ D)
             h == Only(F, DOMAIN F \ D)
  <2>1. (\A x : x \in DOMAIN f <=> x \in DOMAIN F) /\ \A x \in DOMAIN F : f[x] = F[x]
    BY OnlyIs
  <2>2. IsFunction(g) /\ IsFunction(h)
    BY OnlyIs
  <2> HIDE DEF f
  <2>3. (\A x : x \in DOMAIN g <=> x \in DOMAIN h) /\ \A x \in DOMAIN g : g[x] = h[x]
    BY <2>1, OnlyIs
  <2> HIDE DEF g, h
  <2>4. g = h
    BY <2>2, <2>3, SameFunction
  <2> QED BY <2>4 DEF g, h
<1>3. Over(Only(f, D), t) = Only(F, D)
  <2> DEFINE e == Only(f, D)
             g == Over(e, t)
             h == Only(F, D)
  <2>1. (\A x : x \in DOMAIN f <=> x \in DOMAIN F) /\ \A x \in DOMAIN F : f[x] = F[x]
    BY OnlyIs
  <2> HIDE DEF f
  <2>2. (\A x : x \in DOMAIN e <=> x \in D) /\ \A x \in D : e[x] = F[x]
    BY <2>1, OnlyIs
  <2>3. \A x : x \notin DOMAIN t
    BY OnlyIs
  <2> HIDE DEF e, t
  <2>4. IsFunction(g) /\ IsFunction(h)
    BY OnlyIs, OverIs
  <2>5. (\A x : x \in DOMAIN g <=> x \in DOMAIN h) /\ \A x \in DOMAIN g : g[x] = h[x]
    BY <2>2, <2>3, OnlyIs, OverIs
  <2> HIDE DEF g, h
  <2>6. g = h
    BY <2>4, <2>5, SameFunction
  <2> QED BY <2>6 DEF g, h, e, f, t
<1> QED BY <1>1, <1>2, <1>3 DEF Half

LEMMA HalfUnburied ==
  ASSUME NEW F, NEW T, T \subseteq DOMAIN F, NEW i, NEW j, NEW D, D \subseteq T
  PROVE  Apply(Half(F, T, T, i, j), Unbury(D)) = Half(F, T \ D, T \ D, i, j)
<1> DEFINE f == Only(F, DOMAIN F \ T)
           t == Only(F, T)
           u == Only(t, D)
           g == Over(u, f)
           h == Only(F, DOMAIN F \ (T \ D))
           v == Only(t, DOMAIN t \ D)
           k == Only(F, T \ D)
<1>1. Apply(Dir(f, t, i, j, None), Unbury(D)) = Dir(g, v, i, j, None)
  BY UnburyApplied
<1>2. (\A x : x \in DOMAIN f <=> x \in DOMAIN F \ T) /\ \A x \in DOMAIN F \ T : f[x] = F[x]
  BY OnlyIs
<1>3. (\A x : x \in DOMAIN t <=> x \in T) /\ \A x \in T : t[x] = F[x]
  BY OnlyIs
<1> HIDE DEF f, t
<1>4. (\A x : x \in DOMAIN u <=> x \in D) /\ \A x \in D : u[x] = F[x]
  BY <1>3, OnlyIs
<1>5. /\ IsFunction(v) /\ IsFunction(k)
      /\ \A x : x \in DOMAIN v <=> x \in DOMAIN k
      /\ \A x \in DOMAIN v : v[x] = k[x]
  BY <1>3, OnlyIs
<1> HIDE DEF u, v, k
<1>6. IsFunction(g) /\ IsFunction(h)
  BY OnlyIs, OverIs
<1>7. /\ \A x : x \in DOMAIN g <=> x \in DOMAIN h
      /\ \A x \in DOMAIN g : g[x] = h[x]
  BY <1>2, <1>4, OnlyIs, OverIs
<1> HIDE DEF g, h
<1>8. g = h /\ v = k
  BY <1>5, <1>6, <1>7, SameFunction
<1> QED BY <1>1, <1>8 DEF Half, f, t, g, h, u, v, k

LEMMA HalfUnlinked ==
  ASSUME NEW F, NEW gone, NEW T, NEW i, NEW j, NEW D
  PROVE  Apply(Half(F, gone, T, i, j), Unlink(D)) = Half(F, gone, T \ D, i, j)
<1> DEFINE f == Only(F, DOMAIN F \ gone)
           t == Only(F, T)
           v == Only(t, DOMAIN t \ D)
           k == Only(F, T \ D)
<1>1. Apply(Dir(f, t, i, j, None), Unlink(D)) = Dir(f, v, i, j, None)
  BY UnlinkApplied
<1>2. (\A x : x \in DOMAIN t <=> x \in T) /\ \A x \in T : t[x] = F[x]
  BY OnlyIs
<1> HIDE DEF t
<1>3. /\ IsFunction(v) /\ IsFunction(k)
      /\ \A x : x \in DOMAIN v <=> x \in DOMAIN k
      /\ \A x \in DOMAIN v : v[x] = k[x]
  BY <1>2, OnlyIs
<1> HIDE DEF v, k
<1>4. v = k
  BY <1>3, SameFunction
<1> QED BY <1>1, <1>4 DEF Half, f, t, v, k

LEMMA HalfIndexed ==
  ASSUME NEW F, NEW gone, NEW T, NEW i, NEW j, NEW v
  PROVE  Apply(Half(F, gone, T, i, j), Index(v)) = Half(F, gone, T, v, j)
BY IndexApplied DEF Half

LEMMA HalfMarked ==
  ASSUME NEW F, NEW gone, NEW T, NEW i, NEW j, NEW v
  PROVE  Apply(Half(F, gone, T, i, j), Deletion(v)) = Half(F, gone, T, i, v)
BY DeletionApplied DEF Half

LEMMA DirectoryOfHalf ==
  ASSUME NEW F, NEW gone, NEW T, NEW i, NEW j
  PROVE  IsDir(Half(F, gone, T, i, j))
<1> DEFINE d == Half(F, gone, T, i, j)
<1>1. /\ d.files = Only(F, DOMAIN F \ gone) /\ d.tombs = Only(F, T)
      /\ d = Dir(d.files, d.tombs, d.index, d.deletion, d.migration)
  BY HalfIs
<1>2. IsFunction(Only(F, DOMAIN F \ gone)) /\ IsFunction(Only(F, T))
  BY OnlyIs
<1> HIDE DEF d
<1>3. IsDir(d)
  BY <1>1, <1>2 DEF IsDir
<1> QED BY <1>3 DEF d

------------------------------------------------------------------------------
(* Calls that are always in order.                                           *)

LEMMA CallsAre ==
  ASSUME NEW S \in SUBSET Artifacts, NEW k \in Keys, NEW g \in Generations,
         NEW x \in DeletionJournals \cup {None}, NEW m \in MigrationJournals \cup {None}
  PROVE  /\ Write(S, k) \in LoopCalls /\ Bury(S) \in LoopCalls
         /\ Unbury(S) \in LoopCalls /\ Unlink(S) \in LoopCalls
         /\ Index(g) \in Calls /\ Deletion(x) \in Calls /\ Migration(m) \in Calls
<1>1. /\ Write(S, k) \in LoopCalls /\ Bury(S) \in LoopCalls
      /\ Unbury(S) \in LoopCalls /\ Unlink(S) \in LoopCalls
  BY DEF LoopCalls, Write, Bury, Unbury, Unlink
<1>2. Index(g) \in SingleCalls /\ Deletion(x) \in SingleCalls /\ Migration(m) \in SingleCalls
  BY DEF SingleCalls, Index, Deletion, Migration
<1> QED BY <1>1, <1>2 DEF Calls

\* A single call is in order when its two states are and the step is.
LEMMA SingleIsAllowed ==
  ASSUME NEW d, NEW w, NEW c \in Calls, c.files = {}, IsState(d, w), IsStep(d, Apply(d, c), w),
         c.call \notin {"bury", "unbury"}
  PROVE  Allowed(d, c, w)
BY DEF Allowed

LEMMA SinglesAre ==
  ASSUME NEW v
  PROVE  /\ Index(v).files = {} /\ Index(v).call = "index"
         /\ Deletion(v).files = {} /\ Deletion(v).call = "deletion"
         /\ Migration(v).files = {} /\ Migration(v).call = "migration"
BY DEF Index, Deletion, Migration

LEMMA LoopsAre ==
  ASSUME NEW S, NEW k
  PROVE  /\ Write(S, k).files = S /\ Write(S, k).call = "write"
         /\ Bury(S).files = S /\ Bury(S).call = "bury"
         /\ Unbury(S).files = S /\ Unbury(S).call = "unbury"
         /\ Unlink(S).files = S /\ Unlink(S).call = "unlink"
         /\ \A R : /\ [Write(S, k) EXCEPT !.files = R] = Write(R, k)
                   /\ [Bury(S) EXCEPT !.files = R] = Bury(R)
                   /\ [Unbury(S) EXCEPT !.files = R] = Unbury(R)
                   /\ [Unlink(S) EXCEPT !.files = R] = Unlink(R)
BY DEF Write, Bury, Unbury, Unlink
LEMMA QuietStep ==
  ASSUME NEW d, NEW e, NEW w, DurableRecords(e) = DurableRecords(d),
         DurableGenerations(e) = DurableGenerations(d)
  PROVE  IsStep(d, e, w)
BY DEF IsStep

LEMMA WrittenState ==
  ASSUME NEW d, NEW w, w.kind = "write", IsDisk(d), w.fresh => IsSound(d)
  PROVE  IsState(d, w)
BY DEF IsState

LEMMA OneCall ==
  ASSUME NEW T, NEW a \in T
  PROVE  <<a>> \in Seq(T) /\ <<a>> = <<a>> \o <<>> /\ <<>> \in Seq(T)
OBVIOUS

LEMMA TwoCalls ==
  ASSUME NEW T, NEW a \in T, NEW b \in T
  PROVE  <<a, b>> \in Seq(T) /\ <<a, b>> = <<a>> \o <<b>>
<1> DEFINE s == <<a, b>>
           t == <<a>> \o <<b>>
<1>1. s \in Seq(T) /\ Len(s) = 2 /\ s[1] = a /\ s[2] = b
  OBVIOUS
<1>2. t \in Seq(T) /\ Len(t) = 2 /\ t[1] = a /\ t[2] = b
  OBVIOUS
<1> HIDE DEF s, t
<1>3. s = t
  BY <1>1, <1>2
<1> QED BY <1>1, <1>3 DEF s, t

LEMMA ThreeCalls ==
  ASSUME NEW T, NEW a \in T, NEW b \in T, NEW c \in T
  PROVE  <<a, b, c>> \in Seq(T) /\ <<a, b, c>> = <<a>> \o <<b, c>>
OBVIOUS

\* One more call in front of a script.
LEMMA CallThenScript ==
  ASSUME NEW d, NEW w, NEW c \in Calls, NEW s \in Seq(Calls),
         Allowed(d, c, w), Follows(Apply(d, c), s, w)
  PROVE  /\ Follows(d, <<c>> \o s, w)
         /\ ApplyAll(d, <<c>> \o s) = ApplyAll(Apply(d, c), s)
BY FollowsOn, ApplyGoesOn

LEMMA LastCall ==
  ASSUME NEW d, NEW w, NEW c \in Calls, Allowed(d, c, w), IsState(Apply(d, c), w)
  PROVE  Follows(d, <<c>>, w) /\ ApplyAll(d, <<c>>) = Apply(d, c)
<1>1. <<>> \in Seq(Calls) /\ <<c>> = <<c>> \o <<>>
  BY OneCall
<1>2. Follows(Apply(d, c), <<>>, w)
  BY EmptyFollows
<1>3. ApplyAll(Apply(d, c), <<>>) = Apply(d, c)
  BY NothingIsApplied
<1>4. /\ Follows(d, <<c>> \o <<>>, w)
      /\ ApplyAll(d, <<c>> \o <<>>) = ApplyAll(Apply(d, c), <<>>)
  BY <1>1, <1>2, CallThenScript
<1> QED BY <1>1, <1>3, <1>4

\* The script s is in order from the directory d on and leads to the directory e.
Leads(d, s, e, w) == s \in Seq(Calls) /\ Follows(d, s, w) /\ ApplyAll(d, s) = e

LEMMA LastLeads ==
  ASSUME NEW d, NEW w, NEW c \in Calls, Allowed(d, c, w), NEW e, e = Apply(d, c), IsState(e, w)
  PROVE  Leads(d, <<c>>, e, w)
BY LastCall, OneCall DEF Leads

LEMMA CallLeads ==
  ASSUME NEW d, NEW w, NEW c \in Calls, Allowed(d, c, w), NEW f, f = Apply(d, c),
         NEW s, NEW e, Leads(f, s, e, w)
  PROVE  Leads(d, <<c>> \o s, e, w)
<1>1. s \in Seq(Calls)
  BY DEF Leads
<1>2. <<c>> \o s \in Seq(Calls)
  BY <1>1
<1> QED BY <1>1, <1>2, CallThenScript DEF Leads

LEMMA EachLeads ==
  ASSUME NEW d, IsDir(d), NEW w, NEW c \in LoopCalls, c.files # {} => Allowed(d, c, w),
         NEW f, f = Apply(d, c), NEW s, NEW e, Leads(f, s, e, w)
  PROVE  Leads(d, Each(c) \o s, e, w)
<1>1. s \in Seq(Calls)
  BY DEF Leads
<1> QED BY <1>1, FollowsEach DEF Leads

\* A deletion that is written: until its marker is committed nothing has gone, from
\* then on everything has, and the generations have changed with it.
LEMMA DeletionIsWritten ==
  ASSUME NEW F, IsDirectory(F), NEW i \in Generations, NEW p \in Generations,
         NEW n \in Generations, NEW E, E \subseteq DOMAIN F, E # {},
         NEW w, w.kind = "write",
         NEW jp, jp = [entries |-> E, phase |-> "preparing", previous |-> p, next |-> n],
         NEW jc, jc = [entries |-> E, phase |-> "committed", previous |-> p, next |-> n],
         w.trusted => /\ i = p /\ w.before = p /\ w.after = n
                      /\ Discards(Listing(F), Listing(Only(F, DOMAIN F \ E)), p, n),
         w.fresh => /\ i = p /\ Described(F) /\ Described(Only(F, DOMAIN F \ E))
                    /\ DeletionSchema(jp)
  PROVE  Leads(Half(F, {}, {}, i, None),
               <<Deletion(jp), Bury(E), Index(n), Deletion(jc), Unlink(E), Deletion(None)>>,
               Half(F, E, {}, n, None), w)
<1>1. /\ E \in SUBSET Artifacts /\ DOMAIN F \subseteq Artifacts /\ IsFunction(F)
  BY DEF IsDirectory
<1>2. jp \in DeletionJournals /\ jc \in DeletionJournals
  BY <1>1 DEF DeletionJournals, Phases
<1>3. jp # None /\ jc # None
  BY <1>2, NoneAssumption
<1>4. /\ jp.entries = E /\ jp.phase = "preparing" /\ jp.previous = p /\ jp.next = n
      /\ jc.entries = E /\ jc.phase = "committed" /\ jc.previous = p /\ jc.next = n
  OBVIOUS
<1>5. DeletionSchema(jp) => DeletionSchema(jc)
  BY <1>4 DEF DeletionSchema, ChangedKeys
<1>6. IndexFits(jp, p) /\ IndexFits(jp, n)
  BY <1>4 DEF IndexFits
<1> DEFINE G == Only(F, DOMAIN F \ E)
           c1 == Deletion(jp)
           c2 == Bury(E)
           c3 == Index(n)
           c4 == Deletion(jc)
           c5 == Unlink(E)
           c6 == Deletion(None)
           d0 == Half(F, {}, {}, i, None)
           P(D, v) == Half(F, D, D, v, jp)
           C(D) == Half(F, E, D, n, jc)
           d6 == Half(F, E, {}, n, None)
<1>7. /\ c1 \in Calls /\ c2 \in LoopCalls /\ c2 \in Calls /\ c3 \in Calls /\ c4 \in Calls
      /\ c5 \in LoopCalls /\ c5 \in Calls /\ c6 \in Calls
  <2>1. c2 \in LoopCalls /\ c5 \in LoopCalls
    BY <1>1 DEF LoopCalls, Bury, Unlink
  <2>2. c1 \in SingleCalls /\ c3 \in SingleCalls /\ c4 \in SingleCalls /\ c6 \in SingleCalls
    BY <1>2 DEF SingleCalls, Deletion, Index
  <2> HIDE DEF c1, c2, c3, c4, c5, c6
  <2> QED BY <2>1, <2>2 DEF Calls
<1> HIDE DEF G
\* The states, what they are and what they mean.
<1>8. /\ IsState(d0, w) /\ DurableRecords(d0) = Listing(F) /\ DurableGenerations(d0) = i
  <2>1. IsDisk(d0)
    BY HalfIsDisk
  <2>2. Only(F, DOMAIN F \ {}) = F
    BY <1>1, EverythingStays
  <2>3. w.fresh => IsSound(d0)
    BY <2>2, HalfCommittedIsSound
  <2>4. DurableRecords(d0) = Listing(F) /\ DurableGenerations(d0) = i
    BY <2>2, HalfCommitted
  <2> HIDE DEF d0
  <2> QED BY <2>1, <2>3, <2>4, WrittenState
<1>9. ASSUME NEW D, D \subseteq E, NEW v \in Generations, v \in {i, n}
      PROVE  /\ IsState(P(D, v), w) /\ DurableRecords(P(D, v)) = Listing(F)
             /\ DurableGenerations(P(D, v)) = p
  <2>1. IsDisk(P(D, v))
    BY <1>2, <1>3, <1>4, <1>9, HalfIsDisk
  <2>2. DurableRecords(P(D, v)) = Listing(F) /\ DurableGenerations(P(D, v)) = p
    BY <1>1, <1>3, <1>4, <1>9, HalfPrepared
  <2>3. w.fresh => IsSound(P(D, v))
    <3> SUFFICES ASSUME w.fresh PROVE IsSound(P(D, v))
      OBVIOUS
    <3>1. IndexFits(jp, v)
      BY <1>6, <1>9
    <3> QED BY <1>1, <1>3, <1>4, <1>9, <3>1, HalfPreparedIsSound
  <2> HIDE DEF P
  <2> QED BY <2>1, <2>2, <2>3, WrittenState
<1>10. ASSUME NEW D, D \subseteq E
       PROVE  /\ IsState(C(D), w) /\ DurableRecords(C(D)) = Listing(G)
              /\ DurableGenerations(C(D)) = n
  <2>1. IsDisk(C(D))
    BY <1>2, <1>3, <1>4, <1>10, HalfIsDisk
  <2>2. DurableRecords(C(D)) = Listing(G) /\ DurableGenerations(C(D)) = n
    BY <1>3, <1>4, HalfCommitted DEF G
  <2>3. w.fresh => IsSound(C(D))
    BY <1>4, <1>5, HalfCommittedIsSound
  <2> HIDE DEF C
  <2> QED BY <2>1, <2>2, <2>3, WrittenState
<1>11. /\ IsState(d6, w) /\ DurableRecords(d6) = Listing(G) /\ DurableGenerations(d6) = n
  <2>1. IsDisk(d6)
    BY HalfIsDisk
  <2>2. DurableRecords(d6) = Listing(G) /\ DurableGenerations(d6) = n
    BY HalfCommitted DEF G
  <2>3. w.fresh => IsSound(d6)
    BY HalfCommittedIsSound
  <2> HIDE DEF d6
  <2> QED BY <2>1, <2>2, <2>3, WrittenState
\* The calls.
<1>12. /\ Apply(d0, c1) = P({}, i)
       /\ \A D : D \subseteq E => Apply(P({}, i), Bury(D)) = P(D, i)
       /\ Apply(P(E, i), c3) = P(E, n)
       /\ Apply(P(E, n), c4) = C(E)
       /\ \A D : Apply(C(E), Unlink(D)) = C(E \ D)
       /\ Apply(C({}), c6) = d6
  BY HalfBuried, HalfUnlinked, HalfIndexed, HalfMarked
<1>13. /\ c1.files = {} /\ c1.call \notin {"bury", "unbury"}
       /\ c3.files = {} /\ c3.call \notin {"bury", "unbury"}
       /\ c4.files = {} /\ c4.call \notin {"bury", "unbury"}
       /\ c6.files = {} /\ c6.call \notin {"bury", "unbury"}
       /\ c2.files = E /\ c2.call = "bury" /\ (\A R : [c2 EXCEPT !.files = R] = Bury(R))
       /\ c5.files = E /\ c5.call = "unlink" /\ (\A R : [c5 EXCEPT !.files = R] = Unlink(R))
  BY SinglesAre, LoopsAre
<1>14. E \subseteq DOMAIN P({}, i).files
  <2>1. P({}, i).files = Only(F, DOMAIN F \ {})
    BY HalfIs
  <2> HIDE DEF P
  <2> QED BY <2>1, OnlyIs
<1>15. c2 = Bury(E) /\ c5 = Unlink(E) /\ {} \subseteq E /\ E \subseteq E
  OBVIOUS
<1> HIDE DEF c1, c2, c3, c4, c5, c6, d0, P, C, d6
<1>16. Allowed(d0, c1, w)
  <2>1. IsState(P({}, i), w) /\ DurableRecords(P({}, i)) = Listing(F)
        /\ DurableGenerations(P({}, i)) = p
    BY <1>9, <1>15
  <2>2. IsStep(d0, P({}, i), w)
    BY <1>8, <2>1 DEF IsStep
  <2> QED BY <1>7, <1>8, <1>12, <1>13, <2>2, SingleIsAllowed
<1>17. Allowed(P({}, i), c2, w)
  <2>1. \A D : D \subseteq E => Partly(P({}, i), c2, D) = P(D, i)
    BY <1>12, <1>13 DEF Partly
  <2>2. \A D : D \subseteq E => IsState(P(D, i), w)
    BY <1>9
  <2>3. \A D, R : D \subseteq E /\ R \subseteq E => IsStep(P(D, i), P(R, i), w)
    BY <1>9, QuietStep
  <2>4. ASSUME NEW done \in SUBSET c2.files, done # c2.files
        PROVE  /\ IsState(Partly(P({}, i), c2, done), w)
               /\ \A f \in c2.files \ done :
                    IsStep(Partly(P({}, i), c2, done), Partly(P({}, i), c2, done \cup {f}), w)
    BY <1>13, <2>1, <2>2, <2>3
  <2> QED BY <1>7, <1>13, <1>14, <1>15, <2>2, <2>4 DEF Allowed
<1>18. Allowed(P(E, i), c3, w)
  <2>1. IsStep(P(E, i), P(E, n), w) /\ IsState(P(E, i), w)
    BY <1>9, <1>15, QuietStep
  <2> QED BY <1>7, <1>12, <1>13, <2>1, SingleIsAllowed
<1>19. Allowed(P(E, n), c4, w)
  <2>1. IsState(P(E, n), w) /\ DurableRecords(P(E, n)) = Listing(F)
        /\ DurableGenerations(P(E, n)) = p
    BY <1>9, <1>15
  <2>2. DurableRecords(C(E)) = Listing(G) /\ DurableGenerations(C(E)) = n
    BY <1>10, <1>15
  <2>3. IsStep(P(E, n), C(E), w)
    BY <2>1, <2>2 DEF IsStep, G
  <2> QED BY <1>7, <1>12, <1>13, <2>1, <2>3, SingleIsAllowed
<1>20. Allowed(C(E), c5, w)
  <2>1. \A D : D \subseteq E => Partly(C(E), c5, D) = C(E \ D)
    BY <1>12, <1>13 DEF Partly
  <2>2. \A D : D \subseteq E => IsState(C(D), w)
    BY <1>10
  <2>3. \A D, R : D \subseteq E /\ R \subseteq E => IsStep(C(D), C(R), w)
    BY <1>10, QuietStep
  <2>4. ASSUME NEW done \in SUBSET c5.files, done # c5.files
        PROVE  /\ IsState(Partly(C(E), c5, done), w)
               /\ \A f \in c5.files \ done :
                    IsStep(Partly(C(E), c5, done), Partly(C(E), c5, done \cup {f}), w)
    <3>1. done \subseteq E /\ E \ done \subseteq E /\ c5.files = E
      BY <1>13
    <3>2. IsState(Partly(C(E), c5, done), w)
      <4>1. Partly(C(E), c5, done) = C(E \ done) /\ IsState(C(E \ done), w)
        BY <2>1, <2>2, <3>1
      <4> QED BY <4>1
    <3>3. ASSUME NEW f \in c5.files \ done
          PROVE  IsStep(Partly(C(E), c5, done), Partly(C(E), c5, done \cup {f}), w)
      <4>1. done \cup {f} \subseteq E /\ E \ (done \cup {f}) \subseteq E
        BY <3>1
      <4>2. Partly(C(E), c5, done) = C(E \ done)
        BY <2>1, <3>1
      <4>3. Partly(C(E), c5, done \cup {f}) = C(E \ (done \cup {f}))
        BY <2>1, <4>1
      <4>4. IsStep(C(E \ done), C(E \ (done \cup {f})), w)
        BY <2>3, <3>1, <4>1
      <4> QED BY <4>2, <4>3, <4>4
    <3> QED BY <3>2, <3>3
  <2> QED BY <1>7, <1>13, <1>15, <2>2, <2>4 DEF Allowed
<1>21. Allowed(C({}), c6, w)
  <2>1. IsStep(C({}), d6, w) /\ IsState(C({}), w)
    BY <1>10, <1>11, <1>15, QuietStep
  <2> QED BY <1>7, <1>12, <1>13, <2>1, SingleIsAllowed
\* The script.
<1>22. /\ Apply(d0, c1) = P({}, i) /\ Apply(P({}, i), c2) = P(E, i)
       /\ Apply(P(E, i), c3) = P(E, n) /\ Apply(P(E, n), c4) = C(E)
       /\ Apply(C(E), c5) = C({}) /\ Apply(C({}), c6) = d6
  <2>1. E \ E = {}
    OBVIOUS
  <2> QED BY <1>12, <1>15, <2>1
<1> DEFINE s6 == <<c6>>
           s5 == <<c5, c6>>
           s4 == <<c4, c5, c6>>
           s3 == <<c3, c4, c5, c6>>
           s2 == <<c2, c3, c4, c5, c6>>
           s1 == <<c1, c2, c3, c4, c5, c6>>
<1>24. s5 = <<c5>> \o s6
  BY ONLY <1>7, TwoCalls
<1>25. s4 = <<c4>> \o s5
  BY ONLY <1>7
<1>26. s3 = <<c3>> \o s4
  BY ONLY <1>7
<1>27. s2 = <<c2>> \o s3
  BY ONLY <1>7
<1>28. s1 = <<c1>> \o s2
  BY ONLY <1>7
<1>29. Leads(C({}), s6, d6, w)
  BY <1>7, <1>11, <1>22, <1>21, LastLeads
<1> HIDE DEF s1, s2, s3, s4, s5, s6
<1>30. Leads(C(E), s5, d6, w)
  BY ONLY <1>7, <1>20, <1>22, <1>24, <1>29, CallLeads
<1>31. Leads(P(E, n), s4, d6, w)
  BY ONLY <1>7, <1>19, <1>22, <1>25, <1>30, CallLeads
<1>32. Leads(P(E, i), s3, d6, w)
  BY ONLY <1>7, <1>18, <1>22, <1>26, <1>31, CallLeads
<1>33. Leads(P({}, i), s2, d6, w)
  BY ONLY <1>7, <1>17, <1>22, <1>27, <1>32, CallLeads
<1>34. Leads(d0, s1, d6, w)
  BY ONLY <1>7, <1>16, <1>22, <1>28, <1>33, CallLeads
<1> QED BY <1>34 DEF c1, c2, c3, c4, c5, c6, d0, d6, s1

------------------------------------------------------------------------------
(* Directories in the middle of a migration.                                 *)

\* The files F, those of T rewritten for the document key.
Moving(F, T, key, i, j) == Dir(Over(Named(T, key), F), Only(F, {}), i, None, j)

LEMMA MovingIs ==
  ASSUME NEW F, NEW T, NEW k, NEW i, NEW j
  PROVE  LET d == Moving(F, T, k, i, j) IN
         /\ d.files = Over(Named(T, k), F) /\ d.tombs = Only(F, {})
         /\ d.index = i /\ d.deletion = None /\ d.migration = j
         /\ d = Dir(d.files, d.tombs, d.index, d.deletion, d.migration)
BY DirIs DEF Moving

\* What the rewritten files name.
LEMMA RewrittenIs ==
  ASSUME NEW F, NEW T, NEW k
  PROVE  LET g == Over(Named(T, k), F) IN
         /\ \A x : x \in DOMAIN g <=> x \in T \/ x \in DOMAIN F
         /\ \A x \in T : g[x] = k
         /\ \A x \in DOMAIN F : x \notin T => g[x] = F[x]
         /\ IsFunction(g)
<1> DEFINE n == Named(T, k)
           g == Over(n, F)
<1>1. (\A x : x \in DOMAIN n <=> x \in T) /\ \A x \in T : n[x] = k
  BY NamedIs
<1> HIDE DEF n
<1>2. /\ \A x : x \in DOMAIN g <=> x \in DOMAIN n \/ x \in DOMAIN F
      /\ \A x \in DOMAIN n : g[x] = n[x]
      /\ \A x \in DOMAIN F : x \notin DOMAIN n => g[x] = F[x]
      /\ IsFunction(g)
  BY OverIs
<1> HIDE DEF g
<1>3. /\ \A x : x \in DOMAIN g <=> x \in T \/ x \in DOMAIN F
      /\ \A x \in T : g[x] = k
      /\ \A x \in DOMAIN F : x \notin T => g[x] = F[x]
      /\ IsFunction(g)
  BY <1>1, <1>2
<1> QED BY <1>3 DEF g, n

LEMMA MovingIsDisk ==
  ASSUME NEW F, IsDirectory(F), NEW T \in SUBSET Artifacts, Bounded(NumbersOf(T)),
         NEW k \in Keys, NEW i \in Generations, NEW j \in MigrationJournals \cup {None}
  PROVE  IsDisk(Moving(F, T, k, i, j))
<1> DEFINE f == Over(Named(T, k), F)
           t == Only(F, {})
           d == Moving(F, T, k, i, j)
<1>1. /\ d.files = f /\ d.tombs = t /\ d.index = i /\ d.deletion = None /\ d.migration = j
      /\ d = Dir(d.files, d.tombs, d.index, d.deletion, d.migration)
  BY MovingIs
<1>2. IsDirectory(f)
  <2>1. IsDirectory(Named(T, k))
    BY NamedDirectory
  <2> QED BY <2>1, OverDirectory
<1>3. IsDirectory(t)
  BY OnlyDirectory
<1>4. \A x : x \notin DOMAIN t
  BY OnlyIs
<1> HIDE DEF f, t, d
<1>5. d = [files |-> d.files, tombs |-> d.tombs, index |-> d.index,
           deletion |-> d.deletion, migration |-> d.migration]
  BY <1>1 DEF Dir
<1>6. DOMAIN f \cap DOMAIN t = {}
  BY <1>4
<1> QED BY <1>1, <1>2, <1>3, <1>4, <1>5, <1>6 DEF IsDisk, d

LEMMA MovingWritten ==
  ASSUME NEW F, NEW T, NEW k, NEW i, NEW j, NEW D
  PROVE  Apply(Moving(F, T, k, i, j), Write(D, k)) = Moving(F, D \cup T, k, i, j)
BY WriteApplied, NamesCommute DEF Moving

LEMMA MovingIndexed ==
  ASSUME NEW F, NEW T, NEW k, NEW i, NEW j, NEW v
  PROVE  Apply(Moving(F, T, k, i, j), Index(v)) = Moving(F, T, k, v, j)
BY IndexApplied DEF Moving

LEMMA MovingMarked ==
  ASSUME NEW F, NEW T, NEW k, NEW i, NEW j, NEW v
  PROVE  Apply(Moving(F, T, k, i, j), Migration(v)) = Moving(F, T, k, i, v)
BY MigrationApplied DEF Moving

LEMMA DirectoryOfMoving ==
  ASSUME NEW F, NEW T, NEW k, NEW i, NEW j
  PROVE  IsDir(Moving(F, T, k, i, j))
<1> DEFINE d == Moving(F, T, k, i, j)
<1>1. /\ d.files = Over(Named(T, k), F) /\ d.tombs = Only(F, {})
      /\ d = Dir(d.files, d.tombs, d.index, d.deletion, d.migration)
  BY MovingIs
<1>2. IsFunction(Over(Named(T, k), F)) /\ IsFunction(Only(F, {}))
  BY OverIs, OnlyIs
<1> HIDE DEF d
<1>3. IsDir(d)
  BY <1>1, <1>2 DEF IsDir
<1> QED BY <1>3 DEF d

\* Without a journal nothing moves.
LEMMA MovingOrHalf ==
  ASSUME NEW F, IsFunction(F), NEW k, NEW i
  PROVE  Moving(F, {}, k, i, None) = Half(F, {}, {}, i, None)
<1>1. Over(Named({}, k), F) = F
  BY NothingIsNamed
<1>2. Only(F, DOMAIN F \ {}) = F
  BY EverythingStays
<1> QED BY <1>1, <1>2 DEF Moving, Half

\* The files a journal of a migration names.
FilesOf(A, B) == {Snapshot(n) : n \in A} \cup {Metadata(n) : n \in B}
Carried(j) == FilesOf(j.snapshots, j.raws)
Owned(j) == IF j.phase = "preparing" THEN j.source ELSE j.destination
Value(j) == IF j.phase = "preparing" THEN j.previous ELSE j.next

LEMMA MovingDurable ==
  ASSUME NEW F, DOMAIN F \subseteq Artifacts, NEW j \in MigrationJournals, NEW T, T \subseteq Carried(j),
         Carried(j) \subseteq DOMAIN F, NEW k, NEW i
  PROVE  LET d == Moving(F, T, k, i, j) IN
         /\ DurableRecords(d) = Listing(Over(Named(Carried(j), Owned(j)), F))
         /\ DurableGenerations(d) = Value(j)
<1> DEFINE d == Moving(F, T, k, i, j)
           g == Over(Named(T, k), F)
           h == Over(Named(Carried(j), Owned(j)), F)
<1>1. j # None
  BY NoneAssumption
<1>2. d.files = g /\ d.deletion = None /\ d.migration = j
  BY MovingIs
<1>3. /\ \A x : x \in DOMAIN g <=> x \in T \/ x \in DOMAIN F
      /\ \A x \in DOMAIN F : x \notin T => g[x] = F[x]
  BY RewrittenIs
<1>4. /\ \A x : x \in DOMAIN h <=> x \in Carried(j) \/ x \in DOMAIN F
      /\ \A x \in Carried(j) : h[x] = Owned(j)
      /\ \A x \in DOMAIN F : x \notin Carried(j) => h[x] = F[x]
  BY RewrittenIs
<1> HIDE DEF d, g, h
<1>5. Believed(d) = g
  BY <1>2 DEF Believed
<1>6. ASSUME NEW x \in DOMAIN F, x.kind # "payload"
      PROVE  Owner(d, x.kind, x.id, g[x]) = h[x]
  <2>1. x \in Artifacts
    OBVIOUS
  <2>2. CASE x \in Carried(j)
    <3>1. x.id \in IF x.kind = "snapshot" THEN j.snapshots ELSE j.raws
      BY <2>2 DEF Carried, FilesOf, Snapshot, Metadata
    <3> QED BY <1>1, <1>2, <1>4, <2>2, <3>1 DEF Owner, Owned
  <2>3. CASE x \notin Carried(j)
    <3>1. x.id \notin IF x.kind = "snapshot" THEN j.snapshots ELSE j.raws
      <4>1. x.kind = "snapshot" => x = Snapshot(x.id)
        BY <2>1 DEF Artifacts, Snapshot
      <4>2. x.kind # "snapshot" => x = Metadata(x.id)
        BY <1>6, <2>1 DEF Artifacts, Metadata
      <4> QED BY <2>3, <4>1, <4>2 DEF Carried, FilesOf
    <3>2. h[x] = F[x] /\ g[x] = F[x]
      BY <1>3, <1>4, <2>3
    <3> QED BY <1>1, <1>2, <3>1, <3>2 DEF Owner
  <2> QED BY <2>2, <2>3
<1>7. DurableRecords(d) = Listing(h)
  <2> DEFINE A == {y \in DOMAIN g : y.kind # "payload"}
             B == {y \in DOMAIN h : y.kind # "payload"}
             a(x) == [kind |-> x.kind, id |-> x.id, key |-> Owner(d, x.kind, x.id, g[x])]
             b(x) == [kind |-> x.kind, id |-> x.id, key |-> h[x]]
  <2>1. A = B
    BY <1>3, <1>4
  <2>2. \A x \in A : a(x) = b(x)
    BY <1>3, <1>6
  <2>3. DurableRecords(d) = {a(x) : x \in A}
    BY <1>5 DEF DurableRecords
  <2>4. Listing(h) = {b(x) : x \in B}
    BY DEF Listing
  <2> HIDE DEF A, B, a, b
  <2>5. {a(x) : x \in A} = {b(x) : x \in B}
    BY <2>1, <2>2
  <2> QED BY <2>3, <2>4, <2>5
<1>8. DurableGenerations(d) = Value(j)
  BY <1>1, <1>2 DEF DurableGenerations, Value
<1> QED BY <1>7, <1>8 DEF d, h

\* The directory without a journal.
LEMMA MovedDurable ==
  ASSUME NEW F, NEW T, NEW k, NEW i
  PROVE  LET d == Moving(F, T, k, i, None) IN
         /\ DurableRecords(d) = Listing(Over(Named(T, k), F))
         /\ DurableGenerations(d) = i
<1> DEFINE d == Moving(F, T, k, i, None)
<1>1. d.files = Over(Named(T, k), F) /\ d.deletion = None /\ d.migration = None /\ d.index = i
  BY MovingIs
<1> HIDE DEF d
<1>2. Believed(d) = d.files
  BY <1>1 DEF Believed
<1>3. DurableRecords(d) = Listing(Over(Named(T, k), F))
  BY <1>1, <1>2, RecordsWithoutMove
<1>4. DurableGenerations(d) = i
  BY <1>1 DEF DurableGenerations
<1> QED BY <1>3, <1>4 DEF d

LEMMA MovingIsSound ==
  ASSUME NEW F, NEW T, NEW k, NEW i, NEW j,
         Described(Over(Named(T, k), F)),
         j # None => /\ j.next = MigratedGenerations(j.previous, j.source, j.destination)
                     /\ IF j.phase = "preparing" THEN i = j.previous ELSE IndexFits(j, i)
                     /\ Carried(j) \subseteq DOMAIN F
                     /\ \A x \in Carried(j) :
                          Over(Named(T, k), F)[x]
                            \in IF j.phase = "preparing" THEN {j.source, j.destination}
                                                         ELSE {j.destination}
  PROVE  IsSound(Moving(F, T, k, i, j))
<1> DEFINE d == Moving(F, T, k, i, j)
           g == Over(Named(T, k), F)
<1>1. d.files = g /\ d.index = i /\ d.deletion = None /\ d.migration = j
  BY MovingIs
<1>2. \A x : x \in DOMAIN g <=> x \in T \/ x \in DOMAIN F
  BY RewrittenIs
<1> HIDE DEF d, g
<1>3. Believed(d) = g
  BY <1>1 DEF Believed
<1>4. j # None => MigrationFits(d)
  <2>1. \A n \in j.snapshots : Snapshot(n) \in Carried(j)
    BY DEF Carried, FilesOf
  <2>2. \A n \in j.raws : Metadata(n) \in Carried(j)
    BY DEF Carried, FilesOf
  <2> QED BY <1>1, <1>2, <2>1, <2>2 DEF MigrationFits, g
<1> QED BY <1>1, <1>3, <1>4 DEF IsSound, Described, d, g

\* A loop that rewrites files is in order when all the directories it passes are.
LEMMA WritesAreAllowed ==
  ASSUME NEW F, NEW T, NEW k \in Keys, NEW i, NEW j, NEW S \in SUBSET Artifacts, NEW w,
         \A D : D \subseteq S => IsState(Moving(F, D \cup T, k, i, j), w),
         \A D, R : D \subseteq S /\ R \subseteq S =>
           IsStep(Moving(F, D \cup T, k, i, j), Moving(F, R \cup T, k, i, j), w)
  PROVE  Allowed(Moving(F, T, k, i, j), Write(S, k), w)
<1> DEFINE M(D) == Moving(F, D \cup T, k, i, j)
           d == Moving(F, T, k, i, j)
           c == Write(S, k)
<1>1. /\ \A D : D \subseteq S => IsState(M(D), w)
      /\ \A D, R : D \subseteq S /\ R \subseteq S => IsStep(M(D), M(R), w)
  OBVIOUS
<1>2. \A D : Apply(d, Write(D, k)) = M(D)
  BY MovingWritten
<1>3. d = M({})
  OBVIOUS
<1>4. c \in Calls
  BY DEF Calls, LoopCalls, Write
<1>5. c.files = S /\ c.call = "write" /\ \A R : [c EXCEPT !.files = R] = Write(R, k)
  BY LoopsAre
<1>6. c = Write(S, k)
  OBVIOUS
<1> HIDE DEF M, d, c
<1>7. \A D : Partly(d, c, D) = M(D)
  BY <1>2, <1>5 DEF Partly
<1>8. IsState(d, w)
  BY <1>1, <1>3
<1>9. S = {} => IsStep(d, Apply(d, c), w)
  BY <1>1, <1>2, <1>3, <1>6
<1>10. ASSUME NEW done \in SUBSET c.files
       PROVE  /\ IsState(Partly(d, c, done), w)
              /\ \A f \in c.files \ done :
                   IsStep(Partly(d, c, done), Partly(d, c, done \cup {f}), w)
  <2>1. IsState(Partly(d, c, done), w)
    BY <1>1, <1>5, <1>7
  <2>2. ASSUME NEW f \in c.files \ done
        PROVE  IsStep(Partly(d, c, done), Partly(d, c, done \cup {f}), w)
    <3>1. done \cup {f} \subseteq S /\ done \subseteq S
      BY <1>5
    <3> QED BY <1>1, <1>7, <3>1
  <2> QED BY <2>1, <2>2
<1>11. Allowed(d, c, w)
  BY <1>4, <1>5, <1>8, <1>9, <1>10 DEF Allowed
<1> QED BY <1>11 DEF d, c

\* Whichever of the files S are rewritten, the directory is in order.
Passable(F, S, k, i, j, w) ==
  /\ \A D : D \subseteq S => IsState(Moving(F, D, k, i, j), w)
  /\ \A D, R : D \subseteq S /\ R \subseteq S =>
       IsStep(Moving(F, D, k, i, j), Moving(F, R, k, i, j), w)

LEMMA RewriteIsScript ==
  ASSUME NEW A \in SUBSET Nat, NEW B \in SUBSET Keys, NEW k \in Keys
  PROVE  Rewrite(A, B, k) \in Seq(Calls)
<1> DEFINE x == Write({Snapshot(m) : m \in A}, k)
           y == Write({Metadata(m) : m \in B}, k)
<1>1. {Snapshot(m) : m \in A} \subseteq Artifacts /\ {Metadata(m) : m \in B} \subseteq Artifacts
  BY DEF Artifacts, Snapshot, Metadata
<1>2. x \in Calls /\ y \in Calls
  BY <1>1 DEF Calls, LoopCalls, Write
<1>3. Rewrite(A, B, k) = Each(x) \o Each(y)
  BY DEF Rewrite
<1> HIDE DEF x, y
<1>4. Each(x) \in Seq(Calls) /\ Each(y) \in Seq(Calls)
  BY <1>2 DEF Each
<1> QED BY <1>3, <1>4

\* The two loops of a migration, in front of a script.
LEMMA RewriteLeads ==
  ASSUME NEW F, NEW k \in Keys, NEW i, NEW j, NEW A \in SUBSET Nat, NEW B \in SUBSET Keys,
         NEW w, NEW S, S = FilesOf(A, B), Passable(F, S, k, i, j, w),
         NEW s, NEW e, Leads(Moving(F, S, k, i, j), s, e, w)
  PROVE  Leads(Moving(F, {}, k, i, j), Rewrite(A, B, k) \o s, e, w)
<1> DEFINE P == {Snapshot(n) : n \in A}
           Q == {Metadata(n) : n \in B}
           d == Moving(F, {}, k, i, j)
           f == Moving(F, P, k, i, j)
           g == Moving(F, S, k, i, j)
           a == Write(P, k)
           b == Write(Q, k)
           t == Each(b) \o s
<1>1. P \in SUBSET Artifacts /\ Q \in SUBSET Artifacts
  BY DEF Artifacts, Snapshot, Metadata
<1>2. S = P \cup Q /\ S = Q \cup P /\ P = P \cup {}
  BY DEF FilesOf
<1> HIDE DEF P, Q
<1>3. a \in LoopCalls /\ b \in LoopCalls
  BY <1>1 DEF LoopCalls, Write
<1>4. Apply(d, a) = f
  BY <1>2, MovingWritten
<1>5. Apply(f, b) = g
  BY <1>2, MovingWritten
<1>6. IsDir(d) /\ IsDir(f)
  BY DirectoryOfMoving
<1>7. Allowed(d, a, w)
  <2>1. ASSUME NEW D, D \subseteq P
        PROVE  D \subseteq S /\ D \cup {} = D
    BY <1>2, <2>1
  <2> QED BY <1>1, <2>1, WritesAreAllowed DEF Passable
<1>8. Allowed(f, b, w)
  <2>1. ASSUME NEW D, D \subseteq Q
        PROVE  D \cup P \subseteq S
    BY <1>2, <2>1
  <2> QED BY <1>1, <2>1, WritesAreAllowed DEF Passable
<1>9. Leads(g, s, e, w) /\ s \in Seq(Calls)
  BY DEF Leads
<1>10. Rewrite(A, B, k) = Each(a) \o Each(b)
  BY DEF Rewrite, P, Q
<1> HIDE DEF a, b, d, f, g
<1>11. Leads(f, t, e, w)
  BY <1>3, <1>5, <1>6, <1>8, <1>9, EachLeads
<1> HIDE DEF t
<1>12. Leads(d, Each(a) \o t, e, w)
  BY <1>3, <1>4, <1>6, <1>7, <1>11, EachLeads
<1>13. Each(a) \in Seq(Calls) /\ Each(b) \in Seq(Calls)
  <2>1. a \in Calls /\ b \in Calls
    BY <1>3 DEF Calls
  <2> QED BY <2>1 DEF Each
<1>14. Rewrite(A, B, k) \o s = Each(a) \o t
  <2>1. ASSUME NEW x \in Seq(Calls), NEW y \in Seq(Calls), NEW z \in Seq(Calls)
        PROVE  (x \o y) \o z = x \o (y \o z)
    OBVIOUS
  <2> QED BY <1>9, <1>10, <1>13, <2>1 DEF t
<1> QED BY <1>12, <1>14 DEF d

\* Files rewritten for the document they name stay as they are.
LEMMA RewrittenAsItWas ==
  ASSUME NEW F, IsFunction(F), NEW S, S \subseteq DOMAIN F, NEW k, \A x \in S : F[x] = k
  PROVE  Over(Named(S, k), F) = F
<1> DEFINE g == Over(Named(S, k), F)
<1>1. /\ \A x : x \in DOMAIN g <=> x \in S \/ x \in DOMAIN F
      /\ \A x \in S : g[x] = k
      /\ \A x \in DOMAIN F : x \notin S => g[x] = F[x]
      /\ IsFunction(g)
  BY RewrittenIs
<1> HIDE DEF g
<1>2. g = F
  BY <1>1, SameFunction
<1> QED BY <1>2 DEF g

LEMMA StillDescribed ==
  ASSUME NEW F, Described(F), NEW S, S \subseteq DOMAIN F, NEW k
  PROVE  Described(Over(Named(S, k), F))
<1> DEFINE g == Over(Named(S, k), F)
<1>1. \A x : x \in DOMAIN g <=> x \in S \/ x \in DOMAIN F
  BY RewrittenIs
<1> HIDE DEF g
<1>2. Described(g)
  BY <1>1 DEF Described
<1> QED BY <1>2 DEF g

\* A migration that is written: until its marker is committed nothing has moved,
\* from then on everything has, and both generations have changed with it.
LEMMA MigrationIsWritten ==
  ASSUME NEW F, IsDirectory(F), NEW i \in Generations, NEW p \in Generations,
         NEW n \in Generations, NEW A \in SUBSET Nat, Bounded(A), NEW B \in SUBSET Keys,
         NEW a \in Keys, NEW b \in Keys,
         NEW S, S = FilesOf(A, B),
         NEW w, w.kind = "write", w.fresh => w.trusted,
         w.trusted => /\ i = p /\ w.before = p /\ w.after = n
                      /\ S \subseteq DOMAIN F /\ \A x \in S : F[x] = a
                      /\ Moves(Listing(F), Listing(Over(Named(S, b), F)), p, n),
         w.fresh => Described(F) /\ n = MigratedGenerations(p, a, b)
  PROVE  Leads(Half(F, {}, {}, i, None), CommitMigration(A, B, a, b, p, n),
               Moving(F, S, b, n, None), w)
<1> DEFINE j(phase) == [source |-> a, destination |-> b, snapshots |-> A, raws |-> B,
                        phase |-> phase, previous |-> p, next |-> n]
           jp == j("preparing")
           jc == j("committed")
           G == Over(Named(S, b), F)
           d0 == Moving(F, {}, b, i, None)
           P(D) == Moving(F, D, b, i, jp)
           C(v) == Moving(F, S, b, v, jc)
           d6 == Moving(F, S, b, n, None)
           c1 == Migration(jp)
           c4 == Migration(jc)
           c5 == Index(n)
           c6 == Migration(None)
<1>1. IsFunction(F) /\ DOMAIN F \subseteq Artifacts
  BY DEF IsDirectory
<1>2. jp \in MigrationJournals /\ jc \in MigrationJournals
  BY DEF MigrationJournals, Phases
<1>3. jp # None /\ jc # None
  BY <1>2, NoneAssumption
<1>4. /\ jp.source = a /\ jp.destination = b /\ jp.phase = "preparing"
      /\ jp.previous = p /\ jp.next = n /\ jp.snapshots = A /\ jp.raws = B
      /\ jc.source = a /\ jc.destination = b /\ jc.phase = "committed"
      /\ jc.previous = p /\ jc.next = n /\ jc.snapshots = A /\ jc.raws = B
  OBVIOUS
<1> HIDE DEF jp, jc
<1>5. Carried(jp) = S /\ Carried(jc) = S
  BY <1>4 DEF Carried
<1>6. Owned(jp) = a /\ Owned(jc) = b /\ Value(jp) = p /\ Value(jc) = n
  BY <1>4 DEF Owned, Value
<1>7. IndexFits(jc, p) /\ IndexFits(jc, n)
  BY <1>4 DEF IndexFits
<1>8. ASSUME NEW D \in SUBSET S
      PROVE  D \in SUBSET Artifacts /\ Bounded(NumbersOf(D))
  <2>1. D \subseteq Artifacts
    BY DEF FilesOf, Artifacts, Snapshot, Metadata
  <2>2. NumbersOf(D) \subseteq A
    BY DEF FilesOf, NumbersOf, Snapshot, Metadata
  <2> QED BY <2>1, <2>2, BoundedSubset
<1>9. /\ \A x : x \in DOMAIN G <=> x \in S \/ x \in DOMAIN F
      /\ \A x \in S : G[x] = b
      /\ \A x \in DOMAIN F : x \notin S => G[x] = F[x]
      /\ IsFunction(G)
  BY RewrittenIs
\* The states, what they are and what they mean.
<1>10. /\ IsState(d0, w) /\ DurableRecords(d0) = Listing(F) /\ DurableGenerations(d0) = i
  <2>1. IsDisk(d0)
    <3>1. {} \in SUBSET S
      OBVIOUS
    <3> QED BY <1>8, <3>1, MovingIsDisk
  <2>2. Over(Named({}, b), F) = F
    BY <1>1, NothingIsNamed
  <2>3. DurableRecords(d0) = Listing(F) /\ DurableGenerations(d0) = i
    BY <2>2, MovedDurable
  <2>4. w.fresh => IsSound(d0)
    BY <2>2, MovingIsSound
  <2> HIDE DEF d0
  <2> QED BY <2>1, <2>3, <2>4, WrittenState
<1>11. ASSUME NEW D, D \subseteq S
       PROVE  /\ IsState(P(D), w)
              /\ w.trusted => /\ DurableRecords(P(D)) = Listing(F)
                              /\ DurableGenerations(P(D)) = p
  <2>1. IsDisk(P(D))
    BY <1>2, <1>8, <1>11, MovingIsDisk
  <2>2. ASSUME w.trusted
        PROVE  DurableRecords(P(D)) = Listing(F) /\ DurableGenerations(P(D)) = p
    <3>1. Over(Named(S, a), F) = F
      BY <1>1, <2>2, RewrittenAsItWas
    <3>2. Carried(jp) \subseteq DOMAIN F /\ D \subseteq Carried(jp)
      BY <1>5, <1>11, <2>2
    <3>3. /\ DurableRecords(P(D)) = Listing(Over(Named(Carried(jp), Owned(jp)), F))
          /\ DurableGenerations(P(D)) = Value(jp)
      BY <1>1, <1>2, <3>2, MovingDurable
    <3> QED BY <1>5, <1>6, <3>1, <3>3
  <2>3. w.fresh => IsSound(P(D))
    <3> SUFFICES ASSUME w.fresh PROVE IsSound(P(D))
      OBVIOUS
    <3>1. D \subseteq DOMAIN F
      BY <1>11
    <3>2. Described(Over(Named(D, b), F))
      BY <3>1, StillDescribed
    <3>3. ASSUME NEW x \in S
          PROVE  Over(Named(D, b), F)[x] \in {a, b}
      BY RewrittenIs
    <3> QED BY <1>4, <1>5, <3>2, <3>3, MovingIsSound
  <2> HIDE DEF P
  <2> QED BY <2>1, <2>2, <2>3, WrittenState
<1>12. ASSUME NEW v \in Generations, v \in {i, n}
       PROVE  /\ IsState(C(v), w)
              /\ w.trusted => /\ DurableRecords(C(v)) = Listing(G)
                              /\ DurableGenerations(C(v)) = n
  <2>1. IsDisk(C(v))
    BY <1>2, <1>8, MovingIsDisk
  <2>2. ASSUME w.trusted
        PROVE  DurableRecords(C(v)) = Listing(G) /\ DurableGenerations(C(v)) = n
    <3>1. Carried(jc) \subseteq DOMAIN F /\ S \subseteq Carried(jc)
      BY <1>5, <2>2
    <3>2. /\ DurableRecords(C(v)) = Listing(Over(Named(Carried(jc), Owned(jc)), F))
          /\ DurableGenerations(C(v)) = Value(jc)
      BY <1>1, <1>2, <3>1, MovingDurable
    <3> QED BY <1>5, <1>6, <3>2
  <2>3. w.fresh => IsSound(C(v))
    <3> SUFFICES ASSUME w.fresh PROVE IsSound(C(v))
      OBVIOUS
    <3>1. Described(G)
      BY StillDescribed
    <3>2. IndexFits(jc, v)
      BY <1>7, <1>12
    <3>3. \A x \in S : G[x] \in {b}
      BY <1>9
    <3> QED BY <1>4, <1>5, <3>1, <3>2, <3>3, MovingIsSound
  <2> HIDE DEF C
  <2> QED BY <2>1, <2>2, <2>3, WrittenState
<1>13. /\ IsState(d6, w) /\ DurableRecords(d6) = Listing(G) /\ DurableGenerations(d6) = n
  <2>1. IsDisk(d6)
    BY <1>8, MovingIsDisk
  <2>2. DurableRecords(d6) = Listing(G) /\ DurableGenerations(d6) = n
    BY MovedDurable
  <2>3. w.fresh => IsSound(d6)
    BY StillDescribed, MovingIsSound
  <2> HIDE DEF d6
  <2> QED BY <2>1, <2>2, <2>3, WrittenState
\* The calls.
<1>14. /\ c1 \in Calls /\ c4 \in Calls /\ c5 \in Calls /\ c6 \in Calls
       /\ c1.files = {} /\ c1.call \notin {"bury", "unbury"}
       /\ c4.files = {} /\ c4.call \notin {"bury", "unbury"}
       /\ c5.files = {} /\ c5.call \notin {"bury", "unbury"}
       /\ c6.files = {} /\ c6.call \notin {"bury", "unbury"}
  <2>1. c1 \in SingleCalls /\ c4 \in SingleCalls /\ c5 \in SingleCalls /\ c6 \in SingleCalls
    BY <1>2 DEF SingleCalls, Migration, Index
  <2> QED BY <2>1, SinglesAre DEF Calls
<1>15. /\ Apply(d0, c1) = P({})
       /\ Apply(P(S), c4) = C(i)
       /\ Apply(C(i), c5) = C(n)
       /\ Apply(C(n), c6) = d6
  BY MovingMarked, MovingIndexed
<1>16. \A D, R : D \subseteq S /\ R \subseteq S => IsStep(P(D), P(R), w)
  <2> HIDE DEF P
  <2>1. ~w.trusted => \A D, R : IsStep(P(D), P(R), w)
    BY DEF IsStep
  <2>2. w.trusted => \A D, R : D \subseteq S /\ R \subseteq S => IsStep(P(D), P(R), w)
    BY <1>11, QuietStep
  <2> QED BY <2>1, <2>2
<1>17. Half(F, {}, {}, i, None) = d0
  BY <1>1, MovingOrHalf
<1>18. {} \subseteq S /\ S \subseteq S
  OBVIOUS
<1>19. w.trusted => i = p /\ w.before = p /\ w.after = n /\ Moves(Listing(F), Listing(G), p, n)
  OBVIOUS
<1> HIDE DEF c1, c4, c5, c6, d0, P, C, d6, G
<1>20. Allowed(d0, c1, w)
  <2>1. IsStep(d0, P({}), w)
    BY <1>10, <1>11, <1>18, <1>19 DEF IsStep
  <2> QED BY <1>10, <1>14, <1>15, <2>1, SingleIsAllowed
<1>21. Allowed(P(S), c4, w)
  <2>1. IsStep(P(S), C(i), w)
    BY <1>11, <1>12, <1>18, <1>19 DEF IsStep
  <2>2. IsState(P(S), w)
    BY <1>11
  <2> QED BY <1>14, <1>15, <2>1, <2>2, SingleIsAllowed
<1>22. Allowed(C(i), c5, w)
  <2>1. IsStep(C(i), C(n), w)
    BY <1>12, QuietStep DEF IsStep
  <2>2. IsState(C(i), w)
    BY <1>12
  <2> QED BY <1>14, <1>15, <2>1, <2>2, SingleIsAllowed
<1>23. Allowed(C(n), c6, w)
  <2>1. IsStep(C(n), d6, w)
    BY <1>12, <1>13, QuietStep DEF IsStep
  <2>2. IsState(C(n), w)
    BY <1>12
  <2> QED BY <1>14, <1>15, <2>1, <2>2, SingleIsAllowed
\* The script.
<1> DEFINE s6 == <<c6>>
           s5 == <<c5, c6>>
           s4 == <<c4, c5, c6>>
           s2 == Rewrite(A, B, b) \o s4
           s1 == <<c1>> \o s2
<1>24. s6 \in Seq(Calls) /\ s5 \in Seq(Calls) /\ s4 \in Seq(Calls)
  BY ONLY <1>14
<1>25. s5 = <<c5>> \o s6
  BY ONLY <1>14, TwoCalls
<1>26. s4 = <<c4>> \o s5
  BY ONLY <1>14
<1>27. Leads(C(n), s6, d6, w)
  BY <1>13, <1>14, <1>15, <1>23, LastLeads
<1> HIDE DEF s6, s5, s4
<1>28. Leads(C(i), s5, d6, w)
  BY ONLY <1>14, <1>15, <1>22, <1>25, <1>27, CallLeads
<1>29. Leads(P(S), s4, d6, w)
  BY ONLY <1>14, <1>15, <1>21, <1>26, <1>28, CallLeads
<1>30. Leads(P({}), s2, d6, w)
  <2>1. \A D : D \subseteq S => IsState(P(D), w)
    BY <1>11
  <2>2. Passable(F, S, b, i, jp, w)
    BY <1>16, <2>1 DEF P, Passable
  <2>3. Leads(Moving(F, S, b, i, jp), s4, d6, w)
    BY <1>29 DEF P
  <2>4. Leads(Moving(F, {}, b, i, jp), Rewrite(A, B, b) \o s4, d6, w)
    BY <2>2, <2>3, RewriteLeads
  <2> QED BY <2>4 DEF P
<1> HIDE DEF s2
<1>31. Leads(d0, s1, d6, w)
  BY ONLY <1>14, <1>15, <1>20, <1>30, CallLeads
<1>32. CommitMigration(A, B, a, b, p, n) = s1
  <2>1. CommitMigration(A, B, a, b, p, n) = <<c1>> \o Rewrite(A, B, b) \o <<c4, c5, c6>>
    BY DEF CommitMigration, jp, jc, c1, c4, c5, c6
  <2>2. Rewrite(A, B, b) \in Seq(Calls)
    BY RewriteIsScript
  <2>3. ASSUME NEW x \in Seq(Calls), NEW y \in Seq(Calls), NEW z \in Seq(Calls)
        PROVE  (x \o y) \o z = x \o (y \o z)
    OBVIOUS
  <2>4. <<c1>> \in Seq(Calls)
    BY <1>14
  <2>5. (<<c1>> \o Rewrite(A, B, b)) \o s4 = <<c1>> \o (Rewrite(A, B, b) \o s4)
    BY <1>24, <2>2, <2>3, <2>4
  <2> QED BY <2>1, <2>5 DEF s1, s2, s4
<1> QED BY <1>17, <1>31, <1>32 DEF d6

------------------------------------------------------------------------------
(* Replays.                                                                  *)

LEMMA ReplayState ==
  ASSUME NEW fresh, NEW R, NEW G, NEW d, IsDisk(d), fresh => IsSound(d),
         DurableRecords(d) = R, DurableGenerations(d) = G
  PROVE  IsState(d, Replay(fresh, R, G))
BY DEF IsState, Replay

LEMMA ReplayStep ==
  ASSUME NEW fresh, NEW R, NEW G, NEW d, NEW e
  PROVE  IsStep(d, e, Replay(fresh, R, G))
BY DEF IsStep, Replay

\* A loop of a replay is in order when all the directories it passes are.
LEMMA ReplayLoop ==
  ASSUME NEW fresh, NEW R, NEW G, NEW w, w = Replay(fresh, R, G), NEW d, IsState(d, w),
         NEW c \in LoopCalls, c.call # "bury", c.call = "unbury" => c.files \subseteq DOMAIN d.tombs,
         \A D : D \subseteq c.files => IsState(Partly(d, c, D), w)
  PROVE  Allowed(d, c, w)
<1>1. \A x, y : IsStep(x, y, w)
  BY ReplayStep
<1>2. c \in Calls
  BY DEF Calls
<1> QED BY <1>1, <1>2 DEF Allowed

LEMMA ReplaySingle ==
  ASSUME NEW fresh, NEW R, NEW G, NEW w, w = Replay(fresh, R, G), NEW d, IsState(d, w),
         NEW c \in Calls, c.files = {}, c.call \notin {"bury", "unbury"}
  PROVE  Allowed(d, c, w)
BY ReplayStep, SingleIsAllowed

\* A directory with the journal of a migration, as the files the journal names.
LEMMA DiskMoving ==
  ASSUME NEW d, IsDisk(d), d.deletion = None, NEW k
  PROVE  d = Moving(d.files, {}, k, d.index, d.migration)
<1>1. d = Dir(d.files, d.tombs, d.index, None, d.migration)
  BY DEF IsDisk, Dir
<1>2. Over(Named({}, k), d.files) = d.files
  BY NothingIsNamed DEF IsDisk, IsDirectory
<1>3. Only(d.files, {}) = d.tombs
  <2> DEFINE t == Only(d.files, {})
  <2>1. IsFunction(t) /\ \A x : x \notin DOMAIN t
    BY OnlyIs
  <2>2. IsFunction(d.tombs) /\ \A x : x \notin DOMAIN d.tombs
    BY DEF IsDisk, IsDirectory
  <2> HIDE DEF t
  <2>3. t = d.tombs
    BY <2>1, <2>2, SameFunction
  <2> QED BY <2>3 DEF t
<1> QED BY <1>1, <1>2, <1>3 DEF Moving

LEMMA CarriedIsThere ==
  ASSUME NEW d, IsDisk(d), NEW j \in MigrationJournals,
         j.snapshots \subseteq Identifiers(d, "snapshot"),
         j.raws \subseteq Identifiers(d, "metadata")
  PROVE  Carried(j) \subseteq DOMAIN d.files
<1>1. DOMAIN d.files \subseteq Artifacts
  BY DEF IsDisk, IsDirectory
<1>2. ASSUME NEW n \in j.snapshots
      PROVE  Snapshot(n) \in DOMAIN d.files
  <2>1. PICK f \in DOMAIN d.files : f.kind = "snapshot" /\ f.id = n
    BY DEF Identifiers
  <2> QED BY <1>1, <2>1 DEF Artifacts, Snapshot
<1>3. ASSUME NEW n \in j.raws
      PROVE  Metadata(n) \in DOMAIN d.files
  <2>1. PICK f \in DOMAIN d.files : f.kind = "metadata" /\ f.id = n
    BY DEF Identifiers
  <2> QED BY <1>1, <2>1 DEF Artifacts, Metadata
<1> QED BY <1>2, <1>3 DEF Carried, FilesOf

LEMMA CarriedBounded ==
  ASSUME NEW F, IsDirectory(F), NEW T, T \subseteq DOMAIN F
  PROVE  T \in SUBSET Artifacts /\ Bounded(NumbersOf(T))
<1>1. NumbersOf(T) \subseteq NumbersOf(DOMAIN F)
  BY DEF NumbersOf
<1> QED BY <1>1, BoundedSubset DEF IsDirectory

\* The journal of a migration is replayed: the records are where it says they are.
LEMMA MigrationIsReplayed ==
  ASSUME NEW d, IsDisk(d), d.deletion = None, d.migration # None,
         NEW fresh, fresh => IsSound(d),
         NEW r, r = ReplayMigration(d), r.ok
  PROVE  \E e : /\ Leads(d, r.script, e, Replay(fresh, DurableRecords(d), DurableGenerations(d)))
                /\ NoJournal(e) /\ e.index = r.generations
<1> DEFINE j == d.migration
           F == d.files
           i == d.index
           S == Carried(j)
           k == Owned(j)
           v == Value(j)
           permitted == IF j.phase = "preparing" THEN {j.source, j.destination}
                                                 ELSE {j.destination}
           w == Replay(fresh, DurableRecords(d), DurableGenerations(d))
           P(D) == Moving(F, D, k, i, j)
           Q == Moving(F, S, k, v, j)
           e == Moving(F, S, k, v, None)
           c1 == Index(v)
           c2 == Migration(None)
           s2 == <<c2>>
           s1 == <<c1, c2>>
<1>1. IsDirectory(F) /\ i \in Generations /\ j \in MigrationJournals
  BY DEF IsDisk
<1>2. /\ j.next = MigratedGenerations(j.previous, j.source, j.destination)
      /\ IF j.phase = "preparing" THEN i = j.previous ELSE IndexFits(j, i)
      /\ j.snapshots \subseteq Identifiers(d, "snapshot")
      /\ j.raws \subseteq Identifiers(d, "metadata")
      /\ \A n \in j.snapshots : F[Snapshot(n)] \in permitted
      /\ \A n \in j.raws : F[Metadata(n)] \in permitted
      /\ r.script = Rewrite(j.snapshots, j.raws, k) \o <<Index(v), Migration(None)>>
      /\ r.generations = v
  BY DEF ReplayMigration, Malformed, Owned, Value
<1>3. S \subseteq DOMAIN F
  BY <1>1, <1>2, CarriedIsThere
<1>4. \A x \in S : F[x] \in permitted
  BY <1>2 DEF Carried, FilesOf
<1>5. k \in Keys /\ v \in Generations /\ k \in permitted /\ S = FilesOf(j.snapshots, j.raws)
      /\ j.snapshots \in SUBSET Nat /\ j.raws \in SUBSET Keys
  BY <1>1 DEF MigrationJournals, Phases, Owned, Value, Carried
<1>6. IF j.phase = "preparing" THEN v = j.previous ELSE IndexFits(j, v)
  BY DEF Value, IndexFits
<1>7. d = P({})
  BY DiskMoving
<1>8. fresh => Described(F)
  <2>1. Believed(d) = F
    BY DEF Believed
  <2> QED BY <2>1 DEF IsSound, Described
<1>9. DOMAIN F \subseteq Artifacts /\ {} \subseteq S /\ S \subseteq S
  BY <1>1 DEF IsDirectory
<1>10. \A D : D \subseteq S => D \in SUBSET Artifacts /\ Bounded(NumbersOf(D))
  BY <1>1, <1>3, CarriedBounded
<1> HIDE DEF j, F, i, S, k, v, permitted
<1>11. /\ DurableRecords(d) = Listing(Over(Named(S, k), F))
       /\ DurableGenerations(d) = v
  <2>1. \A D : D \subseteq S =>
           /\ DurableRecords(P(D)) = Listing(Over(Named(S, k), F))
           /\ DurableGenerations(P(D)) = v
    BY <1>1, <1>3, <1>9, MovingDurable DEF S, k, v
  <2> HIDE DEF P
  <2> QED BY <1>7, <1>9, <2>1
<1>12. ASSUME NEW D, D \subseteq S, NEW u \in Generations, u \in {i, v}
       PROVE  IsState(Moving(F, D, k, u, j), w)
  <2>1. IsDisk(Moving(F, D, k, u, j))
    BY <1>1, <1>5, <1>10, <1>12, MovingIsDisk
  <2>2. /\ DurableRecords(Moving(F, D, k, u, j)) = DurableRecords(d)
        /\ DurableGenerations(Moving(F, D, k, u, j)) = DurableGenerations(d)
    BY <1>1, <1>3, <1>9, <1>11, <1>12, MovingDurable DEF S, k, v
  <2>3. fresh => IsSound(Moving(F, D, k, u, j))
    <3> SUFFICES ASSUME fresh PROVE IsSound(Moving(F, D, k, u, j))
      OBVIOUS
    <3>1. D \subseteq DOMAIN F
      BY <1>3, <1>12
    <3>2. Described(Over(Named(D, k), F))
      BY <1>8, <3>1, StillDescribed
    <3>3. ASSUME NEW x \in S
          PROVE  Over(Named(D, k), F)[x] \in permitted
      BY <1>3, <1>4, <1>5, RewrittenIs
    <3>4. IF j.phase = "preparing" THEN u = j.previous ELSE IndexFits(j, u)
      BY <1>2, <1>6, <1>12
    <3> QED BY <1>2, <1>3, <3>2, <3>3, <3>4, MovingIsSound DEF S, permitted
  <2> QED BY <2>1, <2>2, <2>3, ReplayState
<1>13. IsState(e, w)
  <2>1. IsDisk(e)
    BY <1>1, <1>5, <1>9, <1>10, MovingIsDisk
  <2>2. DurableRecords(e) = DurableRecords(d) /\ DurableGenerations(e) = DurableGenerations(d)
    BY <1>11, MovedDurable
  <2>3. fresh => IsSound(e)
    BY <1>3, <1>8, StillDescribed, MovingIsSound
  <2> HIDE DEF e
  <2> QED BY <2>1, <2>2, <2>3, ReplayState
<1>14. c1 \in Calls /\ c2 \in Calls
  BY <1>5 DEF Calls, SingleCalls, Index, Migration
<1>15. /\ c1.files = {} /\ c1.call \notin {"bury", "unbury"}
       /\ c2.files = {} /\ c2.call \notin {"bury", "unbury"}
  BY SinglesAre
<1>16. Apply(P(S), c1) = Q /\ Apply(Q, c2) = e
  BY MovingIndexed, MovingMarked
<1>17. IsState(P(S), w) /\ IsState(Q, w)
  BY <1>1, <1>5, <1>9, <1>12
<1>18. Passable(F, S, k, i, j, w)
  <2>1. \A D : D \subseteq S => IsState(Moving(F, D, k, i, j), w)
    BY <1>1, <1>12
  <2> QED BY <2>1, ReplayStep DEF Passable
<1>19. e.deletion = None /\ e.migration = None /\ e.index = v
  BY MovingIs
<1>20. s1 = <<c1>> \o s2
  BY ONLY <1>14, TwoCalls
<1> HIDE DEF P, Q, e, c1, c2, w
<1>21. Allowed(P(S), c1, w) /\ Allowed(Q, c2, w)
  BY <1>14, <1>15, <1>17, ReplaySingle DEF w
<1>22. Leads(Q, s2, e, w)
  BY <1>13, <1>14, <1>16, <1>21, LastLeads
<1> HIDE DEF s1, s2
<1>23. Leads(P(S), s1, e, w)
  BY ONLY <1>14, <1>16, <1>20, <1>21, <1>22, CallLeads
<1>24. Leads(P({}), Rewrite(j.snapshots, j.raws, k) \o s1, e, w)
  <2>1. Leads(Moving(F, S, k, i, j), s1, e, w)
    BY <1>23 DEF P
  <2>2. Leads(Moving(F, {}, k, i, j), Rewrite(j.snapshots, j.raws, k) \o s1, e, w)
    BY ONLY <1>5, <1>18, <2>1, RewriteLeads
  <2> QED BY <2>2 DEF P
<1>25. r.script = Rewrite(j.snapshots, j.raws, k) \o s1
  BY <1>2 DEF s1, c1, c2
<1> QED BY <1>2, <1>7, <1>19, <1>24, <1>25 DEF NoJournal, w

\* A directory with the journal of a deletion, as the files it had before.
LEMMA DiskHalf ==
  ASSUME NEW d, IsDisk(d), d.migration = None
  PROVE  LET F == Over(d.files, d.tombs)
             T == DOMAIN d.tombs
         IN /\ d = Half(F, T, T, d.index, d.deletion)
            /\ IsDirectory(F) /\ T \subseteq DOMAIN F
            /\ T # {} => d.deletion # None /\ T \subseteq d.deletion.entries
            /\ \A x : x \in DOMAIN d.files <=> x \in DOMAIN F \ T
<1> DEFINE F == Over(d.files, d.tombs)
           T == DOMAIN d.tombs
           f == Only(F, DOMAIN F \ T)
           t == Only(F, T)
<1>1. /\ IsFunction(d.files) /\ IsFunction(d.tombs) /\ DOMAIN d.files \cap T = {}
      /\ \A x \in T : d.deletion # None /\ x \in d.deletion.entries
      /\ d = Dir(d.files, d.tombs, d.index, d.deletion, None)
      /\ IsDirectory(d.files) /\ IsDirectory(d.tombs)
  BY DEF IsDisk, IsDirectory, Dir
<1>2. /\ \A x : x \in DOMAIN F <=> x \in DOMAIN d.files \/ x \in T
      /\ \A x \in DOMAIN d.files : F[x] = d.files[x]
      /\ \A x \in T : F[x] = d.tombs[x]
  BY <1>1, OverIs
<1>3. IsDirectory(F)
  BY <1>1, OverDirectory
<1> HIDE DEF F
<1>4. /\ IsFunction(f) /\ \A x : x \in DOMAIN f <=> x \in DOMAIN F \ T
      /\ \A x \in DOMAIN F \ T : f[x] = F[x]
  BY OnlyIs
<1>5. /\ IsFunction(t) /\ \A x : x \in DOMAIN t <=> x \in T
      /\ \A x \in T : t[x] = F[x]
  BY OnlyIs
<1> HIDE DEF f, t
<1>6. f = d.files
  BY <1>1, <1>2, <1>4, SameFunction
<1>7. t = d.tombs
  BY <1>1, <1>2, <1>5, SameFunction
<1>8. d = Half(F, T, T, d.index, d.deletion)
  BY <1>1, <1>6, <1>7 DEF Half, f, t
<1>9. \A x : x \in DOMAIN d.files <=> x \in DOMAIN F \ T
  BY <1>1, <1>2
<1> QED BY <1>1, <1>2, <1>3, <1>8, <1>9 DEF F

LEMMA HalfEnds ==
  ASSUME NEW F, NEW gone, NEW T, NEW v
  PROVE  /\ NoJournal(Half(F, gone, T, v, None)) /\ Half(F, gone, T, v, None).index = v
         /\ Half(F, gone, T, v, None).files = Only(F, DOMAIN F \ gone)
BY DEF NoJournal, Half, Dir

\* The last two calls of a replayed deletion, in front of which a loop may stand.
LEMMA DeletionEnds ==
  ASSUME NEW fresh, NEW R, NEW G, NEW w, w = Replay(fresh, R, G),
         NEW F, NEW gone, NEW T, NEW i, NEW j, NEW v \in Generations,
         IsState(Half(F, gone, T, i, j), w), IsState(Half(F, gone, T, v, j), w),
         IsState(Half(F, gone, T, v, None), w)
  PROVE  Leads(Half(F, gone, T, i, j), <<Index(v), Deletion(None)>>,
               Half(F, gone, T, v, None), w)
<1> DEFINE a == Half(F, gone, T, i, j)
           b == Half(F, gone, T, v, j)
           e == Half(F, gone, T, v, None)
           c1 == Index(v)
           c2 == Deletion(None)
           s2 == <<c2>>
           s1 == <<c1, c2>>
<1>1. c1 \in Calls /\ c2 \in Calls
  BY DEF Calls, SingleCalls, Index, Deletion
<1>2. /\ c1.files = {} /\ c1.call \notin {"bury", "unbury"}
      /\ c2.files = {} /\ c2.call \notin {"bury", "unbury"}
  BY SinglesAre
<1>3. Apply(a, c1) = b /\ Apply(b, c2) = e
  BY HalfIndexed, HalfMarked
<1>4. s1 = <<c1>> \o s2
  BY ONLY <1>1, TwoCalls
<1>5. IsState(a, w) /\ IsState(b, w) /\ IsState(e, w)
  OBVIOUS
<1> HIDE DEF a, b, e, c1, c2
<1>6. Allowed(a, c1, w) /\ Allowed(b, c2, w)
  BY <1>1, <1>2, <1>5, ReplaySingle
<1>7. Leads(b, s2, e, w)
  BY <1>1, <1>3, <1>5, <1>6, LastLeads
<1> HIDE DEF s1, s2
<1>8. Leads(a, s1, e, w)
  BY ONLY <1>1, <1>3, <1>4, <1>6, <1>7, CallLeads
<1> QED BY <1>8 DEF a, e, s1, c1, c2

\* A deletion that was being prepared is rolled back: everything is there again.
LEMMA DeletionRollsBack ==
  ASSUME NEW d, IsDisk(d), d.deletion # None, d.deletion.phase = "preparing",
         NEW fresh, fresh => IsSound(d),
         NEW r, r = RollBack(d, d.deletion), r.ok,
         DeletionSchema(d.deletion), IndexFits(d.deletion, d.index)
  PROVE  \E e : /\ Leads(d, r.script, e, Replay(fresh, DurableRecords(d), DurableGenerations(d)))
                /\ NoJournal(e) /\ e.index = r.generations /\ e.files = Believed(d)
<1> DEFINE j == d.deletion
           F == Over(d.files, d.tombs)
           T == DOMAIN d.tombs
           E == j.entries
           i == d.index
           v == j.previous
           w == Replay(fresh, DurableRecords(d), DurableGenerations(d))
           P(D, u) == Half(F, D, D, u, j)
           e == Half(F, {}, {}, v, None)
           s1 == <<Index(v), Deletion(None)>>
           c == Unbury(T)
<1>1. d.migration = None /\ i \in Generations /\ j \in DeletionJournals /\ j # None
  BY DEF IsDisk
<1>2. /\ d = P(T, i)
      /\ IsDirectory(F) /\ T \subseteq DOMAIN F
      /\ T \subseteq E
      /\ \A x : x \in DOMAIN d.files <=> x \in DOMAIN F \ T
  BY <1>1, DiskHalf
<1>3. /\ \A f \in E : (f \in DOMAIN d.files) # (f \in T)
      /\ r.script = Each(Unbury(E \cap T)) \o s1
      /\ r.generations = v
  BY DEF RollBack, Malformed
<1>4. E \subseteq DOMAIN F
  BY <1>2, <1>3
<1>5. E \cap T = T
  BY <1>2
<1>6. v \in Generations /\ IndexFits(j, v) /\ T \subseteq Artifacts /\ IsFunction(F)
  BY <1>1, <1>2 DEF DeletionJournals, IndexFits, IsDirectory
<1> HIDE DEF j, F, E, i, v
<1>7. DurableRecords(d) = Listing(F) /\ DurableGenerations(d) = v /\ Believed(d) = F
  BY <1>1, <1>2, <1>6, HalfPrepared DEF j, v, E
<1>8. fresh => Described(F)
  BY <1>7 DEF IsSound, Described
<1>9. ASSUME NEW D, D \subseteq T, NEW u \in Generations, u \in {i, v}
      PROVE  IsState(P(D, u), w)
  <2>1. D \subseteq DOMAIN F /\ D \subseteq E
    BY <1>2, <1>9
  <2>2. IsDisk(P(D, u))
    BY <1>1, <1>2, <2>1, HalfIsDisk DEF E
  <2>3. DurableRecords(P(D, u)) = DurableRecords(d)
        /\ DurableGenerations(P(D, u)) = DurableGenerations(d)
    BY <1>1, <1>6, <1>7, <2>1, HalfPrepared DEF j, v, E
  <2>4. fresh => IsSound(P(D, u))
    <3>1. IndexFits(j, u)
      BY <1>6, <1>9 DEF i, j
    <3> QED BY <1>1, <1>4, <1>6, <1>8, <2>1, <3>1, HalfPreparedIsSound DEF j, E
  <2> HIDE DEF P
  <2> QED BY <2>2, <2>3, <2>4, ReplayState
<1>10. IsState(e, w)
  <2>1. IsDisk(e)
    BY <1>2, <1>6, HalfIsDisk
  <2>2. Only(F, DOMAIN F \ {}) = F
    BY <1>6, EverythingStays
  <2>3. DurableRecords(e) = DurableRecords(d) /\ DurableGenerations(e) = DurableGenerations(d)
    BY <1>7, <2>2, HalfCommitted
  <2>4. fresh => IsSound(e)
    BY <1>8, <2>2, HalfCommittedIsSound
  <2> HIDE DEF e
  <2> QED BY <2>1, <2>3, <2>4, ReplayState
<1>11. NoJournal(e) /\ e.index = v
  BY HalfEnds
<1>24. e.files = Believed(d)
  <2>1. e.files = Only(F, DOMAIN F \ {})
    BY HalfEnds
  <2> HIDE DEF e
  <2> QED BY <1>6, <1>7, <2>1, EverythingStays
<1>12. Leads(P({}, i), s1, e, w)
  <2>1. IsState(P({}, i), w) /\ IsState(P({}, v), w)
    BY <1>1, <1>6, <1>9
  <2> HIDE DEF w
  <2>2. Leads(Half(F, {}, {}, i, j), s1, Half(F, {}, {}, v, None), w)
    BY <1>6, <1>10, <2>1, DeletionEnds DEF w
  <2> QED BY <2>2
<1>13. c \in LoopCalls
  BY <1>6 DEF LoopCalls, Unbury
<1>14. c.files = T /\ c.call = "unbury" /\ \A R : [c EXCEPT !.files = R] = Unbury(R)
  BY LoopsAre
<1>15. \A D : D \subseteq T => Apply(P(T, i), Unbury(D)) = P(T \ D, i)
  BY <1>2, HalfUnburied
<1>16. IsDir(P(T, i))
  BY DirectoryOfHalf
<1>17. c = Unbury(T) /\ T \ T = {} /\ \A D : T \ D \subseteq T
  OBVIOUS
<1>18. \A D : D \subseteq T => IsState(P(D, i), w)
  BY <1>1, <1>9
<1> HIDE DEF c, P, e, s1
<1>19. \A D : D \subseteq T => Partly(P(T, i), c, D) = P(T \ D, i)
  BY <1>14, <1>15 DEF Partly
<1>20. Allowed(P(T, i), c, w)
  <2>1. P(T, i).tombs = d.tombs
    BY <1>2
  <2>2. ASSUME NEW D, D \subseteq c.files
        PROVE  IsState(Partly(P(T, i), c, D), w)
    <3>1. Partly(P(T, i), c, D) = P(T \ D, i) /\ IsState(P(T \ D, i), w)
      BY <1>14, <1>17, <1>18, <1>19, <2>2
    <3> QED BY <3>1
  <2>3. IsState(P(T, i), w)
    BY <1>18
  <2>4. c.files \subseteq DOMAIN P(T, i).tombs /\ c.call # "bury"
    BY <1>14, <2>1
  <2> QED BY <1>13, <2>2, <2>3, <2>4, ReplayLoop
<1>21. Apply(P(T, i), c) = P({}, i)
  BY <1>15, <1>17
<1> HIDE DEF w
<1>22. Leads(P(T, i), Each(c) \o s1, e, w)
  BY <1>12, <1>13, <1>16, <1>20, <1>21, EachLeads
<1>23. Leads(d, r.script, e, w)
  BY <1>2, <1>3, <1>5, <1>17, <1>22
<1> QED BY <1>3, <1>11, <1>23, <1>24 DEF w

\* A committed deletion is finished: nothing of it is left.
LEMMA DeletionRollsForward ==
  ASSUME NEW d, IsDisk(d), d.deletion # None, d.deletion.phase = "committed",
         NEW fresh, fresh => IsSound(d),
         NEW r, r = RollForward(d, d.deletion), r.ok
  PROVE  \E e : /\ Leads(d, r.script, e, Replay(fresh, DurableRecords(d), DurableGenerations(d)))
                /\ NoJournal(e) /\ e.index = r.generations /\ e.files = Believed(d)
<1> DEFINE j == d.deletion
           F == Over(d.files, d.tombs)
           T == DOMAIN d.tombs
           E == j.entries
           i == d.index
           v == j.next
           w == Replay(fresh, DurableRecords(d), DurableGenerations(d))
           P(D, u) == Half(F, T, D, u, j)
           e == Half(F, T, {}, v, None)
           s1 == <<Index(v), Deletion(None)>>
           c == Unlink(T)
<1>1. d.migration = None /\ i \in Generations /\ j \in DeletionJournals /\ j # None
  BY DEF IsDisk
<1>2. /\ d = P(T, i)
      /\ IsDirectory(F) /\ T \subseteq DOMAIN F
      /\ T \subseteq E
      /\ \A x : x \in DOMAIN d.files <=> x \in DOMAIN F \ T
  BY <1>1, DiskHalf
<1>3. /\ E \cap DOMAIN d.files = {}
      /\ r.script = Each(Unlink(E \cap T)) \o s1
      /\ r.generations = v
  BY DEF RollForward, Malformed
<1>4. E \cap (DOMAIN F \ T) = {}
  BY <1>2, <1>3
<1>5. E \cap T = T
  BY <1>2
<1>6. v \in Generations /\ T \subseteq Artifacts /\ IsFunction(F)
  BY <1>1, <1>2 DEF DeletionJournals, IsDirectory
<1>7. fresh => DeletionSchema(j) /\ i = v
  BY DEF IsSound, DeletionFits
<1> HIDE DEF j, F, E, i, v
<1>8. /\ DurableRecords(d) = Listing(Only(F, DOMAIN F \ T)) /\ DurableGenerations(d) = v
      /\ Believed(d) = Only(F, DOMAIN F \ T)
  <2>1. j.phase = "committed"
    BY DEF j
  <2>2. /\ DurableRecords(P(T, i)) = Listing(Only(F, DOMAIN F \ T))
        /\ DurableGenerations(P(T, i)) = v
        /\ Believed(P(T, i)) = Only(F, DOMAIN F \ T)
    BY <1>1, <2>1, HalfCommitted DEF v
  <2> HIDE DEF P
  <2> QED BY <1>2, <2>2
<1>9. fresh => Described(Only(F, DOMAIN F \ T))
  BY <1>8 DEF IsSound, Described
<1>10. ASSUME NEW D, D \subseteq T, NEW u \in Generations, u \in {i, v}
       PROVE  IsState(P(D, u), w)
  <2>1. D \subseteq DOMAIN F /\ D \subseteq E
    BY <1>2, <1>10
  <2>2. IsDisk(P(D, u))
    BY <1>1, <1>2, <1>10, <2>1, HalfIsDisk DEF E
  <2>3. DurableRecords(P(D, u)) = DurableRecords(d)
        /\ DurableGenerations(P(D, u)) = DurableGenerations(d)
    BY <1>1, <1>8, HalfCommitted DEF j, v
  <2>4. fresh => IsSound(P(D, u))
    BY <1>4, <1>7, <1>9, <1>10, HalfCommittedIsSound DEF j, E, v
  <2> HIDE DEF P
  <2> QED BY <2>2, <2>3, <2>4, ReplayState
<1>11. IsState(e, w)
  <2>1. IsDisk(e)
    BY <1>2, <1>6, HalfIsDisk
  <2>2. DurableRecords(e) = DurableRecords(d) /\ DurableGenerations(e) = DurableGenerations(d)
    BY <1>8, HalfCommitted
  <2>3. fresh => IsSound(e)
    BY <1>9, HalfCommittedIsSound
  <2> HIDE DEF e
  <2> QED BY <2>1, <2>2, <2>3, ReplayState
<1>12. NoJournal(e) /\ e.index = v
  <2>1. NoJournal(e)
    BY HalfEnds, Zenon
  <2>2. e.index = v
    BY ONLY DEF Half, Dir
  <2> QED BY <2>1, <2>2
<1>25. e.files = Believed(d)
  BY <1>8, HalfEnds
<1>13. Leads(P({}, i), s1, e, w)
  <2>1. IsState(P({}, i), w) /\ IsState(P({}, v), w)
    BY <1>1, <1>6, <1>10
  <2> HIDE DEF w
  <2>2. Leads(Half(F, T, {}, i, j), s1, Half(F, T, {}, v, None), w)
    BY <1>6, <1>11, <2>1, DeletionEnds DEF w
  <2> QED BY <2>2
<1>14. c \in LoopCalls
  BY <1>6 DEF LoopCalls, Unlink
<1>15. c.files = T /\ c.call = "unlink" /\ \A R : [c EXCEPT !.files = R] = Unlink(R)
  BY LoopsAre
<1>16. \A D : Apply(P(T, i), Unlink(D)) = P(T \ D, i)
  BY HalfUnlinked
<1>17. IsDir(P(T, i))
  BY DirectoryOfHalf
<1>18. c = Unlink(T) /\ T \ T = {} /\ \A D : T \ D \subseteq T
  OBVIOUS
<1>19. \A D : D \subseteq T => IsState(P(D, i), w)
  BY <1>1, <1>10
<1> HIDE DEF c, P, e, s1
<1>20. \A D : Partly(P(T, i), c, D) = P(T \ D, i)
  BY <1>15, <1>16 DEF Partly
<1>21. Allowed(P(T, i), c, w)
  <2>1. ASSUME NEW D, D \subseteq c.files
        PROVE  IsState(Partly(P(T, i), c, D), w)
    <3>1. Partly(P(T, i), c, D) = P(T \ D, i) /\ IsState(P(T \ D, i), w)
      BY <1>18, <1>19, <1>20
    <3> QED BY <3>1
  <2>2. IsState(P(T, i), w)
    BY <1>19
  <2>3. c.call # "bury" /\ c.call # "unbury"
    BY <1>15
  <2> QED BY <1>14, <2>1, <2>2, <2>3, ReplayLoop
<1>22. Apply(P(T, i), c) = P({}, i)
  BY <1>16, <1>18
<1> HIDE DEF w
<1>23. Leads(P(T, i), Each(c) \o s1, e, w)
  BY <1>13, <1>14, <1>17, <1>21, <1>22, EachLeads
<1>24. Leads(d, r.script, e, w)
  BY <1>2, <1>3, <1>5, <1>18, <1>23
<1> QED BY <1>3, <1>12, <1>24, <1>25 DEF w

------------------------------------------------------------------------------
(* Imports.                                                                  *)

LEMMA NothingLeads ==
  ASSUME NEW d, NEW w, IsState(d, w)
  PROVE  Leads(d, <<>>, d, w)
<1>1. <<>> \in Seq(Calls)
  OBVIOUS
<1>2. Follows(d, <<>>, w) /\ ApplyAll(d, <<>>) = d
  BY EmptyFollows, NothingIsApplied
<1> QED BY <1>1, <1>2 DEF Leads

LEMMA LeadsToState ==
  ASSUME NEW d, NEW s, NEW e, NEW w, Leads(d, s, e, w)
  PROVE  IsState(e, w)
BY DEF Leads, Follows

\* A replay that succeeds leaves the records and generations as they were.
LEMMA DeletionReplays ==
  ASSUME NEW d, IsDisk(d), NEW fresh, fresh => IsSound(d), NEW r, r = ReplayDeletion(d)
  PROVE  /\ r.ok \in BOOLEAN
         /\ d.deletion = None => r.script = <<>> /\ r.ok
         /\ \E e : /\ Leads(d, r.script, e,
                            Replay(fresh, DurableRecords(d), DurableGenerations(d)))
                   /\ d.deletion = None \/ ~r.ok => e = d
                   /\ d.deletion # None /\ r.ok =>
                        NoJournal(e) /\ e.index = r.generations /\ e.files = Believed(d)
<1> DEFINE j == d.deletion
           w == Replay(fresh, DurableRecords(d), DurableGenerations(d))
<1>1. IsState(d, w)
  BY ReplayState
<1>2. Leads(d, <<>>, d, w)
  BY <1>1, NothingLeads
<1>3. r.ok \in BOOLEAN /\ (~r.ok => r.script = <<>>)
  BY DEF ReplayDeletion, NoReplay, Malformed, RollBack, RollForward
<1>4. CASE j = None
  <2>1. r.script = <<>> /\ r.ok
    BY <1>4 DEF ReplayDeletion, NoReplay
  <2> QED BY <1>2, <1>3, <1>4, <2>1
<1>5. CASE j # None /\ ~r.ok
  <2>1. Leads(d, r.script, d, w)
    BY <1>2, <1>3, <1>5
  <2> HIDE DEF w
  <2>2. /\ r.ok \in BOOLEAN /\ j # None /\ ~r.ok
        /\ \E e : Leads(d, r.script, e, w) /\ e = d
    BY <1>3, <1>5, <2>1
  <2> QED BY <2>2 DEF w
<1>6. CASE j # None /\ r.ok
  <2>1. DeletionSchema(j) /\ IndexFits(j, d.index)
    BY <1>6 DEF ReplayDeletion, Malformed
  <2>2. CASE j.phase = "preparing"
    <3>1. r = RollBack(d, j)
      BY <1>6, <2>1, <2>2 DEF ReplayDeletion
    <3>2. \E e : /\ Leads(d, r.script, e, w)
                 /\ NoJournal(e) /\ e.index = r.generations /\ e.files = Believed(d)
      BY <1>6, <2>1, <2>2, <3>1, DeletionRollsBack
    <3> QED BY <1>6, <3>2
  <2>3. CASE j.phase # "preparing"
    <3>1. r = RollForward(d, j)
      BY <1>6, <2>1, <2>3 DEF ReplayDeletion
    <3>2. j.phase = "committed"
      BY <1>6, <2>3 DEF IsDisk, DeletionJournals, Phases
    <3>3. \E e : /\ Leads(d, r.script, e, w)
                 /\ NoJournal(e) /\ e.index = r.generations /\ e.files = Believed(d)
      BY <1>6, <3>1, <3>2, DeletionRollsForward
    <3> QED BY <1>6, <3>3
  <2> QED BY <2>2, <2>3
<1> QED BY <1>4, <1>5, <1>6, <1>3

LEMMA MigrationReplays ==
  ASSUME NEW d, IsDisk(d), d.deletion = None, NEW fresh, fresh => IsSound(d),
         NEW r, r = ReplayMigration(d)
  PROVE  /\ r.ok \in BOOLEAN
         /\ d.migration = None => r.script = <<>> /\ r.ok /\ r.generations = d.index
         /\ r.ok => \E e : /\ Leads(d, r.script, e,
                                    Replay(fresh, DurableRecords(d), DurableGenerations(d)))
                           /\ NoJournal(e) /\ e.index = r.generations
<1> DEFINE w == Replay(fresh, DurableRecords(d), DurableGenerations(d))
<1>1. r.ok \in BOOLEAN
  BY DEF ReplayMigration, NoReplay, Malformed
<1>2. CASE d.migration = None
  <2>1. r.script = <<>> /\ r.ok /\ r.generations = d.index
    BY <1>2 DEF ReplayMigration, NoReplay
  <2>2. IsState(d, w)
    BY ReplayState
  <2>3. Leads(d, <<>>, d, w) /\ NoJournal(d)
    BY <1>2, <2>2, NothingLeads DEF NoJournal
  <2> QED BY <1>1, <2>1, <2>3
<1>3. CASE d.migration # None
  BY <1>1, <1>3, MigrationIsReplayed
<1> QED BY <1>2, <1>3

LEMMA IdentifiersAre ==
  ASSUME NEW d, NEW f, f = d.files, DOMAIN f \subseteq Artifacts
  PROVE  /\ \A i : i \in Identifiers(d, "snapshot") <=> i \in Nat /\ Snapshot(i) \in DOMAIN f
         /\ \A i : i \in Identifiers(d, "payload") <=> i \in Keys /\ Payload(i) \in DOMAIN f
         /\ \A i : i \in Identifiers(d, "metadata") <=> i \in Keys /\ Metadata(i) \in DOMAIN f
<1>1. \A i : i \in Identifiers(d, "snapshot") <=> i \in Nat /\ Snapshot(i) \in DOMAIN f
  BY DEF Identifiers, Artifacts, Snapshot
<1>2. \A i : i \in Identifiers(d, "payload") <=> i \in Keys /\ Payload(i) \in DOMAIN f
  BY DEF Identifiers, Artifacts, Payload
<1>3. \A i : i \in Identifiers(d, "metadata") <=> i \in Keys /\ Metadata(i) \in DOMAIN f
  BY DEF Identifiers, Artifacts, Metadata
<1> QED BY <1>1, <1>2, <1>3

\* What an import reads.
Read(d) == [entries |-> StoredEntries(d), raws |-> StoredRaws(d), generations |-> d.index]

LEMMA CleanDurable ==
  ASSUME NEW d, NoJournal(d)
  PROVE  /\ Believed(d) = d.files
         /\ DurableRecords(d) = Listing(d.files)
         /\ DurableGenerations(d) = d.index
<1>1. Believed(d) = d.files
  BY DEF Believed, NoJournal
<1>2. DurableGenerations(d) = d.index
  BY DEF DurableGenerations, NoJournal
<1>3. DurableRecords(d) = Listing(Believed(d))
  BY RecordsWithoutMove DEF NoJournal
<1> QED BY <1>1, <1>2, <1>3

LEMMA ReadIsFaithful ==
  ASSUME NEW d, IsDisk(d), NoJournal(d)
  PROVE  /\ IsMemory(Read(d))
         /\ DurableRecords(d) = Recorded(Read(d))
         /\ DurableGenerations(d) = Read(d).generations
<1> DEFINE f == d.files
           A == Identifiers(d, "snapshot")
           B == Identifiers(d, "metadata")
           m == Read(d)
<1>1. /\ DOMAIN f \subseteq Artifacts /\ \A x \in DOMAIN f : f[x] \in Keys
      /\ Bounded(NumbersOf(DOMAIN f)) /\ d.index \in Generations
  BY DEF IsDisk, IsDirectory
<1>2. /\ m = [entries |-> m.entries, raws |-> m.raws, generations |-> m.generations]
      /\ m.entries = {[id |-> i, key |-> f[Snapshot(i)]] : i \in A}
      /\ m.raws = {[id |-> i, key |-> f[Metadata(i)]] : i \in B}
      /\ m.generations = d.index
  BY DEF Read, StoredEntries, StoredRaws
<1>3. \A i : i \in A <=> i \in Nat /\ Snapshot(i) \in DOMAIN f
  BY <1>1, IdentifiersAre
<1>4. \A i : i \in B <=> i \in Keys /\ Metadata(i) \in DOMAIN f
  BY <1>1, IdentifiersAre
<1>5. DurableRecords(d) = Listing(f) /\ DurableGenerations(d) = d.index
  BY CleanDurable
<1>6. {e.id : e \in m.entries} = NumbersOf(DOMAIN f)
  <2>1. {e.id : e \in m.entries} = A
    <3> DEFINE rec(i) == [id |-> i, key |-> f[Snapshot(i)]]
    <3>1. m.entries = {rec(i) : i \in A} /\ \A i : rec(i).id = i
      BY <1>2
    <3> HIDE DEF rec, m, A
    <3> QED BY <3>1
  <2>2. A = NumbersOf(DOMAIN f)
    BY DEF Identifiers, NumbersOf
  <2> QED BY <2>1, <2>2
<1> HIDE DEF f, A, B, m
<1>7. m.entries \subseteq [id : Nat, key : Keys]
  BY <1>1, <1>2, <1>3
<1>8. m.raws \subseteq [id : Keys, key : Keys]
  BY <1>1, <1>2, <1>4
<1>9. IsMemory(m)
  BY <1>1, <1>2, <1>6, <1>7, <1>8 DEF IsMemory
<1>10. ASSUME NEW r \in Listing(f)
       PROVE  r \in Recorded(m)
  <2>1. PICK x \in DOMAIN f : /\ x.kind # "payload"
                              /\ r = [kind |-> x.kind, id |-> x.id, key |-> f[x]]
    BY DEF Listing
  <2>2. CASE x.kind = "snapshot"
    <3>1. x = Snapshot(x.id) /\ x.id \in A
      BY <1>1, <1>3, <2>2 DEF Artifacts, Snapshot
    <3>2. [id |-> x.id, key |-> f[x]] \in m.entries
      BY <1>2, <3>1
    <3> QED BY <2>1, <2>2, <3>2 DEF Recorded
  <2>3. CASE x.kind # "snapshot"
    <3>1. x = Metadata(x.id) /\ x.id \in B /\ x.kind = "metadata"
      BY <1>1, <1>4, <2>1, <2>3 DEF Artifacts, Metadata
    <3>2. [id |-> x.id, key |-> f[x]] \in m.raws
      BY <1>2, <3>1
    <3> QED BY <2>1, <3>1, <3>2 DEF Recorded
  <2> QED BY <2>2, <2>3
<1>11. ASSUME NEW r \in Recorded(m)
       PROVE  r \in Listing(f)
  <2>1. CASE r \in {[kind |-> "snapshot", id |-> e.id, key |-> e.key] : e \in m.entries}
    <3>1. PICK i \in A : r = [kind |-> "snapshot", id |-> i, key |-> f[Snapshot(i)]]
      BY <1>2, <2>1
    <3>2. Snapshot(i) \in DOMAIN f /\ Snapshot(i).kind = "snapshot" /\ Snapshot(i).id = i
      BY <1>3 DEF Snapshot
    <3> QED BY <3>1, <3>2 DEF Listing
  <2>2. CASE r \in {[kind |-> "metadata", id |-> e.id, key |-> e.key] : e \in m.raws}
    <3>1. PICK i \in B : r = [kind |-> "metadata", id |-> i, key |-> f[Metadata(i)]]
      BY <1>2, <2>2
    <3>2. Metadata(i) \in DOMAIN f /\ Metadata(i).kind = "metadata" /\ Metadata(i).id = i
      BY <1>4 DEF Metadata
    <3> QED BY <3>1, <3>2 DEF Listing
  <2> QED BY <2>1, <2>2 DEF Recorded
<1>12. Listing(f) = Recorded(m)
  BY <1>10, <1>11
<1> QED BY <1>2, <1>5, <1>9, <1>12 DEF m

\* Whatever an import finds, it leaves the records and generations as they are, and
\* reads them when it ends well.
LEMMA ImportReplays ==
  ASSUME NEW d, IsDisk(d), NEW fresh, fresh => IsSound(d), NEW i, i = Import(d)
  PROVE  LET w == Replay(fresh, DurableRecords(d), DurableGenerations(d)) IN
         /\ i.script \in Seq(Calls) /\ i.ok \in BOOLEAN
         /\ Follows(d, i.script, w)
         /\ i.ok => /\ IsMemory(i.memory)
                    /\ DurableRecords(d) = Recorded(i.memory)
                    /\ DurableGenerations(d) = i.memory.generations
                    /\ NoJournal(ApplyAll(d, i.script))
         /\ NoJournal(d) => i.script = <<>>
<1> DEFINE w == Replay(fresh, DurableRecords(d), DurableGenerations(d))
           x == ReplayDeletion(d)
           restored == ApplyAll(d, x.script)
           y == ReplayMigration(restored)
           script == x.script \o y.script
           imported == ApplyAll(d, script)
           ok == x.ok /\ PayloadsAreDescribed(restored) /\ y.ok
<1>1. /\ x.ok \in BOOLEAN
      /\ d.deletion = None => x.script = <<>> /\ x.ok
  BY DeletionReplays
<1>2. PICK e : /\ Leads(d, x.script, e, w)
               /\ d.deletion = None \/ ~x.ok => e = d
               /\ d.deletion # None /\ x.ok => NoJournal(e) /\ e.index = x.generations
  BY DeletionReplays
<1>3. restored = e
  BY <1>2 DEF Leads
<1>4. /\ IsDisk(e) /\ (fresh => IsSound(e))
      /\ DurableRecords(e) = DurableRecords(d) /\ DurableGenerations(e) = DurableGenerations(d)
  BY <1>2, LeadsToState DEF IsState, Replay
<1>5. x.ok => e.deletion = None
  BY <1>2 DEF NoJournal
<1>6. /\ ok \in BOOLEAN
      /\ i = IF ~x.ok \/ ~PayloadsAreDescribed(restored) \/ ~y.ok
             THEN [script |-> x.script, ok |-> FALSE, memory |-> None]
             ELSE [script |-> script, ok |-> TRUE,
                   memory |-> [entries |-> StoredEntries(imported),
                               raws |-> StoredRaws(imported),
                               generations |-> y.generations]]
  BY DEF Import
<1>7. /\ ~ok => i.script = x.script /\ i.ok = FALSE
      /\ ok => /\ i.script = script /\ i.ok = TRUE
               /\ i.memory = [entries |-> StoredEntries(imported),
                              raws |-> StoredRaws(imported), generations |-> y.generations]
  <2> HIDE DEF x, y, restored, script, imported
  <2> QED BY <1>6
<1> HIDE DEF x, restored, w
<1>8. ASSUME x.ok
      PROVE  /\ y.ok \in BOOLEAN
             /\ e.migration = None => y.script = <<>> /\ y.ok /\ y.generations = e.index
             /\ y.ok => \E g : Leads(e, y.script, g, w) /\ NoJournal(g) /\ g.index = y.generations
  BY <1>3, <1>4, <1>5, <1>8, MigrationReplays DEF w
<1> HIDE DEF y
<1>9. ASSUME ok
      PROVE  /\ Leads(d, script, imported, w) /\ NoJournal(imported)
             /\ imported.index = y.generations
  <2>1. PICK g : Leads(e, y.script, g, w) /\ NoJournal(g) /\ g.index = y.generations
    BY <1>8, <1>9
  <2>2. Leads(d, script, g, w)
    <3>1. CASE d.deletion = None
      <4>1. e = d /\ script = <<>> \o y.script
        BY <1>1, <1>2, <3>1
      <4>2. y.script \in Seq(Calls)
        BY <2>1 DEF Leads
      <4>3. script = y.script
        BY <4>1, <4>2
      <4> QED BY <2>1, <4>1, <4>3
    <3>2. CASE d.deletion # None
      <4>1. NoJournal(e) /\ y.script = <<>>
        BY <1>2, <1>8, <1>9, <3>2 DEF NoJournal
      <4>2. x.script \in Seq(Calls)
        BY <1>2 DEF Leads
      <4>3. script = x.script
        BY <4>1, <4>2
      <4>4. Leads(e, <<>>, e, w)
        <5>1. IsState(e, w)
          BY <1>2, LeadsToState
        <5> QED BY <5>1, NothingLeads
      <4>5. g = e
        BY <2>1, <4>1, <4>4 DEF Leads
      <4> QED BY <1>2, <4>3, <4>5
    <3> QED BY <3>1, <3>2
  <2>3. imported = g
    BY <2>2 DEF Leads
  <2> QED BY <2>1, <2>2, <2>3
<1>10. ASSUME ~ok
       PROVE  i.script \in Seq(Calls) /\ Follows(d, i.script, w) /\ i.ok = FALSE
  BY <1>2, <1>7, <1>10 DEF Leads
<1> HIDE DEF script, imported
<1>11. ASSUME ok
       PROVE  /\ i.script \in Seq(Calls) /\ Follows(d, i.script, w) /\ i.ok = TRUE
              /\ IsMemory(i.memory)
              /\ DurableRecords(d) = Recorded(i.memory)
              /\ DurableGenerations(d) = i.memory.generations
              /\ NoJournal(ApplyAll(d, i.script))
  <2>1. i.memory = Read(imported)
    BY <1>7, <1>9, <1>11 DEF Read
  <2>2. /\ IsDisk(imported) /\ DurableRecords(imported) = DurableRecords(d)
        /\ DurableGenerations(imported) = DurableGenerations(d)
    BY <1>9, <1>11, LeadsToState DEF IsState, Replay, w
  <2>3. /\ IsMemory(Read(imported))
        /\ DurableRecords(imported) = Recorded(Read(imported))
        /\ DurableGenerations(imported) = Read(imported).generations
    BY <1>9, <1>11, <2>2, ReadIsFaithful
  <2>4. imported = ApplyAll(d, script) /\ i.script = script /\ i.ok = TRUE
    BY <1>7, <1>11 DEF imported
  <2>5. Leads(d, script, imported, w) /\ NoJournal(imported)
    BY <1>9, <1>11
  <2> HIDE DEF ok
  <2> QED BY <2>1, <2>2, <2>3, <2>4, <2>5 DEF Leads
<1>12. ASSUME NoJournal(d)
       PROVE  i.script = <<>>
  <2>1. d.deletion = None /\ d.migration = None
    BY <1>12 DEF NoJournal
  <2>2. x.script = <<>> /\ x.ok /\ e = d
    BY <1>1, <1>2, <2>1
  <2>3. y.script = <<>>
    BY <1>8, <2>1, <2>2
  <2>4. script = <<>>
    <3>1. <<>> \o <<>> = <<>>
      OBVIOUS
    <3> QED BY <2>2, <2>3, <3>1 DEF script
  <2> QED BY <1>7, <2>2, <2>4
<1>13. ok \/ ~ok
  OBVIOUS
<1> HIDE DEF ok
<1>14. i.script \in Seq(Calls) /\ i.ok \in BOOLEAN /\ Follows(d, i.script, w)
  BY <1>10, <1>11, <1>13
<1>15. i.ok => ok
  BY <1>10, <1>13
<1> QED BY <1>11, <1>12, <1>14, <1>15 DEF w

------------------------------------------------------------------------------
(* Restarts.                                                                 *)

LEMMA PayloadsDescribed ==
  ASSUME NEW d, IsDisk(d), Described(d.files),
         \A i \in Keys : Payload(i) \in DOMAIN d.files => Metadata(i) \in DOMAIN d.files
  PROVE  PayloadsAreDescribed(d)
<1>1. DOMAIN d.files \subseteq Artifacts
  BY DEF IsDisk, IsDirectory
<1>2. \A i : i \in Identifiers(d, "payload") <=> i \in Keys /\ Payload(i) \in DOMAIN d.files
  BY <1>1, IdentifiersAre
<1>3. \A i : i \in Identifiers(d, "metadata") <=> i \in Keys /\ Metadata(i) \in DOMAIN d.files
  BY <1>1, IdentifiersAre
<1> QED BY <1>2, <1>3 DEF PayloadsAreDescribed, Described

LEMMA NoOrphan ==
  ASSUME NEW d, IsDisk(d), ~OrphanPayload(d)
  PROVE  \A i \in Keys : Payload(i) \in DOMAIN d.files => Metadata(i) \in DOMAIN d.files
<1>1. DOMAIN d.files \subseteq Artifacts
  BY DEF IsDisk, IsDirectory
<1>2. \A i \in Keys : Payload(i) \in DOMAIN d.files => i \in Identifiers(d, "payload")
  BY DEF Identifiers, Payload
<1>3. \A i : i \in Identifiers(d, "metadata") => Metadata(i) \in DOMAIN d.files
  BY <1>1 DEF Identifiers, Artifacts, Metadata
<1> QED BY <1>2, <1>3 DEF OrphanPayload

LEMMA MigrationFitsReplays ==
  ASSUME NEW d, IsDisk(d), d.migration # None, MigrationFits(d)
  PROVE  ReplayMigration(d).ok
<1> DEFINE j == d.migration
<1>1. j \in MigrationJournals
  BY DEF IsDisk
<1>4. j.snapshots \subseteq Nat /\ j.raws \subseteq Keys /\ DOMAIN d.files \subseteq Artifacts
  BY <1>1 DEF MigrationJournals, IsDisk, IsDirectory
<1>2. j.snapshots \subseteq Identifiers(d, "snapshot")
  BY <1>4, IdentifiersAre DEF MigrationFits
<1>3. j.raws \subseteq Identifiers(d, "metadata")
  BY <1>4, IdentifiersAre DEF MigrationFits
<1> QED BY <1>2, <1>3 DEF MigrationFits, ReplayMigration

LEMMA DeletionFitsReplays ==
  ASSUME NEW d, IsDisk(d), d.deletion # None, DeletionFits(d), ~TrimsOthers(d)
  PROVE  ReplayDeletion(d).ok
<1> DEFINE j == d.deletion
<1>1. j \in DeletionJournals /\ DOMAIN d.files \cap DOMAIN d.tombs = {}
  BY DEF IsDisk
<1>2. DeletionSchema(j) /\ IndexFits(j, d.index)
  BY DEF DeletionFits, IndexFits
<1>3. CASE j.phase = "preparing"
  <2>1. \A f \in j.entries : (f \in DOMAIN d.files) # (f \in DOMAIN d.tombs)
    BY <1>1, <1>3 DEF DeletionFits
  <2>2. OneName(d, j)
    BY <2>1 DEF OneName
  <2>3. BindsArtifacts(d, j)
    BY <2>2 DEF BindsArtifacts, TrimsOthers
  <2>4. RollBack(d, j).ok
    BY <2>1, <2>3 DEF RollBack
  <2> QED BY <1>2, <1>3, <2>4 DEF ReplayDeletion
<1>4. CASE j.phase # "preparing"
  <2>1. j.entries \cap DOMAIN d.files = {} /\ d.index = j.next
    BY <1>4 DEF DeletionFits
  <2>2. d.index # j.previous
    BY <1>2, <2>1 DEF DeletionSchema, ChangedKeys
  <2>3. RollForward(d, j).ok
    BY <2>1, <2>2 DEF RollForward
  <2> QED BY <1>2, <1>4, <2>3 DEF ReplayDeletion
<1> QED BY <1>3, <1>4

\* An import accepts a directory in order, but for the two it refuses.
LEMMA SoundRestarts ==
  ASSUME NEW d, IsDisk(d), IsSound(d), ~OrphanPayload(d), ~TrimsOthers(d)
  PROVE  Import(d).ok
<1> DEFINE x == ReplayDeletion(d)
           restored == ApplyAll(d, x.script)
           y == ReplayMigration(restored)
           w == Replay(TRUE, DurableRecords(d), DurableGenerations(d))
<1>1. x.ok
  <2>1. d.deletion = None => x.ok
    BY DeletionReplays
  <2>2. d.deletion # None => x.ok
    BY DeletionFitsReplays DEF IsSound
  <2> QED BY <2>1, <2>2
<1>2. PICK e : /\ Leads(d, x.script, e, w)
               /\ d.deletion = None \/ ~x.ok => e = d
               /\ d.deletion # None /\ x.ok =>
                    NoJournal(e) /\ e.index = x.generations /\ e.files = Believed(d)
  BY DeletionReplays
<1>3. restored = e
  BY <1>2 DEF Leads
<1>4. IsDisk(e) /\ IsSound(e)
  BY <1>2, LeadsToState DEF IsState, Replay
<1>5. e.files = Believed(d) /\ e.deletion = None
  BY <1>1, <1>2 DEF Believed, NoJournal
<1>6. Described(e.files)
  <2>1. Believed(e) = e.files
    BY <1>5 DEF Believed
  <2> QED BY <1>4, <2>1 DEF IsSound, Described
<1>7. \A i \in Keys : Payload(i) \in DOMAIN d.files => Metadata(i) \in DOMAIN d.files
  BY NoOrphan
<1>8. ASSUME NEW i \in Keys, Payload(i) \in DOMAIN e.files
      PROVE  Metadata(i) \in DOMAIN e.files
  <2>1. CASE d.deletion # None /\ d.deletion.phase = "preparing"
    <3> DEFINE t == Only(d.tombs, d.deletion.entries \cap DOMAIN d.tombs)
               E == d.deletion.entries
    <3>1. e.files = Over(d.files, t)
      BY <1>5, <2>1 DEF Believed
    <3>2. \A z : z \in DOMAIN t <=> z \in E /\ z \in DOMAIN d.tombs
      BY OnlyIs
    <3> HIDE DEF t
    <3>3. \A z : z \in DOMAIN e.files <=> z \in DOMAIN d.files \/ z \in DOMAIN t
      BY <3>1, OverIs
    <3>4. E \subseteq DOMAIN d.files \cup DOMAIN d.tombs /\ DeletionSchema(d.deletion)
      BY <2>1 DEF IsSound, DeletionFits
    <3>5. Payload(i) \in E => Metadata(i) \in E
      BY <3>4 DEF DeletionSchema, Payload
    <3> QED BY <1>7, <1>8, <3>2, <3>3, <3>4, <3>5
  <2>2. CASE ~(d.deletion # None /\ d.deletion.phase = "preparing")
    BY <1>5, <1>7, <1>8, <2>2 DEF Believed
  <2> QED BY <2>1, <2>2
<1>9. PayloadsAreDescribed(e)
  BY <1>4, <1>6, <1>8, PayloadsDescribed
<1>10. ReplayMigration(e).ok
  <2>1. e.migration = None => ReplayMigration(e).ok
    BY DEF ReplayMigration, NoReplay
  <2>2. e.migration # None => ReplayMigration(e).ok
    BY <1>4, MigrationFitsReplays DEF IsSound
  <2> QED BY <2>1, <2>2
<1>11. Import(d).ok = IF ~x.ok \/ ~PayloadsAreDescribed(restored) \/ ~y.ok THEN FALSE ELSE TRUE
  BY DEF Import
<1> HIDE DEF x, restored
<1> QED BY <1>1, <1>3, <1>9, <1>10, <1>11

------------------------------------------------------------------------------
(* Records of files.                                                         *)

LEMMA CleanDisk ==
  ASSUME NEW d, IsDisk(d), NoJournal(d)
  PROVE  d = Half(d.files, {}, {}, d.index, None)
<1>1. \A k : d = Moving(d.files, {}, k, d.index, None)
  BY DiskMoving DEF NoJournal
<1>2. IsFunction(d.files)
  BY DEF IsDisk, IsDirectory
<1> QED BY <1>1, <1>2, MovingOrHalf

\* A file and the record it holds, either way.
LEMMA ListingIs ==
  ASSUME NEW f, DOMAIN f \subseteq Artifacts
  PROVE  /\ \A i : Snapshot(i) \in DOMAIN f =>
                     [kind |-> "snapshot", id |-> i, key |-> f[Snapshot(i)]] \in Listing(f)
         /\ \A i : Metadata(i) \in DOMAIN f =>
                     [kind |-> "metadata", id |-> i, key |-> f[Metadata(i)]] \in Listing(f)
         /\ \A r \in Listing(f) :
              \/ /\ r = [kind |-> "snapshot", id |-> r.id, key |-> r.key] /\ r.id \in Nat
                 /\ Snapshot(r.id) \in DOMAIN f /\ r.key = f[Snapshot(r.id)]
              \/ /\ r = [kind |-> "metadata", id |-> r.id, key |-> r.key] /\ r.id \in Keys
                 /\ Metadata(r.id) \in DOMAIN f /\ r.key = f[Metadata(r.id)]
<1>1. ASSUME NEW i, Snapshot(i) \in DOMAIN f
      PROVE  [kind |-> "snapshot", id |-> i, key |-> f[Snapshot(i)]] \in Listing(f)
  <2>1. Snapshot(i).kind = "snapshot" /\ Snapshot(i).id = i
    BY DEF Snapshot
  <2> QED BY <1>1, <2>1 DEF Listing
<1>2. ASSUME NEW i, Metadata(i) \in DOMAIN f
      PROVE  [kind |-> "metadata", id |-> i, key |-> f[Metadata(i)]] \in Listing(f)
  <2>1. Metadata(i).kind = "metadata" /\ Metadata(i).id = i
    BY DEF Metadata
  <2> QED BY <1>2, <2>1 DEF Listing
<1>3. ASSUME NEW r \in Listing(f)
      PROVE  \/ /\ r = [kind |-> "snapshot", id |-> r.id, key |-> r.key] /\ r.id \in Nat
                /\ Snapshot(r.id) \in DOMAIN f /\ r.key = f[Snapshot(r.id)]
             \/ /\ r = [kind |-> "metadata", id |-> r.id, key |-> r.key] /\ r.id \in Keys
                /\ Metadata(r.id) \in DOMAIN f /\ r.key = f[Metadata(r.id)]
  <2>1. PICK x \in DOMAIN f : /\ x.kind # "payload"
                              /\ r = [kind |-> x.kind, id |-> x.id, key |-> f[x]]
    BY DEF Listing
  <2>2. CASE x.kind = "snapshot"
    <3>1. x = Snapshot(x.id) /\ x.id \in Nat
      BY <2>2 DEF Artifacts, Snapshot
    <3> QED BY <2>1, <2>2, <3>1
  <2>3. CASE x.kind # "snapshot"
    <3>1. x = Metadata(x.id) /\ x.id \in Keys /\ x.kind = "metadata"
      BY <2>1, <2>3 DEF Artifacts, Metadata
    <3> QED BY <2>1, <3>1
  <2> QED BY <2>2, <2>3
<1> QED BY <1>1, <1>2, <1>3

\* The records of a memory, file by file.
LEMMA RecordedIs ==
  ASSUME NEW m
  PROVE  /\ \A e \in m.entries : [kind |-> "snapshot", id |-> e.id, key |-> e.key] \in Recorded(m)
         /\ \A e \in m.raws : [kind |-> "metadata", id |-> e.id, key |-> e.key] \in Recorded(m)
         /\ \A r \in Recorded(m) :
              \/ \E e \in m.entries : r = [kind |-> "snapshot", id |-> e.id, key |-> e.key]
              \/ \E e \in m.raws : r = [kind |-> "metadata", id |-> e.id, key |-> e.key]
BY DEF Recorded

\* What a memory holds is there, where the directory agrees with it.
LEMMA RecordedIsThere ==
  ASSUME NEW m, NEW f, DOMAIN f \subseteq Artifacts, Recorded(m) \subseteq Listing(f)
  PROVE  /\ \A e \in m.entries : Snapshot(e.id) \in DOMAIN f /\ f[Snapshot(e.id)] = e.key
         /\ \A e \in m.raws : Metadata(e.id) \in DOMAIN f /\ f[Metadata(e.id)] = e.key
<1>1. ASSUME NEW e \in m.entries
      PROVE  Snapshot(e.id) \in DOMAIN f /\ f[Snapshot(e.id)] = e.key
  <2> DEFINE r == [kind |-> "snapshot", id |-> e.id, key |-> e.key]
  <2>1. r \in Listing(f) /\ r.kind = "snapshot" /\ r.id = e.id /\ r.key = e.key
    BY RecordedIs
  <2> HIDE DEF r
  <2> QED BY <2>1, ListingIs
<1>2. ASSUME NEW e \in m.raws
      PROVE  Metadata(e.id) \in DOMAIN f /\ f[Metadata(e.id)] = e.key
  <2> DEFINE r == [kind |-> "metadata", id |-> e.id, key |-> e.key]
  <2>1. r \in Listing(f) /\ r.kind = "metadata" /\ r.id = e.id /\ r.key = e.key
    BY RecordedIs
  <2> HIDE DEF r
  <2> QED BY <2>1, ListingIs
<1> QED BY <1>1, <1>2

\* The records of fewer files.
LEMMA FewerRecords ==
  ASSUME NEW f, DOMAIN f \subseteq Artifacts, NEW E
  PROVE  LET g == Only(f, DOMAIN f \ E) IN
         /\ DOMAIN g \subseteq Artifacts
         /\ Listing(g) \subseteq Listing(f)
         /\ \A x : x \in DOMAIN g <=> x \in DOMAIN f /\ x \notin E
         /\ \A x \in DOMAIN g : g[x] = f[x]
<1> DEFINE g == Only(f, DOMAIN f \ E)
<1>1. (\A x : x \in DOMAIN g <=> x \in DOMAIN f /\ x \notin E) /\ \A x \in DOMAIN g : g[x] = f[x]
  BY OnlyIs
<1> HIDE DEF g
<1>2. DOMAIN g \subseteq Artifacts
  BY <1>1
<1>3. Listing(g) \subseteq Listing(f)
  BY <1>1 DEF Listing
<1> QED BY <1>1, <1>2, <1>3 DEF g

------------------------------------------------------------------------------
(* Plans that write one index or a deletion.                                 *)

LEMMA AdvanceCounts ==
  ASSUME NEW g \in Generations, NEW keys \in SUBSET Keys, keys # {}
  PROVE  /\ Advance(g, keys) \in Generations /\ Advance(g, keys) # g
         /\ \A k \in Keys : Advance(g, keys)[k] = g[k] + IF k \in keys THEN 1 ELSE 0
<1>1. /\ Advance(g, keys) \in Generations
      /\ \A k \in Keys : Advance(g, keys)[k] = g[k] + IF k \in keys THEN 1 ELSE 0
  BY DEF Advance, Generations
<1>2. PICK k \in Keys : k \in keys
  OBVIOUS
<1>3. Advance(g, keys)[k] = g[k] + 1 /\ g[k] \in Nat
  BY <1>1, <1>2 DEF Generations
<1> QED BY <1>1, <1>3

\* Records that go with a generation of each document they belonged to.
LEMMA DiscardsAre ==
  ASSUME NEW f, DOMAIN f \subseteq Artifacts, NEW E, NEW keys \in SUBSET Keys, keys # {},
         \A x \in DOMAIN f : x \in E /\ x.kind # "payload" => f[x] \in keys, NEW p
  PROVE  Discards(Listing(f), Listing(Only(f, DOMAIN f \ E)), p, Advance(p, keys))
<1> DEFINE g == Only(f, DOMAIN f \ E)
<1>1. /\ DOMAIN g \subseteq Artifacts
      /\ Listing(g) \subseteq Listing(f)
      /\ \A x : x \in DOMAIN g <=> x \in DOMAIN f /\ x \notin E
      /\ \A x \in DOMAIN g : g[x] = f[x]
  BY FewerRecords
<1> HIDE DEF g
<1>2. ASSUME NEW r \in Listing(f) \ Listing(g)
      PROVE  r.key \in keys
  <2>1. CASE /\ r = [kind |-> "snapshot", id |-> r.id, key |-> r.key]
             /\ Snapshot(r.id) \in DOMAIN f /\ r.key = f[Snapshot(r.id)]
    <3>1. Snapshot(r.id) \in E
      <4> SUFFICES ASSUME Snapshot(r.id) \notin E PROVE FALSE
        OBVIOUS
      <4>1. Snapshot(r.id) \in DOMAIN g /\ g[Snapshot(r.id)] = r.key
        BY <1>1, <2>1
      <4>2. [kind |-> "snapshot", id |-> r.id, key |-> g[Snapshot(r.id)]] \in Listing(g)
        BY <1>1, <4>1, ListingIs
      <4> QED BY <2>1, <4>1, <4>2
    <3>2. Snapshot(r.id).kind # "payload"
      BY DEF Snapshot
    <3> QED BY <2>1, <3>1, <3>2
  <2>2. CASE /\ r = [kind |-> "metadata", id |-> r.id, key |-> r.key]
             /\ Metadata(r.id) \in DOMAIN f /\ r.key = f[Metadata(r.id)]
    <3>1. Metadata(r.id) \in E
      <4> SUFFICES ASSUME Metadata(r.id) \notin E PROVE FALSE
        OBVIOUS
      <4>1. Metadata(r.id) \in DOMAIN g /\ g[Metadata(r.id)] = r.key
        BY <1>1, <2>2
      <4>2. [kind |-> "metadata", id |-> r.id, key |-> g[Metadata(r.id)]] \in Listing(g)
        BY <1>1, <4>1, ListingIs
      <4> QED BY <2>2, <4>1, <4>2
    <3>2. Metadata(r.id).kind # "payload"
      BY DEF Metadata
    <3> QED BY <2>2, <3>1, <3>2
  <2> QED BY <2>1, <2>2, ListingIs
<1>3. {r.key : r \in Listing(f) \ Listing(g)} \subseteq keys
  BY <1>2
<1>4. Discards(Listing(f), Listing(g), p, Advance(p, keys))
  BY <1>1, <1>3 DEF Discards
<1> QED BY <1>4 DEF g

\* A generation that is counted without a journal, as nothing is removed.
LEMMA IndexIsWritten ==
  ASSUME NEW F, IsDirectory(F), NEW i \in Generations, NEW p, NEW n \in Generations,
         NEW w, w.kind = "write",
         w.trusted => /\ i = p /\ w.before = p /\ w.after = n
                      /\ Discards(Listing(F), Listing(F), p, n),
         w.fresh => Described(F)
  PROVE  Leads(Half(F, {}, {}, i, None), <<Index(n)>>, Half(F, {}, {}, n, None), w)
<1> DEFINE d == Half(F, {}, {}, i, None)
           e == Half(F, {}, {}, n, None)
           c == Index(n)
<1>1. Only(F, DOMAIN F \ {}) = F
  BY EverythingStays DEF IsDirectory
<1>2. /\ DurableRecords(d) = Listing(F) /\ DurableGenerations(d) = i
      /\ DurableRecords(e) = Listing(F) /\ DurableGenerations(e) = n
  BY <1>1, HalfCommitted
<1>3. IsState(d, w) /\ IsState(e, w)
  <2>1. IsDisk(d) /\ IsDisk(e)
    BY HalfIsDisk
  <2>2. w.fresh => IsSound(d) /\ IsSound(e)
    BY <1>1, HalfCommittedIsSound
  <2> HIDE DEF d, e
  <2> QED BY <2>1, <2>2, WrittenState
<1>4. c \in Calls /\ c.files = {} /\ c.call \notin {"bury", "unbury"}
  <2>1. c \in Calls
    BY DEF Calls, SingleCalls, Index
  <2> QED BY <2>1, SinglesAre
<1>5. Apply(d, c) = e
  BY HalfIndexed
<1> HIDE DEF d, e, c
<1>6. IsStep(d, e, w)
  BY <1>2 DEF IsStep
<1>7. Allowed(d, c, w)
  BY <1>3, <1>4, <1>5, <1>6, SingleIsAllowed
<1>8. Leads(d, <<c>>, e, w)
  BY <1>3, <1>4, <1>5, <1>7, LastLeads
<1> QED BY <1>8 DEF d, e, c

\* A deletion as it is planned over the directory d.
LEMMA DeletionIsPlanned ==
  ASSUME NEW d, NEW artifacts, NEW F, IsDirectory(F),
         NEW E, E = artifacts \cap DOMAIN d.files, E \subseteq DOMAIN F,
         NEW i \in Generations, NEW p \in Generations, NEW n \in Generations,
         NEW w, w.kind = "write",
         w.trusted => /\ i = p /\ w.before = p /\ w.after = n
                      /\ Discards(Listing(F), Listing(Only(F, DOMAIN F \ E)), p, n),
         w.fresh => /\ i = p /\ Described(F) /\ Described(Only(F, DOMAIN F \ E))
                    /\ E # {} => DeletionSchema([entries |-> E, phase |-> "preparing",
                                                 previous |-> p, next |-> n])
  PROVE  Leads(Half(F, {}, {}, i, None), CommitDeletion(d, artifacts, p, n),
               Half(F, E, {}, n, None), w)
<1>1. CASE E = {}
  <2>1. Only(F, DOMAIN F \ {}) = F
    BY EverythingStays DEF IsDirectory
  <2>2. CommitDeletion(d, artifacts, p, n) = <<Index(n)>>
    BY <1>1 DEF CommitDeletion
  <2>3. Leads(Half(F, {}, {}, i, None), <<Index(n)>>, Half(F, {}, {}, n, None), w)
    BY <1>1, <2>1, IndexIsWritten
  <2> QED BY <1>1, <2>2, <2>3
<1>2. CASE E # {}
  <2> DEFINE jp == [entries |-> E, phase |-> "preparing", previous |-> p, next |-> n]
             jc == [entries |-> E, phase |-> "committed", previous |-> p, next |-> n]
  <2>1. CommitDeletion(d, artifacts, p, n)
          = <<Deletion(jp), Bury(E), Index(n), Deletion(jc), Unlink(E), Deletion(None)>>
    BY <1>2 DEF CommitDeletion
  <2>2. Leads(Half(F, {}, {}, i, None),
              <<Deletion(jp), Bury(E), Index(n), Deletion(jc), Unlink(E), Deletion(None)>>,
              Half(F, E, {}, n, None), w)
    BY <1>2, DeletionIsWritten
  <2> QED BY <2>1, <2>2
<1> QED BY <1>1, <1>2

------------------------------------------------------------------------------
(* Memory beside the directory.                                              *)

\* The directory g lists the record r of the file x beside those of f.
ListsMore(g, f, x, k, r) ==
  /\ r \notin Listing(f)
  /\ \A s : s \in Listing(g) <=> s \in Listing(f) \/ s = r
  /\ \A s \in Listing(f) : s.kind = r.kind => s.id # r.id
  /\ Listing(g) = Listing(f) \cup {r}

\* A file more is a record more.
LEMMA OneMoreRecord ==
  ASSUME NEW f, DOMAIN f \subseteq Artifacts, NEW x \in Artifacts, x.kind # "payload",
         x \notin DOMAIN f, NEW k, NEW g, g = Over(Named({x}, k), f),
         NEW r, r = [kind |-> x.kind, id |-> x.id, key |-> k]
  PROVE  ListsMore(g, f, x, k, r)
<1>1. /\ \A y : y \in DOMAIN g <=> y = x \/ y \in DOMAIN f
      /\ g[x] = k
      /\ \A y \in DOMAIN f : y # x => g[y] = f[y]
  <2> DEFINE T == {x}
  <2>1. /\ \A y : y \in DOMAIN g <=> y \in T \/ y \in DOMAIN f
        /\ \A y \in T : g[y] = k
        /\ \A y \in DOMAIN f : y \notin T => g[y] = f[y]
    BY RewrittenIs
  <2> QED BY <2>1
<1>2. \A y \in DOMAIN f : y.kind = x.kind => y.id # x.id
  <2>1. ASSUME NEW y \in Artifacts, y.kind = x.kind, y.id = x.id
        PROVE  y = x
    BY <2>1 DEF Artifacts
  <2> QED BY <2>1
<1>3. \A s \in Listing(f) : s.kind = r.kind => s.id # r.id
  <2>1. ASSUME NEW s \in Listing(f), s.kind = r.kind, s.id = r.id
        PROVE  FALSE
    <3>1. PICK y \in DOMAIN f : s = [kind |-> y.kind, id |-> y.id, key |-> f[y]]
      BY DEF Listing
    <3>2. y.kind = x.kind /\ y.id = x.id
      BY <2>1, <3>1
    <3> QED BY <1>2, <3>2
  <2> QED BY <2>1
<1>4. r \notin Listing(f)
  BY <1>3
<1>5. ASSUME NEW s \in Listing(g)
      PROVE  s \in Listing(f) \/ s = r
  <2>1. PICK y \in DOMAIN g : y.kind # "payload" /\ s = [kind |-> y.kind, id |-> y.id, key |-> g[y]]
    BY DEF Listing
  <2>2. CASE y = x
    BY <1>1, <2>1, <2>2
  <2>3. CASE y # x
    <3>1. y \in DOMAIN f /\ g[y] = f[y]
      BY <1>1, <2>3
    <3>2. s = [kind |-> y.kind, id |-> y.id, key |-> f[y]]
      BY <2>1, <3>1
    <3> QED BY <2>1, <3>1, <3>2 DEF Listing
  <2> QED BY <2>2, <2>3
<1>6. r \in Listing(g)
  <2>1. x \in DOMAIN g /\ r = [kind |-> x.kind, id |-> x.id, key |-> g[x]]
    BY <1>1
  <2> QED BY <2>1 DEF Listing
<1>7. ASSUME NEW s \in Listing(f)
      PROVE  s \in Listing(g)
  <2>1. PICK y \in DOMAIN f : y.kind # "payload" /\ s = [kind |-> y.kind, id |-> y.id, key |-> f[y]]
    BY DEF Listing
  <2>2. y \in DOMAIN g /\ g[y] = f[y]
    BY <1>1, <2>1
  <2>3. s = [kind |-> y.kind, id |-> y.id, key |-> g[y]]
    BY <2>1, <2>2
  <2> QED BY <2>1, <2>2, <2>3 DEF Listing
<1>8. \A s : s \in Listing(g) <=> s \in Listing(f) \/ s = r
  BY <1>5, <1>6, <1>7
<1> QED BY <1>3, <1>4, <1>8 DEF ListsMore

\* The memory with one record more beside the directory with one record more.
LEMMA NearAfterAdd ==
  ASSUME NEW m, NEW n, NEW old, NEW new, NEW r, NEW keys, Near(m, old, keys),
         \A s : s \in new <=> s \in old \/ s = r,
         \A s : s \in Recorded(n) <=> s \in Recorded(m) \/ s = r
  PROVE  Near(n, new, keys)
BY DEF Near

\* The records X and Y of the memory m are removed, which leaves n, and their files
\* E of the directory f.
Removes(m, f, X, Y, E, n) ==
  /\ X \subseteq m.entries /\ Y \subseteq m.raws
  /\ \A i : Snapshot(i) \in E /\ Snapshot(i) \in DOMAIN f <=> \E e \in X : e.id = i
  /\ \A i : Metadata(i) \in E /\ Metadata(i) \in DOMAIN f <=> \E e \in Y : e.id = i
  /\ n.entries = m.entries \ X /\ n.raws = m.raws \ Y

LEMMA NearAfterDiscard ==
  ASSUME NEW m, IsMemory(m), NEW f, DOMAIN f \subseteq Artifacts, NEW keys,
         Near(m, Listing(f), keys), NEW X, NEW Y, NEW E, NEW n, Removes(m, f, X, Y, E, n)
  PROVE  Near(n, Listing(Only(f, DOMAIN f \ E)), keys)
<1> DEFINE g == Only(f, DOMAIN f \ E)
<1>0. /\ X \subseteq m.entries /\ Y \subseteq m.raws
      /\ \A i : Snapshot(i) \in E /\ Snapshot(i) \in DOMAIN f <=> \E e \in X : e.id = i
      /\ \A i : Metadata(i) \in E /\ Metadata(i) \in DOMAIN f <=> \E e \in Y : e.id = i
      /\ n.entries = m.entries \ X /\ n.raws = m.raws \ Y
  BY DEF Removes
<1>1. /\ DOMAIN g \subseteq Artifacts
      /\ Listing(g) \subseteq Listing(f)
      /\ \A x : x \in DOMAIN g <=> x \in DOMAIN f /\ x \notin E
      /\ \A x \in DOMAIN g : g[x] = f[x]
  BY FewerRecords
<1>2. /\ \A e \in m.entries : Snapshot(e.id) \in DOMAIN f /\ f[Snapshot(e.id)] = e.key
      /\ \A e \in m.raws : Metadata(e.id) \in DOMAIN f /\ f[Metadata(e.id)] = e.key
  BY RecordedIsThere DEF Near
<1>3. m.entries \subseteq [id : Nat, key : Keys] /\ m.raws \subseteq [id : Keys, key : Keys]
  BY DEF IsMemory
<1> HIDE DEF g
<1>4. ASSUME NEW e \in n.entries
      PROVE  [kind |-> "snapshot", id |-> e.id, key |-> e.key] \in Listing(g)
  <2>1. e \in m.entries /\ e \notin X
    BY <1>0
  <2>2. Snapshot(e.id) \notin E
    <3>1. SUFFICES ASSUME NEW x \in X, x.id = e.id PROVE FALSE
      BY <1>0, <1>2, <2>1
    <3>2. x.key = f[Snapshot(x.id)] /\ e.key = f[Snapshot(e.id)]
      BY <1>0, <1>2, <2>1
    <3>3. x.key = e.key
      BY <3>1, <3>2
    <3>4. x \in [id : Nat, key : Keys] /\ e \in [id : Nat, key : Keys]
      BY <1>0, <1>3, <2>1
    <3>5. x = e
      BY <3>1, <3>3, <3>4
    <3> QED BY <2>1, <3>5
  <2>3. Snapshot(e.id) \in DOMAIN g /\ g[Snapshot(e.id)] = e.key
    BY <1>1, <1>2, <2>1, <2>2
  <2>4. [kind |-> "snapshot", id |-> e.id, key |-> g[Snapshot(e.id)]] \in Listing(g)
    BY <1>1, <2>3, ListingIs
  <2> QED BY <2>3, <2>4
<1>5. ASSUME NEW e \in n.raws
      PROVE  [kind |-> "metadata", id |-> e.id, key |-> e.key] \in Listing(g)
  <2>1. e \in m.raws /\ e \notin Y
    BY <1>0
  <2>2. Metadata(e.id) \notin E
    <3>1. SUFFICES ASSUME NEW x \in Y, x.id = e.id PROVE FALSE
      BY <1>0, <1>2, <2>1
    <3>2. x.key = f[Metadata(x.id)] /\ e.key = f[Metadata(e.id)]
      BY <1>0, <1>2, <2>1
    <3>3. x.key = e.key
      BY <3>1, <3>2
    <3>4. x \in [id : Keys, key : Keys] /\ e \in [id : Keys, key : Keys]
      BY <1>0, <1>3, <2>1
    <3>5. x = e
      BY <3>1, <3>3, <3>4
    <3> QED BY <2>1, <3>5
  <2>3. Metadata(e.id) \in DOMAIN g /\ g[Metadata(e.id)] = e.key
    BY <1>1, <1>2, <2>1, <2>2
  <2>4. [kind |-> "metadata", id |-> e.id, key |-> g[Metadata(e.id)]] \in Listing(g)
    BY <1>1, <2>3, ListingIs
  <2> QED BY <2>3, <2>4
<1>6. Recorded(n) \subseteq Listing(g)
  BY <1>4, <1>5, RecordedIs
<1>7. ASSUME NEW r \in Listing(g) \ Recorded(n)
      PROVE  r \notin Recorded(m)
  <2>1. ASSUME NEW e \in m.entries, r = [kind |-> "snapshot", id |-> e.id, key |-> e.key]
        PROVE  FALSE
    <3>1. r.kind = "snapshot" /\ r.id = e.id
      BY <2>1
    <3>2. Snapshot(e.id) \in DOMAIN g
      BY <1>1, <3>1, ListingIs
    <3>3. e \notin X
      BY <1>0, <1>1, <3>2
    <3>4. e \in n.entries
      BY <1>0, <3>3
    <3>5. [kind |-> "snapshot", id |-> e.id, key |-> e.key] \in Recorded(n)
      BY <3>4, RecordedIs
    <3> QED BY <1>7, <2>1, <3>5
  <2>2. ASSUME NEW e \in m.raws, r = [kind |-> "metadata", id |-> e.id, key |-> e.key]
        PROVE  FALSE
    <3>1. r.kind = "metadata" /\ r.id = e.id
      BY <2>2
    <3>2. Metadata(e.id) \in DOMAIN g
      BY <1>1, <3>1, ListingIs
    <3>3. e \notin Y
      BY <1>0, <1>1, <3>2
    <3>4. e \in n.raws
      BY <1>0, <3>3
    <3>5. [kind |-> "metadata", id |-> e.id, key |-> e.key] \in Recorded(n)
      BY <3>4, RecordedIs
    <3> QED BY <1>7, <2>2, <3>5
  <2> QED BY <2>1, <2>2, RecordedIs
<1>8. \A r \in Listing(g) \ Recorded(n) : r.key \in keys /\ (r.kind = "metadata" => r.id = r.key)
  BY <1>1, <1>7 DEF Near
<1>9. Near(n, Listing(g), keys)
  BY <1>6, <1>8 DEF Near
<1> QED BY <1>9 DEF g

------------------------------------------------------------------------------
(* New identifiers.                                                          *)

\* Numbers that are bounded have a greatest one.
LEMMA GreatestNumber ==
  ASSUME NEW S \in SUBSET Nat, S # {}, Bounded(S)
  PROVE  \E x \in S : \A y \in S : y <= x
<1> DEFINE U == {n \in Nat : \A y \in S : y <= n}
<1>1. PICK n \in Nat : \A y \in S : y < n
  BY DEF Bounded
<1>2. n \in U
  BY <1>1
<1>3. PICK x \in U : \A y \in U : x <= y
  <2> HIDE DEF U
  <2>1. U \in SUBSET Nat
    BY DEF U
  <2> QED BY <1>2, <2>1, LeastNumber
<1>4. x \in Nat /\ \A y \in S : y <= x
  BY <1>3
<1>5. x \in S
  <2>1. SUFFICES ASSUME x \notin S PROVE FALSE
    OBVIOUS
  <2>2. PICK z \in S : TRUE
    OBVIOUS
  <2>3. \A y \in S : y < x /\ y \in Nat
    BY <1>4, <2>1
  <2>4. x - 1 \in Nat
    BY <1>4, <2>2, <2>3
  <2>5. \A y \in S : y <= x - 1
    BY <1>4, <2>3
  <2>6. x - 1 \in U
    BY <2>4, <2>5
  <2>7. x <= x - 1
    BY <1>3, <2>6
  <2> QED BY <1>4, <2>7
<1> QED BY <1>4, <1>5

\* No file has the identifier of a new record.
LEMMA NewIdIsNew ==
  ASSUME IsDisk(disk)
  PROVE  NewId \in Nat /\ Snapshot(NewId) \notin DOMAIN disk.files
<1> DEFINE both == DOMAIN disk.files \cup DOMAIN disk.tombs
           ids == NumbersOf(both)
<1>1. /\ DOMAIN disk.files \subseteq Artifacts /\ Bounded(NumbersOf(DOMAIN disk.files))
      /\ DOMAIN disk.tombs \subseteq Artifacts /\ Bounded(NumbersOf(DOMAIN disk.tombs))
  BY DEF IsDisk, IsDirectory
<1>2. ids = NumbersOf(DOMAIN disk.files) \cup NumbersOf(DOMAIN disk.tombs)
  BY DEF NumbersOf
<1>3. /\ NumbersOf(DOMAIN disk.files) \in SUBSET Nat
      /\ NumbersOf(DOMAIN disk.tombs) \in SUBSET Nat
  BY <1>1, NumbersAre
<1>4. ids \in SUBSET Nat /\ Bounded(ids)
  BY <1>1, <1>2, <1>3, BoundedUnion
<1>5. NewId = IF ids = {} THEN 1 ELSE 1 + (CHOOSE i \in ids : \A j \in ids : j <= i)
  BY DEF NewId, NumbersOf
<1>6. ASSUME NEW i, Snapshot(i) \in DOMAIN disk.files
      PROVE  i \in ids
  <2>1. Snapshot(i).kind = "snapshot" /\ Snapshot(i).id = i
    BY DEF Snapshot
  <2>2. Snapshot(i) \in both
    BY <1>6
  <2> HIDE DEF both
  <2> QED BY <2>1, <2>2 DEF NumbersOf
<1> HIDE DEF ids
<1>7. NewId \in Nat /\ \A j \in ids : j < NewId
  <2>1. CASE ids = {}
    BY <1>5, <2>1
  <2>2. CASE ids # {}
    <3> DEFINE x == CHOOSE i \in ids : \A j \in ids : j <= i
    <3>1. \E i \in ids : \A j \in ids : j <= i
      BY <1>4, <2>2, GreatestNumber
    <3>2. x \in ids /\ \A j \in ids : j <= x
      BY <3>1
    <3>3. NewId = 1 + x
      BY <1>5, <2>2
    <3> HIDE DEF x
    <3> QED BY <1>4, <3>2, <3>3
  <2> QED BY <2>1, <2>2
<1>8. NewId \notin ids
  BY <1>7
<1> QED BY <1>6, <1>7, <1>8

------------------------------------------------------------------------------
(* Plans.                                                                    *)

\* What a mutation of the document k finds when it is planned over the memory m.
Planning(m, k, fresh, trusted, keys) ==
  /\ IsDisk(disk) /\ NoJournal(disk) /\ (fresh => IsSound(disk))
  /\ IsMemory(m)
  /\ fresh => trusted
  /\ trusted => m.generations = disk.index /\ Near(m, Listing(disk.files), keys)
  /\ k \in Keys \ keys

\* Its script is a transaction of k that ends with the memory planned.
Planned(plan, m, k, fresh, trusted, keys) ==
  /\ IsMemory(plan.memory) /\ plan.memory.generations # m.generations
  /\ \E e : /\ Leads(disk, plan.script, e,
                     Transaction(fresh, trusted, k, m.generations, plan.memory.generations))
            /\ trusted => Lands(e, plan.memory, keys)

LEMMA PlanningIs ==
  ASSUME NEW m, NEW k, NEW fresh, NEW trusted, NEW keys, Planning(m, k, fresh, trusted, keys)
  PROVE  /\ disk = Half(disk.files, {}, {}, disk.index, None)
         /\ IsDirectory(disk.files) /\ DOMAIN disk.files \subseteq Artifacts
         /\ disk.index \in Generations /\ m.generations \in Generations
         /\ fresh => Described(disk.files)
         /\ m.entries \subseteq [id : Nat, key : Keys] /\ m.raws \subseteq [id : Keys, key : Keys]
<1>1. IsDisk(disk) /\ NoJournal(disk)
  BY DEF Planning
<1>2. disk = Half(disk.files, {}, {}, disk.index, None)
  BY <1>1, CleanDisk
<1>3. IsDirectory(disk.files) /\ DOMAIN disk.files \subseteq Artifacts /\ disk.index \in Generations
  BY <1>1 DEF IsDisk, IsDirectory
<1>4. fresh => Described(disk.files)
  <2>1. Believed(disk) = disk.files
    BY <1>1, CleanDurable
  <2> QED BY <2>1 DEF Planning, IsSound, Described
<1>5. /\ m.generations \in Generations
      /\ m.entries \subseteq [id : Nat, key : Keys] /\ m.raws \subseteq [id : Keys, key : Keys]
  BY DEF Planning, IsMemory
<1> QED BY <1>2, <1>3, <1>4, <1>5

\* The journal of a deletion that counts the documents keys.
LEMMA SchemaHolds ==
  ASSUME NEW E, E \subseteq Artifacts, E # {}, \A i : Payload(i) \in E <=> Metadata(i) \in E,
         NEW p \in Generations, NEW keys \in SUBSET Keys, keys # {},
         NEW n, n = Advance(p, keys)
  PROVE  DeletionSchema([entries |-> E, phase |-> "preparing", previous |-> p, next |-> n])
<1> DEFINE j == [entries |-> E, phase |-> "preparing", previous |-> p, next |-> n]
<1>1. j.entries = E /\ j.previous = p /\ j.next = n
  OBVIOUS
<1> HIDE DEF j
<1>2. \A k \in Keys : /\ p[k] \in Nat /\ (k \in keys => n[k] = p[k] + 1)
                      /\ (k \notin keys => n[k] = p[k])
  BY DEF Advance, Generations
<1>3. \A k : k \in ChangedKeys(j) <=> k \in keys
  BY <1>1, <1>2 DEF ChangedKeys
<1>4. ASSUME NEW f \in E
      PROVE  /\ f.kind = "payload" => Metadata(f.id) \in E
             /\ f.kind = "metadata" => Payload(f.id) \in E
  <2>1. f \in Artifacts
    OBVIOUS
  <2>2. f.kind = "payload" => f = Payload(f.id)
    BY <2>1 DEF Artifacts, Payload
  <2>3. f.kind = "metadata" => f = Metadata(f.id)
    BY <2>1 DEF Artifacts, Metadata
  <2> QED BY <2>2, <2>3
<1>5. DeletionSchema(j)
  <2>1. ChangedKeys(j) # {}
    BY <1>3
  <2>2. \A k \in ChangedKeys(j) : j.next[k] = j.previous[k] + 1
    BY <1>1, <1>2, <1>3
  <2> QED BY <1>1, <1>4, <2>1, <2>2 DEF DeletionSchema
<1> QED BY <1>5 DEF j

\* A discard of records of k.
LEMMA DiscardIsPlanned ==
  ASSUME NEW m, NEW c, NEW k, k = c.caller, NEW fresh, NEW trusted, NEW keys,
         Planning(m, k, fresh, trusted, keys),
         c.removing.entries \subseteq RecordsOf(m, k).entries,
         c.removing.raws \subseteq RecordsOf(m, k).raws
  PROVE  Planned(DiscardPlan(c, m), m, k, fresh, trusted, keys)
<1> DEFINE X == c.removing.entries
           Y == c.removing.raws
           A == {Snapshot(e.id) : e \in X} \cup RawFiles({e.id : e \in Y})
           F == disk.files
           E == A \cap DOMAIN disk.files
           one == {k}
           p == m.generations
           n == Advance(p, one)
           after == [entries |-> m.entries \ X, raws |-> m.raws \ Y, generations |-> n]
           w == Transaction(fresh, trusted, k, p, n)
           e == Half(F, E, {}, n, None)
<1>1. /\ disk = Half(F, {}, {}, disk.index, None)
      /\ IsDirectory(F) /\ DOMAIN F \subseteq Artifacts
      /\ disk.index \in Generations /\ p \in Generations
      /\ fresh => Described(F)
      /\ m.entries \subseteq [id : Nat, key : Keys] /\ m.raws \subseteq [id : Keys, key : Keys]
  BY PlanningIs
<1>2. DiscardPlan(c, m) = [ok |-> TRUE, script |-> CommitDeletion(disk, A, p, n), memory |-> after]
  BY DEF DiscardPlan
<1>3. one \in SUBSET Keys /\ one # {} /\ k \in one
  BY DEF Planning
<1>4. n \in Generations /\ n # p
  BY <1>1, <1>3, AdvanceCounts
<1>5. /\ X \subseteq m.entries /\ Y \subseteq m.raws
      /\ \A x \in X : x.key \in one
      /\ \A x \in Y : x.key \in one
  BY DEF RecordsOf
<1>6. /\ \A i : Snapshot(i) \in A <=> \E x \in X : x.id = i
      /\ \A i : Metadata(i) \in A <=> \E x \in Y : x.id = i
      /\ \A i : Payload(i) \in A <=> \E x \in Y : x.id = i
      /\ \A x \in A : \/ \E y \in X : x = Snapshot(y.id)
                      \/ \E y \in Y : x = Metadata(y.id) \/ x = Payload(y.id)
  <2>1. A = {Snapshot(x.id) : x \in X} \cup RawFiles({x.id : x \in Y})
    OBVIOUS
  <2> HIDE DEF X, Y, A
  <2> QED BY <2>1 DEF Snapshot, Metadata, Payload, RawFiles
<1>7. /\ w.kind = "write" /\ w.fresh = fresh /\ w.trusted = trusted
      /\ w.before = p /\ w.after = n
  BY DEF Transaction
<1> HIDE DEF A, X, Y, one, n, w
<1>8. trusted => /\ \A x \in m.entries : Snapshot(x.id) \in DOMAIN F /\ F[Snapshot(x.id)] = x.key
                 /\ \A x \in m.raws : Metadata(x.id) \in DOMAIN F /\ F[Metadata(x.id)] = x.key
                 /\ disk.index = p
  BY <1>1, RecordedIsThere DEF Near, Planning
<1>9. trusted => Discards(Listing(F), Listing(Only(F, DOMAIN F \ E)), p, n)
  <2>1. SUFFICES ASSUME trusted PROVE Discards(Listing(F), Listing(Only(F, DOMAIN F \ E)), p, n)
    OBVIOUS
  <2>2. ASSUME NEW x \in DOMAIN F, x \in E, x.kind # "payload"
        PROVE  F[x] \in one
    <3>1. x \in A
      BY <2>2
    <3>2. CASE \E y \in X : x = Snapshot(y.id)
      BY <1>5, <1>8, <2>1, <3>2
    <3>3. CASE \E y \in Y : x = Metadata(y.id) \/ x = Payload(y.id)
      <4>1. PICK y \in Y : x = Metadata(y.id)
        BY <2>2, <3>3 DEF Payload
      <4> QED BY <1>5, <1>8, <2>1, <4>1
    <3> QED BY <1>6, <3>1, <3>2, <3>3
  <2> HIDE DEF E
  <2>3. Discards(Listing(F), Listing(Only(F, DOMAIN F \ E)), p, Advance(p, one))
    BY <1>1, <1>3, <2>2, DiscardsAre
  <2> QED BY <2>3 DEF n
<1>10. fresh => trusted
  BY DEF Planning
<1>11. fresh => \A i : Payload(i) \in E <=> Metadata(i) \in E
  <2>1. SUFFICES ASSUME fresh, NEW i PROVE Payload(i) \in E <=> Metadata(i) \in E
    OBVIOUS
  <2>2. ASSUME Payload(i) \in E
        PROVE  Metadata(i) \in E
    <3>1. PICK y \in Y : y.id = i
      BY <1>6, <2>2
    <3>2. Metadata(i) \in DOMAIN F
      BY <1>5, <1>8, <1>10, <2>1, <3>1
    <3> QED BY <1>6, <3>1, <3>2
  <2>3. ASSUME Metadata(i) \in E
        PROVE  Payload(i) \in E
    <3>1. PICK y \in Y : y.id = i
      BY <1>6, <2>3
    <3>2. i \in Keys
      BY <1>1, <1>5, <3>1
    <3>3. Payload(i) \in DOMAIN F
      BY <1>1, <2>1, <2>3, <3>2 DEF Described
    <3> QED BY <1>6, <3>1, <3>3
  <2> QED BY <2>2, <2>3
<1>12. fresh => Described(Only(F, DOMAIN F \ E))
  <2>1. SUFFICES ASSUME fresh PROVE Described(Only(F, DOMAIN F \ E))
    OBVIOUS
  <2>2. \A x : x \in DOMAIN Only(F, DOMAIN F \ E) <=> x \in DOMAIN F /\ x \notin E
    <3> HIDE DEF E, F
    <3> QED BY <1>1, FewerRecords
  <2> QED BY <1>1, <1>11, <2>1, <2>2 DEF Described
<1>13. fresh /\ E # {} => DeletionSchema([entries |-> E, phase |-> "preparing",
                                          previous |-> p, next |-> n])
  <2>1. SUFFICES ASSUME fresh, E # {}
                 PROVE  DeletionSchema([entries |-> E, phase |-> "preparing",
                                        previous |-> p, next |-> n])
    OBVIOUS
  <2>2. E \subseteq Artifacts
    BY <1>1
  <2>3. \A i : Payload(i) \in E <=> Metadata(i) \in E
    BY <1>11, <2>1
  <2> HIDE DEF E
  <2> QED BY <1>1, <1>3, <2>1, <2>2, <2>3, SchemaHolds DEF n
<1>14. Leads(disk, CommitDeletion(disk, A, p, n), e, w)
  <2>1. E = A \cap DOMAIN disk.files /\ E \subseteq DOMAIN F
    OBVIOUS
  <2> HIDE DEF E, F
  <2>2. Leads(Half(F, {}, {}, disk.index, None), CommitDeletion(disk, A, p, n),
              Half(F, E, {}, n, None), w)
    BY <1>1, <1>4, <1>7, <1>8, <1>9, <1>10, <1>12, <1>13, <2>1, DeletionIsPlanned
  <2> QED BY <1>1, <2>2
<1>15. IsMemory(after)
  <2>1. after.entries \subseteq m.entries /\ after.raws \subseteq m.raws /\ after.generations = n
    OBVIOUS
  <2>2. Bounded({x.id : x \in m.entries})
    BY DEF Planning, IsMemory
  <2>3. {x.id : x \in after.entries} \subseteq {x.id : x \in m.entries}
    BY <2>1
  <2>4. Bounded({x.id : x \in after.entries})
    BY <2>2, <2>3, BoundedSubset
  <2>5. after = [entries |-> after.entries, raws |-> after.raws, generations |-> after.generations]
    OBVIOUS
  <2> HIDE DEF after
  <2> QED BY <1>1, <1>4, <2>1, <2>4, <2>5 DEF IsMemory
<1>16. trusted => Lands(e, after, keys)
  <2>1. SUFFICES ASSUME trusted PROVE Lands(e, after, keys)
    OBVIOUS
  <2>2. e.deletion = None /\ e.migration = None /\ e.index = n
    BY ONLY DEF Half, Dir
  <2>3. DurableRecords(e) = Listing(Only(F, DOMAIN F \ E))
    BY HalfCommitted
  <2>4. \A i : Snapshot(i) \in E /\ Snapshot(i) \in DOMAIN F <=> \E x \in X : x.id = i
    BY <1>5, <1>6, <1>8, <2>1
  <2>5. \A i : Metadata(i) \in E /\ Metadata(i) \in DOMAIN F <=> \E x \in Y : x.id = i
    BY <1>5, <1>6, <1>8, <2>1
  <2>6. after.entries = m.entries \ X /\ after.raws = m.raws \ Y /\ after.generations = n
    OBVIOUS
  <2>7. IsMemory(m) /\ Near(m, Listing(F), keys)
    BY <2>1 DEF Planning
  <2>9. Removes(m, F, X, Y, E, after)
    BY <1>5, <2>4, <2>5, <2>6 DEF Removes
  <2> HIDE DEF E, F, after, e
  <2>8. Near(after, Listing(Only(F, DOMAIN F \ E)), keys)
    BY <1>1, <2>7, <2>9, NearAfterDiscard
  <2> QED BY <2>2, <2>3, <2>6, <2>8 DEF Lands, NoJournal
<1>17. after.generations = n
  OBVIOUS
<1>18. DiscardPlan(c, m).script = CommitDeletion(disk, A, p, n) /\ DiscardPlan(c, m).memory = after
  BY <1>2
<1> HIDE DEF after, e, p
<1> QED BY <1>4, <1>14, <1>15, <1>16, <1>17, <1>18 DEF Planned, w, p

\* A loop over one file.
LEMMA WriteOneIsAllowed ==
  ASSUME NEW d, IsDir(d), NEW x \in Artifacts, NEW k \in Keys, NEW w, IsState(d, w),
         NEW e, e = Apply(d, Write({x}, k)), IsStep(d, e, w)
  PROVE  Allowed(d, Write({x}, k), w)
<1> DEFINE S == {x}
           c == Write(S, k)
<1>1. \A y : y \in S <=> y = x
  OBVIOUS
<1>2. S \subseteq Artifacts
  OBVIOUS
<1> HIDE DEF S
<1>3. c \in LoopCalls /\ c \in Calls
  BY <1>2 DEF Calls, LoopCalls, Write
<1>4. c.files = S /\ c.call = "write"
  BY LoopsAre
<1>5. e = Apply(d, c)
  BY DEF S
<1> HIDE DEF c
<1>6. Partly(d, c, {}) = d /\ Partly(d, c, S) = Apply(d, c)
  BY <1>3, <1>4, LoopCommutes
<1>7. ASSUME NEW done \in SUBSET c.files, done # c.files
      PROVE  /\ IsState(Partly(d, c, done), w)
             /\ \A f \in c.files \ done :
                  IsStep(Partly(d, c, done), Partly(d, c, done \cup {f}), w)
  <2>1. done = {}
    BY <1>1, <1>4, <1>7
  <2>2. ASSUME NEW f \in c.files
        PROVE  done \cup {f} = S
    BY <1>1, <1>4, <2>1
  <2> QED BY <1>5, <1>6, <2>1, <2>2
<1>8. S # {}
  BY <1>1
<1> QED BY <1>3, <1>4, <1>7, <1>8 DEF Allowed, c, S

\* One file more in a directory without a journal.
LEMMA HalfWritten ==
  ASSUME NEW F, IsFunction(F), NEW S, NEW k, NEW G, G = Over(Named(S, k), F), NEW i
  PROVE  Apply(Half(F, {}, {}, i, None), Write(S, k)) = Half(G, {}, {}, i, None)
<1>1. IsFunction(G)
  BY RewrittenIs
<1>2. Only(F, DOMAIN F \ {}) = F /\ Only(G, DOMAIN G \ {}) = G
  BY <1>1, EverythingStays
<1>3. Only(F, {}) = Only(G, {})
  BY DEF Only
<1>4. Half(F, {}, {}, i, None) = Dir(F, Only(F, {}), i, None, None)
  BY <1>2 DEF Half
<1>5. Half(G, {}, {}, i, None) = Dir(G, Only(F, {}), i, None, None)
  BY <1>2, <1>3 DEF Half
<1> QED BY <1>4, <1>5, WriteApplied

\* The directory f with the file x of the document k.
IsMore(g, f, x, k) ==
  /\ IsDirectory(g) /\ DOMAIN g \subseteq Artifacts
  /\ \A y : y \in DOMAIN g <=> y = x \/ y \in DOMAIN f
  /\ g[x] = k
  /\ \A y \in DOMAIN f : y # x => g[y] = f[y]

LEMMA FileMore ==
  ASSUME NEW F, IsDirectory(F), NEW x \in Artifacts, NEW k \in Keys,
         NEW G, G = Over(Named({x}, k), F)
  PROVE  IsMore(G, F, x, k)
<1> DEFINE T == {x}
<1>1. \A y : y \in T <=> y = x
  OBVIOUS
<1>2. T \in SUBSET Artifacts /\ G = Over(Named(T, k), F)
  OBVIOUS
<1> HIDE DEF T
<1>3. Bounded(NumbersOf(T))
  <2>1. \A i \in NumbersOf(T) : i = x.id /\ x.kind = "snapshot"
    BY <1>1 DEF NumbersOf
  <2>2. x.kind = "snapshot" => x.id \in Nat
    BY DEF Artifacts
  <2>3. CASE x.kind = "snapshot"
    <3>1. x.id + 1 \in Nat /\ \A i \in NumbersOf(T) : i < x.id + 1
      BY <2>1, <2>2, <2>3
    <3> QED BY <3>1 DEF Bounded
  <2>4. CASE x.kind # "snapshot"
    <3>1. \A i \in NumbersOf(T) : i < 0
      BY <2>1, <2>4
    <3> QED BY <3>1 DEF Bounded
  <2> QED BY <2>3, <2>4
<1>4. IsDirectory(G)
  BY <1>2, <1>3, NamedDirectory, OverDirectory
<1>5. /\ \A y : y \in DOMAIN G <=> y \in T \/ y \in DOMAIN F
      /\ \A y \in T : G[y] = k
      /\ \A y \in DOMAIN F : y \notin T => G[y] = F[y]
  <2>1. /\ \A y : y \in DOMAIN Over(Named(T, k), F) <=> y \in T \/ y \in DOMAIN F
        /\ \A y \in T : Over(Named(T, k), F)[y] = k
        /\ \A y \in DOMAIN F : y \notin T => Over(Named(T, k), F)[y] = F[y]
    BY RewrittenIs
  <2> QED BY <1>2, <2>1
<1> QED BY <1>1, <1>4, <1>5 DEF IsDirectory, IsMore

\* The first call of a persist, in front of what follows it.
LEMMA AddLeads ==
  ASSUME NEW F, IsDirectory(F), NEW x \in Artifacts, NEW k \in Keys,
         NEW G, G = Over(Named({x}, k), F), NEW i \in Generations,
         NEW w, w.kind = "write", w.fresh => Described(F) /\ Described(G),
         w.trusted => \/ Listing(G) = Listing(F)
                      \/ Adds(Listing(F), Listing(G), w.key),
         NEW s, NEW e, Leads(Half(G, {}, {}, i, None), s, e, w)
  PROVE  Leads(Half(F, {}, {}, i, None), <<Write({x}, k)>> \o s, e, w)
<1> DEFINE d == Half(F, {}, {}, i, None)
           f == Half(G, {}, {}, i, None)
           c == Write({x}, k)
<1>1. IsDirectory(G)
  BY FileMore DEF IsMore
<1>2. Apply(d, c) = f
  BY HalfWritten DEF IsDirectory
<1>3. Only(F, DOMAIN F \ {}) = F /\ Only(G, DOMAIN G \ {}) = G
  BY <1>1, EverythingStays DEF IsDirectory
<1>4. /\ DurableRecords(d) = Listing(F) /\ DurableGenerations(d) = i
      /\ DurableRecords(f) = Listing(G) /\ DurableGenerations(f) = i
  BY <1>3, HalfCommitted
<1>5. IsState(d, w) /\ IsDir(d)
  <2>1. IsDisk(d)
    BY HalfIsDisk
  <2>2. w.fresh => IsSound(d)
    BY <1>3, HalfCommittedIsSound
  <2>3. IsDir(d)
    BY DirectoryOfHalf
  <2> HIDE DEF d
  <2> QED BY <2>1, <2>2, <2>3, WrittenState
<1>6. c \in Calls
  <2>1. {x} \subseteq Artifacts
    OBVIOUS
  <2> QED BY <2>1 DEF Calls, LoopCalls, Write
<1> HIDE DEF d, f
<1>7. IsStep(d, f, w)
  BY <1>4 DEF IsStep
<1>8. Allowed(d, c, w)
  BY <1>2, <1>5, <1>7, WriteOneIsAllowed
<1>9. Leads(f, s, e, w)
  BY DEF f
<1> HIDE DEF c
<1>10. Leads(d, <<c>> \o s, e, w)
  BY <1>2, <1>6, <1>8, <1>9, CallLeads
<1> QED BY <1>10 DEF d, c

\* A snapshot more, and those it trims.
LEMMA SnapshotIsPlanned ==
  ASSUME NEW m, NEW c, NEW k, k = c.caller, NEW fresh, NEW trusted, NEW keys,
         Planning(m, k, fresh, trusted, keys), SnapshotPlan(c, m).ok
  PROVE  Planned(SnapshotPlan(c, m), m, k, fresh, trusted, keys)
<1> DEFINE F == disk.files
           x == Snapshot(NewId)
           G == Over(Named({x}, k), F)
           entry == [id |-> NewId, key |-> k]
           r == [kind |-> "snapshot", id |-> NewId, key |-> k]
           all == {entry} \cup m.entries
           kept == Trim(all)
           removed == all \ kept
           A == {Snapshot(y.id) : y \in removed}
           E == A \cap DOMAIN disk.files
           ks == {k} \cup {y.key : y \in removed}
           p == m.generations
           n == Advance(p, ks)
           more == [entries |-> all, raws |-> m.raws, generations |-> n]
           after == [entries |-> kept, raws |-> m.raws, generations |-> n]
           w == Transaction(fresh, trusted, k, p, n)
           e == Half(G, E, {}, n, None)
           i == disk.index
           rest == CommitDeletion(disk, A, p, n)
<1>1. /\ disk = Half(F, {}, {}, i, None)
      /\ IsDirectory(F) /\ DOMAIN F \subseteq Artifacts
      /\ i \in Generations /\ p \in Generations
      /\ fresh => Described(F)
      /\ m.entries \subseteq [id : Nat, key : Keys] /\ m.raws \subseteq [id : Keys, key : Keys]
  BY PlanningIs
<1>2. /\ SnapshotPlan(c, m).script = <<Write({x}, k)>> \o rest
      /\ SnapshotPlan(c, m).memory = after
      /\ entry \in kept
  BY DEF SnapshotPlan
<1>3. IsDisk(disk) /\ k \in Keys /\ (fresh => trusted)
  BY DEF Planning
<1>4. NewId \in Nat /\ x \notin DOMAIN F
  BY <1>3, NewIdIsNew
<1>5. x \in Artifacts /\ x.kind = "snapshot" /\ x.id = NewId
  BY <1>4 DEF Artifacts, Snapshot
<1>6. kept \subseteq all /\ removed \subseteq m.entries /\ kept = all \ removed
  <2>1. kept \subseteq all
    BY DEF Trim, Newer
  <2> HIDE DEF kept
  <2> QED BY <1>2, <2>1
<1>7. ks \in SUBSET Keys /\ ks # {} /\ \A y \in removed : y.key \in ks
  <2> HIDE DEF removed
  <2> QED BY <1>1, <1>3, <1>6
<1>8. all \subseteq [id : Nat, key : Keys]
  BY <1>1, <1>3, <1>4
<1>9. \A y \in A : \E z \in removed : y = Snapshot(z.id)
  OBVIOUS
<1>10. \A y \in removed : Snapshot(y.id) \in A
  OBVIOUS
<1>11. /\ w.kind = "write" /\ w.fresh = fresh /\ w.trusted = trusted /\ w.key = k
       /\ w.before = p /\ w.after = n
  BY DEF Transaction
<1>12. m = [entries |-> m.entries, raws |-> m.raws, generations |-> m.generations]
  BY DEF Planning, IsMemory
<1>13. after.entries = kept /\ after.raws = m.raws /\ after.generations = n
       /\ after = [entries |-> after.entries, raws |-> after.raws, generations |-> after.generations]
  <2> HIDE DEF kept, n
  <2> QED OBVIOUS
<1>14. more.entries = all /\ more.raws = m.raws /\ more.generations = n
       /\ more = [entries |-> more.entries, raws |-> more.raws, generations |-> more.generations]
  OBVIOUS
<1>15. \A y : y \in all <=> y = entry \/ y \in m.entries
  OBVIOUS
<1>16. entry.id = NewId /\ entry.key = k
  OBVIOUS
<1>17. r = [kind |-> x.kind, id |-> x.id, key |-> k]
  BY <1>5
<1> HIDE DEF x, entry, r, all, kept, removed, A, ks, n, more, after, w, rest
<1>18. n \in Generations /\ n # p
  BY <1>1, <1>7, AdvanceCounts DEF n
<1>19. /\ IsDirectory(G) /\ DOMAIN G \subseteq Artifacts
       /\ \A y : y \in DOMAIN G <=> y = x \/ y \in DOMAIN F
       /\ G[x] = k
       /\ \A y \in DOMAIN F : y # x => G[y] = F[y]
  <2>1. G = Over(Named({x}, k), F) /\ IsDirectory(F)
    BY <1>1
  <2> HIDE DEF F, G
  <2>2. IsMore(G, F, x, k)
    BY <1>3, <1>5, <2>1, FileMore
  <2> QED BY <2>2 DEF IsMore
<1>20. /\ r \notin Listing(F)
       /\ \A s : s \in Listing(G) <=> s \in Listing(F) \/ s = r
       /\ \A s \in Listing(F) : s.kind = r.kind => s.id # r.id
       /\ Listing(G) = Listing(F) \cup {r}
  <2>1. ListsMore(G, F, x, k, r)
    BY <1>1, <1>4, <1>5, <1>17, OneMoreRecord
  <2> QED BY <2>1 DEF ListsMore
<1> HIDE DEF F, G
<1>21. Adds(Listing(F), Listing(G), k)
  <2>1. r.key = k /\ r.kind # "metadata"
    BY DEF r
  <2>2. r \in Listing(G)
    BY <1>20
  <2> QED BY <1>20, <2>1, <2>2 DEF Adds
<1>22. E \subseteq DOMAIN F /\ E \subseteq DOMAIN G /\ x \notin E
       /\ \A y \in E : y.kind = "snapshot"
  BY <1>4, <1>9, <1>19 DEF F, Snapshot
<1>23. trusted => /\ \A y \in m.entries : Snapshot(y.id) \in DOMAIN F /\ F[Snapshot(y.id)] = y.key
                  /\ i = p
  BY <1>1, RecordedIsThere DEF Near, Planning, F
<1>24. trusted => Discards(Listing(G), Listing(Only(G, DOMAIN G \ E)), p, n)
  <2>1. SUFFICES ASSUME trusted PROVE Discards(Listing(G), Listing(Only(G, DOMAIN G \ E)), p, n)
    OBVIOUS
  <2>2. ASSUME NEW y \in DOMAIN G, y \in E, y.kind # "payload"
        PROVE  G[y] \in ks
    <3>1. PICK z \in removed : y = Snapshot(z.id)
      BY <1>9, <2>2
    <3>2. F[y] = z.key /\ y \in DOMAIN F /\ y # x
      BY <1>6, <1>22, <1>23, <2>1, <2>2, <3>1
    <3> QED BY <1>7, <1>19, <3>2
  <2> HIDE DEF E
  <2>3. Discards(Listing(G), Listing(Only(G, DOMAIN G \ E)), p, Advance(p, ks))
    BY <1>7, <1>19, <2>2, DiscardsAre
  <2> QED BY <2>3 DEF n
<1>25. fresh => Described(G)
  <2>1. \A j : Metadata(j) # x
    BY <1>5 DEF Metadata
  <2> QED BY <1>1, <1>19, <2>1 DEF Described, F
<1>26. fresh => Described(Only(G, DOMAIN G \ E))
  <2>1. SUFFICES ASSUME fresh PROVE Described(Only(G, DOMAIN G \ E))
    OBVIOUS
  <2>2. \A y : y \in DOMAIN Only(G, DOMAIN G \ E) <=> y \in DOMAIN G /\ y \notin E
    <3> HIDE DEF E
    <3> QED BY <1>19, FewerRecords
  <2>3. \A j : Payload(j) \notin E
    BY <1>22 DEF Payload
  <2> QED BY <1>25, <2>1, <2>2, <2>3 DEF Described
<1>27. E # {} => DeletionSchema([entries |-> E, phase |-> "preparing",
                                 previous |-> p, next |-> n])
  <2>1. SUFFICES ASSUME E # {}
                 PROVE  DeletionSchema([entries |-> E, phase |-> "preparing",
                                        previous |-> p, next |-> n])
    OBVIOUS
  <2>2. E \subseteq Artifacts
    BY <1>19, <1>22
  <2>3. \A j : Payload(j) \in E <=> Metadata(j) \in E
    BY <1>22 DEF Payload, Metadata
  <2> HIDE DEF E
  <2> QED BY <1>1, <1>7, <2>1, <2>2, <2>3, SchemaHolds DEF n
<1>28. Leads(Half(G, {}, {}, i, None), rest, e, w)
  <2>1. E = A \cap DOMAIN disk.files /\ E \subseteq DOMAIN G
    BY <1>22
  <2> HIDE DEF E
  <2>2. Leads(Half(G, {}, {}, i, None), CommitDeletion(disk, A, p, n),
              Half(G, E, {}, n, None), w)
    BY <1>1, <1>3, <1>11, <1>18, <1>19, <1>23, <1>24, <1>25, <1>26, <1>27, <2>1, DeletionIsPlanned
  <2> QED BY <2>2 DEF rest
<1>29. Leads(disk, <<Write({x}, k)>> \o rest, e, w)
  <2> HIDE DEF e
  <2>1. G = Over(Named({x}, k), F) /\ IsDirectory(F) /\ i \in Generations
    BY <1>1 DEF G, F
  <2>2. w.fresh => Described(F) /\ Described(G)
    BY <1>1, <1>11, <1>25 DEF F
  <2>3. Leads(Half(F, {}, {}, i, None), <<Write({x}, k)>> \o rest, e, w)
    BY <1>3, <1>5, <1>11, <1>21, <1>28, <2>1, <2>2, AddLeads
  <2> QED BY <1>1, <2>3 DEF F
<1>30. IsMemory(more) /\ IsMemory(after)
  <2> DEFINE old == {y.id : y \in m.entries}
             new == {y.id : y \in all}
             left == {y.id : y \in kept}
             one == {NewId}
  <2>1. Bounded(old) /\ old \in SUBSET Nat
    BY <1>1 DEF Planning, IsMemory
  <2>2. one \in SUBSET Nat /\ new = old \cup one /\ left \subseteq new
    BY <1>4, <1>6, <1>15, <1>16
  <2>3. Bounded(one)
    <3>1. NewId + 1 \in Nat /\ \A j \in one : j < NewId + 1
      BY <1>4
    <3> QED BY <3>1 DEF Bounded
  <2> HIDE DEF old, one
  <2>4. Bounded(new)
    BY <2>1, <2>2, <2>3, BoundedUnion
  <2>5. Bounded(left)
    <3> HIDE DEF new, left
    <3> QED BY <2>2, <2>4, BoundedSubset
  <2>6. IsMemory(more)
    BY <1>1, <1>8, <1>14, <1>18, <2>4 DEF IsMemory
  <2>7. IsMemory(after)
    BY <1>1, <1>6, <1>8, <1>13, <1>18, <2>5 DEF IsMemory
  <2> QED BY <2>6, <2>7
<1>31. trusted => Lands(e, after, keys)
  <2>1. SUFFICES ASSUME trusted PROVE Lands(e, after, keys)
    OBVIOUS
  <2>2. e.deletion = None /\ e.migration = None /\ e.index = n
    BY ONLY DEF Half, Dir
  <2>3. DurableRecords(e) = Listing(Only(G, DOMAIN G \ E))
    BY HalfCommitted
  <2>4. \A j : Snapshot(j) \in E /\ Snapshot(j) \in DOMAIN G <=> \E y \in removed : y.id = j
    <3>1. \A j : Snapshot(j) \in E => \E y \in removed : y.id = j
      <4>1. \A y, z : Snapshot(y) = Snapshot(z) => y = z
        BY DEF Snapshot
      <4> QED BY <1>9, <4>1
    <3>2. \A y \in removed : Snapshot(y.id) \in E
      BY <1>6, <1>10, <1>23, <2>1 DEF F
    <3> QED BY <1>22, <3>1, <3>2
  <2>5. \A j : Metadata(j) \in E /\ Metadata(j) \in DOMAIN G <=> \E y \in {} : y.id = j
    BY <1>22 DEF Metadata
  <2>6. Removes(more, G, removed, {}, E, after)
    <3>1. removed \subseteq more.entries
      BY <1>6, <1>14, <1>15
    <3>2. after.entries = more.entries \ removed /\ after.raws = more.raws \ {}
      BY <1>6, <1>13, <1>14
    <3> QED BY <2>4, <2>5, <3>1, <3>2 DEF Removes
  <2>7. \A s : s \in Recorded(more) <=> s \in Recorded(m) \/ s = r
    <3>1. r = [kind |-> "snapshot", id |-> entry.id, key |-> entry.key]
      BY <1>16 DEF r
    <3>2. \A s : s \in Recorded(more)
            <=> \/ \E y \in all : s = [kind |-> "snapshot", id |-> y.id, key |-> y.key]
                \/ \E y \in m.raws : s = [kind |-> "metadata", id |-> y.id, key |-> y.key]
      BY <1>14 DEF Recorded
    <3>3. \A s : s \in Recorded(m)
            <=> \/ \E y \in m.entries : s = [kind |-> "snapshot", id |-> y.id, key |-> y.key]
                \/ \E y \in m.raws : s = [kind |-> "metadata", id |-> y.id, key |-> y.key]
      BY DEF Recorded
    <3> QED BY <1>15, <3>1, <3>2, <3>3
  <2>8. Near(m, Listing(F), keys)
    BY <2>1 DEF Planning, F
  <2> HIDE DEF E, e
  <2>9. Near(more, Listing(G), keys)
    <3>1. \A s : s \in Listing(G) <=> s \in Listing(F) \/ s = r
      BY ONLY <1>20
    <3> QED BY ONLY <2>7, <2>8, <3>1, NearAfterAdd, Zenon
  <2>10. Near(after, Listing(Only(G, DOMAIN G \ E)), keys)
    BY <1>19, <1>30, <2>6, <2>9, NearAfterDiscard
  <2> QED BY <1>13, <2>2, <2>3, <2>10 DEF Lands, NoJournal
<1> HIDE DEF e, p
<1> QED BY <1>2, <1>13, <1>18, <1>29, <1>30, <1>31 DEF Planned, w, p

\* A payload describes nothing.
LEMMA PayloadIsNoRecord ==
  ASSUME NEW f, NEW x, x.kind = "payload", NEW k, NEW g, IsMore(g, f, x, k)
  PROVE  Listing(g) = Listing(f)
<1>1. /\ \A y : y \in DOMAIN g <=> y = x \/ y \in DOMAIN f
      /\ \A y \in DOMAIN f : y # x => g[y] = f[y]
  BY DEF IsMore
<1>2. ASSUME NEW r \in Listing(g)
      PROVE  r \in Listing(f)
  <2>1. PICK y \in DOMAIN g : y.kind # "payload" /\ r = [kind |-> y.kind, id |-> y.id, key |-> g[y]]
    BY DEF Listing
  <2>2. y \in DOMAIN f /\ g[y] = f[y]
    BY <1>1, <2>1
  <2>3. r = [kind |-> y.kind, id |-> y.id, key |-> f[y]]
    BY <2>1, <2>2
  <2> QED BY <2>1, <2>2, <2>3 DEF Listing
<1>3. ASSUME NEW r \in Listing(f)
      PROVE  r \in Listing(g)
  <2>1. PICK y \in DOMAIN f : y.kind # "payload" /\ r = [kind |-> y.kind, id |-> y.id, key |-> f[y]]
    BY DEF Listing
  <2>2. y \in DOMAIN g /\ g[y] = f[y]
    BY <1>1, <2>1
  <2>3. r = [kind |-> y.kind, id |-> y.id, key |-> g[y]]
    BY <2>1, <2>2
  <2> QED BY <2>1, <2>2, <2>3 DEF Listing
<1> QED BY <1>2, <1>3

\* Nothing is removed, and the documents keys are counted.
LEMMA CountDiscards ==
  ASSUME NEW old, NEW keys \in SUBSET Keys, keys # {}, NEW p
  PROVE  Discards(old, old, p, Advance(p, keys))
BY DEF Discards

\* A displaced file more.
LEMMA RawIsPlanned ==
  ASSUME NEW m, NEW c, NEW k, k = c.caller, NEW fresh, NEW trusted, NEW keys,
         Planning(m, k, fresh, trusted, keys), RawPlan(c, m).ok
  PROVE  Planned(RawPlan(c, m), m, k, fresh, trusted, keys)
<1> DEFINE F == disk.files
           x == Payload(k)
           y == Metadata(k)
           G == Over(Named({x}, k), F)
           H == Over(Named({y}, k), G)
           entry == [id |-> k, key |-> k]
           r == [kind |-> "metadata", id |-> k, key |-> k]
           raws == m.raws \cup {entry}
           one == {k}
           p == m.generations
           n == Advance(p, one)
           after == [entries |-> m.entries, raws |-> raws, generations |-> n]
           w == Transaction(fresh, trusted, k, p, n)
           e == Half(H, {}, {}, n, None)
           i == disk.index
           a == Write({x}, k)
           b == Write({y}, k)
           z == Index(n)
<1>1. /\ disk = Half(F, {}, {}, i, None)
      /\ IsDirectory(F) /\ DOMAIN F \subseteq Artifacts
      /\ i \in Generations /\ p \in Generations
      /\ fresh => Described(F)
      /\ m.entries \subseteq [id : Nat, key : Keys] /\ m.raws \subseteq [id : Keys, key : Keys]
  BY PlanningIs
<1>2. /\ RawPlan(c, m).script = <<a, b, z>>
      /\ RawPlan(c, m).memory = after
      /\ \A v \in m.raws : v.id # k
  BY DEF RawPlan
<1>3. k \in Keys /\ k \notin keys /\ (fresh => trusted)
  BY DEF Planning
<1>4. /\ x \in Artifacts /\ x.kind = "payload"
      /\ y \in Artifacts /\ y.kind = "metadata" /\ y.id = k /\ y # x
  BY <1>3 DEF Artifacts, Payload, Metadata
<1>5. one \in SUBSET Keys /\ one # {}
  BY <1>3
<1>6. /\ w.kind = "write" /\ w.fresh = fresh /\ w.trusted = trusted /\ w.key = k
      /\ w.before = p /\ w.after = n
  BY DEF Transaction
<1>7. after.entries = m.entries /\ after.raws = raws /\ after.generations = n
      /\ after = [entries |-> after.entries, raws |-> after.raws, generations |-> after.generations]
  BY DEF after
<1>8. \A v : v \in raws <=> v \in m.raws \/ v = entry
  OBVIOUS
<1>9. r = [kind |-> y.kind, id |-> y.id, key |-> k] /\ entry.id = k /\ entry.key = k
  BY <1>4
<1>10. \A j : (Payload(j) = x <=> j = k) /\ (Metadata(j) = y <=> j = k) /\ Payload(j) # y
              /\ Metadata(j) # x
  BY DEF Payload, Metadata
<1> HIDE DEF x, y, entry, r, raws, one, n, after, w
<1>11. n \in Generations /\ n # p
  BY <1>1, <1>5, AdvanceCounts DEF n
<1>12. IsMore(G, F, x, k)
  <2>1. G = Over(Named({x}, k), F) /\ IsDirectory(F)
    BY <1>1
  <2> HIDE DEF F, G
  <2> QED BY <1>3, <1>4, <2>1, FileMore
<1>13. IsMore(H, G, y, k)
  <2>1. H = Over(Named({y}, k), G) /\ IsDirectory(G)
    BY <1>12 DEF IsMore
  <2> HIDE DEF G, H
  <2> QED BY <1>3, <1>4, <2>1, FileMore
<1>14. H = Over(Named({y}, k), G) /\ G = Over(Named({x}, k), F)
  OBVIOUS
<1> HIDE DEF F, G, H
<1>15. Listing(G) = Listing(F)
  BY <1>4, <1>12, PayloadIsNoRecord
<1>16. trusted => y \notin DOMAIN F
  <2>1. SUFFICES ASSUME trusted, y \in DOMAIN F PROVE FALSE
    OBVIOUS
  <2> DEFINE v == [kind |-> "metadata", id |-> k, key |-> F[y]]
  <2>2. v \in Listing(F)
    <3>1. v = [kind |-> y.kind, id |-> y.id, key |-> F[y]]
      BY <1>4
    <3> QED BY <1>4, <2>1, <3>1 DEF Listing
  <2>3. v.kind = "metadata" /\ v.id = k
    OBVIOUS
  <2> HIDE DEF v
  <2>4. v \notin Recorded(m)
    <3>1. ASSUME NEW u \in m.raws, v = [kind |-> "metadata", id |-> u.id, key |-> u.key]
          PROVE  FALSE
      BY <1>2, <2>3, <3>1
    <3>2. ASSUME NEW u \in m.entries, v = [kind |-> "snapshot", id |-> u.id, key |-> u.key]
          PROVE  FALSE
      BY <2>3, <3>2
    <3> QED BY <3>1, <3>2, RecordedIs
  <2>5. Near(m, Listing(F), keys)
    BY <2>1 DEF Planning, F
  <2>6. v.key \in keys /\ v.id = v.key
    BY <2>2, <2>3, <2>4, <2>5 DEF Near
  <2> QED BY <1>3, <2>3, <2>6
<1>17. /\ DOMAIN G \subseteq Artifacts /\ IsDirectory(G) /\ IsDirectory(H)
       /\ \A v : v \in DOMAIN G <=> v = x \/ v \in DOMAIN F
       /\ \A v : v \in DOMAIN H <=> v = y \/ v \in DOMAIN G
  BY <1>12, <1>13 DEF IsMore
<1>18. trusted => /\ r \notin Listing(G)
                  /\ \A s : s \in Listing(H) <=> s \in Listing(G) \/ s = r
                  /\ \A s \in Listing(G) : s.kind = r.kind => s.id # r.id
                  /\ Listing(H) = Listing(G) \cup {r}
  <2>1. SUFFICES ASSUME trusted
                 PROVE  /\ r \notin Listing(G)
                        /\ \A s : s \in Listing(H) <=> s \in Listing(G) \/ s = r
                        /\ \A s \in Listing(G) : s.kind = r.kind => s.id # r.id
                        /\ Listing(H) = Listing(G) \cup {r}
    OBVIOUS
  <2>2. y \notin DOMAIN G
    BY <1>4, <1>16, <1>17, <2>1
  <2>3. ListsMore(H, G, y, k, r)
    BY <1>4, <1>9, <1>14, <1>17, <2>2, OneMoreRecord
  <2> QED BY <2>3 DEF ListsMore
<1>19. trusted => Adds(Listing(G), Listing(H), w.key)
  <2>1. r.key = k /\ r.id = k
    BY DEF r
  <2>2. trusted => r \in Listing(H)
    BY <1>18
  <2> QED BY <1>6, <1>18, <2>1, <2>2 DEF Adds
<1>20. fresh => Described(G) /\ Described(H)
  BY <1>1, <1>10, <1>17 DEF Described, F
<1>21. trusted => i = p
  BY DEF Planning
<1>22. trusted => Discards(Listing(H), Listing(H), p, n)
  BY <1>5, CountDiscards DEF n
<1>23. Leads(Half(H, {}, {}, i, None), <<z>>, e, w)
  BY <1>1, <1>3, <1>6, <1>11, <1>17, <1>20, <1>21, <1>22, IndexIsWritten
<1>24. a \in Calls /\ b \in Calls /\ z \in Calls
  <2>1. {x} \subseteq Artifacts /\ {y} \subseteq Artifacts
    BY <1>4
  <2> QED BY <1>3, <1>11, <2>1 DEF Calls, LoopCalls, SingleCalls, Write, Index
<1>25. Leads(Half(G, {}, {}, i, None), <<b, z>>, e, w)
  <2>1. <<b, z>> = <<b>> \o <<z>>
    BY <1>24, TwoCalls
  <2>2. b = Write({y}, k)
    OBVIOUS
  <2>3. w.fresh => Described(G) /\ Described(H)
    BY <1>6, <1>20
  <2> HIDE DEF b, z, e
  <2>4. Leads(Half(G, {}, {}, i, None), <<Write({y}, k)>> \o <<z>>, e, w)
    BY <1>1, <1>3, <1>4, <1>6, <1>14, <1>17, <1>19, <1>23, <2>3, AddLeads
  <2> QED BY <2>1, <2>2, <2>4
<1>26. Leads(disk, <<a, b, z>>, e, w)
  <2>1. <<a, b, z>> = <<a>> \o <<b, z>>
    BY <1>24, ThreeCalls
  <2>2. a = Write({x}, k)
    OBVIOUS
  <2>3. w.fresh => Described(F) /\ Described(G)
    BY <1>1, <1>6, <1>20 DEF F
  <2>4. IsDirectory(F)
    BY <1>1 DEF F
  <2>5. w.trusted => Listing(G) = Listing(F)
    BY <1>15
  <2> HIDE DEF a, b, z, e
  <2>6. Leads(Half(F, {}, {}, i, None), <<Write({x}, k)>> \o <<b, z>>, e, w)
    BY <1>1, <1>3, <1>4, <1>6, <1>14, <1>25, <2>3, <2>4, <2>5, AddLeads
  <2> QED BY <1>1, <2>1, <2>2, <2>6 DEF F
<1>27. IsMemory(after)
  <2>1. Bounded({v.id : v \in after.entries})
    <3>1. Bounded({v.id : v \in m.entries})
      BY DEF Planning, IsMemory
    <3> QED BY <1>7, <3>1
  <2>2. after.raws \subseteq [id : Keys, key : Keys]
    <3>1. entry \in [id : Keys, key : Keys]
      BY <1>3 DEF entry
    <3> QED BY <1>1, <1>7, <1>8, <3>1
  <2> QED BY <1>1, <1>7, <1>11, <2>1, <2>2 DEF IsMemory
<1>28. trusted => Lands(e, after, keys)
  <2>1. SUFFICES ASSUME trusted PROVE Lands(e, after, keys)
    OBVIOUS
  <2>2. e.deletion = None /\ e.migration = None /\ e.index = n
    BY ONLY DEF Half, Dir
  <2>3. Only(H, DOMAIN H \ {}) = H
    BY <1>17, EverythingStays DEF IsDirectory
  <2>4. DurableRecords(e) = Listing(H)
    BY <2>3, HalfCommitted
  <2>5. \A s : s \in Recorded(after) <=> s \in Recorded(m) \/ s = r
    <3>1. r = [kind |-> "metadata", id |-> entry.id, key |-> entry.key]
      BY <1>9 DEF r
    <3>2. \A s : s \in Recorded(after)
            <=> \/ \E v \in m.entries : s = [kind |-> "snapshot", id |-> v.id, key |-> v.key]
                \/ \E v \in raws : s = [kind |-> "metadata", id |-> v.id, key |-> v.key]
      BY <1>7 DEF Recorded
    <3>3. \A s : s \in Recorded(m)
            <=> \/ \E v \in m.entries : s = [kind |-> "snapshot", id |-> v.id, key |-> v.key]
                \/ \E v \in m.raws : s = [kind |-> "metadata", id |-> v.id, key |-> v.key]
      BY DEF Recorded
    <3> QED BY <1>8, <3>1, <3>2, <3>3
  <2>6. Near(m, Listing(G), keys)
    BY <1>15, <2>1 DEF Planning, F
  <2>7. Near(after, Listing(H), keys)
    <3>1. \A s : s \in Listing(H) <=> s \in Listing(G) \/ s = r
      BY <1>18, <2>1
    <3> QED BY <2>5, <2>6, <3>1, NearAfterAdd
  <2> HIDE DEF e
  <2> QED BY <1>7, <2>2, <2>4, <2>7 DEF Lands, NoJournal
<1> HIDE DEF e, p, a, b, z
<1> QED BY <1>2, <1>7, <1>11, <1>26, <1>27, <1>28 DEF Planned, w, p

------------------------------------------------------------------------------
(* Moving a document.                                                        *)

\* The document of a record after k has moved to t, and the record.
To(key, k, t) == IF key = k THEN t ELSE key
Renamed(r, k, t) == IF r.key = k THEN [r EXCEPT !.key = t] ELSE r
Renames(set, k, t) == {Renamed(r, k, t) : r \in set}

LEMMA RenamedIs ==
  ASSUME NEW a, NEW b, NEW key, NEW k, NEW t
  PROVE  /\ Renamed([kind |-> a, id |-> b, key |-> key], k, t)
              = [kind |-> a, id |-> b, key |-> To(key, k, t)]
         /\ Renamed([id |-> b, key |-> key], k, t) = [id |-> b, key |-> To(key, k, t)]
BY DEF Renamed, To

LEMMA RenamesAre ==
  ASSUME NEW set, NEW k, NEW t
  PROVE  /\ \A r \in set : Renamed(r, k, t) \in Renames(set, k, t)
         /\ \A s \in Renames(set, k, t) : \E r \in set : s = Renamed(r, k, t)
         /\ Renames(set, k, t)
              = {IF r.key = k THEN [r EXCEPT !.key = t] ELSE r : r \in set}
<1>1. /\ \A r \in set : Renamed(r, k, t) \in Renames(set, k, t)
      /\ \A s \in Renames(set, k, t) : \E r \in set : s = Renamed(r, k, t)
  BY DEF Renames
<1>2. Renames(set, k, t) = {IF r.key = k THEN [r EXCEPT !.key = t] ELSE r : r \in set}
  BY DEF Renames, Renamed
<1> QED BY <1>1, <1>2

\* The files S are those of the records of k, and are rewritten for t.
LEMMA ListingOfMove ==
  ASSUME NEW F, DOMAIN F \subseteq Artifacts, NEW S, S \subseteq DOMAIN F, NEW k, NEW t,
         \A y \in DOMAIN F : y.kind # "payload" => (y \in S <=> F[y] = k),
         NEW G, G = Over(Named(S, t), F)
  PROVE  Listing(G) = Renames(Listing(F), k, t)
<1>1. /\ \A y : y \in DOMAIN G <=> y \in DOMAIN F
      /\ \A y \in S : G[y] = t
      /\ \A y \in DOMAIN F : y \notin S => G[y] = F[y]
  <2>1. /\ \A y : y \in DOMAIN Over(Named(S, t), F) <=> y \in S \/ y \in DOMAIN F
        /\ \A y \in S : Over(Named(S, t), F)[y] = t
        /\ \A y \in DOMAIN F : y \notin S => Over(Named(S, t), F)[y] = F[y]
    BY RewrittenIs
  <2> QED BY <2>1
<1>2. \A y \in DOMAIN F : y.kind # "payload" => G[y] = To(F[y], k, t)
  BY <1>1 DEF To
<1>3. \A y : [kind |-> y.kind, id |-> y.id, key |-> To(F[y], k, t)]
               = Renamed([kind |-> y.kind, id |-> y.id, key |-> F[y]], k, t)
  BY DEF Renamed, To
<1>4. ASSUME NEW s \in Listing(G)
      PROVE  s \in Renames(Listing(F), k, t)
  <2>1. PICK y \in DOMAIN G : y.kind # "payload" /\ s = [kind |-> y.kind, id |-> y.id, key |-> G[y]]
    BY DEF Listing
  <2> DEFINE r == [kind |-> y.kind, id |-> y.id, key |-> F[y]]
  <2>2. r \in Listing(F)
    BY <1>1, <2>1 DEF Listing
  <2>3. s = Renamed(r, k, t)
    BY <1>1, <1>2, <1>3, <2>1
  <2> HIDE DEF r
  <2> QED BY <2>2, <2>3, RenamesAre
<1>5. ASSUME NEW s \in Renames(Listing(F), k, t)
      PROVE  s \in Listing(G)
  <2>1. PICK r \in Listing(F) : s = Renamed(r, k, t)
    BY RenamesAre
  <2>2. PICK y \in DOMAIN F : y.kind # "payload" /\ r = [kind |-> y.kind, id |-> y.id, key |-> F[y]]
    BY DEF Listing
  <2>3. s = [kind |-> y.kind, id |-> y.id, key |-> G[y]]
    BY <1>2, <1>3, <2>1, <2>2
  <2> QED BY <1>1, <2>2, <2>3 DEF Listing
<1> QED BY <1>4, <1>5

\* What the memory records after the move.
LEMMA RecordedOfMove ==
  ASSUME NEW m, m.entries \subseteq [id : Nat, key : Keys], m.raws \subseteq [id : Keys, key : Keys],
         NEW k, NEW t, NEW n, n.entries = Renames(m.entries, k, t), n.raws = Renames(m.raws, k, t)
  PROVE  Recorded(n) = Renames(Recorded(m), k, t)
<1>1. /\ \A e \in m.entries : Renamed(e, k, t) = [id |-> e.id, key |-> To(e.key, k, t)]
      /\ \A e \in m.raws : Renamed(e, k, t) = [id |-> e.id, key |-> To(e.key, k, t)]
  <2>1. \A e \in m.entries : e = [id |-> e.id, key |-> e.key]
    OBVIOUS
  <2>2. \A e \in m.raws : e = [id |-> e.id, key |-> e.key]
    OBVIOUS
  <2>3. ASSUME NEW e, e = [id |-> e.id, key |-> e.key]
        PROVE  Renamed(e, k, t) = [id |-> e.id, key |-> To(e.key, k, t)]
    <3> DEFINE b == e.id
               key == e.key
    <3>1. e = [id |-> b, key |-> key]
      BY <2>3
    <3> HIDE DEF b, key
    <3>2. Renamed(e, k, t) = [id |-> b, key |-> To(key, k, t)]
      BY <3>1, RenamedIs
    <3> QED BY <3>2 DEF b, key
  <2> QED BY <2>1, <2>2, <2>3
<1>2. \A kind : \A e : Renamed([kind |-> kind, id |-> e.id, key |-> e.key], k, t)
                         = [kind |-> kind, id |-> e.id, key |-> To(e.key, k, t)]
  BY DEF Renamed, To
<1>3. ASSUME NEW s \in Recorded(n)
      PROVE  s \in Renames(Recorded(m), k, t)
  <2>1. ASSUME NEW f \in n.entries, s = [kind |-> "snapshot", id |-> f.id, key |-> f.key]
        PROVE  s \in Renames(Recorded(m), k, t)
    <3>1. PICK e \in m.entries : f = Renamed(e, k, t)
      BY RenamesAre
    <3> DEFINE r == [kind |-> "snapshot", id |-> e.id, key |-> e.key]
    <3>2. r \in Recorded(m)
      BY RecordedIs
    <3>3. f.id = e.id /\ f.key = To(e.key, k, t)
      BY <1>1, <3>1
    <3>4. s = Renamed(r, k, t)
      BY <1>2, <2>1, <3>3
    <3> HIDE DEF r
    <3> QED BY <3>2, <3>4, RenamesAre
  <2>2. ASSUME NEW f \in n.raws, s = [kind |-> "metadata", id |-> f.id, key |-> f.key]
        PROVE  s \in Renames(Recorded(m), k, t)
    <3>1. PICK e \in m.raws : f = Renamed(e, k, t)
      BY RenamesAre
    <3> DEFINE r == [kind |-> "metadata", id |-> e.id, key |-> e.key]
    <3>2. r \in Recorded(m)
      BY RecordedIs
    <3>3. f.id = e.id /\ f.key = To(e.key, k, t)
      BY <1>1, <3>1
    <3>4. s = Renamed(r, k, t)
      BY <1>2, <2>2, <3>3
    <3> HIDE DEF r
    <3> QED BY <3>2, <3>4, RenamesAre
  <2> QED BY <2>1, <2>2, RecordedIs
<1>4. ASSUME NEW s \in Renames(Recorded(m), k, t)
      PROVE  s \in Recorded(n)
  <2>1. PICK r \in Recorded(m) : s = Renamed(r, k, t)
    BY RenamesAre
  <2>2. ASSUME NEW e \in m.entries, r = [kind |-> "snapshot", id |-> e.id, key |-> e.key]
        PROVE  s \in Recorded(n)
    <3> DEFINE f == Renamed(e, k, t)
    <3>1. f \in n.entries
      BY RenamesAre
    <3>2. f.id = e.id /\ f.key = To(e.key, k, t)
      BY <1>1
    <3>3. s = [kind |-> "snapshot", id |-> f.id, key |-> f.key]
      BY <1>2, <2>1, <2>2, <3>2
    <3> HIDE DEF f
    <3> QED BY <3>1, <3>3, RecordedIs
  <2>3. ASSUME NEW e \in m.raws, r = [kind |-> "metadata", id |-> e.id, key |-> e.key]
        PROVE  s \in Recorded(n)
    <3> DEFINE f == Renamed(e, k, t)
    <3>1. f \in n.raws
      BY RenamesAre
    <3>2. f.id = e.id /\ f.key = To(e.key, k, t)
      BY <1>1
    <3>3. s = [kind |-> "metadata", id |-> f.id, key |-> f.key]
      BY <1>2, <2>1, <2>3, <3>2
    <3> HIDE DEF f
    <3> QED BY <3>1, <3>3, RecordedIs
  <2> QED BY <2>2, <2>3, RecordedIs
<1> QED BY <1>3, <1>4

\* A document that left nothing unrecorded moves in the memory as in the directory.
LEMMA NearAfterMove ==
  ASSUME NEW m, NEW n, NEW old, NEW new, NEW keys, Near(m, old, keys), NEW k, k \notin keys, NEW t,
         new = Renames(old, k, t), Recorded(n) = Renames(Recorded(m), k, t)
  PROVE  Near(n, new, keys)
<1>1. Recorded(m) \subseteq old /\ \A r \in old \ Recorded(m) :
        r.key \in keys /\ (r.kind = "metadata" => r.id = r.key)
  BY DEF Near
<1>2. ASSUME NEW s \in Recorded(n)
      PROVE  s \in new
  <2>1. PICK r \in Recorded(m) : s = Renamed(r, k, t)
    BY RenamesAre
  <2> QED BY <1>1, <2>1, RenamesAre
<1>3. ASSUME NEW s \in new, s \notin Recorded(n)
      PROVE  s.key \in keys /\ (s.kind = "metadata" => s.id = s.key)
  <2>1. PICK r \in old : s = Renamed(r, k, t)
    BY RenamesAre
  <2>2. r \notin Recorded(m)
    BY <1>3, <2>1, RenamesAre
  <2>3. r.key \in keys /\ (r.kind = "metadata" => r.id = r.key)
    BY <1>1, <2>2
  <2>4. s = r
    BY <2>1, <2>3 DEF Renamed
  <2> QED BY <2>3, <2>4
<1> QED BY <1>2, <1>3 DEF Near

\* A document that stays where it is only counts its generation.
LEMMA StayIsPlanned ==
  ASSUME NEW m, NEW c, NEW k, k = c.caller, c.destination = k,
         NEW fresh, NEW trusted, NEW keys, Planning(m, k, fresh, trusted, keys)
  PROVE  Planned(MigratePlan(c, m), m, k, fresh, trusted, keys)
<1> DEFINE F == disk.files
           one == {k}
           p == m.generations
           n == Advance(p, one)
           after == [m EXCEPT !.generations = n]
           w == Transaction(fresh, trusted, k, p, n)
           e == Half(F, {}, {}, n, None)
           i == disk.index
<1>1. /\ disk = Half(F, {}, {}, i, None)
      /\ IsDirectory(F) /\ DOMAIN F \subseteq Artifacts
      /\ i \in Generations /\ p \in Generations
      /\ fresh => Described(F)
  BY PlanningIs
<1>2. MigratePlan(c, m).script = <<Index(n)>> /\ MigratePlan(c, m).memory = after
  BY DEF MigratePlan
<1>3. k \in Keys /\ (fresh => trusted) /\ (trusted => i = p)
  BY DEF Planning
<1>4. one \in SUBSET Keys /\ one # {}
  BY <1>3
<1>5. /\ w.kind = "write" /\ w.fresh = fresh /\ w.trusted = trusted /\ w.key = k
      /\ w.before = p /\ w.after = n
  BY DEF Transaction
<1>6. m = [entries |-> m.entries, raws |-> m.raws, generations |-> m.generations]
  BY DEF Planning, IsMemory
<1> HIDE DEF one, n, w
<1>7. after = [entries |-> m.entries, raws |-> m.raws, generations |-> n]
  <2>1. ASSUME NEW a, NEW b, NEW g, NEW z
        PROVE  [[entries |-> a, raws |-> b, generations |-> g] EXCEPT !.generations = z]
                 = [entries |-> a, raws |-> b, generations |-> z]
    OBVIOUS
  <2> QED BY <1>6, <2>1
<1> HIDE DEF after
<1>8. after.entries = m.entries /\ after.raws = m.raws /\ after.generations = n
      /\ after = [entries |-> after.entries, raws |-> after.raws, generations |-> after.generations]
  BY <1>7
<1>9. n \in Generations /\ n # p
  BY <1>1, <1>4, AdvanceCounts DEF n
<1>10. trusted => Discards(Listing(F), Listing(F), p, n)
  BY <1>4, CountDiscards DEF n
<1>11. Leads(disk, <<Index(n)>>, e, w)
  <2>1. IsDirectory(F)
    BY <1>1
  <2>2. disk = Half(F, {}, {}, i, None) /\ (fresh => Described(F))
    BY <1>1
  <2> HIDE DEF F, e
  <2>3. Leads(Half(F, {}, {}, i, None), <<Index(n)>>, Half(F, {}, {}, n, None), w)
    BY <1>1, <1>3, <1>5, <1>9, <1>10, <2>1, <2>2, IndexIsWritten
  <2> QED BY <2>2, <2>3 DEF e
<1>12. IsMemory(after)
  BY <1>8, <1>9 DEF Planning, IsMemory
<1>13. trusted => Lands(e, after, keys)
  <2>1. SUFFICES ASSUME trusted PROVE Lands(e, after, keys)
    OBVIOUS
  <2>2. e.deletion = None /\ e.migration = None /\ e.index = n
    BY ONLY DEF Half, Dir
  <2>3. Only(F, DOMAIN F \ {}) = F
    BY <1>1, EverythingStays DEF IsDirectory
  <2>4. DurableRecords(e) = Listing(F)
    BY <2>3, HalfCommitted
  <2>5. Recorded(after) = Recorded(m)
    BY <1>8 DEF Recorded
  <2>6. Near(m, Listing(F), keys)
    BY <2>1 DEF Planning
  <2>7. Near(after, Listing(F), keys)
    BY <2>5, <2>6 DEF Near
  <2> HIDE DEF e
  <2> QED BY <1>8, <2>2, <2>4, <2>7 DEF Lands, NoJournal
<1> HIDE DEF e, p
<1> QED BY <1>2, <1>8, <1>9, <1>11, <1>12, <1>13 DEF Planned, w, p

\* Whose records the directory lists, when the memory is near.
LEMMA RecordsOfKey ==
  ASSUME NEW m, NEW f, DOMAIN f \subseteq Artifacts, NEW keys, Near(m, Listing(f), keys),
         NEW k, k \notin keys, NEW y \in DOMAIN f, y.kind # "payload", f[y] = k
  PROVE  \/ \E e \in RecordsOf(m, k).entries : y = Snapshot(e.id)
         \/ \E e \in RecordsOf(m, k).raws : y = Metadata(e.id)
<1> DEFINE r == [kind |-> y.kind, id |-> y.id, key |-> f[y]]
<1>1. r \in Listing(f)
  BY DEF Listing
<1>2. r.key = k /\ r.kind = y.kind /\ r.id = y.id
  OBVIOUS
<1> HIDE DEF r
<1>3. r \in Recorded(m)
  BY <1>1, <1>2 DEF Near
<1>4. y \in Artifacts
  OBVIOUS
<1>5. y.kind = "snapshot" => y = Snapshot(y.id)
  BY <1>4 DEF Artifacts, Snapshot
<1>6. y.kind = "metadata" => y = Metadata(y.id)
  BY <1>4 DEF Artifacts, Metadata
<1>7. ASSUME NEW e \in m.entries, r = [kind |-> "snapshot", id |-> e.id, key |-> e.key]
      PROVE  e \in RecordsOf(m, k).entries /\ y = Snapshot(e.id)
  <2>1. e.key = k /\ y.kind = "snapshot" /\ y.id = e.id
    BY <1>2, <1>7
  <2> QED BY <1>5, <2>1 DEF RecordsOf
<1>8. ASSUME NEW e \in m.raws, r = [kind |-> "metadata", id |-> e.id, key |-> e.key]
      PROVE  e \in RecordsOf(m, k).raws /\ y = Metadata(e.id)
  <2>1. e.key = k /\ y.kind = "metadata" /\ y.id = e.id
    BY <1>2, <1>8
  <2> QED BY <1>6, <2>1 DEF RecordsOf
<1> QED BY <1>3, <1>7, <1>8, RecordedIs

\* A document that moves to an identity without records.
LEMMA MoveIsPlanned ==
  ASSUME NEW m, NEW c, NEW k, k = c.caller, NEW t \in Keys, t = c.destination, t # k,
         NEW fresh, NEW trusted, NEW keys, Planning(m, k, fresh, trusted, keys),
         t \notin keys, MigratePlan(c, m).ok
  PROVE  Planned(MigratePlan(c, m), m, k, fresh, trusted, keys)
<1> DEFINE F == disk.files
           es == RecordsOf(m, k).entries
           rs == RecordsOf(m, k).raws
           A == {x.id : x \in es}
           B == {x.id : x \in rs}
           S == FilesOf(A, B)
           G == Over(Named(S, t), F)
           p == m.generations
           n == MigratedGenerations(p, k, t)
           after == [entries |-> Renames(m.entries, k, t), raws |-> Renames(m.raws, k, t),
                     generations |-> n]
           w == Transaction(fresh, trusted, k, p, n)
           e == Moving(F, S, t, n, None)
           i == disk.index
           s == CommitMigration(A, B, k, t, p, n)
<1>1. /\ disk = Half(F, {}, {}, i, None)
      /\ IsDirectory(F) /\ DOMAIN F \subseteq Artifacts
      /\ i \in Generations /\ p \in Generations
      /\ fresh => Described(F)
      /\ m.entries \subseteq [id : Nat, key : Keys] /\ m.raws \subseteq [id : Keys, key : Keys]
  BY PlanningIs
<1>2. k \in Keys /\ k \notin keys /\ (fresh => trusted) /\ (trusted => i = p)
  BY DEF Planning
<1>3. MigratePlan(c, m).script = s
  BY DEF MigratePlan
<1>4. MigratePlan(c, m).memory = after
  <2>1. /\ Renames(m.entries, k, t)
             = {IF r.key = c.caller THEN [r EXCEPT !.key = c.destination] ELSE r : r \in m.entries}
        /\ Renames(m.raws, k, t)
             = {IF r.key = c.caller THEN [r EXCEPT !.key = c.destination] ELSE r : r \in m.raws}
    BY RenamesAre
  <2> QED BY <2>1 DEF MigratePlan
<1>5. RecordsOf(m, t) = NoRecords
  BY DEF MigratePlan
<1>6. /\ w.kind = "write" /\ w.fresh = fresh /\ w.trusted = trusted /\ w.key = k
      /\ w.before = p /\ w.after = n
  BY DEF Transaction
<1>7. /\ after.entries = Renames(m.entries, k, t) /\ after.raws = Renames(m.raws, k, t)
      /\ after.generations = n
      /\ after = [entries |-> after.entries, raws |-> after.raws, generations |-> after.generations]
  OBVIOUS
<1>8. /\ es \subseteq m.entries /\ rs \subseteq m.raws
      /\ \A x \in es : x.key = k
      /\ \A x \in rs : x.key = k
  BY DEF RecordsOf
<1>9. /\ \A y \in S : (\E x \in es : y = Snapshot(x.id)) \/ (\E x \in rs : y = Metadata(x.id))
      /\ \A x \in es : Snapshot(x.id) \in S
      /\ \A x \in rs : Metadata(x.id) \in S
  BY DEF FilesOf
<1>10. A \in SUBSET Nat /\ B \in SUBSET Keys
  BY <1>1, <1>8
<1> HIDE DEF es, rs
<1>11. Bounded(A)
  <2> DEFINE old == {x.id : x \in m.entries}
  <2>1. Bounded(old)
    BY DEF Planning, IsMemory
  <2>2. A \subseteq old
    BY <1>8
  <2> HIDE DEF A, old
  <2> QED BY <2>1, <2>2, BoundedSubset
<1> HIDE DEF A, B, S, after, w
<1>12. n \in Generations /\ n # p
  BY <1>1, <1>2 DEF Generations, MigratedGenerations
<1> HIDE DEF n
<1>13. trusted => /\ \A x \in m.entries : Snapshot(x.id) \in DOMAIN F /\ F[Snapshot(x.id)] = x.key
                  /\ \A x \in m.raws : Metadata(x.id) \in DOMAIN F /\ F[Metadata(x.id)] = x.key
  BY <1>1, RecordedIsThere DEF Near, Planning
<1>14. trusted => S \subseteq DOMAIN F /\ \A y \in S : F[y] = k
  BY <1>8, <1>9, <1>13
<1>15. trusted => Near(m, Listing(F), keys)
  BY DEF Planning
<1> HIDE DEF F, G
<1>16. trusted => \A y \in DOMAIN F : y.kind # "payload" => (y \in S <=> F[y] = k)
  <2>1. SUFFICES ASSUME trusted, NEW y \in DOMAIN F, y.kind # "payload" PROVE y \in S <=> F[y] = k
    OBVIOUS
  <2>2. ASSUME F[y] = k
        PROVE  y \in S
    <3>1. \/ \E x \in es : y = Snapshot(x.id)
          \/ \E x \in rs : y = Metadata(x.id)
      BY <1>1, <1>2, <1>15, <2>1, <2>2, RecordsOfKey DEF es, rs, F
    <3> QED BY <1>9, <3>1
  <2> QED BY <1>14, <2>1, <2>2
<1>17. trusted => Listing(G) = Renames(Listing(F), k, t)
  <2>1. DOMAIN F \subseteq Artifacts /\ G = Over(Named(S, t), F)
    BY <1>1 DEF F, G
  <2> QED BY <1>14, <1>16, <2>1, ListingOfMove
<1>18. trusted => \A r \in Listing(F) : r.key # t
  <2>1. SUFFICES ASSUME trusted, NEW r \in Listing(F), r.key = t PROVE FALSE
    OBVIOUS
  <2>2. PICK y \in DOMAIN F : y.kind # "payload" /\ r = [kind |-> y.kind, id |-> y.id, key |-> F[y]]
    BY DEF Listing
  <2>3. F[y] = t
    BY <2>1, <2>2
  <2>4. \/ \E x \in RecordsOf(m, t).entries : y = Snapshot(x.id)
        \/ \E x \in RecordsOf(m, t).raws : y = Metadata(x.id)
    BY <1>1, <1>15, <2>1, <2>2, <2>3, RecordsOfKey DEF F
  <2> QED BY <1>5, <2>4 DEF NoRecords
<1>19. trusted => Moves(Listing(F), Listing(G), p, n)
  <2>1. Renames(Listing(F), k, t)
          = {IF r.key = k THEN [r EXCEPT !.key = t] ELSE r : r \in Listing(F)}
    BY RenamesAre
  <2> QED BY <1>2, <1>17, <1>18, <2>1 DEF Moves, n
<1>20. Leads(disk, s, e, w)
  <2>1. S = FilesOf(A, B)
    BY DEF S
  <2>2. IsDirectory(F) /\ (fresh => Described(F)) /\ disk = Half(F, {}, {}, i, None)
    BY <1>1 DEF F
  <2>3. w.trusted => /\ i = p /\ w.before = p /\ w.after = n
                     /\ S \subseteq DOMAIN F /\ \A y \in S : F[y] = k
                     /\ Moves(Listing(F), Listing(Over(Named(S, t), F)), p, n)
    BY <1>2, <1>6, <1>14, <1>19 DEF G
  <2>4. w.fresh => Described(F) /\ n = MigratedGenerations(p, k, t)
    BY <1>6, <2>2 DEF n
  <2> HIDE DEF s, e
  <2>5. Leads(Half(F, {}, {}, i, None), CommitMigration(A, B, k, t, p, n),
              Moving(F, S, t, n, None), w)
    BY <1>1, <1>2, <1>6, <1>10, <1>11, <1>12, <2>1, <2>2, <2>3, <2>4, MigrationIsWritten
  <2> QED BY <2>2, <2>5 DEF s, e
<1>21. IsMemory(after)
  <2>1. \A x \in m.entries : Renamed(x, k, t).id = x.id /\ Renamed(x, k, t) \in [id : Nat, key : Keys]
    BY <1>1, <1>2 DEF Renamed
  <2>2. \A x \in m.raws : Renamed(x, k, t) \in [id : Keys, key : Keys]
    BY <1>1, <1>2 DEF Renamed
  <2>3. after.entries \subseteq [id : Nat, key : Keys] /\ after.raws \subseteq [id : Keys, key : Keys]
    BY <1>7, <2>1, <2>2, RenamesAre
  <2> DEFINE old == {x.id : x \in m.entries}
             new == {x.id : x \in after.entries}
  <2>4. Bounded(old)
    BY DEF Planning, IsMemory
  <2>5. new \subseteq old
    <3>1. ASSUME NEW x \in after.entries
          PROVE  x.id \in old
      <4>1. PICK y \in m.entries : x = Renamed(y, k, t)
        BY <1>7, RenamesAre
      <4> QED BY <2>1, <4>1
    <3> QED BY <3>1
  <2>6. Bounded(new)
    <3> HIDE DEF old, new
    <3> QED BY <2>4, <2>5, BoundedSubset
  <2> QED BY <1>7, <1>12, <2>3, <2>6 DEF IsMemory
<1>22. trusted => Lands(e, after, keys)
  <2>1. SUFFICES ASSUME trusted PROVE Lands(e, after, keys)
    OBVIOUS
  <2>2. e.deletion = None /\ e.migration = None /\ e.index = n
    BY ONLY DEF Moving, Dir
  <2>3. DurableRecords(e) = Listing(G)
    BY MovedDurable DEF G
  <2>4. Recorded(after) = Renames(Recorded(m), k, t)
    BY <1>1, <1>7, RecordedOfMove
  <2>5. Near(after, Listing(G), keys)
    BY <1>2, <1>15, <1>17, <2>1, <2>4, NearAfterMove
  <2> HIDE DEF e
  <2> QED BY <1>7, <2>2, <2>3, <2>5 DEF Lands, NoJournal
<1> HIDE DEF e, s, p
<1> QED BY <1>3, <1>4, <1>7, <1>12, <1>20, <1>21, <1>22 DEF Planned, w, p

------------------------------------------------------------------------------
(* What a step does to a safe store.                                         *)

LEMMA IdleIs ==
  /\ Idle.phase = "idle" /\ Idle.script = <<>> /\ IsRun(Idle) /\ Writers(Idle) = {}
<1>1. /\ Idle.phase = "idle" /\ Idle.script = <<>> /\ Idle.ok = TRUE
      /\ Idle = [command |-> Idle.command, phase |-> Idle.phase, script |-> Idle.script,
                 ok |-> Idle.ok, memory |-> Idle.memory]
  BY DEF Idle
<1>2. <<>> \in Seq(Calls)
  OBVIOUS
<1>3. IsRun(Idle)
  BY <1>1, <1>2 DEF IsRun
<1>4. Writers(Idle) = {}
  BY <1>1 DEF Writers
<1> QED BY <1>1, <1>3, <1>4

\* A store whose lane is idle.
LEMMA IdleIsSafe ==
  ASSUME NEW d, NEW m, NEW st, NEW fresh, NEW owing, IsDisk(d), fresh => IsSound(d),
         IsMemory(m), MemoryIsNear(d, Idle, m, st, fresh, owing),
         SettledIsClean(d, Idle, m, st, owing)
  PROVE  IsSafe(d, Idle, m, st, fresh, owing)
<1>1. ReplayIsSafe(d, Idle, fresh)
  BY IdleIs DEF ReplayIsSafe
<1>2. WriteIsSafe(d, Idle, m, fresh, owing)
  BY IdleIs DEF WriteIsSafe
<1> QED BY <1>1, <1>2, IdleIs DEF IsSafe

\* A document may ask, or wait for a start to be tried again, at any time.
LEMMA AskIsSafe ==
  ASSUME NEW d, NEW r, NEW m, NEW st, NEW fresh, NEW owing,
         IsSafe(d, r, m, st, fresh, owing),
         NEW after, after = st \/ (st # "ready" /\ after = "loading")
  PROVE  IsSafe(d, r, m, after, fresh, owing)
<1>1. CASE after = st
  BY <1>1
<1>2. CASE st # "ready" /\ after = "loading"
  <2>1. MemoryIsNear(d, r, m, after, fresh, owing)
    BY <1>2 DEF MemoryIsNear
  <2>2. SettledIsClean(d, r, m, after, owing)
    BY <1>2 DEF SettledIsClean
  <2> QED BY <1>2, <2>1, <2>2 DEF IsSafe
<1> QED BY <1>1, <1>2

\* The fields of a command that starts to run.
LEMMA RunIs ==
  ASSUME NEW c, NEW phase \in {"import", "write"}, NEW script \in Seq(Calls),
         NEW ok \in BOOLEAN, NEW result,
         NEW r, r = [command |-> c, phase |-> phase, script |-> script, ok |-> ok,
                     memory |-> result]
  PROVE  /\ r.command = c /\ r.phase = phase /\ r.script = script /\ r.ok = ok
         /\ r.memory = result /\ IsRun(r) /\ r # Idle
<1>1. /\ r.command = c /\ r.phase = phase /\ r.script = script /\ r.ok = ok
      /\ r.memory = result
  OBVIOUS
<1>2. r = [command |-> r.command, phase |-> r.phase, script |-> r.script,
           ok |-> r.ok, memory |-> r.memory]
  OBVIOUS
<1>3. r.phase # "idle" /\ r # Idle
  BY <1>1, IdleIs
<1>4. IsRun(r)
  BY <1>1, <1>2, <1>3 DEF IsRun
<1> QED BY <1>1, <1>3, <1>4

\* An idle lane may start to import.
LEMMA ImportIsSafe ==
  ASSUME NEW d, NEW m, NEW st, NEW fresh, NEW owing,
         IsSafe(d, Idle, m, st, fresh, owing),
         NEW c, c.kind \in Mutations => st = "ready",
         NEW i, i = Import(d),
         NEW r, r = [command |-> c, phase |-> "import", script |-> i.script, ok |-> i.ok,
                     memory |-> i.memory]
  PROVE  IsSafe(d, r, m, st, fresh, owing)
<1>1. IsDisk(d) /\ (fresh => IsSound(d)) /\ IsMemory(m)
  BY DEF IsSafe
<1>2. /\ i.script \in Seq(Calls) /\ i.ok \in BOOLEAN
      /\ Follows(d, i.script, Replay(fresh, DurableRecords(d), DurableGenerations(d)))
      /\ i.ok => /\ IsMemory(i.memory)
                 /\ DurableRecords(d) = Recorded(i.memory)
                 /\ DurableGenerations(d) = i.memory.generations
                 /\ NoJournal(ApplyAll(d, i.script))
      /\ NoJournal(d) => i.script = <<>>
  BY <1>1, ImportReplays
<1>3. /\ r.command = c /\ r.phase = "import" /\ r.script = i.script /\ r.ok = i.ok
      /\ r.memory = i.memory /\ IsRun(r) /\ r # Idle
  BY <1>2, RunIs
<1>4. ReplayIsSafe(d, r, fresh)
  BY <1>2, <1>3 DEF ReplayIsSafe
<1>5. WriteIsSafe(d, r, m, fresh, owing)
  BY <1>3 DEF WriteIsSafe
<1>6. Writers(r) = {}
  BY <1>3 DEF Writers
<1>7. MemoryIsNear(d, r, m, st, fresh, owing)
  <2>1. MemoryIsNear(d, Idle, m, st, fresh, owing)
    BY DEF IsSafe
  <2> QED BY <1>6, <2>1, IdleIs DEF MemoryIsNear
<1>8. SettledIsClean(d, r, m, st, owing)
  <2>1. SettledIsClean(d, Idle, m, st, owing)
    BY DEF IsSafe
  <2> QED BY <1>2, <1>3, <2>1, IdleIs DEF SettledIsClean
<1> QED BY <1>1, <1>3, <1>4, <1>5, <1>7, <1>8 DEF IsSafe

LEMMA WritingIs ==
  ASSUME NEW c, NEW script \in Seq(Calls), NEW result, NEW r, r = Writing(c, script, result)
  PROVE  /\ r.command = c /\ r.phase = "write" /\ r.script = script
         /\ r.memory = result /\ IsRun(r) /\ r # Idle
<1>1. /\ r.command = c /\ r.phase = "write" /\ r.script = script
      /\ r.memory = result
  BY DEF Writing
<1>2. r = [command |-> r.command, phase |-> r.phase, script |-> r.script,
           ok |-> r.ok, memory |-> r.memory]
  BY DEF Writing
<1>3. r.phase # "idle" /\ r # Idle
  BY <1>1, IdleIs
<1>4. r.ok \in BOOLEAN
  BY DEF Writing
<1>5. IsRun(r)
  BY <1>1, <1>2, <1>3, <1>4 DEF IsRun
<1> QED BY <1>1, <1>3, <1>5

\* What a smaller set of documents explains, a larger one does.
LEMMA NearMore ==
  ASSUME NEW m, NEW records, NEW keys, NEW more, keys \subseteq more, Near(m, records, keys)
  PROVE  Near(m, records, more)
BY DEF Near

\* A lane may start to write what it has planned.
LEMMA WriteIsStarted ==
  ASSUME NEW m, NEW st, st = "ready", NEW fresh \in BOOLEAN, NEW owing,
         NEW c, c.kind \in Mutations,
         Planning(m, c.caller, fresh, Trusted(fresh, owing), owing),
         NEW plan, Planned(plan, m, c.caller, fresh, Trusted(fresh, owing), owing),
         NEW r, r = Writing(c, plan.script, plan.memory)
  PROVE  IsSafe(disk, r, m, st, fresh, owing)
<1> DEFINE w == Transaction(fresh, Trusted(fresh, owing), c.caller, m.generations,
                            plan.memory.generations)
<1>1. PICK e : Leads(disk, plan.script, e, w) /\ (Trusted(fresh, owing) => Lands(e, plan.memory, owing))
  BY DEF Planned
<1>2. plan.script \in Seq(Calls) /\ Follows(disk, plan.script, w) /\ ApplyAll(disk, plan.script) = e
  BY <1>1 DEF Leads
<1> HIDE DEF w
<1>3. /\ r.command = c /\ r.phase = "write" /\ r.script = plan.script
      /\ r.memory = plan.memory /\ IsRun(r) /\ r # Idle
  <2>1. plan.script \in Seq(Calls)
    BY <1>2
  <2> QED BY ONLY r = Writing(c, plan.script, plan.memory), <2>1, WritingIs
<1>4. IsDisk(disk) /\ (fresh => IsSound(disk)) /\ IsMemory(m) /\ NoJournal(disk)
  BY DEF Planning
<1>5. IsMemory(plan.memory) /\ plan.memory.generations # m.generations
  BY DEF Planned
<1>6. WriteIsSafe(disk, r, m, fresh, owing)
  <2>1. Follows(disk, r.script, Transaction(fresh, Trusted(fresh, owing), r.command.caller,
                                            m.generations, r.memory.generations))
    BY <1>2, <1>3 DEF w
  <2>2. Trusted(fresh, owing) => Lands(ApplyAll(disk, r.script), r.memory, owing)
    BY <1>1, <1>2, <1>3
  <2> QED BY <1>3, <1>5, <2>1, <2>2 DEF WriteIsSafe
<1>7. ReplayIsSafe(disk, r, fresh)
  BY <1>3 DEF ReplayIsSafe
<1>8. MemoryIsNear(disk, r, m, st, fresh, owing)
  <2>1. Trusted(fresh, owing) => Near(m, Listing(disk.files), owing)
    BY DEF Planning
  <2>2. DurableRecords(disk) = Listing(disk.files)
    BY <1>4, CleanDurable
  <2>3. owing \subseteq owing \cup Writers(r)
    OBVIOUS
  <2>4. Trusted(fresh, owing) => Near(m, DurableRecords(disk), owing \cup Writers(r))
    BY <2>1, <2>2, <2>3, NearMore
  <2> QED BY <2>4 DEF MemoryIsNear
<1>9. SettledIsClean(disk, r, m, st, owing)
  BY <1>3 DEF SettledIsClean
<1> QED BY <1>3, <1>4, <1>6, <1>7, <1>8, <1>9 DEF IsSafe

------------------------------------------------------------------------------
(* What a durable call does to a safe store.                                 *)

LEMMA TransactionIs ==
  ASSUME NEW fresh, NEW trusted, NEW key, NEW before, NEW after,
         NEW w, w = Transaction(fresh, trusted, key, before, after)
  PROVE  /\ w.kind = "write" /\ w.key = key /\ w.before = before /\ w.after = after
         /\ (w.trusted <=> trusted) /\ (w.fresh <=> fresh)
BY DEF Transaction

LEMMA ReplayIs ==
  ASSUME NEW fresh, NEW records, NEW generations, NEW w, w = Replay(fresh, records, generations)
  PROVE  /\ w.kind = "replay" /\ w.records = records /\ w.generations = generations
         /\ (w.fresh <=> fresh)
BY DEF Replay

\* Records that a document adds stay explained by it.
LEMMA NearAdded ==
  ASSUME NEW m, NEW old, NEW new, NEW keys, NEW k \in keys, Near(m, old, keys),
         Adds(old, new, k)
  PROVE  Near(m, new, keys)
<1>1. PICK r \in new : /\ new = old \cup {r} /\ r.key = k
                       /\ (r.kind = "metadata" => r.id = k)
  BY DEF Adds
<1>2. Recorded(m) \subseteq new
  BY <1>1 DEF Near
<1>3. ASSUME NEW s \in new \ Recorded(m)
      PROVE  s.key \in keys /\ (s.kind = "metadata" => s.id = s.key)
  <2>1. CASE s = r
    BY <1>1, <2>1
  <2>2. CASE s # r
    <3>1. s \in old \ Recorded(m)
      BY <1>1, <1>3, <2>2
    <3> QED BY <3>1 DEF Near
  <2> QED BY <2>1, <2>2
<1> QED BY <1>2, <1>3 DEF Near

\* A call that succeeds.
LEMMA StepIsSafe ==
  ASSUME NEW d, NEW r, NEW m, NEW st, NEW fresh \in BOOLEAN, NEW owing,
         IsSafe(d, r, m, st, fresh, owing), r.script # <<>>,
         NEW part \in Parts(Head(r.script)), NEW e, e = Apply(d, part),
         NEW s, s = [r EXCEPT !.script = Left(@, part)]
  PROVE  IsSafe(e, s, m, st, fresh, owing)
<1>1. /\ IsRun(r) /\ IsDisk(d) /\ (fresh => IsSound(d)) /\ IsMemory(m)
      /\ ReplayIsSafe(d, r, fresh) /\ WriteIsSafe(d, r, m, fresh, owing)
      /\ MemoryIsNear(d, r, m, st, fresh, owing) /\ SettledIsClean(d, r, m, st, owing)
      /\ r # Idle /\ r.command.kind \in Mutations => st = "ready"
  BY DEF IsSafe
<1> DEFINE rest == Left(r.script, part)
<1>2. /\ r = [command |-> r.command, phase |-> r.phase, script |-> r.script,
              ok |-> r.ok, memory |-> r.memory]
      /\ r.phase \in {"idle", "import", "write"} /\ r.ok \in BOOLEAN
      /\ r.script \in Seq(Calls)
  BY <1>1 DEF IsRun
<1>3. /\ s.command = r.command /\ s.phase = r.phase /\ s.script = rest /\ s.ok = r.ok
      /\ s.memory = r.memory
      /\ s = [command |-> s.command, phase |-> s.phase, script |-> s.script,
              ok |-> s.ok, memory |-> s.memory]
  BY <1>2
<1> HIDE DEF rest
<1>4. r # Idle /\ r.phase \in {"import", "write"}
  <2>1. r # Idle
    BY IdleIs
  <2> QED BY <1>1, <1>2, <2>1 DEF IsRun
<1>5. ASSUME NEW w, Follows(d, r.script, w)
      PROVE  /\ IsStep(d, e, w) /\ rest \in Seq(Calls) /\ Follows(e, rest, w)
             /\ ApplyAll(e, rest) = ApplyAll(d, r.script) /\ IsState(e, w)
  <2>1. /\ IsStep(d, e, w) /\ rest \in Seq(Calls) /\ Follows(e, rest, w)
        /\ ApplyAll(e, rest) = ApplyAll(d, r.script)
    BY <1>2, <1>5, StepFollows DEF rest
  <2> QED BY <2>1, FollowsState
<1>6. s # Idle
  BY <1>3, <1>4, IdleIs
<1>7. Writers(s) = Writers(r)
  BY <1>3 DEF Writers
<1>8. CASE r.phase = "import"
  <2> DEFINE w == Replay(fresh, DurableRecords(d), DurableGenerations(d))
  <2>1. Follows(d, r.script, w)
    BY <1>1, <1>8 DEF ReplayIsSafe
  <2>2. /\ w.kind = "replay" /\ w.records = DurableRecords(d)
        /\ w.generations = DurableGenerations(d) /\ (w.fresh <=> fresh)
    BY ReplayIs
  <2> HIDE DEF w
  <2>3. /\ IsStep(d, e, w) /\ rest \in Seq(Calls) /\ Follows(e, rest, w)
        /\ ApplyAll(e, rest) = ApplyAll(d, r.script) /\ IsState(e, w)
    BY <1>5, <2>1
  <2>4. /\ IsDisk(e) /\ (fresh => IsSound(e)) /\ DurableRecords(e) = DurableRecords(d)
        /\ DurableGenerations(e) = DurableGenerations(d)
    BY <2>2, <2>3 DEF IsState
  <2>5. IsRun(s)
    BY <1>2, <1>3, <1>6, <1>8, <2>3 DEF IsRun
  <2>6. ReplayIsSafe(e, s, fresh)
    <3>1. Follows(e, rest, Replay(fresh, DurableRecords(e), DurableGenerations(e)))
      BY <2>3, <2>4 DEF w
    <3>2. r.ok => /\ IsMemory(r.memory)
                  /\ DurableRecords(d) = Recorded(r.memory)
                  /\ DurableGenerations(d) = r.memory.generations
                  /\ NoJournal(ApplyAll(d, r.script))
      BY <1>1, <1>8 DEF ReplayIsSafe
    <3> QED BY <1>3, <2>3, <2>4, <3>1, <3>2 DEF ReplayIsSafe
  <2>7. WriteIsSafe(e, s, m, fresh, owing)
    BY <1>3, <1>8 DEF WriteIsSafe
  <2>8. MemoryIsNear(e, s, m, st, fresh, owing)
    BY <1>1, <1>7, <2>4 DEF MemoryIsNear
  <2>9. SettledIsClean(e, s, m, st, owing)
    BY <1>1, <1>3, <1>8 DEF SettledIsClean
  <2> QED BY <1>1, <1>3, <1>4, <2>4, <2>5, <2>6, <2>7, <2>8, <2>9 DEF IsSafe
<1>9. CASE r.phase = "write"
  <2> DEFINE k == r.command.caller
             w == Transaction(fresh, Trusted(fresh, owing), k, m.generations,
                              r.memory.generations)
  <2>1. /\ r.command.kind \in Mutations
        /\ IsMemory(r.memory) /\ r.memory.generations # m.generations
        /\ Follows(d, r.script, w)
        /\ Trusted(fresh, owing) => Lands(ApplyAll(d, r.script), r.memory, owing)
    BY <1>1, <1>9 DEF WriteIsSafe
  <2>2. /\ w.kind = "write" /\ w.key = k /\ w.before = m.generations
        /\ w.after = r.memory.generations
        /\ (w.trusted <=> Trusted(fresh, owing)) /\ (w.fresh <=> fresh)
    BY TransactionIs
  <2> HIDE DEF w
  <2>3. /\ IsStep(d, e, w) /\ rest \in Seq(Calls) /\ Follows(e, rest, w)
        /\ ApplyAll(e, rest) = ApplyAll(d, r.script) /\ IsState(e, w)
    BY <1>5, <2>1
  <2>4. IsDisk(e) /\ (fresh => IsSound(e))
    BY <2>2, <2>3 DEF IsState
  <2>5. IsRun(s)
    BY <1>2, <1>3, <1>6, <1>9, <2>3 DEF IsRun
  <2>6. ReplayIsSafe(e, s, fresh)
    BY <1>3, <1>9 DEF ReplayIsSafe
  <2>7. WriteIsSafe(e, s, m, fresh, owing)
    <3>1. Follows(e, s.script, Transaction(fresh, Trusted(fresh, owing), s.command.caller,
                                           m.generations, s.memory.generations))
      BY <1>3, <2>3 DEF w
    <3> QED BY <1>3, <2>1, <2>3, <3>1 DEF WriteIsSafe
  <2>8. MemoryIsNear(e, s, m, st, fresh, owing)
    <3>1. SUFFICES ASSUME Trusted(fresh, owing), st = "ready",
                          m.generations = DurableGenerations(e)
                   PROVE  Near(m, DurableRecords(e), owing \cup Writers(s))
      BY DEF MemoryIsNear
    <3>2. m.generations = DurableGenerations(d)
            => Near(m, DurableRecords(d), owing \cup Writers(s))
      BY <1>1, <1>7, <3>1 DEF MemoryIsNear
    <3>3. CASE /\ DurableRecords(e) = DurableRecords(d)
               /\ DurableGenerations(e) = DurableGenerations(d)
      BY <3>1, <3>2, <3>3
    <3>4. CASE /\ Adds(DurableRecords(d), DurableRecords(e), w.key)
               /\ DurableGenerations(e) = DurableGenerations(d)
      <4>1. k \in owing \cup Writers(s)
        BY <1>7, <1>9 DEF Writers
      <4>2. Adds(DurableRecords(d), DurableRecords(e), k)
        BY <2>2, <3>4
      <4>3. Near(m, DurableRecords(d), owing \cup Writers(s))
        BY <3>1, <3>2, <3>4
      <4> HIDE DEF k
      <4> QED BY <4>1, <4>2, <4>3, NearAdded
    <3>5. CASE DurableGenerations(d) = w.before /\ DurableGenerations(e) = w.after
      BY <2>1, <2>2, <3>1, <3>5
    <3> QED BY <2>2, <2>3, <3>1, <3>3, <3>4, <3>5 DEF IsStep
  <2>9. SettledIsClean(e, s, m, st, owing)
    BY <1>3, <1>9 DEF SettledIsClean
  <2> QED BY <1>1, <1>3, <1>4, <2>4, <2>5, <2>6, <2>7, <2>8, <2>9 DEF IsSafe
<1> QED BY <1>4, <1>8, <1>9

------------------------------------------------------------------------------
(* What the end of a command does to a safe store.                           *)

\* A command may fail at any of its calls: what it wrote so far is explained by
\* the documents that now owe a reconciliation.
LEMMA ThrowIsSafe ==
  ASSUME NEW d, NEW r, NEW m, NEW st, NEW fresh \in BOOLEAN, NEW owing,
         IsSafe(d, r, m, st, fresh, owing),
         NEW after, after \in {st, "failed"}, NEW more, owing \subseteq more,
         r.phase = "write" => r.command.caller \in more
  PROVE  IsSafe(d, Idle, m, after, fresh, more)
<1>1. /\ IsDisk(d) /\ (fresh => IsSound(d)) /\ IsMemory(m)
      /\ MemoryIsNear(d, r, m, st, fresh, owing) /\ SettledIsClean(d, r, m, st, owing)
  BY DEF IsSafe
<1>2. MemoryIsNear(d, Idle, m, after, fresh, more)
  <2>1. SUFFICES ASSUME Trusted(fresh, more), after = "ready",
                        m.generations = DurableGenerations(d)
                 PROVE  Near(m, DurableRecords(d), more \cup Writers(Idle))
    BY DEF MemoryIsNear
  <2>2. Trusted(fresh, owing)
    BY <2>1 DEF Trusted
  <2>3. st = "ready"
    BY <2>1
  <2>4. Near(m, DurableRecords(d), owing \cup Writers(r))
    BY <1>1, <2>1, <2>2, <2>3 DEF MemoryIsNear
  <2>5. owing \cup Writers(r) \subseteq more \cup Writers(Idle)
    BY DEF Writers
  <2> QED BY <2>4, <2>5, NearMore
<1>3. SettledIsClean(d, Idle, m, after, more)
  <2>1. SUFFICES ASSUME after = "ready", more = {}
                 PROVE  NoJournal(d) /\ d.index = m.generations /\ Idle.script = <<>>
    BY DEF SettledIsClean
  <2>2. st = "ready" /\ owing = {} /\ r.phase # "write"
    BY <2>1
  <2> QED BY <1>1, <2>2, IdleIs DEF SettledIsClean
<1> QED BY <1>1, <1>2, <1>3, IdleIsSafe

\* A refused command only adds a document that owes a reconciliation; the memory
\* may have been found left behind.
LEMMA OweIsSafe ==
  ASSUME NEW d, NEW m, NEW st, NEW fresh \in BOOLEAN, NEW owing,
         IsSafe(d, Idle, m, st, fresh, owing), NEW fresher \in BOOLEAN, fresher => fresh,
         NEW k, NEW more, more = owing \cup {k}
  PROVE  IsSafe(d, Idle, m, st, fresher, more)
<1>1. /\ IsDisk(d) /\ (fresh => IsSound(d)) /\ IsMemory(m)
      /\ MemoryIsNear(d, Idle, m, st, fresh, owing)
  BY DEF IsSafe
<1>2. more # {}
  OBVIOUS
<1>3. MemoryIsNear(d, Idle, m, st, fresher, more)
  <2>1. SUFFICES ASSUME Trusted(fresher, more), st = "ready",
                        m.generations = DurableGenerations(d)
                 PROVE  Near(m, DurableRecords(d), more \cup Writers(Idle))
    BY DEF MemoryIsNear
  <2>2. Trusted(fresh, owing)
    BY <1>2, <2>1 DEF Trusted
  <2>3. Near(m, DurableRecords(d), owing \cup Writers(Idle))
    BY <1>1, <2>1, <2>2 DEF MemoryIsNear
  <2>4. owing \cup Writers(Idle) \subseteq more \cup Writers(Idle)
    OBVIOUS
  <2> QED BY <2>3, <2>4, NearMore
<1>4. SettledIsClean(d, Idle, m, st, more)
  BY <1>2 DEF SettledIsClean
<1> QED BY <1>1, <1>3, <1>4, IdleIsSafe

\* What an import read is what the directory holds.
LEMMA ImportEnds ==
  ASSUME NEW d, NEW r, NEW m, NEW st, NEW fresh \in BOOLEAN, NEW owing,
         IsSafe(d, r, m, st, fresh, owing), r.phase = "import", r.script = <<>>, r.ok
  PROVE  /\ IsMemory(r.memory) /\ NoJournal(d) /\ d.index = r.memory.generations
         /\ \A keys : Near(r.memory, DurableRecords(d), keys)
<1>1. ReplayIsSafe(d, r, fresh)
  BY DEF IsSafe
<1>2. /\ IsMemory(r.memory)
      /\ DurableRecords(d) = Recorded(r.memory)
      /\ DurableGenerations(d) = r.memory.generations
      /\ NoJournal(ApplyAll(d, r.script))
  BY <1>1 DEF ReplayIsSafe
<1>3. NoJournal(d)
  BY <1>2, NothingIsApplied
<1>4. DurableGenerations(d) = d.index
  BY <1>3, CleanDurable
<1> QED BY <1>2, <1>3, <1>4 DEF Near

\* The lane ends with the memory it has just read or written.
LEMMA MemoryIsReplaced ==
  ASSUME NEW d, IsDisk(d), NEW fresh \in BOOLEAN, fresh => IsSound(d), NEW m, IsMemory(m),
         NEW owing, NEW st, Trusted(fresh, owing) => Lands(d, m, owing)
  PROVE  IsSafe(d, Idle, m, st, fresh, owing)
<1>1. MemoryIsNear(d, Idle, m, st, fresh, owing)
  <2>1. owing \subseteq owing \cup Writers(Idle)
    OBVIOUS
  <2>2. Lands(d, m, owing) => Near(m, DurableRecords(d), owing \cup Writers(Idle))
    BY <2>1, NearMore DEF Lands
  <2> QED BY <2>2 DEF MemoryIsNear
<1>2. SettledIsClean(d, Idle, m, st, owing)
  <2>1. owing = {} => Trusted(fresh, owing)
    BY DEF Trusted
  <2> QED BY <2>1, IdleIs DEF SettledIsClean, Lands
<1> QED BY <1>1, <1>2, IdleIsSafe

\* The end of an import, and of a mutation.
LEMMA ImportedIsSafe ==
  ASSUME NEW d, NEW r, NEW m, NEW st, NEW fresh \in BOOLEAN, NEW owing,
         IsSafe(d, r, m, st, fresh, owing), r.phase = "import", r.script = <<>>, r.ok,
         NEW after, NEW more
  PROVE  IsSafe(d, Idle, r.memory, after, fresh, more)
<1>1. /\ IsMemory(r.memory) /\ NoJournal(d) /\ d.index = r.memory.generations
      /\ \A keys : Near(r.memory, DurableRecords(d), keys)
  BY ImportEnds
<1>2. Lands(d, r.memory, more)
  BY <1>1 DEF Lands
<1>3. IsDisk(d) /\ (fresh => IsSound(d))
  BY DEF IsSafe
<1> QED BY <1>1, <1>2, <1>3, MemoryIsReplaced

LEMMA WrittenIsSafe ==
  ASSUME NEW d, NEW r, NEW m, NEW st, NEW fresh \in BOOLEAN, NEW owing,
         IsSafe(d, r, m, st, fresh, owing), r.phase = "write", r.script = <<>>
  PROVE  IsSafe(d, Idle, r.memory, st, fresh, owing)
<1>1. IsDisk(d) /\ (fresh => IsSound(d)) /\ WriteIsSafe(d, r, m, fresh, owing)
  BY DEF IsSafe
<1>2. /\ IsMemory(r.memory)
      /\ Trusted(fresh, owing) => Lands(ApplyAll(d, r.script), r.memory, owing)
  BY <1>1 DEF WriteIsSafe
<1>3. ApplyAll(d, r.script) = d
  BY NothingIsApplied
<1> QED BY <1>1, <1>2, <1>3, MemoryIsReplaced

------------------------------------------------------------------------------
(* What an earlier process left.                                             *)

\* Finitely many records have identifiers below some number.
LEMMA FiniteIsBounded ==
  ASSUME NEW S, IsFiniteSet(S), S \subseteq [id : Nat, key : Keys]
  PROVE  Bounded({e.id : e \in S})
<1>1. PICK N \in Nat : ExistsSurjection(1..N, S)
  BY FS_NatSurjection
<1>2. PICK f \in [1..N -> S] : \A e \in S : \E n \in 1..N : f[n] = e
  BY <1>1 DEF ExistsSurjection, Surjection
<1> DEFINE Good == {n \in Nat : n <= N => \E b \in Nat : \A i \in 1..n : f[i].id < b}
<1>3. 0 \in Good
  <2>1. 0 \in Nat /\ \A i \in 1..0 : f[i].id < 0
    OBVIOUS
  <2> QED BY <2>1
<1>4. ASSUME NEW n \in Nat, n \in Good PROVE n + 1 \in Good
  <2>1. SUFFICES ASSUME n + 1 <= N PROVE \E b \in Nat : \A i \in 1..(n + 1) : f[i].id < b
    OBVIOUS
  <2>2. PICK b \in Nat : \A i \in 1..n : f[i].id < b
    BY <1>4, <2>1
  <2>3. f[n + 1] \in S
    BY <1>2, <2>1
  <2>4. PICK x \in Nat : x = f[n + 1].id
    BY <2>3
  <2> DEFINE c == b + x + 1
  <2>5. c \in Nat /\ \A i \in 1..(n + 1) : f[i].id < c
    <3>1. c \in Nat /\ b < c /\ x < c /\ b <= c
      OBVIOUS
    <3>2. ASSUME NEW i \in 1..(n + 1) PROVE f[i].id < c
      <4>1. CASE i = n + 1
        BY <2>4, <3>1, <4>1
      <4>2. CASE i # n + 1
        <5>1. i \in 1..n /\ i \in 1..N
          BY <2>1, <4>2
        <5>2. f[i].id < b
          BY <2>2, <5>1
        <5>3. f[i] \in S
          BY <1>2, <5>1
        <5>4. f[i].id \in Nat
          BY <5>3
        <5> HIDE DEF c
        <5> QED BY <3>1, <5>2, <5>4
      <4> QED BY <4>1, <4>2
    <3> QED BY <3>1, <3>2
  <2> HIDE DEF c
  <2> QED BY <2>5
<1> HIDE DEF Good
<1>5. N \in Good
  BY <1>3, <1>4, SetInduction
<1>6. PICK b \in Nat : \A i \in 1..N : f[i].id < b
  BY <1>5 DEF Good
<1>7. \A x \in {e.id : e \in S} : x < b
  BY <1>2, <1>6
<1> QED BY <1>7 DEF Bounded

LEMMA NothingIsADirectory == IsDirectory(<<>>)
<1>1. DOMAIN <<>> = {}
  OBVIOUS
<1>2. IsFunction(<<>>)
  BY <1>1 DEF IsFunction
<1>3. Bounded(NumbersOf(DOMAIN <<>>))
  <2>1. NumbersOf({}) = {}
    BY DEF NumbersOf
  <2>2. 0 \in Nat /\ \A i \in {} : i < 0
    OBVIOUS
  <2> QED BY <1>1, <2>1, <2>2 DEF Bounded
<1> QED BY <1>1, <1>2, <1>3 DEF IsDirectory

\* A directory of an earlier process that had no work left.
LEMMA StoredIsSound ==
  ASSUME NEW s \in Stored, NEW d, d = DiskOf(s)
  PROVE  IsDisk(d) /\ IsSound(d)
<1>1. /\ IsFiniteSet(s.entries) /\ s.entries \subseteq [id : Nat, key : Keys]
      /\ s.raws \subseteq [id : Keys, key : Keys]
      /\ s.generations \in Generations
  BY StoredAssumption
<1> DEFINE E == s.entries
           R == s.raws
           names == {Snapshot(e.id) : e \in E} \cup RawFiles({e.id : e \in R})
           key(f) == (CHOOSE e \in IF f.kind = "snapshot" THEN E ELSE R : e.id = f.id).key
           F == [f \in names |-> key(f)]
<1>2. d = Dir(F, <<>>, s.generations, None, None)
  BY DEF DiskOf, Dir
<1>3. \A f \in names : \/ /\ f.kind = "snapshot" /\ f = Snapshot(f.id)
                          /\ \E e \in E : e.id = f.id
                       \/ /\ f.kind \in {"payload", "metadata"}
                          /\ f = Payload(f.id) \/ f = Metadata(f.id)
                          /\ \E e \in R : e.id = f.id
  BY DEF RawFiles, Snapshot, Payload, Metadata
<1>4. names \subseteq Artifacts
  <2>1. ASSUME NEW e \in E PROVE Snapshot(e.id) \in Artifacts
    BY <1>1 DEF Snapshot, Artifacts
  <2>2. ASSUME NEW e \in R PROVE Payload(e.id) \in Artifacts /\ Metadata(e.id) \in Artifacts
    BY <1>1 DEF Payload, Metadata, Artifacts
  <2> QED BY <2>1, <2>2 DEF RawFiles
<1>5. ASSUME NEW f \in names PROVE key(f) \in Keys
  <2>1. CASE f.kind = "snapshot"
    <3>1. \E e \in E : e.id = f.id
      BY <1>3, <2>1
    <3>2. (CHOOSE e \in E : e.id = f.id) \in E
      BY <3>1
    <3> QED BY <1>1, <2>1, <3>2
  <2>2. CASE f.kind # "snapshot"
    <3>1. \E e \in R : e.id = f.id
      BY <1>3, <2>2
    <3>2. (CHOOSE e \in R : e.id = f.id) \in R
      BY <3>1
    <3> QED BY <1>1, <2>2, <3>2
  <2> QED BY <2>1, <2>2
<1>6. \A i \in Keys : Metadata(i) \in names => Payload(i) \in names
  <2>1. SUFFICES ASSUME NEW i \in Keys, Metadata(i) \in names PROVE Payload(i) \in names
    OBVIOUS
  <2>2. Metadata(i).kind = "metadata" /\ Metadata(i).id = i
    BY DEF Metadata
  <2>3. \E e \in R : e.id = i
    BY <1>3, <2>1, <2>2
  <2> QED BY <2>3 DEF RawFiles
<1>7. Bounded(NumbersOf(names))
  <2>1. Bounded({e.id : e \in E})
    BY <1>1, FiniteIsBounded
  <2>2. NumbersOf(names) \subseteq {e.id : e \in E}
    <3>1. ASSUME NEW i \in NumbersOf(names) PROVE \E e \in E : e.id = i
      <4>1. PICK f \in names : f.kind = "snapshot" /\ f.id = i
        BY <3>1 DEF NumbersOf
      <4> QED BY <1>3, <4>1
    <3> QED BY <3>1
  <2> QED BY <2>1, <2>2, BoundedSubset
<1>8. DOMAIN F = names /\ IsFunction(F)
  BY DEF IsFunction
<1>9. \A f \in names : F[f] \in Keys
  BY <1>5
<1> HIDE DEF F, names, key, E, R
<1>10. IsDirectory(F)
  BY <1>4, <1>7, <1>8, <1>9 DEF IsDirectory
<1>11. /\ d.files = F /\ d.tombs = <<>> /\ d.index = s.generations /\ d.deletion = None
       /\ d.migration = None
       /\ d = Dir(d.files, d.tombs, d.index, d.deletion, d.migration)
  BY <1>2, DirIs
<1>12. DOMAIN d.tombs = {}
  BY <1>11
<1>13. IsDisk(d)
  BY <1>1, <1>11, <1>12, <1>10, NothingIsADirectory DEF IsDisk, Dir
<1>14. Believed(d) = F
  BY <1>11 DEF Believed
<1>15. IsSound(d)
  BY <1>6, <1>8, <1>11, <1>14 DEF IsSound
<1> QED BY <1>13, <1>15
=============================================================================
