-------------------------- MODULE RecoveryStoreProofs --------------------------
(* What the recovery store keeps for every number of documents, calls, failures  *)
(* and crashes, whatever the directory holds.  The command lane: a call that     *)
(* waits is held in exactly one place.  The store: its directory can be replayed *)
(* and its memory agrees with it (StoreInvariant), and it implements             *)
(* AtomicRecovery.                                                               *)
EXTENDS RecoveryDiskProofs

------------------------------------------------------------------------------
(* What the operators of the directory keep.                                 *)

\* The newest record of a document is kept whatever the limits are; a snapshot
\* that persistSnapshot has just written is therefore never trimmed at once.
THEOREM NewestIsKept ==
  ASSUME NEW candidates, NEW e \in candidates,
         \A f \in Newer(e, candidates) : f.key # e.key
  PROVE  e \in Trim(candidates)
<1> DEFINE newerOfSame(x) == {f \in Newer(x, candidates) : f.key = x.key}
           kept == {x \in candidates : Cardinality(newerOfSame(x)) < PerDocumentLimit}
           pinned == {x \in kept : \A f \in Newer(x, kept) : f.key # x.key}
<1>1. newerOfSame(e) = {}
  OBVIOUS
<1>2. Cardinality(newerOfSame(e)) = 0
  BY <1>1, FS_EmptySet
<1>3. e \in kept
  BY <1>2, LimitsAssumption
<1>4. Newer(e, kept) \subseteq Newer(e, candidates)
  BY DEF Newer
<1>5. e \in pinned
  BY <1>3, <1>4
<1>6. pinned \subseteq Trim(candidates)
  BY DEF Trim
<1> QED BY <1>5, <1>6

\* Trimming invents no record.
THEOREM TrimIsASelection == \A candidates : Trim(candidates) \subseteq candidates
BY DEF Trim, Newer

------------------------------------------------------------------------------
(* Generations.                                                              *)

\* Counting a set of documents raises their generations and no other.
THEOREM AdvanceRaises ==
  ASSUME NEW generations \in Generations, NEW keys \in SUBSET Keys
  PROVE  /\ Advance(generations, keys) \in Generations
         /\ \A k \in Keys : IF k \in keys THEN Advance(generations, keys)[k] > generations[k]
                            ELSE Advance(generations, keys)[k] = generations[k]
BY DEF Generations, Advance

\* After a move the source leaves its own generation behind and the destination
\* leaves both behind: a mutation made for either before the move is refused.
THEOREM MoveLeavesBehind ==
  ASSUME NEW generations \in Generations, NEW source \in Keys, NEW destination \in Keys,
         source # destination
  PROVE  LET next == MigratedGenerations(generations, source, destination) IN
         /\ next \in Generations
         /\ next[source] > generations[source]
         /\ next[destination] > generations[source]
         /\ next[destination] > generations[destination]
         /\ \A k \in Keys \ {source, destination} : next[k] = generations[k]
BY DEF Generations, MigratedGenerations

------------------------------------------------------------------------------
(* The inductive invariant.                                                  *)

Kinds == Retained \cup {"startup", "waitForStartup", "load", "reconcileCommit"}

\* What the lane may hold: the startup nobody asked for, or the call of a document.
Good(c) ==
  /\ c.kind \in Kinds
  /\ c.caller \in Keys \cup {None}
  /\ c.caller = None => c.kind = "startup"
  /\ c.kind \in Retained => c.destination \in Keys

\* j has a mutation under way, or still to reconcile, that moves it to t.
Claims(clients, j, t) ==
  /\ j # t
  /\ clients[j].state \in {"waiting", "owes"}
  /\ clients[j].intent.kind \in Retained
  /\ clients[j].intent.destination = t

\* The documents wait for the calls of held and for nothing else, and two documents
\* never move to one identity nor to one that is open.
Reflects(held, clients) ==
  /\ clients = [k \in Keys |-> clients[k]]
  /\ \A c \in held : Good(c)
  /\ \A c \in held : c.caller \in Keys => clients[c.caller] = Waiting(c)
  /\ \A k \in Keys :
       clients[k].state = "waiting" => \E c \in held : c.caller = k
  /\ \A k \in Keys :
       clients[k].state = "owes" =>
         /\ Good(clients[k].intent)
         /\ clients[k].intent.kind \in Retained /\ clients[k].intent.caller = k
  /\ \A j, t \in Keys : Claims(clients, j, t) => clients[t] = Free("out")
  /\ \A i, j, t \in Keys :
       Claims(clients, i, t) /\ Claims(clients, j, t) => i = j

\* A document has one call in a queue at most.
Once(q) ==
  /\ \E S : q \in Seq(S)
  /\ \A m, n \in DOMAIN q : q[m].caller = q[n].caller /\ q[m].caller \in Keys => m = n

\* No queued call is of the document whose call runs.
Apart(set, c) == \A d \in set : d.caller \in Keys => d.caller # c.caller

Running(r) == IF r = Idle THEN {} ELSE {r.command}

Lane(q, r) ==
  /\ Once(q)
  /\ r # Idle => r.phase # "idle" /\ Apart(Members(q), r.command)

IInv ==
  /\ Lane(commands, run)
  /\ Reflects(Members(commands) \cup Running(run), client)

------------------------------------------------------------------------------
(* Queues.                                                                   *)

\* A queue with one more call at its end.
LEMMA AppendedOnce ==
  ASSUME NEW q, Once(q), NEW c, Apart(Members(q), c)
  PROVE  Once(Append(q, c)) /\ Members(Append(q, c)) = Members(q) \cup {c}
<1>1. PICK S : q \in Seq(S)
  BY DEF Once
<1> DEFINE p == Append(q, c)
<1>2. p \in Seq(S \cup {c}) /\ Len(p) = Len(q) + 1 /\ p[Len(q) + 1] = c
      /\ \A n \in 1..Len(q) : p[n] = q[n]
  <2>1. q \in Seq(S \cup {c})
    BY <1>1
  <2> QED BY <2>1
<1>3. DOMAIN q = 1..Len(q) /\ DOMAIN p = 1..(Len(q) + 1) /\ Len(q) \in Nat
  BY <1>1, <1>2
<1> HIDE DEF p
<1>4. Members(p) = Members(q) \cup {c}
  BY <1>2, <1>3 DEF Members
<1>5. ASSUME NEW m \in DOMAIN p, NEW n \in DOMAIN p,
             p[m].caller = p[n].caller, p[m].caller \in Keys
      PROVE  m = n
  BY <1>2, <1>3, <1>5 DEF Once, Apart, Members
<1> QED BY <1>2, <1>4, <1>5 DEF Once, p

\* A queue with one more call at its head.
LEMMA PrependedOnce ==
  ASSUME NEW q, Once(q), NEW c, Apart(Members(q), c)
  PROVE  Once(<<c>> \o q) /\ Members(<<c>> \o q) = Members(q) \cup {c}
<1>1. PICK S : q \in Seq(S)
  BY DEF Once
<1> DEFINE p == <<c>> \o q
<1>2. p \in Seq(S \cup {c}) /\ Len(p) = Len(q) + 1 /\ p[1] = c
      /\ \A n \in 1..Len(q) : p[n + 1] = q[n]
  <2>1. q \in Seq(S \cup {c}) /\ <<c>> \in Seq(S \cup {c})
    BY <1>1
  <2> QED BY <2>1
<1>3. DOMAIN q = 1..Len(q) /\ DOMAIN p = 1..(Len(q) + 1) /\ Len(q) \in Nat
  BY <1>1, <1>2
<1> HIDE DEF p
<1>4. \A n \in DOMAIN p : n = 1 \/ (n - 1 \in DOMAIN q /\ p[n] = q[n - 1])
  <2>1. ASSUME NEW n \in DOMAIN p, n # 1
        PROVE  n - 1 \in DOMAIN q /\ p[n] = q[n - 1]
    <3>1. n - 1 \in 1..Len(q) /\ n - 1 + 1 = n
      BY <1>3, <2>1
    <3> QED BY <1>2, <1>3, <3>1
  <2> QED BY <2>1
<1>5. Members(p) = Members(q) \cup {c}
  <2>1. \A n \in DOMAIN q : n + 1 \in DOMAIN p /\ p[n + 1] = q[n]
    BY <1>2, <1>3
  <2>2. 1 \in DOMAIN p
    BY <1>3
  <2>3. ASSUME NEW n \in DOMAIN p PROVE p[n] \in Members(q) \cup {c}
    BY <1>2, <1>4 DEF Members
  <2>4. ASSUME NEW n \in DOMAIN q PROVE q[n] \in Members(p)
    BY <2>1 DEF Members
  <2>5. c \in Members(p)
    BY <1>2, <2>2 DEF Members
  <2> QED BY <2>3, <2>4, <2>5 DEF Members
<1>6. ASSUME NEW m \in DOMAIN p, NEW n \in DOMAIN p,
             p[m].caller = p[n].caller, p[m].caller \in Keys
      PROVE  m = n
  <2>1. CASE m = 1 /\ n = 1
    BY <2>1
  <2>2. CASE m = 1 /\ n # 1
    BY <1>2, <1>4, <1>6, <2>2 DEF Apart, Members
  <2>3. CASE m # 1 /\ n = 1
    BY <1>2, <1>4, <1>6, <2>3 DEF Apart, Members
  <2>4. CASE m # 1 /\ n # 1
    <3>1. m - 1 = n - 1
      BY <1>4, <1>6, <2>4 DEF Once
    <3> QED BY <1>3, <3>1
  <2> QED BY <2>1, <2>2, <2>3, <2>4
<1> QED BY <1>2, <1>5, <1>6 DEF Once, p

\* A queue without its head.
LEMMA TailOnce ==
  ASSUME NEW q, Once(q), q # <<>>
  PROVE  /\ Once(Tail(q))
         /\ Members(q) = Members(Tail(q)) \cup {Head(q)}
         /\ Apart(Members(Tail(q)), Head(q))
<1>1. PICK S : q \in Seq(S)
  BY DEF Once
<1> DEFINE p == Tail(q)
<1>2. /\ p \in Seq(S) /\ Len(p) = Len(q) - 1 /\ Head(q) = q[1]
      /\ \A n \in 1..Len(p) : p[n] = q[n + 1]
  BY <1>1
<1>3. DOMAIN q = 1..Len(q) /\ DOMAIN p = 1..(Len(q) - 1) /\ Len(q) \in Nat \ {0}
  BY <1>1, <1>2
<1> HIDE DEF p
<1>4. \A n \in DOMAIN p : n + 1 \in DOMAIN q /\ n # 0 /\ p[n] = q[n + 1] /\ n \in Nat
  BY <1>2, <1>3
<1>5. \A n \in DOMAIN q : n = 1 \/ (n - 1 \in DOMAIN p /\ q[n] = p[n - 1])
  <2>1. ASSUME NEW n \in DOMAIN q, n # 1
        PROVE  n - 1 \in DOMAIN p /\ q[n] = p[n - 1]
    <3>1. n - 1 \in 1..Len(p) /\ n - 1 + 1 = n
      BY <1>2, <1>3, <2>1
    <3> QED BY <1>2, <1>3, <3>1
  <2> QED BY <2>1
<1>6. 1 \in DOMAIN q
  BY <1>3
<1>7. Members(q) = Members(p) \cup {Head(q)}
  <2>1. ASSUME NEW n \in DOMAIN p PROVE p[n] \in Members(q)
    BY <1>4 DEF Members
  <2>2. ASSUME NEW n \in DOMAIN q PROVE q[n] \in Members(p) \cup {Head(q)}
    BY <1>2, <1>5 DEF Members
  <2>3. Head(q) \in Members(q)
    BY <1>2, <1>6 DEF Members
  <2> QED BY <2>1, <2>2, <2>3 DEF Members
<1>8. Apart(Members(p), Head(q))
  <2>1. ASSUME NEW n \in DOMAIN p, p[n].caller \in Keys, p[n].caller = Head(q).caller
        PROVE  FALSE
    <3>1. n + 1 = 1
      BY <1>2, <1>4, <1>6, <2>1 DEF Once
    <3> QED BY <1>4, <3>1
  <2> QED BY <2>1 DEF Apart, Members
<1>9. Once(p)
  <2>1. ASSUME NEW m \in DOMAIN p, NEW n \in DOMAIN p,
               p[m].caller = p[n].caller, p[m].caller \in Keys
        PROVE  m = n
    <3>1. m + 1 = n + 1
      BY <1>4, <2>1 DEF Once
    <3> QED BY <1>4, <3>1
  <2> QED BY <1>2, <2>1 DEF Once
<1> QED BY <1>7, <1>8, <1>9 DEF p

\* What is selected from a queue.
LEMMA SelectedOnce ==
  ASSUME NEW q, Once(q), NEW set
  PROVE  Once(Selected(q, set)) /\ Members(Selected(q, set)) = Members(q) \cap set
<1>1. PICK S : q \in Seq(S)
  BY DEF Once
<1> DEFINE r == Selected(q, set)
<1>2. r \in Seq(S) /\ Members(r) = Members(q) \cap set
  BY <1>1, SelectedMembers
<1>3. \E g : Keeps(r, g, q, Len(q), set)
  BY <1>1, SelectionKeeps
<1> HIDE DEF r
<1>4. PICK g : Keeps(r, g, q, Len(q), set)
  BY <1>3
<1>5. DOMAIN q = 1..Len(q) /\ DOMAIN r = 1..Len(r)
  BY <1>1, <1>2
<1>6. /\ g \in [DOMAIN r -> DOMAIN q]
      /\ \A i \in DOMAIN r : r[i] = q[g[i]]
      /\ \A m, n \in DOMAIN r : m < n => g[m] < g[n]
  BY <1>4, <1>5 DEF Keeps
<1>7. ASSUME NEW i \in DOMAIN r, NEW j \in DOMAIN r,
             r[i].caller = r[j].caller, r[i].caller \in Keys
      PROVE  i = j
  <2>1. g[i] = g[j] /\ g[i] \in DOMAIN q
    BY <1>6, <1>7 DEF Once
  <2>2. ~(g[i] < g[i])
    BY <1>5, <2>1
  <2>3. ~(i < j) /\ ~(j < i)
    BY <1>6, <2>1, <2>2
  <2> QED BY <1>2, <1>5, <2>3
<1> QED BY <1>2, <1>7 DEF Once, r

------------------------------------------------------------------------------
(* Calls.                                                                    *)

\* A document whose call is not held may wait for one: a mutation that moves it takes
\* an identity that is out and that no other document is moving to.
LEMMA AskReflects ==
  ASSUME NEW held, NEW clients, Reflects(held, clients), NEW c, Good(c),
         c.caller \in Keys, clients[c.caller].state # "waiting",
         \A j \in Keys : ~Claims(clients, j, c.caller),
         \/ c.kind \notin Retained
         \/ c.destination = c.caller
         \/ /\ clients[c.destination] = Free("out")
            /\ \A j \in Keys \ {c.caller} : ~Claims(clients, j, c.destination)
  PROVE  Reflects(held \cup {c}, [clients EXCEPT ![c.caller] = Waiting(c)])
<1> DEFINE k == c.caller
           after == [clients EXCEPT ![k] = Waiting(c)]
<1>1. /\ after[k] = Waiting(c)
      /\ \A j \in Keys \ {k} : after[j] = clients[j]
      /\ after = [j \in Keys |-> after[j]]
  BY DEF Reflects
<1>2. \A d \in held : d.caller \in Keys => d.caller # k
  <2>1. ASSUME NEW d \in held, d.caller \in Keys, d.caller = k PROVE FALSE
    <3>1. clients[k] = Waiting(d)
      BY <2>1 DEF Reflects
    <3> QED BY <3>1 DEF Waiting
  <2> QED BY <2>1
<1> HIDE DEF after
<1>3. Waiting(c).state = "waiting" /\ Waiting(c).intent = c
  BY DEF Waiting
<1>4. \A j, t \in Keys : j # k => (Claims(after, j, t) <=> Claims(clients, j, t))
  BY <1>1 DEF Claims
<1>5. \A t \in Keys : Claims(after, k, t) =>
        /\ clients[t] = Free("out") /\ t # k
        /\ \A j \in Keys \ {k} : ~Claims(clients, j, t)
  BY <1>1, <1>3 DEF Claims
<1>6. ASSUME NEW j \in Keys, NEW t \in Keys, Claims(after, j, t)
      PROVE  after[t] = Free("out")
  <2>1. CASE j = k
    BY <1>1, <1>5, <1>6, <2>1
  <2>2. CASE j # k
    <3>1. Claims(clients, j, t)
      BY <1>4, <1>6, <2>2
    <3>2. clients[t] = Free("out") /\ t # k
      BY <3>1 DEF Reflects
    <3> QED BY <1>1, <3>2
  <2> QED BY <2>1, <2>2
<1>7. ASSUME NEW i \in Keys, NEW j \in Keys, NEW t \in Keys,
             Claims(after, i, t), Claims(after, j, t)
      PROVE  i = j
  <2>1. CASE i = k \/ j = k
    BY <1>4, <1>5, <1>7, <2>1
  <2>2. CASE i # k /\ j # k
    <3>1. Claims(clients, i, t) /\ Claims(clients, j, t)
      BY <1>4, <1>7, <2>2
    <3> QED BY <3>1 DEF Reflects
  <2> QED BY <2>1, <2>2
<1>8. \A d \in held \cup {c} : d.caller \in Keys => after[d.caller] = Waiting(d)
  BY <1>1, <1>2 DEF Reflects
<1>9. \A j \in Keys : after[j].state = "waiting" => \E d \in held \cup {c} : d.caller = j
  BY <1>1 DEF Reflects
<1>10. \A j \in Keys :
         after[j].state = "owes" =>
           /\ Good(after[j].intent)
           /\ after[j].intent.kind \in Retained /\ after[j].intent.caller = j
  BY <1>1, <1>3 DEF Reflects
<1> QED BY <1>1, <1>6, <1>7, <1>8, <1>9, <1>10 DEF Reflects, after

\* Nobody waits for the startup nobody asked for.
LEMMA StartupReflects ==
  ASSUME NEW held, NEW clients, Reflects(held, clients)
  PROVE  Reflects(held \cup {Nobody}, clients)
<1>1. Good(Nobody) /\ Nobody.caller \notin Keys
  BY DocumentsAssumption DEF Good, Nobody, Kinds, Retained, Mutations
<1> QED BY <1>1 DEF Reflects

\* A document that is out and that nobody moves to may be opened.
LEMMA OpenReflects ==
  ASSUME NEW held, NEW clients, Reflects(held, clients), NEW k \in Keys,
         clients[k] = Free("out"), \A j \in Keys : ~Claims(clients, j, k)
  PROVE  Reflects(held, [clients EXCEPT ![k] = Free("idle")])
<1> DEFINE after == [clients EXCEPT ![k] = Free("idle")]
<1>1. /\ after[k] = Free("idle")
      /\ \A j \in Keys \ {k} : after[j] = clients[j]
      /\ after = [j \in Keys |-> after[j]]
  BY DEF Reflects
<1> HIDE DEF after
<1>2. after[k].state = "idle" /\ clients[k].state = "out"
  BY <1>1 DEF Free
<1>3. \A j, t \in Keys : Claims(after, j, t) => Claims(clients, j, t)
  BY <1>1, <1>2 DEF Claims
<1>4. \A d \in held : d.caller \in Keys => d.caller # k
  <2>1. ASSUME NEW d \in held, d.caller = k PROVE FALSE
    <3>1. clients[k] = Waiting(d)
      BY <2>1 DEF Reflects
    <3> QED BY <1>2, <3>1 DEF Waiting
  <2> QED BY <2>1
<1>5. \A d \in held : d.caller \in Keys => after[d.caller] = Waiting(d)
  BY <1>1, <1>4 DEF Reflects
<1>6. ASSUME NEW j \in Keys, NEW t \in Keys, Claims(after, j, t)
      PROVE  after[t] = Free("out")
  <2>1. Claims(clients, j, t)
    BY <1>3, <1>6
  <2>2. clients[t] = Free("out") /\ t # k
    BY <2>1 DEF Reflects
  <2> QED BY <1>1, <2>2
<1>7. \A i, j, t \in Keys : Claims(after, i, t) /\ Claims(after, j, t) => i = j
  BY <1>3 DEF Reflects
<1>8. \A j \in Keys : after[j].state = "waiting" => \E d \in held : d.caller = j
  BY <1>1, <1>2 DEF Reflects
<1>9. \A j \in Keys :
         after[j].state = "owes" =>
           /\ Good(after[j].intent)
           /\ after[j].intent.kind \in Retained /\ after[j].intent.caller = j
  BY <1>1, <1>2 DEF Reflects
<1> QED BY <1>1, <1>5, <1>6, <1>7, <1>8, <1>9 DEF Reflects, after

------------------------------------------------------------------------------
(* Answers.                                                                  *)

\* A document that no longer waits, nor owes, and is not moved to.
LEMMA ReleaseReflects ==
  ASSUME NEW held, NEW rest, NEW clients, Reflects(held, clients), NEW c,
         held = rest \cup {c}, Apart(rest, c), c.caller \in Keys,
         NEW s, \/ s \in {Free("out"), Free("idle")}
                \/ s = Owing(c) /\ c.kind \in Retained
  PROVE  Reflects(rest, [clients EXCEPT ![c.caller] = s])
<1> DEFINE k == c.caller
           after == [clients EXCEPT ![k] = s]
<1>1. /\ after[k] = s
      /\ \A j \in Keys \ {k} : after[j] = clients[j]
      /\ after = [j \in Keys |-> after[j]]
  BY DEF Reflects
<1> HIDE DEF after
<1>2. clients[k] = Waiting(c) /\ Good(c)
  BY DEF Reflects
<1>3. clients[k].state = "waiting" /\ clients[k].intent = c
  BY <1>2 DEF Waiting
<1>4. s.state # "waiting" /\ (s.state = "owes" => s.intent = c /\ c.kind \in Retained)
  BY DEF Free, Owing
<1>5. \A j, t \in Keys : Claims(after, j, t) => Claims(clients, j, t)
  BY <1>1, <1>3, <1>4 DEF Claims
<1>6. \A j \in Keys : ~Claims(clients, j, k)
  <2>1. ASSUME NEW j \in Keys, Claims(clients, j, k) PROVE FALSE
    <3>1. clients[k] = Free("out")
      BY <2>1 DEF Reflects
    <3> QED BY <1>3, <3>1 DEF Free
  <2> QED BY <2>1
<1>7. \A d \in rest : d.caller \in Keys => after[d.caller] = Waiting(d)
  BY <1>1 DEF Reflects, Apart
<1>8. ASSUME NEW j \in Keys, NEW t \in Keys, Claims(after, j, t)
      PROVE  after[t] = Free("out")
  <2>1. Claims(clients, j, t)
    BY <1>5, <1>8
  <2>2. clients[t] = Free("out") /\ t # k
    BY <1>6, <2>1 DEF Reflects
  <2> QED BY <1>1, <2>2
<1>9. \A i, j, t \in Keys : Claims(after, i, t) /\ Claims(after, j, t) => i = j
  BY <1>5 DEF Reflects
<1>10. \A j \in Keys : after[j].state = "waiting" => \E d \in rest : d.caller = j
  BY <1>1, <1>4 DEF Reflects
<1>11. \A j \in Keys :
         after[j].state = "owes" =>
           /\ Good(after[j].intent)
           /\ after[j].intent.kind \in Retained /\ after[j].intent.caller = j
  BY <1>1, <1>2, <1>4 DEF Reflects
<1> QED BY <1>1, <1>7, <1>8, <1>9, <1>10, <1>11 DEF Reflects, after

\* The document that moved is open at its new identity.
LEMMA MoveReflects ==
  ASSUME NEW held, NEW rest, NEW clients, Reflects(held, clients), NEW c,
         held = rest \cup {c}, Apart(rest, c), c.caller \in Keys,
         c.kind \in Retained, c.destination # c.caller
  PROVE  Reflects(rest, [clients EXCEPT ![c.caller] = Free("out"),
                                        ![c.destination] = Free("idle")])
<1> DEFINE k == c.caller
           t == c.destination
           left == [clients EXCEPT ![k] = Free("out")]
<1>1. clients[k] = Waiting(c) /\ Good(c) /\ t \in Keys
  BY DEF Reflects, Good
<1>2. Claims(clients, k, t)
  BY <1>1 DEF Claims, Waiting
<1>3. Reflects(rest, left)
  BY ReleaseReflects
<1>4. left[t] = Free("out")
  BY <1>1, <1>2 DEF Reflects
<1>5. \A j \in Keys : ~Claims(left, j, t)
  <2>1. \A j \in Keys \ {k} : left[j] = clients[j]
    BY DEF Reflects
  <2>2. left[k] = Free("out")
    BY DEF Reflects
  <2> HIDE DEF left
  <2>3. ~Claims(left, k, t)
    BY <2>2 DEF Claims, Free
  <2>4. \A j \in Keys \ {k} : Claims(left, j, t) => Claims(clients, j, t)
    BY <2>1 DEF Claims
  <2> QED BY <1>1, <1>2, <2>3, <2>4 DEF Reflects
<1> HIDE DEF left
<1>6. Reflects(rest, [left EXCEPT ![t] = Free("idle")])
  BY <1>1, <1>3, <1>4, <1>5, OpenReflects
<1> QED BY <1>6 DEF left

\* The documents once the call c is answered and no longer held.
LEMMA AnswerReflects ==
  ASSUME NEW held, NEW rest, Reflects(held, client), NEW c,
         held = rest \cup {c}, Apart(rest, c), NEW ok \in BOOLEAN, NEW m
  PROVE  Reflects(rest, Answered(c, ok, m))
<1>1. Good(c)
  BY DEF Reflects
<1>2. CASE c.caller = None
  <2>1. Answered(c, ok, m) = client
    BY <1>2 DEF Answered
  <2>2. \A k \in Keys : k # c.caller
    BY <1>2, DocumentsAssumption
  <2>3. Reflects(rest, client)
    BY <2>2 DEF Reflects
  <2> QED BY <2>1, <2>3
<1>3. CASE c.caller # None
  <2> DEFINE k == c.caller
  <2>1. k \in Keys /\ c.kind \in Kinds
    BY <1>1, <1>3 DEF Good
  <2>2. CASE c.kind \in {"startup", "waitForStartup", "load", "reconcileCommit"}
    <3>1. CASE c.kind \in {"startup", "waitForStartup"}
      <4>1. Answered(c, ok, m) = [client EXCEPT ![k] = Free("out")]
        BY <1>3, <3>1, Zenon DEF Answered
      <4>3. Reflects(rest, [client EXCEPT ![k] = Free("out")])
        BY <2>1, ReleaseReflects
      <4> QED BY <4>1, <4>3
    <3>2. CASE c.kind = "load"
      <4>1. Answered(c, ok, m) = [client EXCEPT ![k] = Free(IF ok THEN "idle" ELSE "out")]
        BY <1>3, <3>2, Zenon DEF Answered
      <4>2. Free(IF ok THEN "idle" ELSE "out") \in {Free("out"), Free("idle")}
        OBVIOUS
      <4>3. Reflects(rest, [client EXCEPT ![k] = Free(IF ok THEN "idle" ELSE "out")])
        BY <2>1, <4>2, ReleaseReflects
      <4> QED BY <4>1, <4>3
    <3>3. CASE c.kind = "reconcileCommit"
      <4>1. Answered(c, ok, m) = [client EXCEPT ![k] = Free("idle")]
        BY <1>3, <3>3, Zenon DEF Answered
      <4>3. Reflects(rest, [client EXCEPT ![k] = Free("idle")])
        BY <2>1, ReleaseReflects
      <4> QED BY <4>1, <4>3
    <3> QED BY <2>2, <3>1, <3>2, <3>3
  <2>3. CASE c.kind \in Retained
    <3>1. /\ ~(c.kind \in {"startup", "waitForStartup"})
          /\ c.kind # "load" /\ c.kind # "reconcileCommit"
      BY <2>3 DEF Retained, Mutations
    <3>2. CASE ~ok
      <4>1. Answered(c, ok, m) = [client EXCEPT ![k] = Owing(c)]
        BY <1>3, <3>1, <3>2, Zenon DEF Answered
      <4>3. Reflects(rest, [client EXCEPT ![k] = Owing(c)])
        BY <2>1, <2>3, ReleaseReflects
      <4> QED BY <4>1, <4>3
    <3>3. CASE ok /\ Moved(c, m)
      <4>1. Answered(c, ok, m) = [client EXCEPT ![k] = Free("out"),
                                                ![c.destination] = Free("idle")]
        BY <1>3, <3>1, <3>3, Zenon DEF Answered, MovesTo
      <4>2. c.destination # k
        BY <3>3 DEF Moved
      <4>3. Reflects(rest, [client EXCEPT ![k] = Free("out"),
                                                ![c.destination] = Free("idle")])
        BY <2>1, <2>3, <4>2, MoveReflects
      <4> QED BY <4>1, <4>3
    <3>4. CASE ok /\ ~Moved(c, m)
      <4>1. Answered(c, ok, m) = [client EXCEPT ![k] = Free("idle")]
        BY <1>3, <3>1, <3>4, Zenon DEF Answered
      <4>3. Reflects(rest, [client EXCEPT ![k] = Free("idle")])
        BY <2>1, ReleaseReflects
      <4> QED BY <4>1, <4>3
    <3> QED BY <3>2, <3>3, <3>4
  <2> QED BY <2>1, <2>2, <2>3 DEF Kinds
<1> QED BY <1>2, <1>3

------------------------------------------------------------------------------
(* Steps that call.                                                          *)

\* The call c may wait: its document waits for nothing, nobody is moving to it, and
\* the identity c moves it to is free.
MayAsk(c) ==
  /\ Good(c) /\ c.caller \in Keys
  /\ client[c.caller].state # "waiting"
  /\ \A j \in Keys : ~Claims(client, j, c.caller)
  /\ \/ c.kind \notin Retained
     \/ c.destination = c.caller
     \/ /\ client[c.destination] = Free("out")
        /\ \A j \in Keys \ {c.caller} : ~Claims(client, j, c.destination)

\* A call is queued, with or without a startup before it.
LEMMA AskKeeps ==
  ASSUME IInv, NEW c, MayAsk(c), client' = [client EXCEPT ![c.caller] = Waiting(c)],
         UNCHANGED run,
         \/ commands' = Append(commands, c)
         \/ commands' = commands \o <<c>>
         \/ commands' = Append(commands, Nobody) \o <<c>>
         \/ commands' = <<Nobody, c>> \o commands
  PROVE  IInv'
<1> DEFINE held == Members(commands) \cup Running(run)
<1>1. \A d \in held : d.caller \in Keys => d.caller # c.caller
  <2>1. ASSUME NEW d \in held, d.caller \in Keys, d.caller = c.caller PROVE FALSE
    <3>1. client[c.caller] = Waiting(d)
      BY <2>1 DEF IInv, Reflects
    <3> QED BY <3>1 DEF Waiting, MayAsk
  <2> QED BY <2>1
<1>2. Once(commands) /\ Nobody.caller \notin Keys
  BY DocumentsAssumption DEF IInv, Lane, Nobody
<1>3. /\ Apart(Members(commands), c) /\ Apart(Members(commands), Nobody)
      /\ Apart(Members(commands) \cup {c}, Nobody) /\ Apart(Members(commands) \cup {Nobody}, c)
  BY <1>1, <1>2 DEF Apart, MayAsk
<1>4. \A q, d : Once(q) => q \o <<d>> = Append(q, d)
  BY DEF Once
<1>5. /\ Once(commands')
      /\ Members(commands') \in {Members(commands) \cup {c},
                                 (Members(commands) \cup {Nobody}) \cup {c}}
  <2>1. CASE commands' = Append(commands, c) \/ commands' = commands \o <<c>>
    <3>1. commands' = Append(commands, c)
      BY <1>2, <1>4, <2>1
    <3>2. Once(Append(commands, c)) /\ Members(Append(commands, c)) = Members(commands) \cup {c}
      BY <1>2, <1>3, AppendedOnce
    <3> QED BY <3>1, <3>2
  <2>2. CASE commands' = Append(commands, Nobody) \o <<c>>
    <3> DEFINE q == Append(commands, Nobody)
    <3>1. Once(q) /\ Members(q) = Members(commands) \cup {Nobody}
      BY <1>2, <1>3, AppendedOnce
    <3> HIDE DEF q
    <3>2. Once(Append(q, c)) /\ Members(Append(q, c)) = Members(q) \cup {c}
      BY <1>3, <3>1, AppendedOnce
    <3>3. commands' = Append(q, c)
      BY <1>4, <2>2, <3>1 DEF q
    <3> QED BY <3>1, <3>2, <3>3
  <2>3. CASE commands' = <<Nobody, c>> \o commands
    <3> DEFINE q == <<c>> \o commands
    <3>1. Once(q) /\ Members(q) = Members(commands) \cup {c}
      BY <1>2, <1>3, PrependedOnce
    <3>2. <<Nobody, c>> \o commands = <<Nobody>> \o q
      BY <1>2 DEF Once
    <3> HIDE DEF q
    <3>3. Once(<<Nobody>> \o q) /\ Members(<<Nobody>> \o q) = Members(q) \cup {Nobody}
      BY <1>3, <3>1, PrependedOnce
    <3>4. (Members(commands) \cup {c}) \cup {Nobody} = (Members(commands) \cup {Nobody}) \cup {c}
      OBVIOUS
    <3> QED BY <2>3, <3>1, <3>2, <3>3, <3>4
  <2> QED BY <2>1, <2>2, <2>3
<1>6. Lane(commands', run')
  <2>1. ASSUME run # Idle
        PROVE  run.phase # "idle" /\ Apart(Members(commands'), run.command)
    <3>1. c.caller # run.command.caller
      BY <1>1, <2>1 DEF Running, MayAsk
    <3> QED BY <1>2, <1>5, <2>1, <3>1 DEF IInv, Lane, Apart
  <2> QED BY <1>5, <2>1 DEF Lane
<1>7. Reflects(held \cup {c}, client')
  BY AskReflects DEF IInv, MayAsk
<1>8. Reflects((held \cup {c}) \cup {Nobody}, client')
  BY <1>7, StartupReflects
<1>9. Members(commands') \cup Running(run') \in {held \cup {c}, (held \cup {c}) \cup {Nobody}}
  <2>1. Running(run') = Running(run)
    BY DEF Running
  <2> QED BY <1>5, <2>1
<1> QED BY <1>6, <1>7, <1>8, <1>9 DEF IInv, Lane, Once, Members, Running

\* A document that is out may ask to be opened.
LEMMA ClosedMayAsk ==
  ASSUME IInv, NEW k \in Keys, Closed(k),
         NEW kind \in {"startup", "waitForStartup", "load"}
  PROVE  MayAsk([kind |-> kind, caller |-> k])
<1> DEFINE c == [kind |-> kind, caller |-> k]
<1>1. Good(c) /\ c.kind \notin Retained /\ c.caller = k
  BY DocumentsAssumption DEF Good, Kinds, Retained, Mutations
<1>2. client[k].state = "out"
  BY DEF Closed, Free
<1>3. \A j \in Keys : ~Claims(client, j, k)
  BY DEF Closed, Claims
<1> HIDE DEF c
<1>4. MayAsk(c)
  BY <1>1, <1>2, <1>3 DEF MayAsk
<1> QED BY <1>4 DEF c

\* start() and retryStartup().
LEMMA RetryStartupKeeps ==
  ASSUME IInv, NEW k \in Keys, RetryStartup(k)
  PROVE  IInv'
<1> DEFINE starting == [kind |-> "startup", caller |-> k]
           waiting == [kind |-> "waitForStartup", caller |-> k]
<1>1. MayAsk(starting) /\ MayAsk(waiting) /\ starting.caller = k /\ waiting.caller = k
  BY ClosedMayAsk DEF RetryStartup
<1>2. \/ /\ client' = [client EXCEPT ![k] = Waiting(starting)]
         /\ commands' = Append(commands, starting)
      \/ /\ client' = [client EXCEPT ![k] = Waiting(waiting)]
         /\ \/ commands' = <<Nobody, waiting>> \o commands
            \/ commands' = Append(commands, waiting)
  BY DEF RetryStartup, Suspend
<1>3. UNCHANGED run
  BY DEF RetryStartup, Suspend
<1> HIDE DEF starting, waiting
<1> QED BY <1>1, <1>2, <1>3, AskKeeps

\* load() of a store that is loading.
LEMMA LoadKeeps ==
  ASSUME IInv, NEW k \in Keys, Load(k)
  PROVE  IInv'
<1> DEFINE loading == [kind |-> "load", caller |-> k]
<1>1. MayAsk(loading) /\ loading.caller = k
  BY ClosedMayAsk DEF Load
<1>2. /\ client' = [client EXCEPT ![k] = Waiting(loading)]
      /\ \/ commands' = commands \o <<loading>>
         \/ commands' = Append(commands, Nobody) \o <<loading>>
      /\ UNCHANGED run
  BY DEF Load, Suspend
<1> HIDE DEF loading
<1> QED BY <1>1, <1>2, AskKeeps

\* load() of a store that is ready.
LEMMA LoadReadyKeeps ==
  ASSUME IInv, NEW k \in Keys, LoadReady(k)
  PROVE  IInv'
<1>1. client[k] = Free("out") /\ \A j \in Keys : ~Claims(client, j, k)
  BY DEF LoadReady, Closed, Claims
<1>2. client' = [client EXCEPT ![k] = Free("idle")] /\ UNCHANGED <<commands, run>>
  BY DEF LoadReady, laneVars
<1>3. Reflects(Members(commands) \cup Running(run), client')
  BY <1>1, <1>2, OpenReflects DEF IInv
<1> QED BY <1>2, <1>3 DEF IInv, Lane, Once, Members, Running

\* A command enters the FIFO.
LEMMA EnqueueKeeps ==
  ASSUME IInv, NEW c, MayAsk(c), Enqueue(c.caller, c)
  PROVE  IInv'
<1>1. /\ client' = [client EXCEPT ![c.caller] = Waiting(c)]
      /\ \/ commands' = commands \o <<c>>
         \/ commands' = Append(commands, Nobody) \o <<c>>
      /\ UNCHANGED run
  BY DEF Enqueue, Suspend
<1> QED BY <1>1, AskKeeps

\* Nobody moves to a document that is open.
LEMMA OpenIsUnclaimed ==
  ASSUME IInv, NEW k \in Keys, client[k].state # "out"
  PROVE  \A j \in Keys : ~Claims(client, j, k)
<1>1. ASSUME NEW j \in Keys, Claims(client, j, k) PROVE FALSE
  <2>1. client[k] = Free("out")
    BY <1>1 DEF IInv, Reflects
  <2> QED BY <2>1 DEF Free
<1> QED BY <1>1

\* A mutation of an open document.
LEMMA MutateKeeps ==
  ASSUME IInv, NEW k \in Keys, Mutate(k)
  PROVE  IInv'
<1>1. client[k].state = "idle"
  BY DEF Mutate, Free
<1>2. \A j \in Keys : ~Claims(client, j, k)
  BY <1>1, OpenIsUnclaimed
<1>3. ASSUME NEW kind \in Mutations, NEW t \in Keys, NEW removing,
             t # k => Closed(t), Enqueue(k, Command(kind, k, t, removing))
      PROVE  IInv'
  <2> DEFINE c == Command(kind, k, t, removing)
  <2>1. c.kind = kind /\ c.caller = k /\ c.destination = t
    BY DEF Command
  <2> HIDE DEF c
  <2>2. Good(c)
    BY <2>1, DocumentsAssumption DEF Good, Kinds, Retained
  <2>3. t = k \/ (client[t] = Free("out") /\ \A j \in Keys \ {k} : ~Claims(client, j, t))
    BY <1>3 DEF Closed, Claims
  <2>4. MayAsk(c)
    BY <1>1, <1>2, <2>1, <2>2, <2>3 DEF MayAsk
  <2>5. Enqueue(c.caller, c)
    BY <1>3, <2>1 DEF c
  <2> QED BY <2>4, <2>5, EnqueueKeeps
<1>4. CASE PersistSnapshot(k) \/ PersistRaw(k)
  BY <1>3, <1>4 DEF PersistSnapshot, PersistRaw, Mutations
<1>5. CASE Migrate(k)
  BY <1>3, <1>5 DEF Migrate, Mutations
<1>6. CASE Discard(k)
  BY <1>3, <1>6 DEF Discard, Mutations
<1> QED BY <1>4, <1>5, <1>6 DEF Mutate

\* A document reconciles the mutation that failed.
LEMMA ReconcileKeeps ==
  ASSUME IInv, NEW k \in Keys, Reconcile(k)
  PROVE  IInv'
<1> DEFINE i == client[k].intent
           c == [i EXCEPT !.kind = "reconcile"]
<1>1. /\ client[k].state = "owes" /\ Good(i) /\ i.kind \in Retained /\ i.caller = k
  BY DEF Reconcile, IInv, Reflects
<1>2. Claims(client, k, i.destination) \/ i.destination = k
  BY <1>1 DEF Claims
<1>3. \/ i.destination = k
      \/ /\ client[i.destination] = Free("out")
         /\ \A j \in Keys \ {k} : ~Claims(client, j, i.destination)
  BY <1>1, <1>2 DEF IInv, Reflects, Good
<1>4. /\ c.kind = "reconcile" /\ c.caller = k /\ c.destination = i.destination
  BY <1>1
<1>5. Enqueue(k, c)
  BY DEF Reconcile
<1> HIDE DEF c, i
<1>6. Good(c)
  BY <1>1, <1>4, DocumentsAssumption DEF Good, Kinds, Retained
<1>7. MayAsk(c)
  BY <1>1, <1>3, <1>4, <1>6, OpenIsUnclaimed DEF MayAsk
<1> QED BY <1>4, <1>5, <1>7, EnqueueKeeps

\* A document asks what became of a commit.
LEMMA ReconcileCommitKeeps ==
  ASSUME IInv, NEW k \in Keys, ReconcileCommit(k)
  PROVE  IInv'
<1> DEFINE c == [kind |-> "reconcileCommit", caller |-> k]
<1>1. client[k].state = "idle"
  BY DEF ReconcileCommit, Free
<1>2. Good(c) /\ c.kind \notin Retained /\ c.caller = k
  BY DocumentsAssumption DEF Good, Kinds, Retained, Mutations
<1>3. Enqueue(k, c)
  BY DEF ReconcileCommit
<1> HIDE DEF c
<1>4. MayAsk(c)
  BY <1>1, <1>2, OpenIsUnclaimed DEF MayAsk
<1> QED BY <1>2, <1>3, <1>4, EnqueueKeeps

------------------------------------------------------------------------------
(* Steps of the drain.                                                       *)

\* The head of the queue is taken and runs.
LEMMA TakenRuns ==
  ASSUME IInv, NEW c \in Taken, commands' = Tail(commands), run' # Idle,
         run'.command = c, run'.phase # "idle", UNCHANGED client
  PROVE  IInv'
<1>1. run = Idle /\ commands # <<>> /\ c = Head(commands)
  BY DEF Taken
<1>2. /\ Once(Tail(commands))
      /\ Members(commands) = Members(Tail(commands)) \cup {c}
      /\ Apart(Members(Tail(commands)), c)
  BY <1>1, TailOnce DEF IInv, Lane
<1>3. Members(commands') \cup Running(run') = Members(commands) \cup Running(run)
  BY <1>1, <1>2 DEF Running
<1> QED BY <1>2, <1>3 DEF IInv, Lane

\* The head of the queue is taken and answered at once.
LEMMA TakenIsAnswered ==
  ASSUME IInv, NEW c \in Taken, NEW ok \in BOOLEAN, NEW m, commands' = Tail(commands),
         run' = Idle, client' = Answered(c, ok, m)
  PROVE  IInv'
<1>1. run = Idle /\ commands # <<>> /\ c = Head(commands)
  BY DEF Taken
<1>2. /\ Once(Tail(commands))
      /\ Members(commands) = Members(Tail(commands)) \cup {c}
      /\ Apart(Members(Tail(commands)), c)
  BY <1>1, TailOnce DEF IInv, Lane
<1>3. Members(commands) \cup Running(run) = Members(Tail(commands)) \cup {c}
  BY <1>1, <1>2 DEF Running
<1>4. Reflects(Members(Tail(commands)), Answered(c, ok, m))
  BY <1>2, <1>3, AnswerReflects DEF IInv
<1>5. Members(commands') \cup Running(run') = Members(Tail(commands))
  BY DEF Running
<1> QED BY <1>2, <1>4, <1>5 DEF IInv, Lane

\* The running command goes on.
LEMMA RunGoesOn ==
  ASSUME IInv, UNCHANGED <<commands, client>>, run # Idle, run' # Idle,
         run'.command = run.command, run'.phase # "idle"
  PROVE  IInv'
<1>1. Running(run') = Running(run)
  BY DEF Running
<1> QED BY <1>1 DEF IInv, Lane, Once, Members

\* The running command is answered.
LEMMA RunIsAnswered ==
  ASSUME IInv, run # Idle, UNCHANGED commands, run' = Idle,
         NEW ok \in BOOLEAN, NEW m, client' = Answered(run.command, ok, m)
  PROVE  IInv'
<1>1. Members(commands) \cup Running(run) = Members(commands) \cup {run.command}
  BY DEF Running
<1>2. Apart(Members(commands), run.command)
  BY DEF IInv, Lane
<1>3. Reflects(Members(commands), Answered(run.command, ok, m))
  BY <1>1, <1>2, AnswerReflects DEF IInv
<1>4. Members(commands') \cup Running(run') = Members(commands)
  BY DEF Running
<1> QED BY <1>3, <1>4 DEF IInv, Lane, Once

\* A failed startup answers the reads; the mutations stay queued and waited for.
LEMMA ReadsFailedKeeps ==
  ASSUME IInv, run # Idle, run.command.kind = "startup", run' = Idle,
         client' = ReadsFailed(run.command),
         commands' = Selected(commands, {c \in Queued : c.kind \in Retained})
  PROVE  IInv'
<1> DEFINE held == Members(commands) \cup {run.command}
           rest == {c \in Members(commands) : c.kind \in Retained}
           reads == {commands[n].caller : n \in {m \in DOMAIN commands :
                                                   commands[m].kind \notin Retained}}
                    \cup {run.command.caller}
<1>1. Reflects(held, client)
  BY DEF IInv, Running
<1>2. Once(commands') /\ Members(commands') = rest
  <2>1. Queued = Members(commands)
    BY DEF Queued, Members
  <2>2. Members(commands) \cap {c \in Queued : c.kind \in Retained} = rest
    BY <2>1
  <2> HIDE DEF rest
  <2> QED BY <2>2, SelectedOnce DEF IInv, Lane
<1>3. reads = {c.caller : c \in {d \in Members(commands) : d.kind \notin Retained}}
              \cup {run.command.caller}
  BY DEF Members
<1>4. \A k \in Keys :
        /\ k \notin reads => client'[k] = client[k]
        /\ k \in reads => client'[k] \in {Free("out"), Free("idle")}
  BY DEF ReadsFailed
<1>5. client' = [k \in Keys |-> client'[k]]
  BY DEF ReadsFailed
<1> HIDE DEF reads
<1>6. \A c \in held : c.kind \notin Retained => c.caller \in reads
  BY <1>3 DEF Retained, Mutations
<1>7. \A k \in reads : \E c \in held : c.kind \notin Retained /\ c.caller = k
  BY <1>3 DEF Retained, Mutations
<1>8. \A c, d \in held : c.caller = d.caller /\ c.caller \in Keys => c = d
  <2>1. ASSUME NEW c \in held, NEW d \in held, c.caller = d.caller, c.caller \in Keys
        PROVE  c = d
    <3>1. Waiting(c) = Waiting(d)
      BY <1>1, <2>1 DEF Reflects
    <3> QED BY <3>1 DEF Waiting
  <2> QED BY <2>1
<1>9. rest \subseteq held /\ \A c \in rest : c.kind \in Retained
  OBVIOUS
<1>10. \A c \in held : c.kind \in Retained => c \in rest
  BY DEF Retained, Mutations
<1> HIDE DEF held, rest
<1>11. \A c \in rest : c.caller \in Keys => c.caller \notin reads
  BY <1>7, <1>8, <1>9
<1>12. \A s \in {Free("out"), Free("idle")} : s.state \notin {"waiting", "owes"}
  BY DEF Free
<1>13. \A k \in Keys : client'[k].state \in {"waiting", "owes"} => client'[k] = client[k]
  BY <1>4, <1>12
<1>14. \A j, t \in Keys : Claims(client', j, t) => Claims(client, j, t)
  BY <1>13 DEF Claims
<1>15. ASSUME NEW j \in Keys, NEW t \in Keys, Claims(client', j, t)
       PROVE  client'[t] = Free("out")
  <2>1. client[t] = Free("out")
    BY <1>1, <1>14, <1>15 DEF Reflects
  <2>2. t \notin reads
    <3>1. SUFFICES ASSUME t \in reads PROVE FALSE
      OBVIOUS
    <3>2. PICK c \in held : c.caller = t
      BY <1>7, <3>1
    <3>3. client[t] = Waiting(c)
      BY <1>1, <3>2 DEF Reflects
    <3> QED BY <2>1, <3>3 DEF Waiting, Free
  <2> QED BY <1>4, <2>1, <2>2
<1>16. \A i, j, t \in Keys : Claims(client', i, t) /\ Claims(client', j, t) => i = j
  BY <1>1, <1>14 DEF Reflects
<1>17. \A c \in rest : c.caller \in Keys => client'[c.caller] = Waiting(c)
  BY <1>1, <1>4, <1>9, <1>11 DEF Reflects
<1>18. ASSUME NEW k \in Keys, client'[k].state = "waiting"
       PROVE  \E c \in rest : c.caller = k
  <2>1. client[k].state = "waiting" /\ k \notin reads
    BY <1>4, <1>12, <1>13, <1>18
  <2>2. PICK c \in held : c.caller = k
    BY <1>1, <2>1 DEF Reflects
  <2> QED BY <1>6, <1>10, <2>1, <2>2
<1>19. ASSUME NEW k \in Keys, client'[k].state = "owes"
       PROVE  /\ Good(client'[k].intent)
              /\ client'[k].intent.kind \in Retained /\ client'[k].intent.caller = k
  <2>1. client'[k] = client[k]
    BY <1>13, <1>19
  <2> QED BY <1>1, <1>19, <2>1 DEF Reflects
<1>20. \A c \in rest : Good(c)
  BY <1>1, <1>9 DEF Reflects
<1>21. Reflects(rest, client')
  BY <1>5, <1>15, <1>16, <1>17, <1>18, <1>19, <1>20 DEF Reflects
<1>22. Members(commands') \cup Running(run') = rest
  BY <1>2 DEF Running
<1> QED BY <1>2, <1>21, <1>22 DEF IInv, Lane

\* What runs is not the command of nobody.
LEMMA StartsRunning ==
  ASSUME NEW c, NEW script, NEW result
  PROVE  /\ Importing(c) # Idle /\ Importing(c).command = c /\ Importing(c).phase # "idle"
         /\ Writing(c, script, result) # Idle
         /\ Writing(c, script, result).command = c
         /\ Writing(c, script, result).phase # "idle"
<1>1. Importing(c).phase = "import" /\ Importing(c).command = c
  BY DEF Importing
<1>2. Writing(c, script, result).phase = "write" /\ Writing(c, script, result).command = c
  BY DEF Writing
<1>3. Idle.phase = "idle"
  BY DEF Idle
<1> QED BY <1>1, <1>2, <1>3

\* The drain takes a startup, or the reconciliation of a mutation.
LEMMA TakeImportKeeps ==
  ASSUME IInv, TakeStartup \/ TakeReconcile
  PROVE  IInv'
<1>1. PICK c \in Taken : /\ commands' = Tail(commands)
                         /\ run' = Importing(c) /\ UNCHANGED client
  BY DEF TakeStartup, TakeReconcile, countVars
<1>2. run' # Idle /\ run'.command = c /\ run'.phase # "idle"
  BY <1>1, StartsRunning
<1> QED BY <1>1, <1>2, TakenRuns

\* The drain answers a load or a waiting start, or puts it back.
LEMMA TakeReadKeeps ==
  ASSUME IInv, TakeRead
  PROVE  IInv'
<1>1. CASE UNCHANGED <<commands, run, client>>
  BY <1>1 DEF IInv, Lane, Once, Members, Running
<1>2. ASSUME NEW c \in Taken, commands' = Tail(commands), UNCHANGED run,
             client' = Answered(c, status = "ready", memory)
      PROVE  IInv'
  <2>1. run' = Idle
    BY <1>2 DEF Taken
  <2>2. (status = "ready") \in BOOLEAN
    OBVIOUS
  <2> QED BY <1>2, <2>1, <2>2, TakenIsAnswered
<1> QED BY <1>1, <1>2 DEF TakeRead, countVars

\* The drain answers the reconciliation of a commit.
LEMMA TakeReconcileCommitKeeps ==
  ASSUME IInv, TakeReconcileCommit
  PROVE  IInv'
<1>1. PICK c \in Taken : /\ commands' = Tail(commands) /\ UNCHANGED run
                         /\ client' = Answered(c, TRUE, memory)
  BY DEF TakeReconcileCommit, countVars
<1>2. run' = Idle
  BY <1>1 DEF Taken
<1> QED BY <1>1, <1>2, TakenIsAnswered

\* The drain takes a mutation: it is refused, replays a journal or starts to write.
LEMMA TakeMutationKeeps ==
  ASSUME IInv, TakeMutation
  PROVE  IInv'
<1>1. PICK c \in Taken :
        /\ commands' = Tail(commands)
        /\ \/ run' = Idle /\ client' = Answered(c, FALSE, memory)
           \/ run' = Importing(c) /\ UNCHANGED client
           \/ Execute(c, memory)
  BY DEF TakeMutation
<1>2. CASE run' = Idle /\ client' = Answered(c, FALSE, memory)
  BY <1>1, <1>2, TakenIsAnswered
<1>3. CASE run' = Importing(c) /\ UNCHANGED client
  <2>1. run' # Idle /\ run'.command = c /\ run'.phase # "idle"
    BY <1>3, StartsRunning
  <2> QED BY <1>1, <1>3, <2>1, TakenRuns
<1>4. CASE \E script, result : run' = Writing(c, script, result) /\ UNCHANGED client
  <2>1. run' # Idle /\ run'.command = c /\ run'.phase # "idle"
    BY <1>4, StartsRunning
  <2> QED BY <1>1, <1>4, <2>1, TakenRuns
<1> QED BY <1>1, <1>2, <1>3, <1>4 DEF Execute

\* Nothing is queued and nothing runs.
LEMMA DrainEndsKeeps ==
  ASSUME IInv, DrainEnds
  PROVE  IInv'
BY DEF DrainEnds, countVars, IInv, Lane, Once, Members, Running

\* A durable call of the running command is made.
LEMMA StepKeeps ==
  ASSUME IInv, Step
  PROVE  IInv'
<1>1. run # Idle
  BY DEF Step, Idle
<1>2. run.phase # "idle"
  BY <1>1 DEF IInv, Lane
<1>3. \E part : run' = [run EXCEPT !.script = Left(run.script, part)]
  BY DEF Step
<1>4. run'.command = run.command /\ run'.phase = run.phase
  BY <1>3
<1>5. run' # Idle
  BY <1>2, <1>4 DEF Idle
<1>6. UNCHANGED <<commands, client>>
  BY DEF Step
<1> QED BY <1>1, <1>2, <1>4, <1>5, <1>6, RunGoesOn

\* The running command throws.
LEMMA ThrowKeeps ==
  ASSUME IInv, run # Idle, Throw
  PROVE  IInv'
<1>1. CASE run.command.kind = "startup"
  BY <1>1, ReadsFailedKeeps DEF Throw
<1>2. CASE run.command.kind # "startup"
  <2>1. /\ run' = Idle /\ UNCHANGED commands
        /\ client' = Answered(run.command, FALSE, memory)
    BY <1>2 DEF Throw
  <2> QED BY <2>1, RunIsAnswered
<1> QED BY <1>1, <1>2

\* An import ends.
LEMMA ImportEndsKeeps ==
  ASSUME IInv, ImportFails \/ ImportSucceeds
  PROVE  IInv'
<1>1. run # Idle
  <2>1. run.phase = "import"
    BY DEF ImportFails, ImportSucceeds
  <2> QED BY <2>1 DEF Idle
<1>2. CASE ImportFails
  BY <1>1, <1>2, ThrowKeeps DEF ImportFails
<1>3. CASE ImportSucceeds
  <2> DEFINE c == run.command
  <2>1. /\ UNCHANGED commands
        /\ \/ Execute(c, run.memory)
           \/ run' = Idle /\ client' = Answered(c, TRUE, run.memory)
    BY <1>3 DEF ImportSucceeds
  <2>2. CASE run' = Idle /\ \E ok \in BOOLEAN : client' = Answered(c, ok, run.memory)
    BY <1>1, <2>1, <2>2, RunIsAnswered
  <2>3. CASE \E script, result : run' = Writing(c, script, result) /\ UNCHANGED client
    <3>1. run' # Idle /\ run'.command = c /\ run'.phase # "idle"
      BY <2>3, StartsRunning
    <3> QED BY <1>1, <2>1, <2>3, <3>1, RunGoesOn
  <2> QED BY <2>1, <2>2, <2>3 DEF Execute
<1> QED BY <1>2, <1>3

\* A mutation is written.
LEMMA WriteSucceedsKeeps ==
  ASSUME IInv, WriteSucceeds
  PROVE  IInv'
<1>1. run # Idle
  BY DEF WriteSucceeds, Idle
<1>2. /\ UNCHANGED commands /\ run' = Idle
      /\ client' = Answered(run.command, TRUE, run.memory)
  BY DEF WriteSucceeds
<1> QED BY <1>1, <1>2, RunIsAnswered

\* An empty queue, nothing that runs and nobody that waits.
LEMMA NothingHeld ==
  ASSUME NEW clients, clients = [k \in Keys |-> Free("out")]
  PROVE  Once(<<>>) /\ Reflects({}, clients)
<1>1. Once(<<>>)
  <2>1. <<>> \in Seq({}) /\ DOMAIN <<>> = {}
    OBVIOUS
  <2> QED BY <2>1 DEF Once
<1>2. \A k \in Keys : clients[k] = Free("out") /\ clients[k].state \notin {"waiting", "owes"}
  BY DEF Free
<1> QED BY <1>1, <1>2 DEF Reflects, Claims

\* The process ends.
LEMMA CrashKeeps ==
  ASSUME Crash
  PROVE  IInv'
<1>1. commands' = <<>> /\ run' = Idle /\ client' = [k \in Keys |-> Free("out")]
  BY DEF Crash
<1>2. Members(commands') \cup Running(run') = {}
  BY <1>1 DEF Members, Running
<1>3. Once(commands') /\ Reflects({}, client')
  BY <1>1, NothingHeld
<1> QED BY <1>1, <1>2, <1>3 DEF IInv, Lane

LEMMA InitHolds == Init => IInv
<1> SUFFICES ASSUME Init PROVE IInv
  OBVIOUS
<1>1. commands = <<>> /\ run = Idle /\ client = [k \in Keys |-> Free("out")]
  BY DEF Init
<1>2. Members(commands) \cup Running(run) = {}
  BY <1>1 DEF Members, Running
<1>3. Once(commands) /\ Reflects({}, client)
  BY <1>1, NothingHeld
<1> QED BY <1>1, <1>2, <1>3 DEF IInv, Lane

LEMMA NextKeeps == IInv /\ [Next]_vars => IInv'
<1> SUFFICES ASSUME IInv, [Next]_vars PROVE IInv'
  OBVIOUS
<1>1. ASSUME NEW k \in Documents, RetryStartup(k) \/ Load(k) \/ LoadReady(k)
      PROVE  IInv'
  <2>1. k \in Keys
    BY DocumentsAssumption
  <2> QED BY <1>1, <2>1, RetryStartupKeeps, LoadKeeps, LoadReadyKeeps
<1>2. ASSUME NEW k \in Keys, Mutate(k) \/ Reconcile(k) \/ ReconcileCommit(k)
      PROVE  IInv'
  BY <1>2, MutateKeeps, ReconcileKeeps, ReconcileCommitKeeps
<1>3. CASE Take
  BY <1>3, TakeImportKeeps, TakeReadKeeps, TakeReconcileCommitKeeps, TakeMutationKeeps,
     DrainEndsKeeps DEF Take
<1>4. CASE Work
  BY <1>4, StepKeeps, ImportEndsKeeps, WriteSucceedsKeeps DEF Work
<1>5. CASE Crash
  BY <1>5, CrashKeeps
<1>6. ASSUME NEW kind \in FaultKinds, Fault(kind)
      PROVE  IInv'
  BY <1>6, ThrowKeeps DEF Fault
<1>7. CASE UNCHANGED vars
  BY <1>7 DEF vars, laneVars, IInv, Lane, Once, Members, Running
<1> QED BY <1>1, <1>2, <1>3, <1>4, <1>5, <1>6, <1>7 DEF Next

------------------------------------------------------------------------------
(* The theorem.                                                              *)

LEMMA InvariantHoldsOnce == IInv => EveryCallIsHeldOnce
<1> SUFFICES ASSUME IInv, NEW k \in Keys
             PROVE  Held(k) = IF client[k].state = "waiting" THEN 1 ELSE 0
  BY DEF EveryCallIsHeldOnce
<1> DEFINE here == {n \in DOMAIN commands : commands[n].caller = k}
           runs == run # Idle /\ run.command.caller = k
           held == Members(commands) \cup Running(run)
<1>1. ASSUME NEW c \in held, c.caller = k PROVE client[k].state = "waiting"
  <2>1. client[c.caller] = Waiting(c)
    BY <1>1 DEF IInv, Reflects
  <2> QED BY <1>1, <2>1 DEF Waiting
<1>2. client[k].state = "waiting" => \E c \in held : c.caller = k
  BY DEF IInv, Reflects
<1>3. \A m, n \in here : m = n
  BY DEF IInv, Lane, Once
<1>4. \A n \in here : commands[n] \in Members(commands)
  BY DEF Members
<1>5. runs => here = {}
  BY <1>4 DEF IInv, Lane, Apart
<1>6. (here # {} \/ runs) <=> client[k].state = "waiting"
  <2>1. ASSUME here # {} \/ runs PROVE client[k].state = "waiting"
    BY <1>1, <1>4, <2>1 DEF Running
  <2>2. ASSUME NEW c \in held, c.caller = k PROVE here # {} \/ runs
    BY <2>2 DEF Running, Members
  <2> QED BY <1>2, <2>1, <2>2
<1>7. here = {} \/ \E n : here = {n}
  BY <1>3
<1>8. Cardinality(here) = IF here = {} THEN 0 ELSE 1
  BY <1>7, FS_EmptySet, FS_Singleton
<1>9. Held(k) = Cardinality(here) + (IF runs THEN 1 ELSE 0)
  BY DEF Held
<1> HIDE DEF here, runs, held
<1> QED BY <1>5, <1>6, <1>8, <1>9

\* A call that suspends its document is in the queue or in the drain, once, and every
\* other call there is of nobody: no answer is given twice and none is forgotten,
\* whatever fails and in whatever order (drain, failQueuedReadCommands).
THEOREM CallsAreHeldOnce == Spec => []EveryCallIsHeldOnce
<1>1. Init => IInv
  BY InitHolds
<1>2. IInv /\ [Next]_vars => IInv'
  BY NextKeeps
<1>3. IInv => EveryCallIsHeldOnce
  BY InvariantHoldsOnce
<1> QED BY <1>1, <1>2, <1>3, PTL DEF Spec

------------------------------------------------------------------------------
(* What documents owe.                                                       *)

\* Every plan the store accepts is a transaction.
LEMMA PlanIsPlanned ==
  ASSUME NEW m, NEW c, NEW k, k = c.caller, NEW fresh, NEW trusted, NEW keys,
         Planning(m, k, fresh, trusted, keys), c.kind \in Mutations, RemovesOwn(c),
         c.destination \in Keys, c.destination # k => c.destination \notin keys,
         RecordsOf(m, k) = c.records, Plan(c, m).ok
  PROVE  Planned(Plan(c, m), m, k, fresh, trusted, keys)
<1>1. CASE c.kind = "persistSnapshot"
  <2>1. Plan(c, m) = SnapshotPlan(c, m)
    BY <1>1 DEF Plan
  <2> QED BY <2>1, SnapshotIsPlanned
<1>2. CASE c.kind = "persistRaw"
  <2>1. Plan(c, m) = RawPlan(c, m)
    BY <1>2 DEF Plan
  <2> QED BY <2>1, RawIsPlanned
<1>3. CASE c.kind = "migrate"
  <2>1. Plan(c, m) = MigratePlan(c, m)
    BY <1>3 DEF Plan
  <2>2. CASE c.destination = k
    BY <2>1, <2>2, StayIsPlanned
  <2>3. CASE c.destination # k
    BY <2>1, <2>3, MoveIsPlanned
  <2> QED BY <2>2, <2>3
<1>4. CASE c.kind = "discard"
  <2>1. Plan(c, m) = DiscardPlan(c, m)
    BY <1>4 DEF Plan
  <2>2. /\ c.removing.entries \subseteq RecordsOf(m, k).entries
        /\ c.removing.raws \subseteq RecordsOf(m, k).raws
    BY <1>4 DEF RemovesOwn
  <2> QED BY <2>1, <2>2, DiscardIsPlanned
<1> QED BY <1>1, <1>2, <1>3, <1>4 DEF Mutations

LEMMA OwesIs ==
  ASSUME NEW clients
  PROVE  \A k : k \in Owes(clients)
           <=> /\ k \in Keys
               /\ \/ clients[k].state = "owes"
                  \/ clients[k].state = "waiting" /\ clients[k].intent.kind = "reconcile"
BY DEF Owes

\* A document that waits for a mutation owes nothing, nor does the identity it takes.
LEMMA WaitingOwesNothing ==
  ASSUME NEW held, Reflects(held, client), NEW c \in held, c.kind \in Mutations
  PROVE  /\ c.caller \in Keys /\ c.caller \notin Owes(client)
         /\ c.destination \in Keys /\ client[c.caller] = Waiting(c)
         /\ c.destination # c.caller => client[c.destination] = Free("out")
         /\ c.destination # c.caller => c.destination \notin Owes(client)
<1>1. Good(c) /\ c.kind \in Retained /\ c.kind # "startup" /\ c.kind # "reconcile"
  BY DEF Reflects, Mutations, Retained
<1>2. c.caller \in Keys /\ c.destination \in Keys
  BY <1>1 DEF Good
<1>3. client[c.caller] = Waiting(c)
  BY <1>2 DEF Reflects
<1>4. client[c.caller].state = "waiting" /\ client[c.caller].intent = c
  BY <1>3 DEF Waiting
<1>5. c.caller \notin Owes(client)
  BY <1>1, <1>4, OwesIs
<1>6. c.destination # c.caller => client[c.destination] = Free("out")
  <2>1. c.destination # c.caller => Claims(client, c.caller, c.destination)
    BY <1>1, <1>4 DEF Claims
  <2> QED BY <1>2, <2>1 DEF Reflects
<1>7. c.destination # c.caller => c.destination \notin Owes(client)
  <2>1. Free("out").state = "out"
    BY DEF Free
  <2> QED BY <1>6, <2>1, OwesIs
<1> QED BY <1>2, <1>3, <1>5, <1>6, <1>7

\* The states an answer leaves, and who owes after it.
LEMMA AnswerIs ==
  ASSUME NEW held, Reflects(held, client), NEW c \in held, NEW ok \in BOOLEAN, NEW m,
         \A k \in Keys : client[k].state \in {"out", "idle", "waiting", "owes"},
         NEW after, after = Answered(c, ok, m)
  PROVE  /\ \A k \in Keys : after[k].state \in {"out", "idle", "waiting", "owes"}
         /\ c.kind \in Mutations /\ ~ok => Owes(after) = Owes(client) \cup {c.caller}
         /\ (c.kind \in Mutations /\ ok) \/ (c.kind \notin Retained)
              \/ (c.kind = "reconcile" /\ ~ok) => Owes(after) = Owes(client)
<1> DEFINE k == c.caller
<1>1. /\ client = [j \in Keys |-> client[j]] /\ Good(c)
      /\ k \in Keys => client[k] = Waiting(c)
  BY DEF Reflects
<1>2. /\ \A s : Free(s).state = s
      /\ Owing(c).state = "owes" /\ Waiting(c).state = "waiting" /\ Waiting(c).intent = c
  BY DEF Free, Owing, Waiting
<1>3. k = None => k \notin Keys /\ c.kind = "startup"
  BY <1>1, DocumentsAssumption DEF Good
<1>4. k \notin Keys => k = None
  BY <1>1 DEF Good
<1>5. ASSUME NEW s, k \in Keys, after = [client EXCEPT ![k] = s]
      PROVE  after[k] = s /\ \A j \in Keys : j # k => after[j] = client[j]
  BY <1>1, <1>5
<1>6. CASE k = None
  <2>1. after = client
    BY <1>6 DEF Answered
  <2>2. c.kind \notin Mutations /\ c.kind # "reconcile"
    BY <1>3, <1>6 DEF Mutations
  <2> QED BY <2>1, <2>2
<1>7. ASSUME k # None, NEW s, after = [client EXCEPT ![k] = Free(s)], s \in {"out", "idle"},
             c.kind # "reconcile"
      PROVE  /\ \A j \in Keys : after[j].state \in {"out", "idle", "waiting", "owes"}
             /\ Owes(after) = Owes(client)
  <2>1. k \in Keys
    BY <1>4, <1>7
  <2>2. after[k] = Free(s) /\ \A j \in Keys : j # k => after[j] = client[j]
    BY <1>5, <1>7, <2>1
  <2>3. after[k].state = s /\ client[k].state = "waiting" /\ client[k].intent.kind # "reconcile"
    BY <1>1, <1>2, <1>7, <2>1, <2>2
  <2>4. \A j \in Keys : after[j].state \in {"out", "idle", "waiting", "owes"}
    BY <1>7, <2>2, <2>3
  <2>5. k \notin Owes(after) /\ k \notin Owes(client)
    <3>1. after[k].state # "owes" /\ after[k].state # "waiting"
      BY <1>7, <2>3
    <3>2. k \notin Owes(after)
      BY <3>1, OwesIs
    <3>3. k \notin Owes(client)
      BY <2>3, OwesIs
    <3> QED BY <3>2, <3>3
  <2>6. \A j : j \in Keys /\ j # k => (j \in Owes(after) <=> j \in Owes(client))
    BY <2>2, OwesIs
  <2>7. \A j : j \in Owes(after) <=> j \in Owes(client)
    BY <2>5, <2>6, OwesIs
  <2> QED BY <2>4, <2>7
<1>8. CASE k # None /\ c.kind \notin Retained
  <2>1. c.kind \in {"startup", "waitForStartup", "load", "reconcileCommit"}
    BY <1>1, <1>8 DEF Good, Kinds
  <2>2. c.kind \notin Mutations /\ c.kind # "reconcile"
    BY <2>1 DEF Mutations
  <2>3. CASE c.kind \in {"startup", "waitForStartup"}
    <3>1. after = [client EXCEPT ![k] = Free("out")]
      BY <1>8, <2>3 DEF Answered
    <3> QED BY <1>7, <1>8, <2>2, <3>1
  <2>4. CASE c.kind = "load"
    <3>1. after = [client EXCEPT ![k] = Free(IF ok THEN "idle" ELSE "out")]
      BY <1>8, <2>4 DEF Answered
    <3>2. (IF ok THEN "idle" ELSE "out") \in {"out", "idle"}
      OBVIOUS
    <3> QED BY <1>7, <1>8, <2>2, <3>1, <3>2
  <2>5. CASE c.kind = "reconcileCommit"
    <3>1. after = [client EXCEPT ![k] = Free("idle")]
      BY <1>8, <2>5 DEF Answered
    <3> QED BY <1>7, <1>8, <2>2, <3>1
  <2> QED BY <2>1, <2>3, <2>4, <2>5
<1>9. CASE k # None /\ c.kind \in Retained
  <2>1. k \in Keys /\ c.kind \notin {"startup", "waitForStartup", "load", "reconcileCommit"}
    BY <1>4, <1>9 DEF Retained, Mutations
  <2>2. client[k].state = "waiting" /\ client[k].intent = c
    BY <1>1, <1>2, <2>1
  <2>3. CASE ~ok
    <3>1. after = [client EXCEPT ![k] = Owing(c)]
      BY <1>9, <2>1, <2>3 DEF Answered
    <3>2. after[k].state = "owes" /\ \A j \in Keys : j # k => after[j] = client[j]
      BY <1>2, <1>5, <2>1, <3>1
    <3>3. \A j \in Keys : after[j].state \in {"out", "idle", "waiting", "owes"}
      BY <3>2
    <3>4. \A j : j \in Owes(after) <=> j \in Owes(client) \/ j = k
      BY <2>1, <3>2, OwesIs
    <3>5. Owes(after) = Owes(client) \cup {k}
      BY <3>4
    <3>6. c.kind = "reconcile" => k \in Owes(client)
      BY <2>1, <2>2, OwesIs
    <3>7. c.kind = "reconcile" => Owes(after) = Owes(client)
      BY <3>4, <3>6
    <3> QED BY <1>9, <2>3, <3>3, <3>5, <3>7
  <2>4. CASE ok /\ ~Moved(c, m)
    <3>1. after = [client EXCEPT ![k] = Free("idle")]
      BY <1>9, <2>1, <2>4 DEF Answered
    <3>2. after[k].state = "idle" /\ \A j \in Keys : j # k => after[j] = client[j]
      BY <1>2, <1>5, <2>1, <3>1
    <3>3. \A j \in Keys : after[j].state \in {"out", "idle", "waiting", "owes"}
      BY <3>2
    <3>4. c.kind # "reconcile" => Owes(after) = Owes(client)
      BY <1>7, <1>9, <3>1
    <3>5. c.kind \in Mutations => c.kind # "reconcile"
      BY DEF Mutations
    <3> QED BY <1>9, <2>4, <3>3, <3>4, <3>5
  <2>5. CASE ok /\ Moved(c, m)
    <3> DEFINE t == c.destination
    <3>1. t # k /\ t \in Keys
      BY <1>1, <1>9, <2>5 DEF Moved, Good
    <3>2. after = [client EXCEPT ![k] = Free("out"), ![t] = Free("idle")]
      BY <1>9, <2>1, <2>5 DEF Answered, MovesTo
    <3>3. after[k] = Free("out") /\ after[t] = Free("idle")
          /\ \A j \in Keys : j # k /\ j # t => after[j] = client[j]
      BY <1>1, <2>1, <3>1, <3>2
    <3>4. after[k].state = "out" /\ after[t].state = "idle"
      BY <1>2, <3>3
    <3>5. \A j \in Keys : after[j].state \in {"out", "idle", "waiting", "owes"}
      BY <3>3, <3>4
    <3>6. c.kind \in Mutations => Owes(after) = Owes(client)
      <4>1. SUFFICES ASSUME c.kind \in Mutations PROVE Owes(after) = Owes(client)
        OBVIOUS
      <4>2. k \notin Owes(client) /\ t \notin Owes(client)
        BY <3>1, <4>1, WaitingOwesNothing
      <4>3. k \notin Owes(after) /\ t \notin Owes(after)
        BY <3>4, OwesIs
      <4>4. \A j : j \in Owes(after) <=> j \in Owes(client)
        BY <3>3, <4>2, <4>3, OwesIs
      <4> QED BY <4>4
    <3> QED BY <1>9, <2>5, <3>5, <3>6
  <2> QED BY <2>3, <2>4, <2>5
<1> QED BY <1>6, <1>8, <1>9

------------------------------------------------------------------------------
(* Calls keep the store safe.                                                *)

\* A document that asks owes what it owed before.
LEMMA AskingOwes ==
  ASSUME NEW clients, clients = [j \in Keys |-> clients[j]], NEW k \in Keys, NEW s,
         NEW after, after = [clients EXCEPT ![k] = s],
         k \in Owes(clients)
           <=> s.state = "owes" \/ (s.state = "waiting" /\ s.intent.kind = "reconcile"),
         Asked(clients), s.state \in {"out", "idle", "waiting", "owes"},
         s.state = "waiting" => RemovesOwn(s.intent)
  PROVE  Owes(after) = Owes(clients) /\ Asked(after)
<1>1. after[k] = s /\ \A j \in Keys : j # k => after[j] = clients[j]
  OBVIOUS
<1>2. \A j : j \in Owes(after) <=> j \in Owes(clients)
  <2>1. k \in Owes(after) <=> k \in Owes(clients)
    BY <1>1, OwesIs
  <2>2. \A j : j \in Keys /\ j # k => (j \in Owes(after) <=> j \in Owes(clients))
    BY <1>1, OwesIs
  <2> QED BY <2>1, <2>2, OwesIs
<1>3. Asked(after)
  BY <1>1 DEF Asked
<1> QED BY <1>2, <1>3

Starts(st, after) == after = st \/ (st # "ready" /\ after = "loading")

LEMMA AskStaysSafe ==
  ASSUME StoreInvariant, IInv, NEW k \in Keys, NEW s, client' = [client EXCEPT ![k] = s],
         k \in Owes(client)
           <=> s.state = "owes" \/ (s.state = "waiting" /\ s.intent.kind = "reconcile"),
         s.state \in {"out", "idle", "waiting", "owes"},
         s.state = "waiting" => RemovesOwn(s.intent),
         Starts(status, status'),
         startupQueued' \in BOOLEAN, draining' \in BOOLEAN,
         UNCHANGED <<disk, memory, run, outdated>>
  PROVE  StoreInvariant'
<1>1. client = [j \in Keys |-> client[j]]
  BY DEF IInv, Reflects
<1>2. Asked(client)
  BY DEF StoreInvariant
<1>3. Owes(client') = Owes(client) /\ Asked(client')
  BY <1>1, <1>2, AskingOwes
<1>4. /\ status \in {"loading", "ready", "failed"} /\ outdated \in BOOLEAN
      /\ IsSafe(disk, run, memory, status, ~outdated, Owes(client))
  BY DEF StoreInvariant
<1>5. status' \in {"loading", "ready", "failed"}
  BY <1>4 DEF Starts
<1>6. IsSafe(disk, run, memory, status', ~outdated, Owes(client))
  BY <1>4, AskIsSafe DEF Starts
<1>7. IsSafe(disk, run, memory, status, ~outdated, Owes(client))'
  BY <1>3, <1>6
<1>8. {startupQueued, draining, outdated}' \subseteq BOOLEAN
  BY <1>4
<1>9. Asked(client)'
  BY <1>3
<1> QED BY <1>5, <1>7, <1>8, <1>9 DEF StoreInvariant

LEMMA FlagsAre ==
  ASSUME StoreInvariant
  PROVE  startupQueued \in BOOLEAN /\ draining \in BOOLEAN /\ outdated \in BOOLEAN
BY DEF StoreInvariant

LEMMA FreeIs ==
  ASSUME NEW c
  PROVE  /\ \A s : Free(s).state = s
         /\ Owing(c).state = "owes" /\ Waiting(c).state = "waiting" /\ Waiting(c).intent = c
BY DEF Free, Owing, Waiting

\* A document that owes nothing asks for c.
LEMMA WaitStaysSafe ==
  ASSUME StoreInvariant, IInv, NEW k \in Keys, NEW c,
         client' = [client EXCEPT ![k] = Waiting(c)],
         k \in Owes(client) <=> c.kind = "reconcile", RemovesOwn(c),
         Starts(status, status'), startupQueued' \in BOOLEAN, draining' \in BOOLEAN,
         UNCHANGED <<disk, memory, run, outdated>>
  PROVE  StoreInvariant'
<1> DEFINE s == Waiting(c)
<1>1. s.state = "waiting" /\ s.intent = c
  BY FreeIs
<1>2. client' = [client EXCEPT ![k] = s]
  OBVIOUS
<1> HIDE DEF s
<1> QED BY <1>1, <1>2, AskStaysSafe

LEMMA ClosedOwesNothing ==
  ASSUME NEW k, NEW s \in {"out", "idle"}, client[k] = Free(s)
  PROVE  k \notin Owes(client)
<1>1. client[k].state = s
  BY FreeIs
<1> QED BY <1>1, OwesIs

LEMMA RetryStartupStaysSafe ==
  ASSUME StoreInvariant, IInv, NEW k \in Keys, RetryStartup(k)
  PROVE  StoreInvariant'
<1>1. PICK c : /\ c.kind \in {"startup", "waitForStartup"}
               /\ client' = [client EXCEPT ![k] = Waiting(c)]
  <2> DEFINE starting == [kind |-> "startup", caller |-> k]
             waiting == [kind |-> "waitForStartup", caller |-> k]
  <2>1. starting.kind = "startup" /\ waiting.kind = "waitForStartup"
    OBVIOUS
  <2>2. \/ client' = [client EXCEPT ![k] = Waiting(starting)]
        \/ client' = [client EXCEPT ![k] = Waiting(waiting)]
    BY DEF RetryStartup, Suspend
  <2> HIDE DEF starting, waiting
  <2> QED BY <2>1, <2>2
<1>2. /\ status # "ready" /\ status' = "loading" /\ startupQueued' = TRUE /\ draining' = TRUE
      /\ client[k] = Free("out") /\ UNCHANGED <<disk, memory, run, outdated>>
  BY DEF RetryStartup, Suspend, Closed
<1>3. RemovesOwn(c) /\ c.kind # "reconcile"
  BY <1>1 DEF RemovesOwn
<1>4. k \notin Owes(client)
  BY <1>2, ClosedOwesNothing
<1>5. Starts(status, status') /\ startupQueued' \in BOOLEAN /\ draining' \in BOOLEAN
  BY <1>2 DEF Starts
<1> QED BY <1>1, <1>2, <1>3, <1>4, <1>5, WaitStaysSafe

LEMMA LoadStaysSafe ==
  ASSUME StoreInvariant, IInv, NEW k \in Keys, Load(k)
  PROVE  StoreInvariant'
<1>1. PICK c : c.kind = "load" /\ client' = [client EXCEPT ![k] = Waiting(c)]
  BY DEF Load, Suspend
<1>2. /\ UNCHANGED status /\ startupQueued' = TRUE /\ draining' = TRUE
      /\ client[k] = Free("out") /\ UNCHANGED <<disk, memory, run, outdated>>
  BY DEF Load, Suspend, Closed
<1>3. RemovesOwn(c) /\ c.kind # "reconcile"
  BY <1>1 DEF RemovesOwn
<1>4. k \notin Owes(client)
  BY <1>2, ClosedOwesNothing
<1>5. Starts(status, status') /\ startupQueued' \in BOOLEAN /\ draining' \in BOOLEAN
  BY <1>2 DEF Starts
<1> QED BY <1>1, <1>2, <1>3, <1>4, <1>5, WaitStaysSafe

LEMMA LoadReadyStaysSafe ==
  ASSUME StoreInvariant, IInv, NEW k \in Keys, LoadReady(k)
  PROVE  StoreInvariant'
<1> DEFINE s == Free("idle")
<1>1. /\ client[k] = Free("out") /\ client' = [client EXCEPT ![k] = s]
      /\ UNCHANGED <<disk, memory, run, outdated, status, startupQueued, draining>>
  BY DEF LoadReady, Closed, laneVars, countVars
<1>2. s.state = "idle"
  BY FreeIs
<1> HIDE DEF s
<1>3. k \notin Owes(client)
  BY <1>1, ClosedOwesNothing
<1>4. Starts(status, status') /\ startupQueued' \in BOOLEAN /\ draining' \in BOOLEAN
  BY <1>1, FlagsAre DEF Starts
<1> QED BY <1>1, <1>2, <1>3, <1>4, AskStaysSafe

LEMMA EnqueueStaysSafe ==
  ASSUME StoreInvariant, IInv, NEW k \in Keys, NEW c, Enqueue(k, c),
         k \in Owes(client) <=> c.kind = "reconcile", RemovesOwn(c)
  PROVE  StoreInvariant'
<1>1. /\ client' = [client EXCEPT ![k] = Waiting(c)] /\ UNCHANGED status
      /\ startupQueued' = (startupQueued \/ status = "loading")
      /\ draining' = (draining \/ status # "failed")
      /\ UNCHANGED <<disk, memory, run, outdated>>
  BY DEF Enqueue, Suspend
<1>2. Starts(status, status')
  BY <1>1 DEF Starts
<1>3. startupQueued' \in BOOLEAN /\ draining' \in BOOLEAN
  BY <1>1
<1> QED BY <1>1, <1>2, <1>3, WaitStaysSafe

LEMMA MutateStaysSafe ==
  ASSUME StoreInvariant, IInv, NEW k \in Keys, Mutate(k)
  PROVE  StoreInvariant'
<1>1. k \notin Owes(client)
  BY ClosedOwesNothing DEF Mutate
<1>2. ASSUME NEW kind \in Mutations, NEW t, NEW removing, Enqueue(k, Command(kind, k, t, removing)),
             kind = "discard" => /\ removing.entries \subseteq RecordsOf(memory, k).entries
                                 /\ removing.raws \subseteq RecordsOf(memory, k).raws
      PROVE  StoreInvariant'
  <2> DEFINE c == Command(kind, k, t, removing)
  <2>1. c.kind = kind /\ c.removing = removing /\ c.records = RecordsOf(memory, k)
    BY DEF Command
  <2>2. Enqueue(k, c)
    BY <1>2
  <2> HIDE DEF c
  <2>3. RemovesOwn(c)
    BY <1>2, <2>1 DEF RemovesOwn
  <2>4. c.kind # "reconcile"
    BY <2>1 DEF Mutations
  <2> QED BY <1>1, <2>2, <2>3, <2>4, EnqueueStaysSafe
<1>3. CASE PersistSnapshot(k) \/ PersistRaw(k)
  BY <1>2, <1>3 DEF PersistSnapshot, PersistRaw, Mutations
<1>4. CASE Migrate(k)
  BY <1>2, <1>4 DEF Migrate, Mutations
<1>5. CASE Discard(k)
  <2>1. PICK e \in SUBSET RecordsOf(memory, k).entries, r \in SUBSET RecordsOf(memory, k).raws :
          Enqueue(k, Command("discard", k, k, [entries |-> e, raws |-> r]))
    BY <1>5 DEF Discard
  <2> DEFINE removing == [entries |-> e, raws |-> r]
  <2>2. removing.entries = e /\ removing.raws = r
    OBVIOUS
  <2>3. Enqueue(k, Command("discard", k, k, removing))
    BY <2>1
  <2> HIDE DEF removing
  <2>4. "discard" \in Mutations
    BY DEF Mutations
  <2> QED BY <1>2, <2>1, <2>2, <2>3, <2>4
<1> QED BY <1>3, <1>4, <1>5 DEF Mutate

LEMMA ReconcileStaysSafe ==
  ASSUME StoreInvariant, IInv, NEW k \in Keys, Reconcile(k)
  PROVE  StoreInvariant'
<1> DEFINE i == client[k].intent
           c == [i EXCEPT !.kind = "reconcile"]
<1>1. client[k].state = "owes" /\ Good(i) /\ i.kind \in Retained
  BY DEF Reconcile, IInv, Reflects
<1>2. c.kind = "reconcile"
  BY <1>1
<1>3. Enqueue(k, c)
  BY DEF Reconcile
<1> HIDE DEF c, i
<1>4. RemovesOwn(c)
  BY <1>2 DEF RemovesOwn
<1>5. k \in Owes(client)
  BY <1>1, OwesIs
<1> QED BY <1>2, <1>3, <1>4, <1>5, EnqueueStaysSafe

LEMMA ReconcileCommitStaysSafe ==
  ASSUME StoreInvariant, IInv, NEW k \in Keys, ReconcileCommit(k)
  PROVE  StoreInvariant'
<1> DEFINE c == [kind |-> "reconcileCommit", caller |-> k]
<1>1. client[k] = Free("idle") /\ Enqueue(k, c) /\ c.kind = "reconcileCommit"
  BY DEF ReconcileCommit
<1> HIDE DEF c
<1>2. RemovesOwn(c) /\ c.kind # "reconcile"
  BY <1>1 DEF RemovesOwn
<1>3. k \notin Owes(client)
  BY <1>1, ClosedOwesNothing
<1> QED BY <1>1, <1>2, <1>3, EnqueueStaysSafe

------------------------------------------------------------------------------
(* The drain keeps the store safe.                                           *)

HeldNow == Members(commands) \cup Running(run)

LEMMA TakenIsHeld ==
  ASSUME IInv, NEW c \in Taken
  PROVE  c \in HeldNow /\ run = Idle
<1>1. run = Idle /\ commands # <<>> /\ c = Head(commands)
  BY DEF Taken
<1>2. Members(commands) = Members(Tail(commands)) \cup {c}
  BY <1>1, TailOnce DEF IInv, Lane
<1> QED BY <1>1, <1>2 DEF HeldNow

\* Whatever is held removes records of its own document only.
LEMMA HeldRemovesOwn ==
  ASSUME StoreInvariant, IInv, NEW c \in HeldNow
  PROVE  RemovesOwn(c)
<1>1. Good(c) /\ (c.caller \in Keys => client[c.caller] = Waiting(c))
  BY DEF IInv, Reflects, HeldNow
<1>2. CASE c.caller \in Keys
  <2>1. client[c.caller].state = "waiting" /\ client[c.caller].intent = c
    BY <1>1, <1>2, FreeIs
  <2>2. Asked(client)
    BY DEF StoreInvariant
  <2> QED BY <1>2, <2>1, <2>2 DEF Asked
<1>3. CASE c.caller \notin Keys
  BY <1>1, <1>3 DEF Good, RemovesOwn
<1> QED BY <1>2, <1>3

\* An answered document waits no longer, nor does the identity it moves to.
LEMMA AnswerIsNoCall ==
  ASSUME NEW held, Reflects(held, client), NEW c \in held, NEW ok \in BOOLEAN, NEW m,
         NEW after, after = Answered(c, ok, m), NEW j \in Keys
  PROVE  after[j] = client[j] \/ after[j].state # "waiting"
<1>1. client = [i \in Keys |-> client[i]]
  BY DEF Reflects
<1>2. \/ after = client
      \/ \E s \in {Free("out"), Free("idle"), Owing(c)} : after = [client EXCEPT ![c.caller] = s]
      \/ after = [client EXCEPT ![c.caller] = Free("out"), ![c.destination] = Free("idle")]
  BY DEF Answered, MovesTo
<1>3. CASE after = client
  BY <1>3
<1>4. ASSUME NEW s \in {Free("out"), Free("idle"), Owing(c)},
             after = [client EXCEPT ![c.caller] = s]
      PROVE  after[j] = client[j] \/ after[j].state # "waiting"
  <2>1. after[j] = client[j] \/ after[j] = s
    BY <1>1, <1>4
  <2>2. s.state # "waiting"
    BY FreeIs
  <2> QED BY <2>1, <2>2
<1>5. CASE after = [client EXCEPT ![c.caller] = Free("out"), ![c.destination] = Free("idle")]
  <2>1. after[j] = client[j] \/ after[j] = Free("out") \/ after[j] = Free("idle")
    BY <1>1, <1>5
  <2>2. Free("out").state # "waiting" /\ Free("idle").state # "waiting"
    BY FreeIs
  <2> QED BY <2>1, <2>2
<1> QED BY <1>2, <1>3, <1>4, <1>5

\* What an answer does to who owes a reconciliation.
LEMMA AnswerStays ==
  ASSUME StoreInvariant, IInv, NEW c \in HeldNow, NEW ok \in BOOLEAN, NEW m,
         NEW after, after = Answered(c, ok, m)
  PROVE  /\ Asked(after)
         /\ c.kind \in Mutations /\ ~ok => Owes(after) = Owes(client) \cup {c.caller}
         /\ (c.kind \in Mutations /\ ok) \/ (c.kind \notin Retained)
              \/ (c.kind = "reconcile" /\ ~ok) => Owes(after) = Owes(client)
<1>1. Reflects(HeldNow, client)
  BY DEF IInv, HeldNow
<1>2. Asked(client)
  BY DEF StoreInvariant
<1>3. \A k \in Keys : client[k].state \in {"out", "idle", "waiting", "owes"}
  BY <1>2 DEF Asked
<1>4. /\ \A k \in Keys : after[k].state \in {"out", "idle", "waiting", "owes"}
      /\ c.kind \in Mutations /\ ~ok => Owes(after) = Owes(client) \cup {c.caller}
      /\ (c.kind \in Mutations /\ ok) \/ (c.kind \notin Retained)
           \/ (c.kind = "reconcile" /\ ~ok) => Owes(after) = Owes(client)
  BY <1>1, <1>3, AnswerIs
<1>5. \A k \in Keys : after[k] = client[k] \/ after[k].state # "waiting"
  BY <1>1, AnswerIsNoCall
<1>6. Asked(after)
  BY <1>2, <1>4, <1>5 DEF Asked
<1> QED BY <1>4, <1>6

\* The parts of the invariant, of the next state.
LEMMA NextIsSafe ==
  ASSUME status' \in {"loading", "ready", "failed"},
         startupQueued' \in BOOLEAN, draining' \in BOOLEAN, outdated' \in BOOLEAN,
         Asked(client'), IsSafe(disk', run', memory', status', ~outdated', Owes(client'))
  PROVE  StoreInvariant'
BY DEF StoreInvariant

LEMMA StoreIs ==
  ASSUME StoreInvariant
  PROVE  /\ status \in {"loading", "ready", "failed"}
         /\ startupQueued \in BOOLEAN /\ draining \in BOOLEAN /\ outdated \in BOOLEAN
         /\ Asked(client)
         /\ IsSafe(disk, run, memory, status, ~outdated, Owes(client))
         /\ (~outdated) \in BOOLEAN
<1>1. (~outdated) \in BOOLEAN
  OBVIOUS
<1> QED BY <1>1 DEF StoreInvariant

\* The drain takes a startup, or the reconciliation of a mutation.
LEMMA TakeImportStaysSafe ==
  ASSUME StoreInvariant, IInv, TakeStartup \/ TakeReconcile
  PROVE  StoreInvariant'
<1>1. PICK c \in Taken : /\ c.kind \notin Mutations
                         /\ run' = Importing(c)
                         /\ UNCHANGED <<client, disk, status, memory, draining, outdated>>
                         /\ startupQueued' = FALSE \/ UNCHANGED startupQueued
  BY DEF TakeStartup, TakeReconcile, countVars, Mutations
<1>2. run = Idle
  BY TakenIsHeld
<1>3. startupQueued' \in BOOLEAN
  BY <1>1, StoreIs
<1> DEFINE i == Import(disk)
<1>4. run' = [command |-> c, phase |-> "import", script |-> i.script, ok |-> i.ok,
              memory |-> i.memory]
  BY <1>1 DEF Importing
<1> HIDE DEF i
<1>5. i = Import(disk)
  BY DEF i
<1>6. IsSafe(disk, Idle, memory, status, ~outdated, Owes(client))
  BY <1>2, StoreIs
<1>7. IsSafe(disk, run', memory, status, ~outdated, Owes(client))
  BY <1>1, <1>4, <1>5, <1>6, ImportIsSafe
<1>8. IsSafe(disk', run', memory', status', ~outdated', Owes(client'))
  BY <1>1, <1>7
<1> QED BY <1>1, <1>3, <1>8, StoreIs, NextIsSafe

\* An answer to who has nothing to reconcile.
LEMMA ReadStaysSafe ==
  ASSUME StoreInvariant, IInv, NEW c \in HeldNow, c.kind \notin Retained,
         NEW ok \in BOOLEAN, NEW m, client' = Answered(c, ok, m),
         UNCHANGED <<disk, run, memory, status, outdated, startupQueued, draining>>
  PROVE  StoreInvariant'
<1>1. Asked(client') /\ Owes(client') = Owes(client)
  BY AnswerStays
<1> QED BY <1>1, StoreIs, NextIsSafe

LEMMA TakeReadStaysSafe ==
  ASSUME StoreInvariant, IInv, TakeRead
  PROVE  StoreInvariant'
<1>1. PICK c \in Taken :
        /\ c.kind \in {"waitForStartup", "load"}
        /\ \/ draining' = FALSE /\ UNCHANGED client
           \/ client' = Answered(c, status = "ready", memory) /\ UNCHANGED draining
        /\ UNCHANGED <<disk, status, startupQueued, memory, run, outdated>>
  BY DEF TakeRead, countVars
<1>2. CASE draining' = FALSE /\ UNCHANGED client
  <2>1. draining' \in BOOLEAN
    BY <1>2
  <2> QED BY <1>1, <1>2, <2>1, StoreIs, NextIsSafe
<1>3. CASE client' = Answered(c, status = "ready", memory) /\ UNCHANGED draining
  <2>1. (status = "ready") \in BOOLEAN
    OBVIOUS
  <2>2. c \in HeldNow
    BY TakenIsHeld
  <2>3. c.kind \notin Retained
    BY <1>1 DEF Retained, Mutations
  <2> QED BY <1>1, <1>3, <2>1, <2>2, <2>3, ReadStaysSafe
<1> QED BY <1>1, <1>2, <1>3

LEMMA TakeReconcileCommitStaysSafe ==
  ASSUME StoreInvariant, IInv, TakeReconcileCommit
  PROVE  StoreInvariant'
<1>1. PICK c \in Taken :
        /\ c.kind = "reconcileCommit" /\ client' = Answered(c, TRUE, memory)
        /\ UNCHANGED <<disk, status, startupQueued, draining, memory, run, outdated>>
  BY DEF TakeReconcileCommit, countVars
<1>2. c \in HeldNow
  BY TakenIsHeld
<1>3. c.kind \notin Retained
  BY <1>1 DEF Retained, Mutations
<1>4. TRUE \in BOOLEAN
  OBVIOUS
<1> QED BY <1>1, <1>2, <1>3, <1>4, ReadStaysSafe

LEMMA DrainEndsStaysSafe ==
  ASSUME StoreInvariant, DrainEnds
  PROVE  StoreInvariant'
<1>1. draining' = FALSE /\ UNCHANGED <<disk, status, startupQueued, memory, run, client, outdated>>
  BY DEF DrainEnds, countVars
<1>2. draining' \in BOOLEAN
  BY <1>1
<1> QED BY <1>1, <1>2, StoreIs, NextIsSafe

------------------------------------------------------------------------------
(* The drain keeps the store safe: mutations.                                *)

\* A mutation is refused, or starts to write what it has planned.
LEMMA ExecuteIsSafe ==
  ASSUME StoreInvariant, IInv, NEW c \in HeldNow, c.kind \in Mutations, NEW m, Execute(c, m),
         NEW st, st = "ready", NEW was \in BOOLEAN, NEW fresh \in BOOLEAN, fresh => was,
         IsSafe(disk, Idle, m, st, was, Owes(client)), NoJournal(disk),
         Trusted(fresh, Owes(client)) => m.generations = disk.index
  PROVE  Asked(client') /\ IsSafe(disk, run', m, st, fresh, Owes(client'))
<1> DEFINE k == c.caller
           owing == Owes(client)
           plan == Plan(c, m)
           trusted == Trusted(fresh, owing)
<1>1. \/ /\ run' = Writing(c, plan.script, plan.memory) /\ client' = client
         /\ RecordsOf(m, k) = c.records /\ plan.ok
      \/ run' = Idle /\ client' = Answered(c, FALSE, m)
  BY DEF Execute
<1>2. CASE run' = Idle /\ client' = Answered(c, FALSE, m)
  <2>1. FALSE \in BOOLEAN
    OBVIOUS
  <2>2. Asked(client') /\ Owes(client') = owing \cup {k}
    BY <1>2, <2>1, AnswerStays
  <2> DEFINE more == Owes(client')
  <2>3. more = owing \cup {k}
    BY <2>2
  <2> HIDE DEF more, owing, k
  <2>4. IsSafe(disk, Idle, m, st, was, owing)
    BY DEF owing
  <2>5. IsSafe(disk, Idle, m, st, fresh, more)
    BY <2>3, <2>4, OweIsSafe
  <2> QED BY <1>2, <2>2, <2>5 DEF more
<1>3. CASE /\ run' = Writing(c, plan.script, plan.memory) /\ client' = client
           /\ RecordsOf(m, k) = c.records /\ plan.ok
  <2>1. Reflects(HeldNow, client)
    BY DEF IInv, HeldNow
  <2>2. /\ k \in Keys /\ k \notin owing /\ c.destination \in Keys
        /\ c.destination # k => c.destination \notin owing
    BY <2>1, WaitingOwesNothing
  <2>3. RemovesOwn(c)
    BY HeldRemovesOwn
  <2>4. IsDisk(disk) /\ (was => IsSound(disk)) /\ IsMemory(m)
        /\ MemoryIsNear(disk, Idle, m, st, was, owing)
    BY DEF IsSafe
  <2>5. /\ DurableRecords(disk) = Listing(disk.files)
        /\ DurableGenerations(disk) = disk.index
    BY CleanDurable
  <2>6. trusted => m.generations = disk.index /\ Near(m, Listing(disk.files), owing)
    <3>1. SUFFICES ASSUME trusted PROVE Near(m, Listing(disk.files), owing)
      OBVIOUS
    <3>2. Trusted(was, owing)
      BY <3>1 DEF Trusted
    <3>3. m.generations = DurableGenerations(disk)
      BY <2>5, <3>1
    <3>4. Near(m, DurableRecords(disk), owing \cup Writers(Idle))
      BY <2>4, <3>2, <3>3 DEF MemoryIsNear
    <3>5. owing \cup Writers(Idle) = owing
      BY IdleIs
    <3> QED BY <2>5, <3>4, <3>5
  <2>7. fresh => trusted
    BY DEF Trusted
  <2> HIDE DEF owing, trusted, k
  <2>8. Planning(m, k, fresh, trusted, owing)
    BY <2>2, <2>4, <2>6, <2>7 DEF Planning
  <2>9. k = c.caller
    BY DEF k
  <2>10. Planned(plan, m, k, fresh, trusted, owing)
    BY <1>3, <2>2, <2>3, <2>8, <2>9, PlanIsPlanned
  <2> HIDE DEF plan
  <2>11. IsSafe(disk, run', m, st, fresh, owing)
    <3>1. Planning(m, c.caller, fresh, Trusted(fresh, owing), owing)
      BY <2>8, <2>9 DEF trusted
    <3>2. Planned(plan, m, c.caller, fresh, Trusted(fresh, owing), owing)
      BY <2>9, <2>10 DEF trusted
    <3> QED BY <1>3, <3>1, <3>2, WriteIsStarted
  <2>12. Asked(client)
    BY StoreIs
  <2> QED BY <1>3, <2>11, <2>12 DEF owing
<1> QED BY <1>1, <1>2, <1>3

\* The drain takes a mutation: it is refused, replays a journal or starts to write.
LEMMA TakeMutationStaysSafe ==
  ASSUME StoreInvariant, IInv, TakeMutation
  PROVE  StoreInvariant'
<1> DEFINE owing == Owes(client)
<1>1. PICK c \in Taken :
        /\ c.kind \in Mutations
        /\ IF status # "ready" THEN run' = Idle /\ client' = Answered(c, FALSE, memory)
           ELSE IF JournalPending THEN run' = Importing(c) /\ UNCHANGED client
           ELSE Execute(c, memory)
        /\ outdated' = (outdated \/ (~JournalPending /\ memory.generations # disk.index))
        /\ UNCHANGED <<disk, status, startupQueued, memory, draining>>
  BY DEF TakeMutation
<1>2. c \in HeldNow /\ run = Idle
  BY TakenIsHeld
<1>3. /\ outdated' \in BOOLEAN /\ (~outdated) \in BOOLEAN /\ (~outdated') \in BOOLEAN
      /\ ~outdated' => ~outdated
  <2>1. outdated \in BOOLEAN
    BY StoreIs
  <2> QED BY <1>1, <2>1
<1>4. IsSafe(disk, Idle, memory, status, ~outdated, owing)
  BY <1>2, StoreIs
<1>5. /\ status \in {"loading", "ready", "failed"}
      /\ startupQueued \in BOOLEAN /\ draining \in BOOLEAN /\ Asked(client)
  BY StoreIs
<1>6. CASE status # "ready"
  <2>1. FALSE \in BOOLEAN
    OBVIOUS
  <2>2. run' = Idle /\ Asked(client') /\ Owes(client') = owing \cup {c.caller}
    BY <1>1, <1>2, <1>6, <2>1, AnswerStays
  <2> DEFINE more == Owes(client')
             k == c.caller
             fresh == ~outdated
             fresher == ~outdated'
  <2>3. more = owing \cup {k} /\ fresh \in BOOLEAN /\ fresher \in BOOLEAN /\ (fresher => fresh)
    BY <1>3, <2>2
  <2>4. IsSafe(disk, Idle, memory, status, fresh, owing)
    BY <1>4
  <2> HIDE DEF more, k, fresh, fresher, owing
  <2>5. IsSafe(disk, Idle, memory, status, fresher, more)
    BY <2>3, <2>4, OweIsSafe
  <2>6. IsSafe(disk', run', memory', status', ~outdated', Owes(client'))
    BY <1>1, <2>2, <2>5 DEF more, fresher
  <2> QED BY <1>1, <1>3, <1>5, <2>2, <2>6, NextIsSafe
<1>7. CASE status = "ready" /\ JournalPending
  <2> DEFINE i == Import(disk)
  <2>1. run' = [command |-> c, phase |-> "import", script |-> i.script, ok |-> i.ok,
                memory |-> i.memory] /\ UNCHANGED client
    BY <1>1, <1>7 DEF Importing
  <2> HIDE DEF i
  <2>2. i = Import(disk)
    BY DEF i
  <2>3. IsSafe(disk, run', memory, status, ~outdated, owing)
    BY <1>4, <1>7, <2>1, <2>2, ImportIsSafe
  <2>4. outdated' = outdated
    BY <1>1, <1>3, <1>7, StoreIs
  <2>5. IsSafe(disk', run', memory', status', ~outdated', Owes(client'))
    BY <1>1, <2>1, <2>3, <2>4
  <2> QED BY <1>1, <1>3, <1>5, <2>1, <2>5, NextIsSafe
<1>8. CASE status = "ready" /\ ~JournalPending
  <2>1. NoJournal(disk)
    BY <1>8 DEF JournalPending, NoJournal
  <2> DEFINE fresh == ~outdated'
             was == ~outdated
  <2>2. Execute(c, memory)
    BY <1>1, <1>8
  <2>3. Trusted(fresh, owing) => memory.generations = disk.index
    <3>1. fresh => memory.generations = disk.index
      BY <1>1, <1>8
    <3>2. owing = {} => memory.generations = disk.index
      BY <1>4, <1>8, IdleIs DEF IsSafe, SettledIsClean
    <3> QED BY <3>1, <3>2 DEF Trusted
  <2>4. /\ was \in BOOLEAN /\ fresh \in BOOLEAN /\ (fresh => was)
        /\ IsSafe(disk, Idle, memory, status, was, owing)
    BY <1>3, <1>4
  <2> HIDE DEF fresh, was
  <2>5. Asked(client') /\ IsSafe(disk, run', memory, status, fresh, Owes(client'))
    BY <1>1, <1>2, <1>8, <2>1, <2>2, <2>3, <2>4, ExecuteIsSafe
  <2>6. IsSafe(disk', run', memory', status', ~outdated', Owes(client'))
    BY <1>1, <2>5 DEF fresh
  <2> QED BY <1>1, <1>3, <1>5, <2>5, <2>6, NextIsSafe
<1> QED BY <1>6, <1>7, <1>8

------------------------------------------------------------------------------
(* The running command keeps the store safe.                                 *)

\* A durable call is made.
LEMMA StepStaysSafe ==
  ASSUME StoreInvariant, Step
  PROVE  StoreInvariant'
<1>1. PICK part \in Parts(Head(run.script)) :
        /\ disk' = Apply(disk, part) /\ run' = [run EXCEPT !.script = Left(@, part)]
        /\ run.script # <<>>
        /\ UNCHANGED <<status, startupQueued, memory, draining, client, outdated>>
  BY DEF Step, countVars
<1> DEFINE fresh == ~outdated
<1>2. fresh \in BOOLEAN /\ IsSafe(disk, run, memory, status, fresh, Owes(client))
  BY StoreIs
<1> HIDE DEF fresh
<1>3. IsSafe(disk', run', memory, status, fresh, Owes(client))
  BY <1>1, <1>2, StepIsSafe
<1>4. IsSafe(disk', run', memory', status', ~outdated', Owes(client'))
  BY <1>1, <1>3 DEF fresh
<1> QED BY <1>1, <1>4, StoreIs, NextIsSafe

\* Reads that fail owe nothing.
LEMMA FailedReadsOweNothing ==
  ASSUME StoreInvariant, IInv, run # Idle, run.command.kind = "startup",
         NEW after, after = ReadsFailed(run.command)
  PROVE  Asked(after) /\ Owes(client) \subseteq Owes(after)
<1> DEFINE reads == {commands[n].caller : n \in {m \in DOMAIN commands :
                                                   commands[m].kind \notin Retained}}
                     \cup {run.command.caller}
<1>1. ASSUME NEW k \in Keys, k \in reads
      PROVE  client[k].state = "waiting" /\ client[k].intent.kind \notin Retained
  <2>1. PICK c \in HeldNow : c.caller = k /\ c.kind \notin Retained
    <3>1. "startup" \notin Retained
      BY DEF Retained, Mutations
    <3>2. run.command \in HeldNow
      BY DEF HeldNow, Running
    <3>3. \A n \in DOMAIN commands : commands[n] \in HeldNow
      BY DEF HeldNow, Members
    <3> QED BY <1>1, <3>1, <3>2, <3>3
  <2>2. client[k] = Waiting(c)
    BY <2>1 DEF IInv, Reflects, HeldNow
  <2> QED BY <2>1, <2>2, FreeIs
<1>2. \A k \in Keys :
        /\ k \notin reads => after[k] = client[k]
        /\ k \in reads => after[k] \in {Free("idle"), Free("out")}
  BY DEF ReadsFailed
<1> HIDE DEF reads
<1>3. Asked(client)
  BY StoreIs
<1>4. Asked(after)
  <2>1. ASSUME NEW k \in Keys
        PROVE  /\ after[k].state \in {"out", "idle", "waiting", "owes"}
               /\ after[k].state = "waiting" => RemovesOwn(after[k].intent)
    <3>1. CASE k \in reads
      <4>1. after[k].state \in {"out", "idle"}
        BY <1>2, <3>1, FreeIs
      <4> QED BY <4>1
    <3>2. CASE k \notin reads
      BY <1>2, <1>3, <3>2 DEF Asked
    <3> QED BY <3>1, <3>2
  <2> QED BY <2>1 DEF Asked
<1>5. ASSUME NEW k \in Owes(client) PROVE k \in Owes(after)
  <2>1. k \in Keys /\ k \notin reads
    <3>1. k \in Keys
      BY OwesIs
    <3>2. "reconcile" \in Retained
      BY DEF Retained
    <3> QED BY <1>1, <3>1, <3>2, OwesIs
  <2>2. after[k] = client[k]
    BY <1>2, <2>1
  <2> QED BY <2>1, <2>2, OwesIs
<1> QED BY <1>4, <1>5

\* The running command throws, over a directory its last call may have changed.
LEMMA ThrowStaysSafe ==
  ASSUME StoreInvariant, IInv, run # Idle, Throw, UNCHANGED outdated,
         NEW r, r.phase = run.phase, r.command = run.command,
         IsSafe(disk', r, memory, status, ~outdated, Owes(client))
  PROVE  StoreInvariant'
<1> DEFINE c == run.command
           fresh == ~outdated
           owing == Owes(client)
           more == Owes(client')
<1>1. /\ run' = Idle /\ UNCHANGED <<startupQueued, memory>>
  BY DEF Throw
<1>2. c \in HeldNow
  BY DEF HeldNow, Running
<1>11. r.command = c
  OBVIOUS
<1>3. r.phase = "write" => c.kind \in Mutations
  BY StoreIs DEF IsSafe, WriteIsSafe
<1>4. fresh \in BOOLEAN
  BY StoreIs
<1>5. /\ Asked(client') /\ owing \subseteq more
      /\ r.phase = "write" => r.command.caller \in more
      /\ status' \in {status, "failed"} /\ draining' \in BOOLEAN
  <2>1. CASE c.kind = "startup"
    <3>1. status' = "failed" /\ draining' = FALSE /\ client' = ReadsFailed(c)
      BY <2>1 DEF Throw
    <3>2. Asked(client') /\ owing \subseteq more
      BY <2>1, <3>1, FailedReadsOweNothing
    <3>3. c.kind \notin Mutations
      BY <2>1 DEF Mutations
    <3> QED BY <1>3, <3>1, <3>2, <3>3
  <2>2. CASE c.kind # "startup"
    <3>1. client' = Answered(c, FALSE, memory) /\ UNCHANGED <<status, draining>>
      BY <2>2 DEF Throw
    <3>2. FALSE \in BOOLEAN
      OBVIOUS
    <3> HIDE DEF c
    <3>3. /\ Asked(client')
          /\ c.kind \in Mutations => more = owing \cup {c.caller}
          /\ c.kind \notin Mutations => more = owing
      <4>1. c.kind \notin Mutations => c.kind \notin Retained \/ c.kind = "reconcile"
        BY DEF Retained
      <4> QED BY <1>2, <3>1, <3>2, <4>1, AnswerStays
    <3>4. draining' \in BOOLEAN
      BY <3>1, StoreIs
    <3>5. owing \subseteq more /\ (c.kind \in Mutations => c.caller \in more)
      BY <3>3
    <3> QED BY <1>3, <1>11, <3>1, <3>3, <3>4, <3>5
  <2> QED BY <2>1, <2>2
<1>6. IsSafe(disk', r, memory, status, fresh, owing)
  OBVIOUS
<1> HIDE DEF c, fresh, owing, more
<1>7. IsSafe(disk', Idle, memory, status', fresh, more)
  BY <1>4, <1>5, <1>6, ThrowIsSafe
<1>8. IsSafe(disk', run', memory', status', ~outdated', Owes(client'))
  BY <1>1, <1>7 DEF fresh, more
<1>9. status' \in {"loading", "ready", "failed"}
  BY <1>5, StoreIs
<1>10. outdated' \in BOOLEAN /\ startupQueued' \in BOOLEAN
  BY <1>1, StoreIs
<1> QED BY <1>5, <1>8, <1>9, <1>10, NextIsSafe

\* An import that found malformed data throws at its end.
LEMMA ImportFailsStaysSafe ==
  ASSUME StoreInvariant, IInv, ImportFails
  PROVE  StoreInvariant'
<1>1. run.phase = "import" /\ Throw /\ UNCHANGED <<disk, outdated>>
  BY DEF ImportFails, countVars
<1>2. run # Idle
  BY <1>1, IdleIs
<1>3. IsSafe(disk', run, memory, status, ~outdated, Owes(client))
  BY <1>1, StoreIs
<1> QED BY <1>1, <1>2, <1>3, ThrowStaysSafe

\* A durable call throws, before its effect or after it.
LEMMA FaultStaysSafe ==
  ASSUME StoreInvariant, IInv, NEW kind, Fault(kind)
  PROVE  StoreInvariant'
<1>1. run # Idle /\ Throw /\ UNCHANGED outdated
  BY DEF Fault
<1> DEFINE fresh == ~outdated
<1>2. fresh \in BOOLEAN /\ IsSafe(disk, run, memory, status, fresh, Owes(client))
  BY StoreIs
<1>3. CASE UNCHANGED disk
  BY <1>1, <1>2, <1>3, ThrowStaysSafe
<1>4. CASE kind = "after"
  <2>1. PICK part \in Parts(Head(run.script)) : disk' = Apply(disk, part)
    BY <1>4 DEF Fault
  <2>2. run.script # <<>>
    BY <1>4 DEF Fault
  <2> DEFINE s == [run EXCEPT !.script = Left(@, part)]
  <2>3. s.phase = run.phase /\ s.command = run.command
    <3>1. IsRun(run)
      BY <1>2 DEF IsSafe
    <3>2. run = [command |-> run.command, phase |-> run.phase, script |-> run.script,
                 ok |-> run.ok, memory |-> run.memory]
      BY <3>1 DEF IsRun
    <3> QED BY <3>2
  <2>4. s = [run EXCEPT !.script = Left(@, part)]
    OBVIOUS
  <2> HIDE DEF s, fresh
  <2>5. IsSafe(disk', s, memory, status, fresh, Owes(client))
    BY <1>2, <2>1, <2>2, <2>4, StepIsSafe
  <2>6. IsSafe(disk', s, memory, status, ~outdated, Owes(client))
    BY <2>5 DEF fresh
  <2> QED BY <1>1, <2>3, <2>6, ThrowStaysSafe
<1> QED BY <1>3, <1>4 DEF Fault

\* A mutation is written: its document owes nothing.
LEMMA WriteSucceedsStaysSafe ==
  ASSUME StoreInvariant, IInv, WriteSucceeds
  PROVE  StoreInvariant'
<1> DEFINE c == run.command
           fresh == ~outdated
           owing == Owes(client)
<1>1. /\ run.phase = "write" /\ run.script = <<>> /\ memory' = run.memory /\ run' = Idle
      /\ client' = Answered(c, TRUE, run.memory)
      /\ UNCHANGED <<disk, status, startupQueued, draining, outdated>>
  BY DEF WriteSucceeds, countVars
<1>2. run # Idle
  BY <1>1, IdleIs
<1>3. c \in HeldNow
  BY <1>2 DEF HeldNow, Running
<1>4. fresh \in BOOLEAN /\ IsSafe(disk, run, memory, status, fresh, owing)
  BY StoreIs
<1>5. c.kind \in Mutations
  BY <1>1, <1>4 DEF IsSafe, WriteIsSafe
<1>6. TRUE \in BOOLEAN
  OBVIOUS
<1> HIDE DEF c, fresh, owing
<1>7. Asked(client') /\ Owes(client') = owing
  BY <1>1, <1>3, <1>5, <1>6, AnswerStays DEF owing
<1>8. IsSafe(disk, Idle, run.memory, status, fresh, owing)
  BY <1>1, <1>4, WrittenIsSafe
<1>9. IsSafe(disk', run', memory', status', ~outdated', Owes(client'))
  BY <1>1, <1>7, <1>8 DEF fresh
<1> QED BY <1>1, <1>7, <1>9, StoreIs, NextIsSafe

\* An import ends: a startup makes the store ready, a mutation goes on over the
\* memory just read.
LEMMA ImportSucceedsStaysSafe ==
  ASSUME StoreInvariant, IInv, ImportSucceeds
  PROVE  StoreInvariant'
<1> DEFINE c == run.command
           fresh == ~outdated
           owing == Owes(client)
<1>1. /\ run.phase = "import" /\ run.script = <<>> /\ run.ok /\ memory' = run.memory
      /\ IF c.kind = "startup" THEN status' = "ready" ELSE UNCHANGED status
      /\ IF c.kind \in Mutations THEN Execute(c, run.memory)
         ELSE run' = Idle /\ client' = Answered(c, TRUE, run.memory)
      /\ UNCHANGED <<disk, startupQueued, draining, outdated>>
  BY DEF ImportSucceeds, countVars
<1>2. run # Idle
  BY <1>1, IdleIs
<1>3. c \in HeldNow
  BY <1>2 DEF HeldNow, Running
<1>4. /\ fresh \in BOOLEAN /\ IsSafe(disk, run, memory, status, fresh, owing)
      /\ status \in {"loading", "ready", "failed"}
  BY StoreIs
<1>5. status' \in {"loading", "ready", "failed"}
  BY <1>1, <1>4
<1> HIDE DEF fresh, owing
<1>6. \A more : IsSafe(disk, Idle, run.memory, status', fresh, more)
  BY <1>1, <1>4, ImportedIsSafe
<1>7. CASE c.kind \notin Mutations
  <2> HIDE DEF c
  <2>1. run' = Idle /\ client' = Answered(c, TRUE, run.memory) /\ TRUE \in BOOLEAN
    BY <1>1, <1>7
  <2>2. Asked(client')
    BY <1>3, <2>1, AnswerStays
  <2>3. IsSafe(disk', run', memory', status', ~outdated', Owes(client'))
    BY <1>1, <1>6, <2>1 DEF fresh
  <2> QED BY <1>1, <1>5, <2>2, <2>3, StoreIs, NextIsSafe
<1>8. CASE c.kind \in Mutations
  <2>1. status = "ready"
    BY <1>2, <1>4, <1>8 DEF IsSafe
  <2>2. status' = "ready" /\ Execute(c, run.memory)
    BY <1>1, <1>8, <2>1 DEF Mutations
  <2>3. NoJournal(disk) /\ disk.index = run.memory.generations
    BY <1>1, <1>4, ImportEnds
  <2> HIDE DEF c
  <2>4. IsSafe(disk, Idle, run.memory, status', fresh, Owes(client))
    BY <1>6
  <2>5. Asked(client') /\ IsSafe(disk, run', run.memory, status', fresh, Owes(client'))
    BY <1>3, <1>4, <1>8, <2>2, <2>3, <2>4, ExecuteIsSafe
  <2>6. IsSafe(disk', run', memory', status', ~outdated', Owes(client'))
    BY <1>1, <2>5 DEF fresh
  <2> QED BY <1>1, <1>5, <2>5, <2>6, StoreIs, NextIsSafe
<1> QED BY <1>7, <1>8

LEMMA NobodyAsks ==
  ASSUME NEW clients, clients = [k \in Keys |-> Free("out")]
  PROVE  Asked(clients) /\ Owes(clients) = {}
<1>1. \A k \in Keys : clients[k].state = "out"
  BY FreeIs
<1>2. \A k : k \notin Owes(clients)
  BY <1>1, OwesIs
<1> QED BY <1>1, <1>2 DEF Asked

LEMMA EmptyIs ==
  IsMemory(Empty)
<1>1. Empty.entries = {} /\ Empty.raws = {}
      /\ Empty = [entries |-> Empty.entries, raws |-> Empty.raws, generations |-> Empty.generations]
  BY DEF Empty
<1>2. Empty.generations \in Generations
  BY DEF Empty, Generations
<1>3. Bounded({e.id : e \in Empty.entries})
  <2>1. 0 \in Nat /\ \A i \in {e.id : e \in Empty.entries} : i < 0
    BY <1>1
  <2> QED BY <2>1 DEF Bounded
<1> QED BY <1>1, <1>2, <1>3 DEF IsMemory

\* A process starts with an empty memory over whatever directory it finds.
LEMMA LoadingIsSafe ==
  ASSUME NEW d, IsDisk(d), NEW fresh, fresh => IsSound(d), NEW owing
  PROVE  IsSafe(d, Idle, Empty, "loading", fresh, owing)
<1>1. MemoryIsNear(d, Idle, Empty, "loading", fresh, owing)
  BY DEF MemoryIsNear
<1>2. SettledIsClean(d, Idle, Empty, "loading", owing)
  BY DEF SettledIsClean
<1> QED BY <1>1, <1>2, EmptyIs, IdleIsSafe

\* The process ends.
LEMMA CrashStaysSafe ==
  ASSUME StoreInvariant, Crash
  PROVE  StoreInvariant'
<1>1. /\ status' = "loading" /\ startupQueued' = FALSE /\ memory' = Empty
      /\ draining' = FALSE /\ run' = Idle
      /\ client' = [k \in Keys |-> Free("out")]
      /\ UNCHANGED <<disk, outdated>>
  BY DEF Crash
<1>2. Asked(client')
  BY <1>1, NobodyAsks
<1>3. IsDisk(disk) /\ (~outdated => IsSound(disk))
  BY StoreIs DEF IsSafe
<1>4. IsSafe(disk', run', memory', status', ~outdated', Owes(client'))
  BY <1>1, <1>3, LoadingIsSafe
<1>5. startupQueued' \in BOOLEAN /\ draining' \in BOOLEAN
      /\ status' \in {"loading", "ready", "failed"}
  BY <1>1
<1> QED BY <1>1, <1>2, <1>4, <1>5, StoreIs, NextIsSafe

------------------------------------------------------------------------------
(* The invariant of the store.                                             *)

\* A process starts over what an earlier one left.
LEMMA StartIsSafe == Init => StoreInvariant
<1> SUFFICES ASSUME Init PROVE StoreInvariant
  OBVIOUS
<1>1. /\ status = "loading" /\ startupQueued = FALSE /\ memory = Empty
      /\ draining = FALSE /\ run = Idle /\ outdated = FALSE
      /\ client = [k \in Keys |-> Free("out")]
  BY DEF Init
<1>2. IsDisk(disk) /\ IsSound(disk)
  BY StoredIsSound DEF Init
<1>3. IsSafe(disk, Idle, Empty, "loading", ~outdated, Owes(client))
  BY <1>2, LoadingIsSafe
<1>4. Asked(client)
  BY <1>1, NobodyAsks
<1> QED BY <1>1, <1>3, <1>4 DEF StoreInvariant

\* Every step keeps the invariant; which calls are held where, IInv says.
LEMMA NextStaysSafe == StoreInvariant /\ IInv /\ [Next]_vars => StoreInvariant'
<1> SUFFICES ASSUME StoreInvariant, IInv, [Next]_vars PROVE StoreInvariant'
  OBVIOUS
<1>1. ASSUME NEW k \in Documents, RetryStartup(k) \/ Load(k) \/ LoadReady(k)
      PROVE  StoreInvariant'
  <2>1. k \in Keys
    BY DocumentsAssumption
  <2> QED BY <1>1, <2>1, RetryStartupStaysSafe, LoadStaysSafe, LoadReadyStaysSafe
<1>2. ASSUME NEW k \in Keys, Mutate(k) \/ Reconcile(k) \/ ReconcileCommit(k)
      PROVE  StoreInvariant'
  BY <1>2, MutateStaysSafe, ReconcileStaysSafe, ReconcileCommitStaysSafe
<1>3. CASE Take
  BY <1>3, TakeImportStaysSafe, TakeReadStaysSafe, TakeReconcileCommitStaysSafe,
     TakeMutationStaysSafe, DrainEndsStaysSafe DEF Take
<1>4. CASE Work
  BY <1>4, StepStaysSafe, ImportFailsStaysSafe, ImportSucceedsStaysSafe,
     WriteSucceedsStaysSafe DEF Work
<1>5. CASE Crash
  BY <1>5, CrashStaysSafe
<1>6. ASSUME NEW kind \in FaultKinds, Fault(kind)
      PROVE  StoreInvariant'
  BY <1>6, FaultStaysSafe
<1>7. CASE UNCHANGED vars
  <2>1. UNCHANGED <<disk, status, startupQueued, memory, draining, run, client, outdated>>
    BY <1>7 DEF vars, laneVars, countVars
  <2> QED BY <2>1, StoreIs, NextIsSafe
<1> QED BY <1>1, <1>2, <1>3, <1>4, <1>5, <1>6, <1>7 DEF Next

\* Whatever calls, failures and crashes come in whatever order, the directory is one
\* an import can replay, the script that runs is a replay or a transaction, and the
\* memory differs from the directory only by what documents still have to reconcile.
THEOREM StoreStaysSafe == Spec => []StoreInvariant
<1>1. Init => StoreInvariant /\ IInv
  BY StartIsSafe, InitHolds
<1>2. StoreInvariant /\ IInv /\ [Next]_vars => StoreInvariant' /\ IInv'
  BY NextStaysSafe, NextKeeps
<1> QED BY <1>1, <1>2, PTL DEF Spec

------------------------------------------------------------------------------
(* What follows from the invariant.                                          *)

\* The types of the store's state; one journal at a time, and no artifact under both
\* of its names.
THEOREM TypesHold == Spec => []TypeOK
<1>1. StoreInvariant => TypeOK
  <2> SUFFICES ASSUME StoreInvariant PROVE TypeOK
    OBVIOUS
  <2>1. IsDisk(disk) /\ IsMemory(memory)
    BY StoreIs DEF IsSafe
  <2>2. \A k \in Keys : client[k].state \in {"out", "idle", "waiting", "owes"}
    BY StoreIs DEF Asked
  <2> QED BY <2>1, <2>2, StoreIs DEF TypeOK, IsDisk, IsMemory
<1> QED BY <1>1, StoreStaysSafe, PTL

\* An import that will succeed holds what the journals promised when it began,
\* between any two of its calls (importPersistedState).
THEOREM ImportsAreFaithful == Spec => []ImportIsFaithful
<1>1. StoreInvariant => ImportIsFaithful
  <2> SUFFICES ASSUME StoreInvariant, run.phase = "import", run.ok
               PROVE  /\ run.memory.generations = DurableGenerations(disk)
                      /\ DurableRecords(disk) = Recorded(run.memory)
    BY DEF ImportIsFaithful, Recorded
  <2>1. ReplayIsSafe(disk, run, ~outdated)
    BY StoreIs DEF IsSafe
  <2> QED BY <2>1 DEF ReplayIsSafe
<1> QED BY <1>1, StoreStaysSafe, PTL

\* Wherever a process ended, the next import accepts the directory, but for the two
\* states RestartIsPossible names and a store that was left behind.
THEOREM RestartsArePossible == Spec => []RestartIsPossible
<1>1. StoreInvariant => RestartIsPossible
  <2> SUFFICES ASSUME StoreInvariant, ~outdated, ~OrphanPayload(disk), ~TrimsOthers(disk)
               PROVE  Import(disk).ok
    BY DEF RestartIsPossible
  <2>1. IsDisk(disk) /\ IsSound(disk)
    BY StoreIs DEF IsSafe
  <2> QED BY <2>1, SoundRestarts
<1> QED BY <1>1, StoreStaysSafe, PTL

\* A memory is known by the records it stands for.
LEMMA RecordedOnce ==
  ASSUME NEW m, IsMemory(m), NEW n, IsMemory(n), Recorded(m) \subseteq Recorded(n)
  PROVE  m.entries \subseteq n.entries /\ m.raws \subseteq n.raws
<1>1. /\ m.entries \subseteq [id : Nat, key : Keys] /\ n.entries \subseteq [id : Nat, key : Keys]
      /\ m.raws \subseteq [id : Keys, key : Keys] /\ n.raws \subseteq [id : Keys, key : Keys]
  BY DEF IsMemory
<1>2. ASSUME NEW e \in m.entries PROVE e \in n.entries
  <2> DEFINE r == [kind |-> "snapshot", id |-> e.id, key |-> e.key]
  <2>1. r \in Recorded(n)
    BY <1>2, RecordedIs
  <2>2. r.kind = "snapshot" /\ r.id = e.id /\ r.key = e.key
    OBVIOUS
  <2> HIDE DEF r
  <2>3. PICK f \in n.entries : r = [kind |-> "snapshot", id |-> f.id, key |-> f.key]
    <3>1. \/ \E f \in n.entries : r = [kind |-> "snapshot", id |-> f.id, key |-> f.key]
          \/ \E f \in n.raws : r = [kind |-> "metadata", id |-> f.id, key |-> f.key]
      BY <2>1, RecordedIs
    <3>2. ~ \E f \in n.raws : r = [kind |-> "metadata", id |-> f.id, key |-> f.key]
      BY <2>2
    <3> QED BY <3>1, <3>2
  <2>4. f.id = e.id /\ f.key = e.key
    BY <2>2, <2>3
  <2>5. e = [id |-> e.id, key |-> e.key] /\ f = [id |-> f.id, key |-> f.key]
    BY <1>1, <1>2
  <2>6. e = f
    BY <2>4, <2>5
  <2> QED BY <2>6
<1>3. ASSUME NEW e \in m.raws PROVE e \in n.raws
  <2> DEFINE r == [kind |-> "metadata", id |-> e.id, key |-> e.key]
  <2>1. r \in Recorded(n)
    BY <1>3, RecordedIs
  <2>2. r.kind = "metadata" /\ r.id = e.id /\ r.key = e.key
    OBVIOUS
  <2> HIDE DEF r
  <2>3. PICK f \in n.raws : r = [kind |-> "metadata", id |-> f.id, key |-> f.key]
    <3>1. \/ \E f \in n.entries : r = [kind |-> "snapshot", id |-> f.id, key |-> f.key]
          \/ \E f \in n.raws : r = [kind |-> "metadata", id |-> f.id, key |-> f.key]
      BY <2>1, RecordedIs
    <3>2. ~ \E f \in n.entries : r = [kind |-> "snapshot", id |-> f.id, key |-> f.key]
      BY <2>2
    <3> QED BY <3>1, <3>2
  <2>4. f.id = e.id /\ f.key = e.key
    BY <2>2, <2>3
  <2>5. e = [id |-> e.id, key |-> e.key] /\ f = [id |-> f.id, key |-> f.key]
    BY <1>1, <1>3
  <2>6. e = f
    BY <2>4, <2>5
  <2> QED BY <2>6
<1> QED BY <1>2, <1>3

\* A ready store that rests, and to whom nobody owes a reconciliation, holds exactly
\* what its directory holds, also after failures, replays and crashes.
THEOREM MemoryAlwaysAgrees == Spec => []MemoryAgrees
<1>1. StoreInvariant => MemoryAgrees
  <2> SUFFICES ASSUME StoreInvariant, status = "ready", run = Idle,
                      \A k \in Keys : ~Reconciling(k)
               PROVE  memory = Read(disk)
    BY DEF MemoryAgrees, Read
  <2> DEFINE owing == Owes(client)
  <2>1. owing = {}
    BY OwesIs DEF Reconciling
  <2>2. /\ IsDisk(disk) /\ IsMemory(memory)
        /\ MemoryIsNear(disk, Idle, memory, "ready", ~outdated, owing)
        /\ SettledIsClean(disk, Idle, memory, "ready", owing)
    BY StoreIs DEF IsSafe
  <2> HIDE DEF owing
  <2>3. NoJournal(disk) /\ disk.index = memory.generations
    BY <2>1, <2>2, IdleIs DEF SettledIsClean
  <2>4. Trusted(~outdated, owing)
    BY <2>1 DEF Trusted
  <2>5. DurableGenerations(disk) = disk.index
    BY <2>3, CleanDurable
  <2>6. Near(memory, DurableRecords(disk), owing \cup Writers(Idle))
    BY <2>2, <2>3, <2>4, <2>5 DEF MemoryIsNear
  <2>7. owing \cup Writers(Idle) = {}
    BY <2>1, IdleIs
  <2>8. DurableRecords(disk) = Recorded(memory)
    BY <2>6, <2>7 DEF Near
  <2>9. IsMemory(Read(disk)) /\ DurableRecords(disk) = Recorded(Read(disk))
    BY <2>2, <2>3, ReadIsFaithful
  <2> DEFINE n == Read(disk)
  <2>10. n.generations = disk.index
         /\ n = [entries |-> n.entries, raws |-> n.raws, generations |-> n.generations]
    BY DEF Read
  <2> HIDE DEF n
  <2>11. IsMemory(n) /\ Recorded(memory) = Recorded(n)
    BY <2>8, <2>9 DEF n
  <2>12. memory.entries \subseteq n.entries /\ memory.raws \subseteq n.raws
    BY <2>2, <2>11, RecordedOnce
  <2>13. n.entries \subseteq memory.entries /\ n.raws \subseteq memory.raws
    BY <2>2, <2>11, RecordedOnce
  <2>14. memory.entries = n.entries /\ memory.raws = n.raws
    BY <2>12, <2>13
  <2>15. memory = [entries |-> memory.entries, raws |-> memory.raws,
                   generations |-> memory.generations]
    BY <2>2 DEF IsMemory
  <2>16. memory = n
    BY <2>3, <2>10, <2>14, <2>15
  <2> QED BY <2>16 DEF n
<1> QED BY <1>1, StoreStaysSafe, PTL

------------------------------------------------------------------------------
(* The abstract store.                                                       *)

\* The three steps, as AtomicRecovery names them.
LEMMA AddsIsAdd ==
  ASSUME NEW key, Adds(DurableRecords(disk), DurableRecords(disk)', key),
         DurableGenerations(disk)' = DurableGenerations(disk)
  PROVE  Atomic!Next
<1> DEFINE old == DurableRecords(disk)
           new == DurableRecords(disk)'
<1>1. PICK r \in new : /\ new = old \cup {r} /\ r \notin old
                       /\ \A s \in old : s.kind = r.kind => s.id # r.id
  BY DEF Adds
<1>2. Atomic!Add
  BY <1>1 DEF Atomic!Add
<1> QED BY <1>2 DEF Atomic!Next

LEMMA DiscardsIsDiscard ==
  ASSUME Discards(DurableRecords(disk), DurableRecords(disk)', DurableGenerations(disk),
                  DurableGenerations(disk)')
  PROVE  Atomic!Next
<1> DEFINE old == DurableRecords(disk)
           new == DurableRecords(disk)'
<1>1. PICK keys \in SUBSET Keys : /\ keys # {} /\ new \subseteq old
                                  /\ {r.key : r \in old \ new} \subseteq keys
                                  /\ DurableGenerations(disk)'
                                       = Advance(DurableGenerations(disk), keys)
  BY DEF Discards
<1>2. Atomic!Advances(keys)
  BY <1>1 DEF Atomic!Advances, Advance
<1>3. CASE new = old
  <2>1. keys \in (SUBSET Keys) \ {{}}
    BY <1>1
  <2>2. DurableRecords(disk)' = DurableRecords(disk)
    BY <1>3
  <2>3. Atomic!Count
    BY <1>2, <2>1, <2>2 DEF Atomic!Count
  <2> QED BY <2>3 DEF Atomic!Next
<1>4. CASE new # old
  <2>1. Atomic!Discard
    BY <1>1, <1>2, <1>4 DEF Atomic!Discard
  <2> QED BY <2>1 DEF Atomic!Next
<1> QED BY <1>3, <1>4

LEMMA MovesIsMove ==
  ASSUME DurableGenerations(disk) \in Generations,
         Moves(DurableRecords(disk), DurableRecords(disk)', DurableGenerations(disk),
               DurableGenerations(disk)')
  PROVE  Atomic!Next
<1> DEFINE old == DurableRecords(disk)
           new == DurableRecords(disk)'
           before == DurableGenerations(disk)
           after == DurableGenerations(disk)'
<1>1. PICK source \in Keys, destination \in Keys :
        /\ source # destination
        /\ \A r \in old : r.key # destination
        /\ new = {IF r.key = source THEN [r EXCEPT !.key = destination] ELSE r : r \in old}
        /\ after = MigratedGenerations(before, source, destination)
  BY DEF Moves
<1>2. /\ after[source] > before[source]
      /\ after[destination] > before[source]
      /\ after[destination] > before[destination]
      /\ \A k \in Keys \ {source, destination} : after[k] = before[k]
  BY <1>1, MoveLeavesBehind
<1>3. Atomic!RecordsOf(destination) = {}
  BY <1>1 DEF Atomic!RecordsOf
<1>4. Atomic!Move(source, destination)
  BY <1>1, <1>2, <1>3 DEF Atomic!Move
<1> QED BY <1>4 DEF Atomic!Next

LEMMA GenerationsAre ==
  ASSUME NEW d, IsDisk(d)
  PROVE  DurableGenerations(d) \in Generations
<1>1. \A j : j \in DeletionJournals \/ j \in MigrationJournals
               => j.previous \in Generations /\ j.next \in Generations
  BY DEF DeletionJournals, MigrationJournals
<1> QED BY <1>1 DEF IsDisk, DurableGenerations

\* A durable call is a step of the abstract store, or none at all.
LEMMA CallIsAtomic ==
  ASSUME StoreInvariant, ~outdated, run.script # <<>>,
         NEW part \in Parts(Head(run.script)), disk' = Apply(disk, part)
  PROVE  Atomic!Next \/ UNCHANGED <<DurableRecords(disk), DurableGenerations(disk)>>
<1> DEFINE fresh == ~outdated
           owing == Owes(client)
<1>1. IsSafe(disk, run, memory, status, fresh, owing) /\ fresh
  BY StoreIs
<1>2. Trusted(fresh, owing)
  BY <1>1 DEF Trusted
<1> HIDE DEF fresh, owing
<1>3. /\ IsDisk(disk) /\ IsRun(run) /\ ReplayIsSafe(disk, run, fresh)
      /\ WriteIsSafe(disk, run, memory, fresh, owing)
  BY <1>1 DEF IsSafe
<1>4. run.script \in Seq(Calls) /\ run.phase \in {"import", "write"}
  BY <1>3, IdleIs DEF IsRun
<1>5. CASE run.phase = "import"
  <2> DEFINE w == Replay(fresh, DurableRecords(disk), DurableGenerations(disk))
  <2>1. Follows(disk, run.script, w)
    BY <1>3, <1>5 DEF ReplayIsSafe
  <2>2. /\ w.kind = "replay" /\ w.records = DurableRecords(disk)
        /\ w.generations = DurableGenerations(disk)
    BY ReplayIs
  <2> HIDE DEF w
  <2>3. Follows(disk', Left(run.script, part), w) /\ Left(run.script, part) \in Seq(Calls)
    BY <1>4, <2>1, StepFollows
  <2>4. IsState(disk', w)
    BY <2>3, FollowsState
  <2>5. DurableRecords(disk') = DurableRecords(disk)
        /\ DurableGenerations(disk') = DurableGenerations(disk)
    BY <2>2, <2>4 DEF IsState
  <2>6. UNCHANGED <<DurableRecords(disk), DurableGenerations(disk)>>
    BY <2>5
  <2> QED BY <2>6
<1>6. CASE run.phase = "write"
  <2> DEFINE w == Transaction(fresh, Trusted(fresh, owing), run.command.caller,
                              memory.generations, run.memory.generations)
  <2>1. Follows(disk, run.script, w)
    BY <1>3, <1>6 DEF WriteIsSafe
  <2>2. /\ w.kind = "write" /\ (w.trusted <=> Trusted(fresh, owing))
    BY TransactionIs
  <2> HIDE DEF w
  <2>3. IsStep(disk, disk', w)
    BY <1>4, <2>1, StepFollows
  <2> DEFINE old == DurableRecords(disk)
             new == DurableRecords(disk')
             before == DurableGenerations(disk)
             after == DurableGenerations(disk')
  <2>4. \/ new = old /\ after = before
        \/ Adds(old, new, w.key) /\ after = before
        \/ /\ before = w.before /\ after = w.after
           /\ Discards(old, new, w.before, w.after) \/ Moves(old, new, w.before, w.after)
    BY <1>2, <2>2, <2>3 DEF IsStep
  <2>5. /\ DurableRecords(disk)' = new /\ DurableGenerations(disk)' = after
        /\ before \in Generations
    BY <1>3, GenerationsAre
  <2>6. CASE new = old /\ after = before
    <3>1. UNCHANGED <<DurableRecords(disk), DurableGenerations(disk)>>
      BY <2>5, <2>6
    <3> QED BY <3>1
  <2>7. CASE Adds(old, new, w.key) /\ after = before
    BY <2>5, <2>7, AddsIsAdd
  <2>8. CASE before = w.before /\ after = w.after /\ Discards(old, new, w.before, w.after)
    BY <2>5, <2>8, DiscardsIsDiscard
  <2>9. CASE before = w.before /\ after = w.after /\ Moves(old, new, w.before, w.after)
    BY <2>5, <2>9, MovesIsMove
  <2> QED BY <2>4, <2>6, <2>7, <2>8, <2>9
<1> QED BY <1>4, <1>5, <1>6

LEMMA StepIsAtomic ==
  StoreInvariant /\ [Next]_vars
    => [disk' # disk => outdated \/ Atomic!Next]_<<DurableRecords(disk),
                                                   DurableGenerations(disk)>>
<1> SUFFICES ASSUME StoreInvariant, [Next]_vars, ~outdated
             PROVE  Atomic!Next \/ UNCHANGED <<DurableRecords(disk), DurableGenerations(disk)>>
  OBVIOUS
<1>1. CASE UNCHANGED disk
  BY <1>1
<1>2. CASE \E part \in Parts(Head(run.script)) : run.script # <<>> /\ disk' = Apply(disk, part)
  BY <1>2, CallIsAtomic
<1>3. ASSUME NEW kind, Fault(kind)
      PROVE  \/ UNCHANGED disk
             \/ \E part \in Parts(Head(run.script)) : run.script # <<>> /\ disk' = Apply(disk, part)
  BY <1>3 DEF Fault
<1>4. Step => \E part \in Parts(Head(run.script)) : run.script # <<>> /\ disk' = Apply(disk, part)
  BY DEF Step
<1>5. CASE \E k \in Keys : RetryStartup(k) \/ Load(k) \/ LoadReady(k)
  BY <1>1, <1>5 DEF RetryStartup, Load, LoadReady, Suspend
<1>6. ASSUME NEW k \in Keys, Mutate(k) \/ Reconcile(k) \/ ReconcileCommit(k)
      PROVE  UNCHANGED disk
  <2>1. \A c : Enqueue(k, c) => UNCHANGED disk
    BY DEF Enqueue, Suspend
  <2> QED BY <1>6, <2>1 DEF Mutate, PersistSnapshot, PersistRaw, Migrate, Discard, Reconcile,
     ReconcileCommit
<1>7. Take => UNCHANGED disk
  BY DEF Take, TakeStartup, TakeRead, TakeReconcileCommit, TakeReconcile, TakeMutation, DrainEnds
<1>8. Work => Step \/ UNCHANGED disk
  BY DEF Work, ImportFails, ImportSucceeds, WriteSucceeds
<1>9. Crash \/ UNCHANGED vars => UNCHANGED disk
  BY DEF Crash, vars
<1>10. CASE \E k \in Documents : RetryStartup(k) \/ Load(k) \/ LoadReady(k)
  BY <1>5, <1>10, DocumentsAssumption
<1> QED BY <1>1, <1>2, <1>3, <1>4, <1>6, <1>7, <1>8, <1>9, <1>10 DEF Next

\* The store implements AtomicRecovery: records are added one at a time, discarded
\* together with a generation and moved together with both, whatever call fails.
THEOREM StoreKeepsPromise == Spec => StoreIsAtomic
<1>1. StoreInvariant /\ [Next]_vars
        => [disk' # disk => outdated \/ Atomic!Next]_<<DurableRecords(disk),
                                                   DurableGenerations(disk)>>
  BY StepIsAtomic
<1> QED BY <1>1, StoreStaysSafe, PTL DEF Spec, StoreIsAtomic
==============================================================================
