----------------------- MODULE SqlPersistence_proofs -----------------------
(***************************************************************************)
(* Proofs about SqlPersistence: for any runs, attempts, states and         *)
(* projectors, any bounds, and with either backend and id generator.       *)
(***************************************************************************)
EXTENDS SqlPersistence, SequenceTheorems, FiniteSetTheorems, WellFoundedInduction, TLAPS

-----------------------------------------------------------------------------
(* ORDER BY: a finite set of numbers has one ascending order, and all of   *)
(* the set is in it.  An argument that would go by induction takes the     *)
(* least counterexample.                                                   *)

\* s lists members of S, n of them, each greater than those before it.
Climbs(s, n, S) ==
  /\ s \in [1 .. n -> S]
  /\ \A i, j \in 1 .. n : i < j => s[i] < s[j]

\* Some member of a set of numbers is the least.
LEMMA Least ==
  ASSUME NEW S \in SUBSET Nat, S # {}
  PROVE  \E n \in S : \A m \in S : n <= m
<1>1. PICK n \in S : \A m \in S : <<m, n>> \notin OpToRel(<, Nat)
  BY NatLessThanWellFounded, WFMin
<1>2. ASSUME NEW m \in S, m < n
      PROVE  <<m, n>> \in OpToRel(<, Nat)
  BY <1>2 DEF OpToRel
<1>3. \A m \in S : m \in Nat /\ n \in Nat /\ ~(m < n)
  BY <1>1, <1>2
<1>4. \A m \in S : n <= m
  BY <1>3
<1> QED
  BY <1>4

\* Every finite set of numbers can be listed in ascending order.
LEMMA ListsExist ==
  ASSUME NEW S \in SUBSET Nat, IsFiniteSet(S)
  PROVE  \E s : Climbs(s, Cardinality(S), S)
<1> DEFINE Bad == {n \in Nat : \E T \in SUBSET S : Cardinality(T) = n /\ ~\E s : Climbs(s, n, T)}
<1>1. ASSUME Bad # {}
      PROVE  FALSE
  <2>1. PICK n \in Bad : \A m \in Bad : n <= m
    BY <1>1, Least
  <2>2. PICK T \in SUBSET S : Cardinality(T) = n /\ ~\E s : Climbs(s, n, T)
    BY <2>1
  <2>3. T \in SUBSET Nat /\ IsFiniteSet(T)
    BY FS_Subset
  <2>4. n # 0
    <3>1. ASSUME n = 0
          PROVE  Climbs([i \in 1 .. 0 |-> 0], n, T)
      BY <3>1 DEF Climbs
    <3> QED
      BY <2>2, <3>1
  <2>5. PICK x \in T : \A y \in T : x <= y
    BY <2>2, <2>3, <2>4, FS_EmptySet, Least
  <2>6. n \in Nat /\ n - 1 \in Nat /\ ~(n <= n - 1)
    BY <2>4
  <2>e. Cardinality(T \ {x}) = n - 1 /\ T \ {x} \in SUBSET S
    BY <2>2, <2>3, <2>5, FS_RemoveElement
  <2>7. PICK s : Climbs(s, n - 1, T \ {x})
    BY <2>1, <2>6, <2>e
  <2> DEFINE t == [i \in 1 .. n |-> IF i = 1 THEN x ELSE s[i - 1]]
  <2>8. \A i \in 1 .. n : i = 1 \/ i - 1 \in 1 .. n - 1
    BY <2>6
  <2>9. \A i \in 1 .. n - 1 : s[i] \in T /\ s[i] \in Nat /\ x < s[i]
    <3>1. \A i \in 1 .. n - 1 : s[i] \in T \ {x}
      BY <2>7 DEF Climbs
    <3>2. \A y \in T \ {x} : y \in Nat /\ x \in Nat /\ x <= y /\ x # y
      BY <2>3, <2>5
    <3>3. \A y \in T \ {x} : y \in T /\ y \in Nat /\ x < y
      BY <3>2
    <3> QED
      BY <3>1, <3>3
  <2>10. t \in [1 .. n -> T]
    BY <2>8, <2>9
  <2>11. ASSUME NEW i \in 1 .. n, NEW j \in 1 .. n, i < j
         PROVE  t[i] < t[j]
    <3>1. j # 1 /\ j - 1 \in 1 .. n - 1 /\ t[j] = s[j - 1]
      BY <2>6, <2>8, <2>11
    <3>2. CASE i = 1
      BY <2>9, <3>1, <3>2
    <3>3. CASE i # 1
      <4>1. i - 1 \in 1 .. n - 1 /\ t[i] = s[i - 1] /\ i - 1 < j - 1
        BY <2>6, <2>8, <2>11, <3>3
      <4> QED
        BY <2>7, <3>1, <4>1 DEF Climbs
    <3> QED
      BY <3>2, <3>3
  <2>12. Climbs(t, n, T)
    BY <2>10, <2>11 DEF Climbs
  <2> QED
    BY <2>2, <2>12
<1>2. Cardinality(S) \in Nat
  BY FS_CardinalityType
<1> QED
  BY <1>1, <1>2

\* A list that climbs through S and is as long as S is large misses nothing.
LEMMA ListsAreFull ==
  ASSUME NEW S \in SUBSET Nat, IsFiniteSet(S), NEW s, Climbs(s, Cardinality(S), S)
  PROVE  \A x \in S : \E i \in 1 .. Cardinality(S) : s[i] = x
<1> DEFINE n == Cardinality(S)
<1>1. n \in Nat /\ IsFiniteSet(1 .. n) /\ Cardinality(1 .. n) = n
  BY FS_CardinalityType, FS_Interval
<1>2. s \in Injection(1 .. n, S)
  <2>1. \A i \in 1 .. n : s[i] \in Nat
    BY DEF Climbs
  <2>2. \A i, j \in 1 .. n : i < j \/ j < i \/ i = j
    BY <1>1
  <2> QED
    BY <2>1, <2>2 DEF Climbs, Injection, IsInjective
<1>3. s \in Surjection(1 .. n, S)
  BY <1>1, <1>2, FS_Injection
<1> QED
  BY <1>3 DEF Surjection

\* Two lists that climb through S and miss nothing of it are the same.
LEMMA ListsAreOne ==
  ASSUME NEW S \in SUBSET Nat, NEW n \in Nat, NEW s, NEW t,
         Climbs(s, n, S), \A x \in S : \E i \in 1 .. n : s[i] = x,
         Climbs(t, n, S), \A x \in S : \E i \in 1 .. n : t[i] = x
  PROVE  s = t
<1> DEFINE Bad == {i \in 1 .. n : s[i] # t[i]}
<1>1. ASSUME Bad # {}
      PROVE  FALSE
  <2>1. PICK i \in Bad : \A m \in Bad : i <= m
    <3>1. Bad \in SUBSET Nat
      OBVIOUS
    <3> QED
      BY <1>1, <3>1, Least
  <2>2. \A j \in 1 .. n : j < i => s[j] = t[j]
    BY <2>1
  <2>3. s[i] \in Nat /\ t[i] \in Nat /\ s[i] # t[i] /\ i \in 1 .. n /\ s[i] \in S /\ t[i] \in S
    BY DEF Climbs
  <2>4. CASE s[i] < t[i]
    <3>1. PICK j \in 1 .. n : t[j] = s[i]
      BY <2>3
    <3>2. ~(i < j) /\ i # j
      BY <2>3, <2>4, <3>1 DEF Climbs
    <3>3. s[j] = t[j] /\ s[j] < s[i]
      BY <2>2, <3>2 DEF Climbs
    <3> QED
      BY <2>3, <3>1, <3>3
  <2>5. CASE t[i] < s[i]
    <3>1. PICK j \in 1 .. n : s[j] = t[i]
      BY <2>3
    <3>2. ~(i < j) /\ i # j
      BY <2>3, <2>5, <3>1 DEF Climbs
    <3>3. s[j] = t[j] /\ t[j] < t[i]
      BY <2>2, <3>2 DEF Climbs
    <3> QED
      BY <2>3, <3>1, <3>3
  <2> QED
    BY <2>3, <2>4, <2>5
<1>2. \A i \in 1 .. n : s[i] = t[i]
  BY <1>1
<1> QED
  BY <1>2 DEF Climbs

\* Ascending lists a finite set of numbers, all of it.
LEMMA AscendingLists ==
  ASSUME NEW S \in SUBSET Nat, IsFiniteSet(S)
  PROVE  /\ Climbs(Ascending(S), Cardinality(S), S)
         /\ Cardinality(S) \in Nat /\ DOMAIN Ascending(S) = 1 .. Cardinality(S)
         /\ \A x \in S : \E i \in 1 .. Cardinality(S) : Ascending(S)[i] = x
<1> DEFINE n == Cardinality(S)
           P(s) == \A i, j \in DOMAIN s : i < j => s[i] < s[j]
<1>1. PICK s : Climbs(s, n, S)
  BY ListsExist
<1>2. s \in [1 .. n -> S] /\ P(s)
  BY <1>1 DEF Climbs
<1>3. Ascending(S) = CHOOSE t \in [1 .. n -> S] : P(t)
  BY DEF Ascending
<1> HIDE DEF P
<1>4. Ascending(S) \in [1 .. n -> S] /\ P(Ascending(S))
  BY <1>2, <1>3
<1>5. Climbs(Ascending(S), n, S)
  BY <1>4 DEF P, Climbs
<1> QED
  BY <1>4, <1>5, ListsAreFull, FS_CardinalityType

\* It is the only list that does.
LEMMA AscendingIsIt ==
  ASSUME NEW S \in SUBSET Nat, NEW n \in Nat, NEW s,
         Climbs(s, n, S), \A x \in S : \E i \in 1 .. n : s[i] = x
  PROVE  IsFiniteSet(S) /\ Ascending(S) = s
<1>1. s \in Surjection(1 .. n, S)
  BY DEF Climbs, Surjection
<1>2. s \in Injection(1 .. n, S)
  <2>1. \A i \in 1 .. n : s[i] \in Nat
    BY DEF Climbs
  <2>2. \A i, j \in 1 .. n : i < j \/ j < i \/ i = j
    OBVIOUS
  <2> QED
    BY <2>1, <2>2 DEF Climbs, Injection, IsInjective
<1>3. IsFiniteSet(S) /\ Cardinality(S) = n
  BY <1>1, <1>2, FS_Interval, FS_Surjection
<1>4. /\ Climbs(Ascending(S), n, S)
      /\ \A x \in S : \E i \in 1 .. n : Ascending(S)[i] = x
  BY <1>3, AscendingLists
<1> QED
  BY <1>3, <1>4, ListsAreOne

-----------------------------------------------------------------------------
(* run_state: the attempts of a run, in the order of their rows            *)

Rows(m) == [run : Runs, attempt : Attempts, state : States, seq : 1 .. m]

\* Rows numbered up to m, no number twice.
Table(T, m) ==
  /\ m \in Nat
  /\ T \in SUBSET Rows(m)
  /\ \A q, r \in T : q.seq = r.seq => q = r

\* f lists all rows of T, by number.
Lists(f, n, T) ==
  /\ f \in [1 .. n -> T]
  /\ \A i, j \in 1 .. n : i < j => f[i].seq < f[j].seq
  /\ \A r \in T : \E i \in 1 .. n : f[i] = r

\* The attempts of rows T, as latest_attempt_id sees them.
Order(T) ==
  LET ordered == OrderedBy(T, "seq")
  IN  [i \in DOMAIN ordered |-> ordered[i].attempt]

SeqsOf(T) == {r.seq : r \in T}

\* The rows of a table have a list.
LEMMA TableIsListed ==
  ASSUME NEW T, NEW m, Table(T, m)
  PROVE  \E n \in Nat : \E f : Lists(f, n, T)
<1> DEFINE K == SeqsOf(T)
           n == Cardinality(K)
           f == [i \in 1 .. n |-> CHOOSE r \in T : r.seq = Ascending(K)[i]]
<1>1. K \in SUBSET Nat /\ IsFiniteSet(K)
  <2>1. K \subseteq 1 .. m
    BY DEF SeqsOf, Table, Rows
  <2>2. K \in SUBSET (1 .. m) /\ IsFiniteSet(1 .. m) /\ K \in SUBSET Nat
    <3>1. m \in Nat
      BY DEF Table
    <3>2. IsFiniteSet(1 .. m)
      BY <3>1, FS_Interval
    <3> HIDE DEF K
    <3> QED
      BY <2>1, <3>1, <3>2
  <2> QED
    BY <2>2, FS_Subset
<1>2. /\ Climbs(Ascending(K), n, K) /\ n \in Nat
      /\ \A x \in K : \E i \in 1 .. n : Ascending(K)[i] = x
  BY <1>1, AscendingLists
<1>3. \A i \in 1 .. n : f[i] \in T /\ f[i].seq = Ascending(K)[i]
  <2>1. \A i \in 1 .. n : \E r \in T : r.seq = Ascending(K)[i]
    BY <1>2 DEF Climbs, SeqsOf
  <2> QED
    BY <2>1
<1>4. \A r \in T : \E i \in 1 .. n : f[i] = r
  <2> SUFFICES ASSUME NEW r \in T
               PROVE  \E i \in 1 .. n : f[i] = r
    OBVIOUS
  <2>1. PICK i \in 1 .. n : Ascending(K)[i] = r.seq
    BY <1>2 DEF SeqsOf
  <2>2. f[i] \in T /\ f[i].seq = r.seq
    BY <1>3, <2>1
  <2> QED
    BY <2>2 DEF Table
<1>5. f \in [1 .. n -> T]
  BY <1>3
<1> HIDE DEF f, K
<1>6. Lists(f, n, T)
  BY <1>2, <1>3, <1>4, <1>5 DEF Lists, Climbs
<1> QED
  BY <1>2, <1>6

\* Whichever way its rows are listed by number, that is the order of its attempts.
LEMMA ListedOrder ==
  ASSUME NEW T, NEW m, Table(T, m), NEW n \in Nat, NEW f, Lists(f, n, T)
  PROVE  Order(T) = [i \in 1 .. n |-> f[i].attempt]
<1> DEFINE K == SeqsOf(T)
           s == [i \in 1 .. n |-> f[i].seq]
<1>1. K \in SUBSET Nat
  BY DEF SeqsOf, Table, Rows
<1>2. Climbs(s, n, K) /\ \A x \in K : \E i \in 1 .. n : s[i] = x
  BY DEF Climbs, Lists, SeqsOf
<1>3. Ascending(K) = s
  <2> HIDE DEF K, s
  <2> QED
    BY <1>1, <1>2, AscendingIsIt
<1> DEFINE keys == Ascending({r["seq"] : r \in T})
<1>4. OrderedBy(T, "seq") = [i \in DOMAIN keys |-> CHOOSE r \in T : r["seq"] = keys[i]]
  BY DEF OrderedBy
<1>k. keys = s
  BY <1>3 DEF SeqsOf
<1>5. \A i \in 1 .. n : f[i] \in T /\ \A r \in T : r.seq = f[i].seq => r = f[i]
  BY DEF Lists, Table
<1> HIDE DEF keys
<1>6. \A i \in 1 .. n : keys[i] = f[i].seq
  BY <1>k
<1>7. \A i \in 1 .. n : (CHOOSE r \in T : r["seq"] = keys[i]) = f[i]
  BY <1>5, <1>6
<1>8. DOMAIN keys = 1 .. n
  BY <1>k
<1>9. OrderedBy(T, "seq") = [i \in 1 .. n |-> f[i]]
  BY <1>4, <1>7, <1>8
<1> QED
  BY <1>9 DEF Order

\* The order is a sequence, and all attempts of the table are in it.
LEMMA OrderTyped ==
  ASSUME NEW T, NEW m, Table(T, m)
  PROVE  /\ Order(T) \in Seq(Attempts)
         /\ ToSet(Order(T)) = {r.attempt : r \in T}
<1>0. PICK n \in Nat : \E f : Lists(f, n, T)
  BY TableIsListed
<1>1. PICK f : Lists(f, n, T)
  BY <1>0
<1>2. Order(T) = [i \in 1 .. n |-> f[i].attempt]
  BY <1>1, ListedOrder
<1>3. \A i \in 1 .. n : f[i] \in T /\ f[i].attempt \in Attempts
  BY <1>1 DEF Lists, Table, Rows
<1> QED
  BY <1>1, <1>2, <1>3 DEF Lists, ToSet

\* Without rows there is no order.
LEMMA OrderEmpty ==
  ASSUME NEW m \in Nat
  PROVE  Order({}) = <<>>
<1>1. Table({}, m) /\ Lists([i \in 1 .. 0 |-> 0], 0, {})
  BY DEF Table, Lists
<1>2. Order({}) = [i \in 1 .. 0 |-> [j \in 1 .. 0 |-> 0][i].attempt]
  BY <1>1, ListedOrder
<1> QED
  BY <1>2

\* A row that is numbered higher than the others comes last.
LEMMA OrderAppend ==
  ASSUME NEW T, NEW m, Table(T, m), NEW x \in Rows(m + 1), x.seq = m + 1
  PROVE  Table(T \cup {x}, m + 1) /\ Order(T \cup {x}) = Append(Order(T), x.attempt)
<1>0. PICK n \in Nat : \E f : Lists(f, n, T)
  BY TableIsListed
<1>1. PICK f : Lists(f, n, T)
  BY <1>0
<1>m. m \in Nat /\ m + 1 \in Nat /\ \A r \in T : r \in Rows(m) /\ r.seq \in 1 .. m /\ r \in Rows(m + 1)
  BY DEF Table, Rows
<1>2. Table(T \cup {x}, m + 1)
  BY <1>m DEF Table
<1> DEFINE g == [i \in 1 .. n + 1 |-> IF i = n + 1 THEN x ELSE f[i]]
<1>3. Lists(g, n + 1, T \cup {x})
  <2>1. \A i \in 1 .. n + 1 : i = n + 1 \/ (i \in 1 .. n /\ i # n + 1)
    OBVIOUS
  <2>2. \A i \in 1 .. n : f[i] \in T /\ f[i].seq \in 1 .. m /\ g[i] = f[i]
    BY <1>1, <1>m DEF Lists
  <2>3. g[n + 1] = x /\ n + 1 \in 1 .. n + 1
    OBVIOUS
  <2>4. g \in [1 .. n + 1 -> T \cup {x}]
    BY <2>1, <2>2
  <2>5. ASSUME NEW i \in 1 .. n + 1, NEW j \in 1 .. n + 1, i < j
        PROVE  g[i].seq < g[j].seq
    <3>0. i \in 1 .. n
      BY <2>5
    <3>1. i \in 1 .. n /\ g[i].seq \in 1 .. m /\ g[i] = f[i]
      BY <2>2, <3>0
    <3>2. CASE j = n + 1
      BY <1>m, <2>3, <3>1, <3>2
    <3>3. CASE j \in 1 .. n
      BY <1>1, <2>2, <2>5, <3>1, <3>3 DEF Lists
    <3> QED
      BY <2>1, <3>2, <3>3
  <2>6. \A r \in T \cup {x} : \E i \in 1 .. n + 1 : g[i] = r
    <3>1. \A r \in T : \E i \in 1 .. n : f[i] = r
      BY <1>1 DEF Lists
    <3>2. \A i \in 1 .. n : i \in 1 .. n + 1 /\ g[i] = f[i]
      BY <2>2
    <3> HIDE DEF g
    <3> QED
      BY <2>3, <3>1, <3>2
  <2> HIDE DEF g
  <2> QED
    BY <2>4, <2>5, <2>6 DEF Lists
<1>4. Order(T \cup {x}) = [i \in 1 .. n + 1 |-> g[i].attempt]
  <2> HIDE DEF g
  <2> QED
    BY <1>2, <1>3, ListedOrder
<1>5. Order(T) = [i \in 1 .. n |-> f[i].attempt] /\ Order(T) \in Seq(Attempts)
  BY <1>1, ListedOrder, OrderTyped
<1>6. Len(Order(T)) = n
  BY <1>5
<1>7. \A i \in 1 .. n + 1 : g[i].attempt = IF i = n + 1 THEN x.attempt ELSE Order(T)[i]
  <2>1. \A i \in 1 .. n : Order(T)[i] = f[i].attempt
    BY <1>5
  <2>2. \A i \in 1 .. n + 1 : i = n + 1 \/ i \in 1 .. n
    OBVIOUS
  <2> QED
    BY <2>1, <2>2
<1>8. Append(Order(T), x.attempt)
        = [i \in 1 .. n + 1 |-> IF i = n + 1 THEN x.attempt ELSE Order(T)[i]]
  BY <1>5, <1>6
<1> HIDE DEF g
<1> QED
  BY <1>2, <1>4, <1>7, <1>8

\* Rows that keep their numbers and attempts keep their order.
LEMMA OrderKept ==
  ASSUME NEW T, NEW m, Table(T, m), NEW U, Table(U, m), SeqsOf(U) = SeqsOf(T),
         \A r \in T, u \in U : r.seq = u.seq => r.attempt = u.attempt
  PROVE  Order(U) = Order(T)
<1>0. PICK n \in Nat : \E f : Lists(f, n, T)
  BY TableIsListed
<1>1. PICK f : Lists(f, n, T)
  BY <1>0
<1> DEFINE g == [i \in 1 .. n |-> CHOOSE u \in U : u.seq = f[i].seq]
<1>2. \A i \in 1 .. n : g[i] \in U /\ g[i].seq = f[i].seq /\ g[i].attempt = f[i].attempt
  <2>0. \A r \in T : \E u \in U : u.seq = r.seq
    <3>1. \A r \in T : r.seq \in SeqsOf(U)
      BY DEF SeqsOf
    <3> QED
      BY <3>1 DEF SeqsOf
  <2>1. \A i \in 1 .. n : f[i] \in T /\ \E u \in U : u.seq = f[i].seq
    BY <1>1, <2>0 DEF Lists
  <2>2. \A i \in 1 .. n : g[i] \in U /\ g[i].seq = f[i].seq
    BY <2>1
  <2> HIDE DEF g
  <2> QED
    BY <2>1, <2>2
<1>3. \A u \in U : \E i \in 1 .. n : g[i] = u
  <2> SUFFICES ASSUME NEW u \in U
               PROVE  \E i \in 1 .. n : g[i] = u
    OBVIOUS
  <2>1. PICK r \in T : r.seq = u.seq
    BY DEF SeqsOf
  <2>2. PICK i \in 1 .. n : f[i] = r
    BY <1>1 DEF Lists
  <2>3. g[i] \in U /\ g[i].seq = u.seq
    BY <1>2, <2>1, <2>2
  <2> QED
    BY <2>3 DEF Table
<1>4. g \in [1 .. n -> U]
  BY <1>2
<1> HIDE DEF g
<1>5. Lists(g, n, U)
  BY <1>1, <1>2, <1>3, <1>4 DEF Lists
<1>6. /\ Order(U) = [i \in 1 .. n |-> g[i].attempt]
      /\ Order(T) = [i \in 1 .. n |-> f[i].attempt]
  BY <1>1, <1>5, ListedOrder
<1> QED
  BY <1>2, <1>6

\* A sequence without its i-th element.
Without(s, i) == [j \in 1 .. Len(s) - 1 |-> IF j < i THEN s[j] ELSE s[j + 1]]

\* list.remove takes the only occurrence out.
LEMMA RemovesOne ==
  ASSUME NEW S, NEW s \in Seq(S), NEW i \in 1 .. Len(s), NEW e, s[i] = e,
         \A j \in 1 .. Len(s) : s[j] = e => j = i
  PROVE  RemoveFirst(s, e) = Without(s, i)
<1>1. {j \in 1 .. Len(s) : s[j] = e} = {i}
  OBVIOUS
<1>2. Min({i}) = i
  BY DEF Min
<1>3. SelectInSeq(s, LAMBDA v : v = e) = Min({j \in 1 .. Len(s) : s[j] = e})
  BY <1>1 DEF SelectInSeq
<1>4. RemoveFirst(s, e) = RemoveAt(s, SelectInSeq(s, LAMBDA v : v = e))
  BY DEF RemoveFirst
<1>5. RemoveFirst(s, e) = RemoveAt(s, i)
  BY <1>1, <1>2, <1>3, <1>4
<1>6. RemoveAt(s, i) = Without(s, i)
  <2> DEFINE a == SubSeq(s, 1, i - 1)
             b == SubSeq(s, i + 1, Len(s))
  <2>1. /\ a \in Seq(S) /\ Len(a) = i - 1 /\ \A j \in 1 .. i - 1 : a[j] = s[j]
        /\ b \in Seq(S) /\ Len(b) = Len(s) - i /\ \A j \in 1 .. Len(s) - i : b[j] = s[i + j]
    OBVIOUS
  <2> HIDE DEF a, b
  <2>2. /\ a \o b \in Seq(S) /\ Len(a \o b) = Len(s) - 1
        /\ \A j \in 1 .. Len(s) - 1 : (a \o b)[j] = IF j < i THEN a[j] ELSE b[j - (i - 1)]
    <3>1. /\ a \o b \in Seq(S) /\ Len(a \o b) = Len(a) + Len(b)
          /\ \A j \in 1 .. Len(a) + Len(b) :
               (a \o b)[j] = IF j <= Len(a) THEN a[j] ELSE b[j - Len(a)]
      BY <2>1, ConcatProperties
    <3>2. Len(a) = i - 1 /\ Len(a) + Len(b) = Len(s) - 1
      BY <2>1
    <3> QED
      BY <3>1, <3>2
  <2>3. \A j \in 1 .. Len(s) - 1 : (a \o b)[j] = IF j < i THEN s[j] ELSE s[j + 1]
    <3> SUFFICES ASSUME NEW j \in 1 .. Len(s) - 1
                 PROVE  (a \o b)[j] = IF j < i THEN s[j] ELSE s[j + 1]
      OBVIOUS
    <3>1. CASE j < i
      BY <2>1, <2>2, <3>1
    <3>2. CASE ~(j < i)
      <4>1. j - (i - 1) \in 1 .. Len(s) - i /\ i + (j - (i - 1)) = j + 1
        BY <3>2
      <4>2. b[j - (i - 1)] = s[j + 1]
        BY <2>1, <4>1
      <4> QED
        BY <2>2, <3>2, <4>2
    <3> QED
      BY <3>1, <3>2
  <2>4. /\ Without(s, i) \in Seq(S) /\ Len(Without(s, i)) = Len(s) - 1
        /\ \A j \in 1 .. Len(s) - 1 : Without(s, i)[j] = IF j < i THEN s[j] ELSE s[j + 1]
    BY DEF Without
  <2>5. a \o b = Without(s, i)
    <3> DEFINE c == a \o b
               w == Without(s, i)
    <3>1. c \in Seq(S) /\ w \in Seq(S) /\ Len(c) = Len(w)
      BY <2>2, <2>4
    <3>2. \A j \in 1 .. Len(c) : c[j] = w[j]
      BY <2>2, <2>3, <2>4
    <3> HIDE DEF c, w
    <3>3. c = w
      BY <3>1, <3>2, SeqEqual
    <3> QED
      BY <3>3 DEF c, w
  <2> QED
    BY <2>5 DEF RemoveAt, a, b
<1> QED
  BY <1>5, <1>6

\* A deleted row leaves its place in the order.
LEMMA OrderRemoved ==
  ASSUME NEW T, NEW m, Table(T, m), NEW x \in T,
         \A r \in T : r.attempt = x.attempt => r = x
  PROVE  Table(T \ {x}, m) /\ Order(T \ {x}) = RemoveFirst(Order(T), x.attempt)
<1>0. PICK n \in Nat : \E f : Lists(f, n, T)
  BY TableIsListed
<1>1. PICK f : Lists(f, n, T)
  BY <1>0
<1>2. Table(T \ {x}, m)
  BY DEF Table
<1>3. PICK k \in 1 .. n : f[k] = x
  BY <1>1 DEF Lists
<1>4. /\ \A i \in 1 .. n : f[i] \in T /\ f[i].seq \in Nat
      /\ \A i, j \in 1 .. n : i < j => f[i].seq < f[j].seq
  BY <1>1 DEF Lists, Table, Rows
<1>5. \A i \in 1 .. n : f[i] = x => i = k
  BY <1>3, <1>4
<1> DEFINE g == [j \in 1 .. n - 1 |-> IF j < k THEN f[j] ELSE f[j + 1]]
           at(j) == IF j < k THEN j ELSE j + 1
<1>6. \A j \in 1 .. n - 1 : at(j) \in 1 .. n /\ at(j) # k /\ g[j] = f[at(j)]
  OBVIOUS
<1>7. \A i, j \in 1 .. n - 1 : i < j => at(i) < at(j)
  OBVIOUS
<1>8. \A i \in 1 .. n : i # k => \E j \in 1 .. n - 1 : at(j) = i
  <2> SUFFICES ASSUME NEW i \in 1 .. n, i # k
               PROVE  \E j \in 1 .. n - 1 : at(j) = i
    OBVIOUS
  <2>1. CASE i < k
    <3>1. i \in 1 .. n - 1 /\ at(i) = i
      BY <2>1
    <3> QED
      BY <3>1
  <2>2. CASE ~(i < k)
    <3>1. i - 1 \in 1 .. n - 1 /\ at(i - 1) = i
      BY <2>2
    <3> QED
      BY <3>1
  <2> QED
    BY <2>1, <2>2
<1> HIDE DEF at
<1>9. g \in [1 .. n - 1 -> T \ {x}]
  BY <1>4, <1>5, <1>6
<1> HIDE DEF g
<1>10. Lists(g, n - 1, T \ {x})
  <2>1. \A i, j \in 1 .. n - 1 : i < j => g[i].seq < g[j].seq
    BY <1>4, <1>6, <1>7
  <2>2. \A r \in T \ {x} : \E j \in 1 .. n - 1 : g[j] = r
    <3> SUFFICES ASSUME NEW r \in T \ {x}
                 PROVE  \E j \in 1 .. n - 1 : g[j] = r
      OBVIOUS
    <3>1. PICK i \in 1 .. n : f[i] = r
      BY <1>1 DEF Lists
    <3>2. i # k
      BY <1>3, <3>1
    <3> QED
      BY <1>6, <1>8, <3>1, <3>2
  <2> QED
    BY <1>9, <2>1, <2>2 DEF Lists
<1>11. n - 1 \in Nat
  BY <1>3
<1>12. /\ Order(T) = [i \in 1 .. n |-> f[i].attempt] /\ Order(T) \in Seq(Attempts)
       /\ Order(T \ {x}) = [j \in 1 .. n - 1 |-> g[j].attempt]
  BY <1>1, <1>2, <1>10, <1>11, ListedOrder, OrderTyped
<1>13. Len(Order(T)) = n
  BY <1>12
<1>14. Order(T)[k] = x.attempt /\ \A i \in 1 .. n : Order(T)[i] = x.attempt => i = k
  BY <1>3, <1>4, <1>5, <1>12
<1>15. RemoveFirst(Order(T), x.attempt) = Without(Order(T), k)
  BY <1>12, <1>13, <1>14, RemovesOne
<1>16. Without(Order(T), k) = [j \in 1 .. n - 1 |-> g[j].attempt]
  BY <1>12, <1>13 DEF Without, g
<1> QED
  BY <1>2, <1>12, <1>15, <1>16

-----------------------------------------------------------------------------
(* What a save and a delete do to what can be read                         *)

Key(r) == <<r.run, r.attempt>>

\* No run and attempt has two rows.
KeysUnique(T) == \A q, r \in T : Key(q) = Key(r) => q = r

Snaps(T) == [k \in {<<r.run, r.attempt>> : r \in T} |->
               (CHOOSE r \in T : k = <<r.run, r.attempt>>).state]

\* Snapshots are the states of the rows, by run and attempt.
LEMMA SnapsAre ==
  ASSUME NEW T, KeysUnique(T)
  PROVE  /\ DOMAIN Snaps(T) = {Key(r) : r \in T}
         /\ \A r \in T : Snaps(T)[Key(r)] = r.state
<1>1. \A r \in T : (CHOOSE q \in T : Key(r) = Key(q)) = r
  BY DEF KeysUnique
<1> QED
  BY <1>1 DEF Snaps, Key

\* g has the states of the rows T, by run and attempt.
HasStates(g, T) ==
  /\ g = [k \in {Key(r) : r \in T} |-> g[k]]
  /\ \A r \in T : g[Key(r)] = r.state

\* A function that has them is what can be read.
LEMMA SnapsIs ==
  ASSUME NEW T, KeysUnique(T), NEW g, HasStates(g, T)
  PROVE  Snaps(T) = g
<1> DEFINE K == {Key(r) : r \in T}
<1>1. /\ DOMAIN Snaps(T) = K
      /\ \A r \in T : Snaps(T)[Key(r)] = g[Key(r)]
  BY SnapsAre DEF HasStates
<1>2. \A k \in K : \E r \in T : k = Key(r)
  OBVIOUS
<1>3. \A k \in K : Snaps(T)[k] = g[k]
  BY <1>1, <1>2
<1>4. Snaps(T) = [k \in K |-> Snaps(T)[k]]
  BY <1>1 DEF Snaps
<1>5. g = [k \in K |-> g[k]]
  BY DEF HasStates
<1> HIDE DEF K
<1> QED
  BY <1>3, <1>4, <1>5

RunRows(T, run) == {r \in T : r.run = run}

StoreInv == Table(runState, savedSeq) /\ KeysUnique(runState)

\* What the store reads as.
LEMMA StoreReads ==
  /\ Snapshots = Snaps(runState)
  /\ \A run : AttemptOrder(run) = Order(RunRows(runState, run))
  BY DEF Snapshots, Snaps, AttemptOrder, Order, RunRows

\* The rows of one run are a table as well.
LEMMA RunRowsTable ==
  ASSUME NEW T, NEW m, Table(T, m), NEW run
  PROVE  Table(RunRows(T, run), m)
  BY DEF Table, RunRows

\* INSERT, seen through the port: a new snapshot, and the attempt comes last.
LEMMA InsertReads ==
  ASSUME NEW T, NEW m, Table(T, m), KeysUnique(T),
         NEW x \in Rows(m + 1), x.seq = m + 1, \A r \in T : Key(r) # Key(x)
  PROVE  /\ Table(T \cup {x}, m + 1) /\ KeysUnique(T \cup {x})
         /\ Snaps(T \cup {x}) = [k \in DOMAIN Snaps(T) \cup {Key(x)} |->
                                   IF k = Key(x) THEN x.state ELSE Snaps(T)[k]]
         /\ Order(RunRows(T \cup {x}, x.run)) = Append(Order(RunRows(T, x.run)), x.attempt)
         /\ \A run : run # x.run => RunRows(T \cup {x}, run) = RunRows(T, run)
         /\ x.attempt \notin ToSet(Order(RunRows(T, x.run)))
<1>1. Table(T \cup {x}, m + 1)
  BY OrderAppend
<1>2. KeysUnique(T \cup {x})
  BY DEF KeysUnique
<1> DEFINE K == DOMAIN Snaps(T) \cup {Key(x)}
           g == [k \in K |-> IF k = Key(x) THEN x.state ELSE Snaps(T)[k]]
<1>3. Snaps(T \cup {x}) = g
  <2>1. /\ DOMAIN Snaps(T) = {Key(r) : r \in T}
        /\ \A r \in T : Snaps(T)[Key(r)] = r.state
    BY SnapsAre
  <2>2. K = {Key(r) : r \in T \cup {x}}
    BY <2>1
  <2>3. \A r \in T \cup {x} : Key(r) \in K
    BY <2>2
  <2>4. \A r \in T \cup {x} : g[Key(r)] = r.state
    BY <2>1, <2>3
  <2>5. g = [k \in K |-> g[k]]
    OBVIOUS
  <2> HIDE DEF g, K
  <2>6. HasStates(g, T \cup {x})
    BY <2>2, <2>4, <2>5 DEF HasStates
  <2> QED
    BY <1>2, <2>6, SnapsIs
<1>4. RunRows(T \cup {x}, x.run) = RunRows(T, x.run) \cup {x}
  BY DEF RunRows
<1>5. Order(RunRows(T, x.run) \cup {x}) = Append(Order(RunRows(T, x.run)), x.attempt)
  BY RunRowsTable, OrderAppend
<1>6. \A run : run # x.run => RunRows(T \cup {x}, run) = RunRows(T, run)
  BY DEF RunRows
<1>7. x.attempt \notin ToSet(Order(RunRows(T, x.run)))
  <2>1. ToSet(Order(RunRows(T, x.run))) = {r.attempt : r \in RunRows(T, x.run)}
    BY RunRowsTable, OrderTyped
  <2> QED
    BY <2>1 DEF RunRows, Key
<1> QED
  BY <1>1, <1>2, <1>3, <1>4, <1>5, <1>6, <1>7

\* ON CONFLICT DO UPDATE, seen through the port: another snapshot, in the same place.
LEMMA UpdateReads ==
  ASSUME NEW T, NEW m, Table(T, m), KeysUnique(T), NEW x \in T, NEW state \in States,
         NEW y, y = [x EXCEPT !.state = state]
  PROVE  LET U == (T \ {x}) \cup {y}
         IN  /\ Table(U, m + 1) /\ KeysUnique(U)
             /\ Snaps(U) = [k \in DOMAIN Snaps(T) \cup {Key(x)} |->
                              IF k = Key(x) THEN state ELSE Snaps(T)[k]]
             /\ \A run : Order(RunRows(U, run)) = Order(RunRows(T, run))
             /\ x.attempt \in ToSet(Order(RunRows(T, x.run)))
<1> DEFINE U == (T \ {x}) \cup {y}
<1>0. m \in Nat /\ \A r \in T : r \in Rows(m) /\ r \in Rows(m + 1)
  BY DEF Table, Rows
<1>1. /\ y \in Rows(m) /\ y \in Rows(m + 1) /\ y.run = x.run /\ y.attempt = x.attempt
      /\ y.seq = x.seq /\ y.state = state /\ Key(y) = Key(x)
  BY <1>0 DEF Rows, Key
<1>2. Table(U, m) /\ Table(U, m + 1)
  <2>1. U \in SUBSET Rows(m) /\ U \in SUBSET Rows(m + 1)
    BY <1>0, <1>1
  <2>2. \A r \in T \ {x} : r.seq # y.seq
    BY <1>1 DEF Table
  <2>3. \A q, r \in U : q.seq = r.seq => q = r
    BY <2>2 DEF Table
  <2> HIDE DEF U
  <2> QED
    BY <1>0, <2>1, <2>3 DEF Table
<1>3. KeysUnique(U)
  BY <1>1 DEF KeysUnique
<1> DEFINE K == DOMAIN Snaps(T) \cup {Key(x)}
           g == [k \in K |-> IF k = Key(x) THEN state ELSE Snaps(T)[k]]
<1>4. Snaps(U) = g
  <2>1. /\ DOMAIN Snaps(T) = {Key(r) : r \in T}
        /\ \A r \in T : Snaps(T)[Key(r)] = r.state
    BY SnapsAre
  <2>2. K = {Key(r) : r \in U}
    BY <1>1, <2>1
  <2>3. \A r \in U : Key(r) \in K
    BY <2>2
  <2>4. \A r \in T \ {x} : Key(r) # Key(x)
    BY DEF KeysUnique
  <2>5. \A r \in U : g[Key(r)] = r.state
    BY <1>1, <2>1, <2>3, <2>4
  <2>6. g = [k \in K |-> g[k]]
    OBVIOUS
  <2> HIDE DEF g, K, U
  <2>7. HasStates(g, U)
    BY <2>2, <2>5, <2>6 DEF HasStates
  <2> QED
    BY <1>3, <2>7, SnapsIs
<1>5. ASSUME NEW run
      PROVE  Order(RunRows(U, run)) = Order(RunRows(T, run))
  <2>1. Table(RunRows(U, run), m) /\ Table(RunRows(T, run), m)
    BY <1>2, RunRowsTable
  <2>2. SeqsOf(RunRows(U, run)) = SeqsOf(RunRows(T, run))
    BY <1>1 DEF SeqsOf, RunRows
  <2>3. \A r \in RunRows(T, run), u \in RunRows(U, run) : r.seq = u.seq => r.attempt = u.attempt
    <3>1. \A r \in T : /\ r.seq = y.seq => r.attempt = y.attempt
                      /\ \A u \in T : r.seq = u.seq => r.attempt = u.attempt
      BY <1>1 DEF Table
    <3>2. \A r \in T, u \in U : r.seq = u.seq => r.attempt = u.attempt
      BY <3>1
    <3> HIDE DEF U
    <3> QED
      BY <3>2 DEF RunRows
  <2> HIDE DEF U
  <2> QED
    BY <2>1, <2>2, <2>3, OrderKept
<1>6. x.attempt \in ToSet(Order(RunRows(T, x.run)))
  <2>1. ToSet(Order(RunRows(T, x.run))) = {r.attempt : r \in RunRows(T, x.run)}
    BY RunRowsTable, OrderTyped
  <2> QED
    BY <2>1 DEF RunRows
<1> QED
  BY <1>2, <1>3, <1>4, <1>5, <1>6

\* DELETE, seen through the port: no snapshot, and no place in the order.
LEMMA DeleteReads ==
  ASSUME NEW T, NEW m, Table(T, m), KeysUnique(T), NEW x \in T
  PROVE  LET U == T \ {x}
         IN  /\ Table(U, m) /\ KeysUnique(U)
             /\ Snaps(U) = [k \in DOMAIN Snaps(T) \ {Key(x)} |-> Snaps(T)[k]]
             /\ Order(RunRows(U, x.run)) = RemoveFirst(Order(RunRows(T, x.run)), x.attempt)
             /\ \A run : run # x.run => RunRows(U, run) = RunRows(T, run)
<1> DEFINE U == T \ {x}
<1>1. Table(U, m) /\ KeysUnique(U)
  BY DEF Table, KeysUnique
<1> DEFINE K == DOMAIN Snaps(T) \ {Key(x)}
           g == [k \in K |-> Snaps(T)[k]]
<1>2. Snaps(U) = g
  <2>1. /\ DOMAIN Snaps(T) = {Key(r) : r \in T}
        /\ \A r \in T : Snaps(T)[Key(r)] = r.state
    BY SnapsAre
  <2>2. K = {Key(r) : r \in U}
    BY <2>1 DEF KeysUnique
  <2>3. \A r \in U : Key(r) \in K
    BY <2>2
  <2>4. \A r \in U : g[Key(r)] = r.state
    BY <2>1, <2>3
  <2>5. g = [k \in K |-> g[k]]
    OBVIOUS
  <2> HIDE DEF g, K, U
  <2>6. HasStates(g, U)
    BY <2>2, <2>4, <2>5 DEF HasStates
  <2> QED
    BY <1>1, <2>6, SnapsIs
<1>3. RunRows(U, x.run) = RunRows(T, x.run) \ {x} /\ x \in RunRows(T, x.run)
  BY DEF RunRows
<1>4. \A r \in RunRows(T, x.run) : r.attempt = x.attempt => r = x
  BY DEF RunRows, KeysUnique, Key
<1>5. Order(RunRows(T, x.run) \ {x}) = RemoveFirst(Order(RunRows(T, x.run)), x.attempt)
  BY <1>3, <1>4, RunRowsTable, OrderRemoved
<1>6. \A run : run # x.run => RunRows(U, run) = RunRows(T, run)
  BY DEF RunRows
<1> QED
  BY <1>1, <1>2, <1>3, <1>5, <1>6

-----------------------------------------------------------------------------
(* Events and their ids                                                    *)

Ids == Nat \ {0}

\* Ids of one process rise with its counter; random ids are never drawn twice.
Fresh ==
  IF generator = "sequential"
  THEN \A d \in DOMAIN emitted : /\ process[d] <= restarts
                                 /\ process[d] = restarts => emitted[d] <= counter
  ELSE \A d, e \in DOMAIN emitted : emitted[d] = emitted[e] => d = e

LedgerInv ==
  /\ emitted \in Seq(Ids) /\ process \in Seq(Nat) /\ Len(process) = Len(emitted)
  /\ counter \in Nat /\ restarts \in Nat
  /\ rows \in Seq([id : Ids, event : Ids])
  /\ \A i \in DOMAIN rows : /\ rows[i].event \in DOMAIN emitted
                            /\ emitted[rows[i].event] = rows[i].id
  /\ \A i, j \in DOMAIN rows : rows[i].id = rows[j].id => i = j
  /\ Fresh
  /\ OnlyReusedIdsAreLost

\* An id that an event of the ledger has already was given by an earlier process, and never
\* by the random generator.
LEMMA IdsAreReusedLater ==
  ASSUME LedgerInv, NEW id \in NewIds, NEW d \in DOMAIN emitted, emitted[d] = id
  PROVE  generator = "sequential" /\ process[d] < restarts
<1>1. CASE generator = "sequential"
  <2>1. id = counter + 1 /\ counter \in Nat
    BY <1>1 DEF NewIds, LedgerInv
  <2>2. process[d] <= restarts /\ (process[d] = restarts => emitted[d] <= counter)
    BY <1>1 DEF LedgerInv, Fresh
  <2>3. process[d] \in Nat /\ restarts \in Nat
    BY DEF LedgerInv
  <2> QED
    BY <1>1, <2>1, <2>2, <2>3
<1>2. CASE generator # "sequential"
  BY <1>2 DEF NewIds, ToSet, LedgerInv
<1> QED
  BY <1>1, <1>2

\* An event is appended, or was dropped for the id it shares with one before it.
LEMMA AppendLedger ==
  ASSUME LedgerInv, NEW id \in Ids, AppendEvent(id)
  PROVE  /\ LedgerInv'
         /\ generator # "sequential" =>
              rows' = Append(rows, [id |-> id, event |-> Len(emitted) + 1])
<1> DEFINE n == Len(emitted) + 1
           row == [id |-> id, event |-> n]
<1>1. /\ emitted' = Append(emitted, id) /\ process' = Append(process, restarts)
      /\ rows' = Insert(rows, row) /\ restarts' = restarts /\ generator' = generator
      /\ counter' = IF generator = "sequential" THEN id ELSE counter
      /\ id \in NewIds
  BY DEF AppendEvent, Counted
<1>2. /\ emitted' \in Seq(Ids) /\ process' \in Seq(Nat) /\ Len(process') = Len(emitted')
      /\ DOMAIN emitted = 1 .. Len(emitted) /\ DOMAIN emitted' = 1 .. n /\ n \in Nat \ {0}
      /\ n \notin DOMAIN emitted /\ DOMAIN emitted' = DOMAIN emitted \cup {n}
      /\ \A d \in DOMAIN emitted : emitted'[d] = emitted[d] /\ process'[d] = process[d]
      /\ emitted'[n] = id /\ process'[n] = restarts
  BY <1>1 DEF LedgerInv
<1>o. \A i \in DOMAIN rows : /\ rows[i].event \in DOMAIN emitted'
                              /\ emitted'[rows[i].event] = rows[i].id
  BY <1>2 DEF LedgerInv
<1>c. counter' \in Nat /\ restarts' \in Nat
  BY <1>1 DEF LedgerInv, Ids
<1>f. Fresh'
  <2>1. CASE generator = "sequential"
    <3>1. /\ counter' = id /\ id = counter + 1 /\ counter \in Nat /\ restarts \in Nat
      BY <1>1, <2>1 DEF NewIds, LedgerInv
    <3>2. \A e \in DOMAIN emitted : /\ process[e] <= restarts /\ emitted[e] \in Nat
                                    /\ process[e] = restarts => emitted[e] <= counter
      BY <2>1 DEF LedgerInv, Fresh, Ids
    <3>3. \A e \in DOMAIN emitted' : /\ process'[e] <= restarts
                                     /\ process'[e] = restarts => emitted'[e] <= counter'
      BY <1>2, <3>1, <3>2
    <3> QED
      BY <1>1, <2>1, <3>3 DEF Fresh
  <2>2. CASE generator # "sequential"
    <3>1. \A d \in DOMAIN emitted : emitted[d] # id
      BY <1>1, <2>2, IdsAreReusedLater
    <3> QED
      BY <1>1, <1>2, <2>2, <3>1 DEF Fresh, LedgerInv
  <2> QED
    BY <2>1, <2>2
<1>3. CASE \E r \in ToSet(rows) : r.id = id
  <2>1. rows' = rows
    BY <1>1, <1>3 DEF Insert
  <2>2. PICK i \in DOMAIN rows : rows[i].id = id
    BY <1>3 DEF ToSet
  <2>3. PICK d \in DOMAIN emitted : emitted[d] = id
    BY <2>2 DEF LedgerInv
  <2>4. generator = "sequential" /\ process[d] < restarts
    BY <1>1, <2>3, IdsAreReusedLater
  <2>5. d \in 1 .. n - 1 /\ emitted'[d] = emitted'[n] /\ process'[d] < process'[n]
    BY <1>2, <2>3, <2>4
  <2>6. OnlyReusedIdsAreLost'
    <3>1. ASSUME NEW e \in DOMAIN emitted
          PROVE  \/ \E r \in ToSet(rows) : r.id = emitted'[e] /\ r.event = e
                 \/ \E c \in 1 .. e - 1 : emitted'[c] = emitted'[e] /\ process'[c] < process'[e]
      <4>1. \A c \in 1 .. e - 1 : c \in DOMAIN emitted
        BY <1>2
      <4> QED
        BY <1>2, <4>1 DEF LedgerInv, OnlyReusedIdsAreLost
    <3> QED
      BY <1>2, <2>1, <2>5, <3>1 DEF OnlyReusedIdsAreLost
  <2>7. /\ rows' \in Seq([id : Ids, event : Ids])
        /\ \A j, k \in DOMAIN rows' : rows'[j].id = rows'[k].id => j = k
    BY <2>1 DEF LedgerInv
  <2> QED
    BY <1>2, <1>o, <1>c, <1>f, <2>1, <2>4, <2>6, <2>7 DEF LedgerInv
<1>4. CASE ~\E r \in ToSet(rows) : r.id = id
  <2>1. rows' = Append(rows, row)
    BY <1>1, <1>4 DEF Insert
  <2>2. /\ row \in [id : Ids, event : Ids] /\ row.id = id /\ row.event = n
    BY <1>2 DEF Ids
  <2> HIDE DEF row
  <2>3. /\ rows' \in Seq([id : Ids, event : Ids])
        /\ DOMAIN rows' = DOMAIN rows \cup {Len(rows) + 1} /\ Len(rows) + 1 \notin DOMAIN rows
        /\ rows'[Len(rows) + 1] = row /\ \A i \in DOMAIN rows : rows'[i] = rows[i]
    BY <2>1, <2>2 DEF LedgerInv
  <2>4. \A i \in DOMAIN rows : rows[i].id # id
    BY <1>4 DEF ToSet
  <2>5. /\ \A i \in DOMAIN rows' : /\ rows'[i].event \in DOMAIN emitted'
                                   /\ emitted'[rows'[i].event] = rows'[i].id
        /\ \A i, j \in DOMAIN rows' : rows'[i].id = rows'[j].id => i = j
    <3>1. \A i \in DOMAIN rows' : i \in DOMAIN rows \/ (i = Len(rows) + 1 /\ rows'[i] = row)
      BY <2>3
    <3>2. /\ \A i \in DOMAIN rows : rows'[i].id # row.id
          /\ \A i, j \in DOMAIN rows : rows'[i].id = rows'[j].id => i = j
      BY <2>2, <2>3, <2>4 DEF LedgerInv
    <3> QED
      BY <1>2, <1>o, <2>2, <2>3, <3>1, <3>2
  <2>6. OnlyReusedIdsAreLost'
    <3>1. ToSet(rows) \subseteq ToSet(rows') /\ row \in ToSet(rows')
      BY <2>3 DEF ToSet
    <3>2. ASSUME NEW e \in DOMAIN emitted
          PROVE  \/ \E r \in ToSet(rows') : r.id = emitted'[e] /\ r.event = e
                 \/ \E c \in 1 .. e - 1 : emitted'[c] = emitted'[e] /\ process'[c] < process'[e]
      <4>1. \A c \in 1 .. e - 1 : c \in DOMAIN emitted
        BY <1>2
      <4> QED
        BY <1>2, <3>1, <4>1 DEF LedgerInv, OnlyReusedIdsAreLost
    <3>3. \E r \in ToSet(rows') : r.id = emitted'[n] /\ r.event = n
      BY <1>2, <2>2, <3>1
    <3> QED
      BY <1>2, <3>2, <3>3 DEF OnlyReusedIdsAreLost
  <2> QED
    BY <1>2, <1>c, <1>f, <2>1, <2>3, <2>5, <2>6 DEF LedgerInv, row
<1> QED
  BY <1>3, <1>4

\* Every step keeps what is known of ids, rows and the events they were given to.
LEMMA LedgerStep ==
  ASSUME LedgerInv, [Next]_vars
  PROVE  LedgerInv'
<1>1. ASSUME NEW id \in 1 .. MaxEvents, AppendEvent(id)
      PROVE  LedgerInv'
  <2>1. id \in Ids
    BY PersistenceBounds DEF Ids
  <2> QED
    BY <1>1, <2>1, AppendLedger
<1>2. CASE Restart
  <2>1. /\ UNCHANGED <<generator, rows, emitted, process>> /\ restarts' = restarts + 1
        /\ counter' = 0
    BY <1>2 DEF Restart
  <2>2. Fresh'
    <3>1. \A d \in DOMAIN emitted : process[d] \in Nat /\ restarts \in Nat
      BY DEF LedgerInv
    <3>2. \A d \in DOMAIN emitted : process[d] <= restarts => process[d] < restarts + 1
      BY <3>1
    <3> QED
      BY <2>1, <3>1, <3>2 DEF LedgerInv, Fresh
  <2> QED
    BY <2>1, <2>2 DEF LedgerInv, OnlyReusedIdsAreLost
<1>3. CASE UNCHANGED <<generator, ledgerVars, restarts>>
  BY <1>3 DEF LedgerInv, Fresh, OnlyReusedIdsAreLost, ledgerVars
<1>4. ASSUME NEW run \in Runs, NEW attempt \in Attempts,
             Delete(run, attempt) \/ \E state \in States : Save(run, attempt, state)
      PROVE  UNCHANGED <<generator, ledgerVars, restarts>>
  BY <1>4 DEF Save, Delete, Counted
<1>5. ASSUME NEW p \in Projectors,
             \/ StartProjection(p) \/ ReadFile(p) \/ WriteLine(p)
             \/ \E half \in BOOLEAN : Die(p, half)
      PROVE  UNCHANGED <<generator, ledgerVars, restarts>>
  BY <1>5 DEF StartProjection, ReadFile, WriteLine, Die, counters
<1>6. CASE UNCHANGED vars
  BY <1>3, <1>6 DEF vars, counters
<1> QED
  BY <1>1, <1>2, <1>3, <1>4, <1>5, <1>6 DEF Next

\* What is known of the ledger holds in every state.
LEMMA LedgerHolds == Spec => []LedgerInv
<1>1. Init => LedgerInv
  BY DEF Init, LedgerInv, Fresh, OnlyReusedIdsAreLost
<1> QED
  BY <1>1, LedgerStep, PTL DEF Spec

\* An event that was appended is there for good, unless its id had been given to another
\* event by an earlier process: for any number of events, restarts and projections
\* (SqliteEventLedger.append, SequentialIdGenerator).
THEOREM LostIdsWereReused == Spec => []OnlyReusedIdsAreLost
<1>1. LedgerInv => OnlyReusedIdsAreLost
  BY DEF LedgerInv
<1> QED
  BY <1>1, LedgerHolds, PTL

-----------------------------------------------------------------------------
(* Lines of events.jsonl                                                   *)

\* Ids, none twice.
IdList(t) == t \in Seq(Ids) /\ \A i, j \in DOMAIN t : t[i] = t[j] => i = j

\* A list that climbs through ids holds none twice.
LEMMA ClimbsAreDistinct ==
  ASSUME NEW S \in SUBSET Nat, NEW n \in Nat, NEW s, Climbs(s, n, S)
  PROVE  \A i, j \in 1 .. n : s[i] = s[j] => i = j
<1>1. \A i \in 1 .. n : s[i] \in Nat
  BY DEF Climbs
<1>2. \A i, j \in 1 .. n : i < j \/ j < i \/ i = j
  OBVIOUS
<1> QED
  BY <1>1, <1>2 DEF Climbs

\* What all_events returns has no id twice, on either backend.
LEMMA QueriedIds ==
  ASSUME LedgerInv
  PROVE  IdList([i \in DOMAIN AllEvents |-> AllEvents[i].id])
<1> DEFINE t == [i \in DOMAIN AllEvents |-> AllEvents[i].id]
           T == ToSet(rows)
           K == {r.id : r \in T}
           n == Cardinality(K)
<1>1. CASE backend = "sqlite"
  <2>1. AllEvents = rows /\ rows \in Seq([id : Ids, event : Ids]) /\ t = [i \in DOMAIN rows |-> rows[i].id]
    BY <1>1 DEF AllEvents, LedgerInv
  <2>2. /\ DOMAIN rows = 1 .. Len(rows) /\ Len(rows) \in Nat
        /\ \A i \in DOMAIN rows : rows[i].id \in Ids
    <3>1. DOMAIN rows = 1 .. Len(rows) /\ Len(rows) \in Nat
      BY <2>1
    <3>2. \A i \in DOMAIN rows : rows[i] \in [id : Ids, event : Ids]
      BY <3>1, <2>1, ElementOfSeq
    <3>3. \A r \in [id : Ids, event : Ids] : r.id \in Ids
      OBVIOUS
    <3> QED
      BY <3>1, <3>2, <3>3
  <2>3. t \in Seq(Ids) /\ DOMAIN t = DOMAIN rows /\ \A i \in DOMAIN rows : t[i] = rows[i].id
    BY <2>1, <2>2
  <2>4. IdList(t)
    <3> HIDE DEF t
    <3> QED
      BY <2>3 DEF LedgerInv, IdList
  <2> QED
    BY <2>4
<1>2. CASE backend # "sqlite"
  <2>1. AllEvents = OrderedBy(T, "id")
    BY <1>2 DEF AllEvents
  <2>2. T = {rows[i] : i \in 1 .. Len(rows)} /\ Len(rows) \in Nat
        /\ \A i \in 1 .. Len(rows) : rows[i].id \in Ids
    BY DEF LedgerInv, ToSet
  <2>3. IsFiniteSet(K) /\ K \in SUBSET Ids /\ K \in SUBSET Nat
    <3> DEFINE f == [i \in 1 .. Len(rows) |-> rows[i].id]
    <3>1. f \in Surjection(1 .. Len(rows), K)
      BY <2>2 DEF Surjection
    <3>2. IsFiniteSet(1 .. Len(rows))
      <4>1. Len(rows) \in Int /\ 1 \in Int
        BY <2>2
      <4> HIDE DEF f, K, n, t, T
      <4> QED
        BY ONLY <4>1, FS_Interval
    <3>3. IsFiniteSet(K)
      <4> HIDE DEF f, K
      <4> QED
        BY <3>1, <3>2, FS_Surjection
    <3> QED
      BY <2>2, <3>3 DEF Ids
  <2> DEFINE keys == Ascending({r["id"] : r \in T})
  <2>4. keys = Ascending(K)
    OBVIOUS
  <2>5. OrderedBy(T, "id") = [i \in DOMAIN keys |-> CHOOSE r \in T : r["id"] = keys[i]]
    BY DEF OrderedBy
  <2> HIDE DEF keys
  <2>6. Climbs(keys, n, K) /\ DOMAIN keys = 1 .. n /\ n \in Nat
    <3> HIDE DEF K
    <3> QED
      BY <2>3, <2>4, AscendingLists
  <2>7. \A i \in 1 .. n : keys[i] \in K /\ (CHOOSE r \in T : r["id"] = keys[i]).id = keys[i]
    <3>1. \A i \in 1 .. n : \E r \in T : r["id"] = keys[i]
      BY <2>6 DEF Climbs
    <3> QED
      BY <2>6, <3>1 DEF Climbs
  <2>8. t = [i \in 1 .. n |-> keys[i]]
    BY <2>1, <2>5, <2>6, <2>7
  <2>9. \A i, j \in 1 .. n : keys[i] = keys[j] => i = j
    <3> HIDE DEF K, n
    <3> QED
      BY <2>3, <2>6, ClimbsAreDistinct
  <2>10. \A i \in 1 .. n : keys[i] \in Ids
    BY <2>3, <2>7
  <2>11. IdList(t)
    <3> HIDE DEF t, K, n
    <3>1. DOMAIN t = 1 .. n /\ t \in Seq(Ids) /\ \A i \in 1 .. n : t[i] = keys[i]
      BY <2>6, <2>8, <2>10
    <3> QED
      BY <2>9, <3>1 DEF IdList
  <2> QED
    BY <2>11
<1> QED
  BY <1>1, <1>2

\* What is left to write are ids of the query, none twice, and none that the file has.
LEMMA LeftToWrite ==
  ASSUME NEW ids, IdList(ids), NEW lines
  PROVE  /\ IdList(NotWrittenYet(ids, lines))
         /\ \A i \in DOMAIN NotWrittenYet(ids, lines) :
              NotWrittenYet(ids, lines)[i] \notin ToSet(lines)
<1> DEFINE N == {i \in DOMAIN ids : ids[i] \notin ToSet(lines)}
           n == Cardinality(N)
           w == NotWrittenYet(ids, lines)
<1>1. N \in SUBSET Nat /\ IsFiniteSet(N)
  <2>1. DOMAIN ids = 1 .. Len(ids) /\ Len(ids) \in Nat
    BY DEF IdList
  <2>2. IsFiniteSet(1 .. Len(ids)) /\ N \in SUBSET (1 .. Len(ids))
    BY <2>1, FS_Interval
  <2>3. N \in SUBSET Nat
    BY <2>1
  <2> HIDE DEF N
  <2> QED
    BY <2>2, <2>3, FS_Subset
<1>2. w = [i \in DOMAIN Ascending(N) |-> ids[Ascending(N)[i]]]
  BY DEF NotWrittenYet
<1>3. Climbs(Ascending(N), n, N) /\ n \in Nat /\ DOMAIN Ascending(N) = 1 .. n
  BY <1>1, AscendingLists
<1>4. \A i \in 1 .. n : Ascending(N)[i] \in N
  BY <1>3 DEF Climbs
<1>5. \A i, j \in 1 .. n : Ascending(N)[i] = Ascending(N)[j] => i = j
  <2> HIDE DEF N, n
  <2> QED
    BY <1>1, <1>3, ClimbsAreDistinct
<1>6. DOMAIN w = 1 .. n /\ \A i \in 1 .. n : w[i] = ids[Ascending(N)[i]]
  BY <1>2, <1>3
<1>7. \A i \in 1 .. n : w[i] \in Ids /\ w[i] \notin ToSet(lines)
  BY <1>4, <1>6 DEF IdList
<1>8. \A i, j \in 1 .. n : w[i] = w[j] => i = j
  BY <1>4, <1>5, <1>6 DEF IdList
<1>9. w = [i \in 1 .. n |-> ids[Ascending(N)[i]]]
  BY <1>2, <1>3
<1> HIDE DEF w, N, n
<1>10. w \in Seq(Ids)
  <2>1. w = [i \in 1 .. n |-> w[i]]
    BY <1>6, <1>9
  <2> QED
    BY <1>3, <1>7, <2>1
<1>11. IdList(w) /\ \A i \in DOMAIN w : w[i] \notin ToSet(lines)
  BY <1>6, <1>7, <1>8, <1>10 DEF IdList
<1> QED
  BY <1>11 DEF w

Projections == [phase : {"idle", "called", "writing"}, todo : Seq(Ids)]

\* Where one projection runs at a time, it writes what it found missing to a file of whole
\* lines.
Alone ==
  /\ \A p, q \in Projectors : projector[p].phase # "idle" /\ projector[q].phase # "idle" => p = q
  /\ \A i, j \in DOMAIN file : file[i] = file[j] => i = j
  /\ \A p \in Projectors : projector[p].phase = "writing" =>
       /\ file \in Seq(Ids)
       /\ \A i \in DOMAIN projector[p].todo : projector[p].todo[i] \notin ToSet(file)

FileInv ==
  /\ projector \in [Projectors -> Projections]
  /\ \A p \in Projectors : /\ IdList(projector[p].todo)
                           /\ projector[p].phase = "writing" => projector[p].todo # <<>>
  /\ file \in Seq(Ids \cup {Torn, Broken})
  /\ raced \in BOOLEAN
  /\ ~raced => Alone

\* Half a line is not an id.
LEMMA TornIsNoId == Torn \notin Ids /\ Broken \notin Ids
  BY DEF Torn, Broken, Ids

\* A projection is called, and races with any other that runs.
LEMMA StartFile ==
  ASSUME LedgerInv, FileInv, NEW p \in Projectors, StartProjection(p)
  PROVE  FileInv'
<1> DEFINE t == [i \in DOMAIN AllEvents |-> AllEvents[i].id]
           new == [phase |-> "called", todo |-> t]
<1>1. IdList(t)
  BY QueriedIds
<1> HIDE DEF t
<1>2. /\ projector' = [projector EXCEPT ![p] = new] /\ file' = file
      /\ raced' = (raced \/ \E q \in Projectors \ {p} : projector[q].phase # "idle")
  BY DEF StartProjection, t
<1>3. new \in Projections /\ new.phase = "called" /\ new.todo = t
  BY <1>1 DEF Projections, IdList
<1> HIDE DEF new
<1>4. /\ projector' \in [Projectors -> Projections] /\ projector'[p] = new
      /\ \A q \in Projectors \ {p} : projector'[q] = projector[q]
  BY <1>2, <1>3 DEF FileInv
<1>5. \A q \in Projectors : /\ IdList(projector'[q].todo)
                            /\ projector'[q].phase = "writing" => projector'[q].todo # <<>>
  BY <1>1, <1>3, <1>4 DEF FileInv
<1>6. ASSUME ~raced'
      PROVE  Alone'
  <2>1. ~raced /\ \A q \in Projectors \ {p} : projector'[q].phase = "idle"
    BY <1>2, <1>4, <1>6
  <2> QED
    BY <1>2, <1>3, <1>4, <2>1 DEF FileInv, Alone
<1>7. raced' \in BOOLEAN
  BY <1>2
<1> QED
  BY <1>2, <1>4, <1>5, <1>6, <1>7 DEF FileInv

\* It reads the file, and keeps what is not there.
LEMMA ReadFileFile ==
  ASSUME FileInv, NEW p \in Projectors, ReadFile(p)
  PROVE  FileInv'
<1> DEFINE w == NotWrittenYet(projector[p].todo, file)
           stops == {Torn, Broken} \cap ToSet(file) # {} \/ w = <<>>
           new == IF stops THEN Idle ELSE [projector[p] EXCEPT !.phase = "writing", !.todo = w]
<1>1. IdList(w) /\ \A i \in DOMAIN w : w[i] \notin ToSet(file)
  <2>1. IdList(projector[p].todo)
    BY DEF FileInv
  <2> QED
    BY <2>1, LeftToWrite
<1>2. /\ projector' = [projector EXCEPT ![p] = new] /\ UNCHANGED <<file, raced>>
      /\ projector[p].phase = "called"
  BY DEF ReadFile
<1> HIDE DEF w
<1>3. /\ new \in Projections /\ IdList(new.todo)
      /\ new.phase # "idle" => ~stops /\ new.todo = w
  <2>1. projector[p] \in Projections
    BY DEF FileInv
  <2>2. CASE stops
    <3>1. new = Idle
      BY <2>2
    <3> QED
      BY <2>2, <3>1 DEF Idle, Projections, IdList
  <2>3. CASE ~stops
    <3>1. new = [projector[p] EXCEPT !.phase = "writing", !.todo = w]
      BY <2>3
    <3> HIDE DEF new, stops
    <3> QED
      BY <1>1, <2>1, <2>3, <3>1 DEF Projections, IdList
  <2> QED
    BY <2>2, <2>3
<1> HIDE DEF new
<1>4. /\ projector' \in [Projectors -> Projections] /\ projector'[p] = new
      /\ \A q \in Projectors \ {p} : projector'[q] = projector[q]
  BY <1>2, <1>3 DEF FileInv
<1>5. \A q \in Projectors : /\ IdList(projector'[q].todo)
                            /\ projector'[q].phase = "writing" => projector'[q].todo # <<>>
  BY <1>3, <1>4 DEF FileInv
<1>6. ~stops => file \in Seq(Ids)
  <2>1. file \in Seq(Ids \cup {Torn, Broken})
    BY DEF FileInv
  <2>2. \A i \in DOMAIN file : file[i] \in ToSet(file) /\ file[i] \in Ids \cup {Torn, Broken}
    BY <2>1 DEF ToSet
  <2>3. ~stops => \A i \in DOMAIN file : file[i] \in Ids
    BY <2>2
  <2> HIDE DEF stops
  <2> QED
    BY <2>1, <2>3
<1>7. ASSUME ~raced'
      PROVE  Alone'
  <2>1. Alone /\ \A q \in Projectors \ {p} : projector[q].phase = "idle"
    BY <1>2, <1>7 DEF FileInv, Alone
  <2>2. new.phase = "writing" =>
          /\ file \in Seq(Ids)
          /\ \A i \in DOMAIN new.todo : new.todo[i] \notin ToSet(file)
    BY <1>1, <1>3, <1>6
  <2> HIDE DEF stops
  <2> QED
    BY <1>2, <1>4, <2>1, <2>2 DEF Alone
<1> HIDE DEF stops
<1> QED
  BY <1>2, <1>4, <1>5, <1>7 DEF FileInv

\* A line more, or none: a dead projector's half line swallows the one after it.
LEMMA WriteLineFile ==
  ASSUME FileInv, NEW p \in Projectors, WriteLine(p)
  PROVE  FileInv'
<1> DEFINE todo == projector[p].todo
           new == IF Len(todo) = 1 THEN Idle ELSE [projector[p] EXCEPT !.todo = Tail(todo)]
<1>1. /\ projector[p].phase = "writing" /\ raced' = raced
      /\ file' = IF OpenEnded THEN [file EXCEPT ![Len(file)] = Broken] ELSE Append(file, Head(todo))
      /\ projector' = [projector EXCEPT ![p] = new]
  BY DEF WriteLine
<1>2. /\ IdList(todo) /\ todo # <<>> /\ todo \in Seq(Ids) /\ Head(todo) \in Ids
      /\ Head(todo) = todo[1] /\ 1 \in DOMAIN todo
  <2>1. IdList(todo) /\ todo # <<>>
    BY <1>1 DEF FileInv
  <2> HIDE DEF todo
  <2>2. todo \in Seq(Ids)
    BY <2>1 DEF IdList
  <2> QED
    BY <2>1, <2>2
<1>3. file' \in Seq(Ids \cup {Torn, Broken})
  BY <1>1, <1>2 DEF FileInv
<1>4. /\ new \in Projections /\ IdList(new.todo)
      /\ new.phase = "writing" =>
           /\ new.todo # <<>>
           /\ \A i \in DOMAIN new.todo : i + 1 \in DOMAIN todo /\ new.todo[i] = todo[i + 1]
  <2>0. projector[p] \in Projections
    BY DEF FileInv
  <2>1. CASE Len(todo) = 1
    BY <2>1 DEF Idle, Projections, IdList
  <2>2. CASE Len(todo) # 1
    <3>1. new = [projector[p] EXCEPT !.todo = Tail(todo)]
      BY <2>2
    <3> HIDE DEF new, todo
    <3>2. /\ Tail(todo) \in Seq(Ids) /\ Tail(todo) # <<>>
          /\ \A i \in DOMAIN Tail(todo) : i + 1 \in DOMAIN todo /\ Tail(todo)[i] = todo[i + 1]
          /\ \A i \in DOMAIN Tail(todo) : i \in Nat
      <4>1. /\ Len(todo) \in Nat /\ Len(todo) > 1 /\ DOMAIN todo = 1 .. Len(todo)
        <5>1. Len(todo) \in Nat /\ DOMAIN todo = 1 .. Len(todo) /\ 1 \in DOMAIN todo
          BY <1>2, LenProperties
        <5> QED
          BY <5>1, <2>2
      <4>2. /\ Tail(todo) \in Seq(Ids) /\ Len(Tail(todo)) = Len(todo) - 1
            /\ DOMAIN Tail(todo) = 1 .. Len(todo) - 1
            /\ \A i \in 1 .. Len(todo) - 1 : Tail(todo)[i] = todo[i + 1]
        BY <1>2, <4>1
      <4> QED
        BY <4>1, <4>2
    <3>3. IdList(Tail(todo))
      <4>1. \A i, j \in DOMAIN Tail(todo) : Tail(todo)[i] = Tail(todo)[j] => i + 1 = j + 1
        BY <1>2, <3>2 DEF IdList
      <4>2. \A i, j \in Nat : i + 1 = j + 1 => i = j
        OBVIOUS
      <4> QED
        BY <3>2, <4>1, <4>2 DEF IdList
    <3>4. new \in Projections /\ new.todo = Tail(todo)
      BY <2>0, <3>1, <3>2 DEF Projections
    <3> QED
      BY <3>2, <3>3, <3>4
  <2> QED
    BY <2>1, <2>2
<1> HIDE DEF new
<1>5. /\ projector' \in [Projectors -> Projections] /\ projector'[p] = new
      /\ \A q \in Projectors \ {p} : projector'[q] = projector[q]
  BY <1>1, <1>4 DEF FileInv
<1>6. \A q \in Projectors : /\ IdList(projector'[q].todo)
                            /\ projector'[q].phase = "writing" => projector'[q].todo # <<>>
  BY <1>4, <1>5 DEF FileInv
<1>7. ASSUME ~raced'
      PROVE  Alone'
  <2>1. Alone /\ \A q \in Projectors \ {p} : projector[q].phase = "idle"
    BY <1>1, <1>7 DEF FileInv, Alone
  <2>2. /\ file \in Seq(Ids) /\ \A i \in DOMAIN todo : todo[i] \notin ToSet(file)
        /\ \A i, j \in DOMAIN file : file[i] = file[j] => i = j
    BY <1>1, <2>1 DEF Alone
  <2> HIDE DEF todo
  <2>3. ~OpenEnded
    BY <2>2, TornIsNoId DEF OpenEnded
  <2>4. /\ file' = Append(file, Head(todo)) /\ file' \in Seq(Ids)
        /\ DOMAIN file' = DOMAIN file \cup {Len(file) + 1} /\ Len(file) + 1 \notin DOMAIN file
        /\ file'[Len(file) + 1] = todo[1] /\ \A i \in DOMAIN file : file'[i] = file[i]
    BY <1>1, <1>2, <2>2, <2>3 DEF todo
  <2>5. \A i \in DOMAIN file : file[i] # todo[1]
    BY <1>2, <2>2 DEF ToSet
  <2>6. \A i, j \in DOMAIN file' : file'[i] = file'[j] => i = j
    BY <2>2, <2>4, <2>5
  <2>7. ASSUME new.phase = "writing", NEW i \in DOMAIN new.todo
        PROVE  new.todo[i] \notin ToSet(file')
    <3>1. i + 1 \in DOMAIN todo /\ new.todo[i] = todo[i + 1] /\ i + 1 # 1
      <4>1. new.todo \in Seq(Ids)
        BY <1>4 DEF IdList
      <4> QED
        BY <1>4, <2>7, <4>1
    <3>2. todo[i + 1] # todo[1]
      BY <1>2, <3>1 DEF IdList
    <3>3. \A j \in DOMAIN file : file[j] # todo[i + 1]
      BY <2>2, <3>1 DEF ToSet
    <3> QED
      BY <2>4, <3>1, <3>2, <3>3 DEF ToSet
  <2> QED
    BY <1>5, <2>1, <2>4, <2>6, <2>7 DEF Alone
<1> QED
  BY <1>1, <1>3, <1>5, <1>6, <1>7 DEF FileInv

\* A projector that dies leaves half a line at most.
LEMMA DieFile ==
  ASSUME FileInv, NEW p \in Projectors, NEW half \in BOOLEAN, Die(p, half)
  PROVE  FileInv'
<1>1. /\ projector[p].phase = "writing" /\ raced' = raced
      /\ file' = file \/ file' = Append(file, Torn)
      /\ projector' = [projector EXCEPT ![p] = Idle]
  BY DEF Die
<1>2. /\ Idle \in Projections /\ Idle.phase = "idle" /\ Idle.todo = <<>> /\ IdList(<<>>)
  BY DEF Idle, Projections, IdList
<1>3. /\ projector' \in [Projectors -> Projections] /\ projector'[p] = Idle
      /\ \A q \in Projectors \ {p} : projector'[q] = projector[q]
  BY <1>1, <1>2 DEF FileInv
<1>4. file' \in Seq(Ids \cup {Torn, Broken})
  BY <1>1 DEF FileInv
<1>5. \A q \in Projectors : /\ IdList(projector'[q].todo)
                            /\ projector'[q].phase = "writing" => projector'[q].todo # <<>>
  BY <1>2, <1>3 DEF FileInv
<1>6. ASSUME ~raced'
      PROVE  Alone'
  <2>1. /\ Alone /\ \A q \in Projectors \ {p} : projector[q].phase = "idle"
        /\ file \in Seq(Ids)
    BY <1>1, <1>6 DEF FileInv, Alone
  <2>2. \A i, j \in DOMAIN file' : file'[i] = file'[j] => i = j
    <3>1. CASE file' = file
      BY <2>1, <3>1 DEF Alone
    <3>2. CASE file' = Append(file, Torn)
      <4>1. /\ DOMAIN file' = DOMAIN file \cup {Len(file) + 1} /\ file'[Len(file) + 1] = Torn
            /\ \A i \in DOMAIN file : file'[i] = file[i] /\ file[i] \in Ids
        BY <2>1, <3>2
      <4> QED
        BY <2>1, <4>1, TornIsNoId DEF Alone
    <3> QED
      BY <1>1, <3>1, <3>2
  <2> QED
    BY <1>2, <1>3, <2>1, <2>2 DEF Alone
<1> QED
  BY <1>1, <1>3, <1>4, <1>5, <1>6 DEF FileInv

\* Every step keeps what is known of the file and of those who write it.
LEMMA FileStep ==
  ASSUME LedgerInv, FileInv, [Next]_vars
  PROVE  FileInv'
<1>1. CASE UNCHANGED fileVars
  BY <1>1 DEF FileInv, Alone, fileVars
<1>2. ASSUME NEW p \in Projectors, StartProjection(p) \/ ReadFile(p) \/ WriteLine(p)
      PROVE  FileInv'
  BY <1>2, StartFile, ReadFileFile, WriteLineFile
<1>3. ASSUME NEW p \in Projectors, NEW half \in BOOLEAN, Die(p, half)
      PROVE  FileInv'
  BY <1>3, DieFile
<1>4. ASSUME NEW run \in Runs, NEW attempt \in Attempts,
             Delete(run, attempt) \/ \E state \in States : Save(run, attempt, state)
      PROVE  UNCHANGED fileVars
  BY <1>4 DEF Save, Delete
<1>5. ASSUME (\E id \in 1 .. MaxEvents : AppendEvent(id)) \/ Restart \/ UNCHANGED vars
      PROVE  UNCHANGED fileVars
  BY <1>5 DEF AppendEvent, Restart, vars
<1> QED
  BY <1>1, <1>2, <1>3, <1>4, <1>5 DEF Next

\* events.jsonl has no line twice unless two projections overlapped: for any number of
\* projectors, events and deaths (project_events_to_jsonl).
THEOREM LinesRepeatAfterARace == Spec => []LinesRepeatOnlyAfterARace
<1>1. Init => FileInv
  <2>1. /\ Idle \in Projections /\ Idle.phase = "idle" /\ Idle.todo = <<>> /\ IdList(<<>>)
    BY DEF Idle, Projections, IdList
  <2> SUFFICES ASSUME Init
               PROVE  FileInv
    OBVIOUS
  <2>2. file = <<>> /\ raced = FALSE /\ projector = [p \in Projectors |-> Idle]
    BY DEF Init
  <2>3. /\ projector \in [Projectors -> Projections]
        /\ \A p \in Projectors : projector[p] = Idle
    BY <2>1, <2>2
  <2>4. file \in Seq(Ids \cup {Torn, Broken})
    BY <2>2
  <2>5. Alone
    BY <2>1, <2>2, <2>3 DEF Alone
  <2> QED
    BY <2>1, <2>2, <2>3, <2>4, <2>5 DEF FileInv
<1>2. LedgerInv /\ FileInv /\ [Next]_vars => FileInv'
  BY FileStep
<1>3. FileInv => LinesRepeatOnlyAfterARace
  BY DEF FileInv, Alone, LinesRepeatOnlyAfterARace
<1> QED
  BY <1>1, <1>2, <1>3, LedgerHolds, PTL DEF Spec

-----------------------------------------------------------------------------
(* The SQL stores in place of the in-memory ones                           *)

\* What can be read, as the in-memory adapters keep it.
ReadAs(snaps, order, evs) ==
  Snapshots = snaps /\ [run \in Runs |-> AttemptOrder(run)] = order /\ ReadEvents = evs

\* The order of every run, from the rows.
Orders(T) == [run \in Runs |-> Order(RunRows(T, run))]

\* The orders that can be read are those of the rows.
LEMMA OrdersRead == [run \in Runs |-> AttemptOrder(run)] = Orders(runState)
<1>1. \A run \in Runs : AttemptOrder(run) = Order(RunRows(runState, run))
  BY StoreReads
<1> QED
  BY <1>1 DEF Orders

\* A save of the SQL stores is a save of the dictionary.
LEMMA SaveSaves ==
  ASSUME StoreInv, NEW run \in Runs, NEW attempt \in Attempts, NEW state \in States,
         Save(run, attempt, state)
  PROVE  /\ StoreInv'
         /\ Snapshots' = [k \in DOMAIN Snapshots \cup {<<run, attempt>>} |->
                            IF k = <<run, attempt>> THEN state ELSE Snapshots[k]]
         /\ Orders(runState') =
              IF attempt \in ToSet(Orders(runState)[run]) THEN Orders(runState)
              ELSE [Orders(runState) EXCEPT ![run] = Append(@, attempt)]
<1> DEFINE T == runState
           U == runState'
           m == savedSeq
           there == RowsOf(run, attempt)
           x == [run |-> run, attempt |-> attempt, state |-> state, seq |-> m + 1]
<1>1. /\ savedSeq' = m + 1 /\ Table(T, m) /\ KeysUnique(T) /\ m \in Nat
      /\ U = IF there # {} THEN (T \ there) \cup {[r EXCEPT !.state = state] : r \in there}
             ELSE T \cup {x}
  BY DEF Save, StoreInv, Table
<1>2. Snapshots = Snaps(T) /\ Snapshots' = Snaps(U)
  BY StoreReads DEF Snapshots, Snaps
<1>3. /\ Orders(T)[run] = Order(RunRows(T, run))
      /\ Orders(T) = [r \in Runs |-> Order(RunRows(T, r))]
      /\ Orders(U) = [r \in Runs |-> Order(RunRows(U, r))]
  BY DEF Orders
<1>4. CASE there = {}
  <2>1. /\ x \in Rows(m + 1) /\ x.seq = m + 1 /\ Key(x) = <<run, attempt>>
        /\ x.run = run /\ x.attempt = attempt /\ x.state = state
    BY <1>1 DEF Rows, Key
  <2>2. \A r \in T : Key(r) # Key(x)
    BY <1>4, <2>1 DEF RowsOf, Key
  <2>3. U = T \cup {x}
    BY <1>1, <1>4
  <2> HIDE DEF x, T, U, m
  <2>4. /\ Table(T \cup {x}, m + 1) /\ KeysUnique(T \cup {x})
        /\ Snaps(T \cup {x}) = [k \in DOMAIN Snaps(T) \cup {Key(x)} |->
                                  IF k = Key(x) THEN x.state ELSE Snaps(T)[k]]
        /\ Order(RunRows(T \cup {x}, x.run)) = Append(Order(RunRows(T, x.run)), x.attempt)
        /\ \A r : r # x.run => RunRows(T \cup {x}, r) = RunRows(T, r)
        /\ x.attempt \notin ToSet(Order(RunRows(T, x.run)))
    BY <1>1, <2>1, <2>2, InsertReads
  <2>5. Orders(U) = [Orders(T) EXCEPT ![run] = Append(@, attempt)]
    <3>1. /\ Order(RunRows(U, run)) = Append(Order(RunRows(T, run)), attempt)
          /\ \A r \in Runs \ {run} : Order(RunRows(U, r)) = Order(RunRows(T, r))
      BY <2>1, <2>3, <2>4
    <3> QED
      BY <1>3, <3>1
  <2>6. StoreInv'
    BY <1>1, <2>3, <2>4 DEF StoreInv, U, m
  <2> QED
    BY <1>2, <1>3, <2>1, <2>3, <2>4, <2>5, <2>6 DEF T, U
<1>5. CASE there # {}
  <2>1. PICK y \in there : TRUE
    BY <1>5
  <2> DEFINE z == [y EXCEPT !.state = state]
  <2>2. y \in T /\ y.run = run /\ y.attempt = attempt /\ there = {y} /\ Key(y) = <<run, attempt>>
    BY <1>1, <2>1 DEF RowsOf, KeysUnique, Key
  <2>3. U = (T \ {y}) \cup {z}
    BY <1>1, <1>5, <2>2
  <2>z. z = [y EXCEPT !.state = state]
    OBVIOUS
  <2> HIDE DEF z, T, U, m
  <2>4. /\ Table(U, m + 1) /\ KeysUnique(U)
        /\ Snaps(U) = [k \in DOMAIN Snaps(T) \cup {Key(y)} |->
                         IF k = Key(y) THEN state ELSE Snaps(T)[k]]
        /\ \A r : Order(RunRows(U, r)) = Order(RunRows(T, r))
        /\ y.attempt \in ToSet(Order(RunRows(T, y.run)))
    <3>1. LET V == (T \ {y}) \cup {z}
          IN  /\ Table(V, m + 1) /\ KeysUnique(V)
              /\ Snaps(V) = [k \in DOMAIN Snaps(T) \cup {Key(y)} |->
                               IF k = Key(y) THEN state ELSE Snaps(T)[k]]
              /\ \A r : Order(RunRows(V, r)) = Order(RunRows(T, r))
              /\ y.attempt \in ToSet(Order(RunRows(T, y.run)))
      <4>1. Table(T, m) /\ KeysUnique(T) /\ y \in T /\ state \in States
        BY <1>1, <2>2
      <4> QED
        BY <2>z, <4>1, UpdateReads
    <3> QED
      BY <2>3, <3>1
  <2>5. Orders(U) = Orders(T)
    BY <1>3, <2>4
  <2>6. StoreInv'
    BY <1>1, <2>4 DEF StoreInv, U, m
  <2> QED
    BY <1>2, <1>3, <2>2, <2>4, <2>5, <2>6 DEF T, U
<1> QED
  BY <1>4, <1>5

\* So is a delete.
LEMMA DeleteDeletes ==
  ASSUME StoreInv, NEW run \in Runs, NEW attempt \in Attempts, Delete(run, attempt)
  PROVE  /\ StoreInv'
         /\ Snapshots' = [k \in DOMAIN Snapshots \ {<<run, attempt>>} |-> Snapshots[k]]
         /\ Orders(runState') = [Orders(runState) EXCEPT ![run] = RemoveFirst(@, attempt)]
<1> DEFINE T == runState
           U == runState'
           m == savedSeq
<1>1. /\ savedSeq' = m /\ Table(T, m) /\ KeysUnique(T)
      /\ U = T \ RowsOf(run, attempt) /\ RowsOf(run, attempt) # {}
  BY DEF Delete, StoreInv
<1>2. PICK y \in RowsOf(run, attempt) : TRUE
  BY <1>1
<1>3. /\ y \in T /\ y.run = run /\ y.attempt = attempt /\ Key(y) = <<run, attempt>>
      /\ RowsOf(run, attempt) = {y}
  BY <1>1, <1>2 DEF RowsOf, KeysUnique, Key
<1>4. Snapshots = Snaps(T) /\ Snapshots' = Snaps(U)
  BY StoreReads DEF Snapshots, Snaps
<1>5. /\ Orders(T) = [r \in Runs |-> Order(RunRows(T, r))]
      /\ Orders(U) = [r \in Runs |-> Order(RunRows(U, r))]
  BY DEF Orders
<1>6. U = T \ {y}
  BY <1>1, <1>3
<1> HIDE DEF T, U, m
<1>7. /\ Table(U, m) /\ KeysUnique(U)
      /\ Snaps(U) = [k \in DOMAIN Snaps(T) \ {Key(y)} |-> Snaps(T)[k]]
      /\ Order(RunRows(U, y.run)) = RemoveFirst(Order(RunRows(T, y.run)), y.attempt)
      /\ \A r : r # y.run => RunRows(U, r) = RunRows(T, r)
  BY <1>1, <1>3, <1>6, DeleteReads
<1>8. Orders(U) = [Orders(T) EXCEPT ![run] = RemoveFirst(@, attempt)]
  BY <1>3, <1>5, <1>7
<1>9. StoreInv'
  BY <1>1, <1>7 DEF StoreInv, U, m
<1> QED
  BY <1>3, <1>4, <1>7, <1>8, <1>9 DEF T, U

\* An event that is appended is read last.
LEMMA AppendAppends ==
  ASSUME LedgerInv, NEW id \in Ids, AppendEvent(id)
  PROVE  \/ ReadEvents' = ReadEvents
         \/ /\ Len(emitted) + 1 \in 1 .. MaxEvents
            /\ ReadEvents' = Append(ReadEvents, Len(emitted) + 1)
<1>1. /\ backend' = backend /\ generator' = generator /\ Len(emitted) < MaxEvents
      /\ emitted \in Seq(Ids)
  BY DEF AppendEvent, LedgerInv
<1>2. CASE backend = "sqlite" /\ generator = "random"
  <2> DEFINE n == Len(emitted) + 1
             row == [id |-> id, event |-> n]
  <2>1. rows' = Append(rows, row) /\ rows \in Seq([id : Ids, event : Ids])
    BY <1>2, AppendLedger DEF LedgerInv
  <2>2. n \in Ids /\ n \in 1 .. MaxEvents /\ row \in [id : Ids, event : Ids] /\ row.event = n
    BY <1>1, PersistenceBounds DEF Ids
  <2>3. /\ ReadEvents = [i \in DOMAIN rows |-> rows[i].event]
        /\ ReadEvents' = [i \in DOMAIN rows' |-> rows'[i].event]
    BY <1>1, <1>2 DEF ReadEvents, AllEvents
  <2> HIDE DEF row, n
  <2>4. /\ DOMAIN rows = 1 .. Len(rows) /\ DOMAIN rows' = 1 .. Len(rows) + 1
        /\ Len(rows) \in Nat /\ rows'[Len(rows) + 1] = row
        /\ \A i \in 1 .. Len(rows) : rows'[i] = rows[i] /\ rows[i] \in [id : Ids, event : Ids]
    <3>1. /\ DOMAIN rows = 1 .. Len(rows) /\ Len(rows) \in Nat
          /\ \A i \in 1 .. Len(rows) : rows[i] \in [id : Ids, event : Ids]
      BY <2>1, ElementOfSeq, LenProperties
    <3>2. /\ Append(rows, row) \in Seq([id : Ids, event : Ids])
          /\ Len(Append(rows, row)) = Len(rows) + 1 /\ Append(rows, row)[Len(rows) + 1] = row
          /\ \A i \in 1 .. Len(rows) : Append(rows, row)[i] = rows[i]
      BY <2>1, <2>2, AppendProperties
    <3> QED
      BY <2>1, <3>1, <3>2, LenProperties
  <2>5. ReadEvents \in Seq(Ids) /\ Len(ReadEvents) = Len(rows)
    <3>1. \A i \in 1 .. Len(rows) : rows[i].event \in Ids
      BY <2>4
    <3> QED
      BY <2>3, <2>4, <3>1
  <2>6. Append(ReadEvents, n)
          = [i \in 1 .. Len(rows) + 1 |-> IF i = Len(rows) + 1 THEN n ELSE ReadEvents[i]]
    <3>1. /\ Append(ReadEvents, n) \in Seq(Ids) /\ Len(Append(ReadEvents, n)) = Len(rows) + 1
          /\ \A i \in 1 .. Len(rows) : Append(ReadEvents, n)[i] = ReadEvents[i]
          /\ Append(ReadEvents, n)[Len(rows) + 1] = n
      BY <2>2, <2>5, AppendProperties
    <3>2. /\ DOMAIN Append(ReadEvents, n) = 1 .. Len(rows) + 1
          /\ \A i \in 1 .. Len(rows) + 1 : i = Len(rows) + 1 \/ i \in 1 .. Len(rows)
      BY <2>4, <3>1
    <3> DEFINE s == Append(ReadEvents, n)
    <3>3. s \in Seq(Ids) /\ DOMAIN s = 1 .. Len(rows) + 1
      BY <3>1, <3>2
    <3> HIDE DEF s
    <3>4. s = [i \in 1 .. Len(rows) + 1 |-> s[i]]
      BY <3>3
    <3> USE <3>4
    <3> QED
      BY <3>1, <3>2, <3>3 DEF s
  <2>7. \A i \in 1 .. Len(rows) + 1 :
          rows'[i].event = IF i = Len(rows) + 1 THEN n ELSE ReadEvents[i]
    <3>1. \A i \in 1 .. Len(rows) + 1 : i = Len(rows) + 1 \/ i \in 1 .. Len(rows)
      BY <2>4
    <3>2. \A i \in 1 .. Len(rows) : ReadEvents[i] = rows[i].event
      BY <2>3, <2>4
    <3> QED
      BY <2>2, <2>4, <3>1, <3>2
  <2>8. ReadEvents' = Append(ReadEvents, n)
    BY <2>3, <2>4, <2>6, <2>7
  <2> QED
    BY <2>2, <2>8 DEF n
<1>3. CASE ~(backend = "sqlite" /\ generator = "random")
  BY <1>1, <1>3 DEF ReadEvents
<1> QED
  BY <1>2, <1>3

\* The sequence operators that MemoryPersistence uses are the ones used here.
LEMMA SameOperators ==
  /\ \A s : Memory!ToSet(s) = ToSet(s)
  /\ \A s, e : Memory!RemoveFirst(s, e) = RemoveFirst(s, e)
<1>1. \A s : Memory!ToSet(s) = ToSet(s)
  BY DEF ToSet, Memory!ToSet
<1>2. \A s, e : Memory!RemoveFirst(s, e) = RemoveFirst(s, e)
  <2>1. \A S : Memory!Min(S) = Min(S)
    BY DEF Min, Memory!Min
  <2> QED
    BY <2>1 DEF RemoveFirst, Memory!RemoveFirst, RemoveAt, Memory!RemoveAt,
                SelectInSeq, Memory!SelectInSeq
<1> QED
  BY <1>1, <1>2

\* The SQL stores can take the place of the in-memory ones: whatever they are asked to do,
\* what can be read changes just as the dictionaries would.
THEOREM SqlImplementsMemory == Spec => ImplementsMemoryAdapters
<1> DEFINE order == [run \in Runs |-> AttemptOrder(run)]
<1>1. Init => StoreInv /\ Memory!Init
  <2> SUFFICES ASSUME Init
               PROVE  StoreInv /\ Memory!Init
    OBVIOUS
  <2>1. StoreInv
    BY DEF Init, StoreInv, Table, KeysUnique
  <2>2. Snapshots = <<>>
    <3>1. runState = {}
      BY DEF Init
    <3>2. Snapshots = [k \in {} |-> (CHOOSE r \in runState : k = <<r.run, r.attempt>>).state]
      BY <3>1 DEF Snapshots
    <3> QED
      BY <3>2
  <2>3. order = [r \in Runs |-> <<>>]
    <3>1. Orders(runState) = [r \in Runs |-> Order({})]
      BY DEF Orders, RunRows, Init
    <3> QED
      BY <3>1, OrdersRead, OrderEmpty
  <2>4. ReadEvents = <<>>
    <3>1. rows = <<>>
      BY DEF Init
    <3> QED
      BY <3>1 DEF ReadEvents, AllEvents
  <2> QED
    BY <2>1, <2>2, <2>3, <2>4 DEF Memory!Init
<1>2. LedgerInv /\ StoreInv /\ [Next]_vars => StoreInv' /\ [Memory!Next]_(Memory!vars)
  <2> SUFFICES ASSUME LedgerInv, StoreInv, [Next]_vars
               PROVE  StoreInv' /\ [Memory!Next]_(Memory!vars)
    OBVIOUS
  <2>o. order = Orders(runState) /\ order' = Orders(runState')
    <3>1. \A run \in Runs : /\ AttemptOrder(run) = Order(RunRows(runState, run))
                            /\ AttemptOrder(run)' = Order(RunRows(runState', run))
      BY DEF AttemptOrder, Order, RunRows
    <3> QED
      BY <3>1 DEF Orders
  <2>1. ASSUME NEW run \in Runs, NEW attempt \in Attempts, NEW state \in States,
               Save(run, attempt, state)
        PROVE  StoreInv' /\ Memory!Next
    <3>1. ReadEvents' = ReadEvents
      BY <2>1 DEF Save, ReadEvents, AllEvents, ledgerVars
    <3>2. /\ Snapshots' = [k \in DOMAIN Snapshots \cup {<<run, attempt>>} |->
                            IF k = <<run, attempt>> THEN state ELSE Snapshots[k]]
          /\ order' = IF attempt \in ToSet(order[run]) THEN order
                      ELSE [order EXCEPT ![run] = Append(@, attempt)]
      <4> HIDE DEF order
      <4> QED
        BY <2>o, <2>1, SaveSaves
    <3>3. Memory!Save(run, attempt, state)
      <4> HIDE DEF order
      <4> QED
        BY <3>1, <3>2, SameOperators DEF Memory!Save, order
    <3> QED
      BY <2>1, <3>3, SaveSaves DEF Memory!Next
  <2>2. ASSUME NEW run \in Runs, NEW attempt \in Attempts, Delete(run, attempt)
        PROVE  StoreInv' /\ Memory!Next
    <3>1. ReadEvents' = ReadEvents
      BY <2>2 DEF Delete, ReadEvents, AllEvents, ledgerVars
    <3>2. /\ Snapshots' = [k \in DOMAIN Snapshots \ {<<run, attempt>>} |-> Snapshots[k]]
          /\ order' = [order EXCEPT ![run] = RemoveFirst(@, attempt)]
      <4> HIDE DEF order
      <4> QED
        BY <2>o, <2>2, DeleteDeletes
    <3>3. Memory!Delete(run, attempt)
      <4> HIDE DEF order
      <4> QED
        BY <3>1, <3>2, SameOperators DEF Memory!Delete, order
    <3> QED
      BY <2>2, <3>3, DeleteDeletes DEF Memory!Next
  <2>3. ASSUME UNCHANGED storeVars
        PROVE  StoreInv' /\ Snapshots' = Snapshots /\ order' = order
    <3>1. StoreInv'
      BY <2>3 DEF storeVars, StoreInv
    <3>2. Snapshots' = Snapshots
      BY <2>3 DEF storeVars, Snapshots
    <3>3. order' = order
      BY <2>3, <2>o DEF storeVars
    <3> QED
      BY <3>1, <3>2, <3>3
  <2>4. ASSUME NEW id \in 1 .. MaxEvents, AppendEvent(id)
        PROVE  StoreInv' /\ [Memory!Next]_(Memory!vars)
    <3>1. id \in Ids /\ UNCHANGED storeVars
      BY <2>4, PersistenceBounds DEF Ids, AppendEvent
    <3>2. CASE ReadEvents' = ReadEvents
      BY <2>3, <3>1, <3>2 DEF Memory!vars
    <3>3. ASSUME NEW e \in 1 .. MaxEvents, ReadEvents' = Append(ReadEvents, e)
          PROVE  Memory!Next
      BY <2>3, <3>1, <3>3 DEF Memory!Next, Memory!AppendEvent
    <3> QED
      BY <2>3, <2>4, <3>1, <3>2, <3>3, AppendAppends
  <2>5. ASSUME UNCHANGED <<backend, generator, storeVars, rows>>
        PROVE  StoreInv' /\ UNCHANGED Memory!vars
    <3>1. ReadEvents' = ReadEvents
      BY <2>5 DEF ReadEvents, AllEvents
    <3> QED
      BY <2>3, <2>5, <3>1 DEF Memory!vars
  <2>6. ASSUME NEW p \in Projectors,
               \/ StartProjection(p) \/ ReadFile(p) \/ WriteLine(p)
               \/ \E half \in BOOLEAN : Die(p, half)
        PROVE  UNCHANGED <<backend, generator, storeVars, rows>>
    BY <2>6 DEF StartProjection, ReadFile, WriteLine, Die, ledgerVars
  <2>7. ASSUME Restart \/ UNCHANGED vars
        PROVE  UNCHANGED <<backend, generator, storeVars, rows>>
    BY <2>7 DEF Restart, vars, ledgerVars
  <2> QED
    BY <2>1, <2>2, <2>4, <2>5, <2>6, <2>7 DEF Next
<1> QED
  BY <1>1, <1>2, LedgerHolds, PTL DEF Spec, ImplementsMemoryAdapters, Memory!Spec

=============================================================================
