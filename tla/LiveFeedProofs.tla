----------------------------- MODULE LiveFeedProofs -----------------------------
(***************************************************************************)
(* Proofs about LiveFeed, for any messages, tables, limits and number of   *)
(* broken connections.                                                     *)
(*                                                                         *)
(* The invariant follows a message on its two ways to the page.  From the  *)
(* socket it comes once, since it is in one place at a time: its handler,  *)
(* the clients still to serve, or a channel.  From a snapshot it comes     *)
(* once, since no table holds it twice.  What a snapshot has read is in    *)
(* its rows or older than they reach; what was broadcast to a registered   *)
(* page is on its way, shown, or dropped.                                  *)
(***************************************************************************)
EXTENDS LiveFeed, FiniteSetTheorems, SequenceTheorems, TLAPS

Once(s) == \A i, j \in DOMAIN s : s[i] = s[j] => i = j
Twice(s) == \A i, j, k \in DOMAIN s :
              s[i] = s[j] /\ s[j] = s[k] => i = j \/ j = k \/ i = k
OnceIn(s, m) == \A i, j \in DOMAIN s : s[i] = m /\ s[j] = m => i = j
Fetches == [id : Conns, toRead : Seq(Kinds), rows : Seq(Messages),
            had : SUBSET Messages, failed : SUBSET Kinds]

Types ==
  /\ TypeOK
  /\ buf \in [Conns -> Seq(Messages)]
  /\ fetches \subseteq Fetches

\* Each kind holds its own messages, once, and only such as were queued.
LogSound ==
  \A k \in Kinds :
    /\ Once(stored[k]) /\ Once(pending[k])
    /\ Elems(pending[k]) \cap Elems(stored[k]) = {}
    /\ \A m \in Elems(pending[k]) \cup Elems(stored[k]) :
         KindOf[m] = k /\ handler[m] # "idle"

\* The page opens a connection when all before are broken.
AllBrokenBefore ==
  /\ 1..(conn - 1) \subseteq broken
  /\ browser = "closed" => 1..conn \subseteq broken
  /\ conn = 0 => browser = "closed"
  /\ Cardinality(broken) <= MaxBreaks

\* A message is with its handler, or in one place of each client.
LinksSound ==
  \A c \in Conns :
    /\ link[c] # "none" => c <= conn
    /\ buf[c] # <<>> => link[c] = "client"
    /\ Once(buf[c])
    /\ \A m \in Elems(buf[c]) : m \in Begun /\ c \notin left[m]

CastsSound ==
  /\ ServesItsClients
  /\ \A m \in Messages : left[m] # {} <=> handler[m] = "casting"

\* The page may still receive m on its connection.
OnItsWay(m, c) == c \in left[m] \/ m \in Elems(buf[c])
Due(m) == m \notin Begun \/ \E c \in Conns : c = conn /\ OnItsWay(m, c)

ViewSound ==
  /\ Twice(view)
  /\ \A m \in Messages : Due(m) => OnceIn(view, m)

\* A row of the table of k that a snapshot no longer lists: so many others
\* follow, or one of the same agent where it lists one row of each.
Outdated(k, i) ==
  \/ Len(stored[k]) - i >= RowLimit[k]
  \/ k \in PerAgent /\ \E j \in (i + 1)..Len(stored[k]) :
                         AgentOf[stored[k][j]] = AgentOf[stored[k][i]]
Old(m) ==
  \E i \in 1..Len(stored[KindOf[m]]) :
    stored[KindOf[m]][i] = m /\ Outdated(KindOf[m], i)

\* What was read of the tables is in the rows or older than they reach, where
\* the query did not fail.
FetchSound ==
  \A f \in fetches :
    /\ Once(f.toRead) /\ Once(f.rows)
    /\ \A m \in Elems(f.rows) : KindOf[m] \notin Elems(f.toRead)
    /\ \A m \in f.had : m \in Elems(f.rows) \/ Old(m) \/ KindOf[m] \in f.failed

Shown(m) == m \in Elems(view) \/ Len(view) >= ViewCap

BaseSound == \A m \in base : Shown(m) \/ Old(m) \/ KindOf[m] \in unread

\* A message whose broadcast began after the page was registered and its
\* snapshot applied has not been passed over.
Reached ==
  \A c \in Conns : \A m \in Begun \ early :
    c = conn /\ link[c] = "client" /\ c \notin broken =>
      OnItsWay(m, c) \/ <<m, c>> \in dropped \/ Shown(m)

Inv ==
  /\ Types /\ LogSound /\ AllBrokenBefore /\ LinksSound /\ CastsSound /\ ViewSound
  /\ FetchSound /\ BaseSound /\ Reached

-------------------------------------------------------------------------------
(* Sequences.                                                                *)

Indexed(s) ==
  /\ Len(s) \in Nat /\ DOMAIN s = 1..Len(s)
  /\ \A i \in 1..Len(s) : s[i] \in Elems(s)
  /\ \A x \in Elems(s) : \E i \in 1..Len(s) : s[i] = x
  /\ Once(s) <=> \A i, j \in 1..Len(s) : s[i] = s[j] => i = j

LEMMA ElemsFacts ==
  ASSUME NEW S, NEW s \in Seq(S)
  PROVE  Indexed(s)
BY DEF Elems, Once, Indexed

LEMMA AppendFacts ==
  ASSUME NEW S, NEW s \in Seq(S), NEW e \in S
  PROVE  /\ Append(s, e) \in Seq(S) /\ Len(Append(s, e)) = Len(s) + 1
         /\ Elems(Append(s, e)) = Elems(s) \cup {e}
         /\ Once(s) /\ e \notin Elems(s) => Once(Append(s, e))
BY DEF Elems, Once

LEMMA TailFacts ==
  ASSUME NEW S, NEW s \in Seq(S), s # <<>>
  PROVE  /\ Head(s) \in S /\ Tail(s) \in Seq(S) /\ Len(Tail(s)) = Len(s) - 1
         /\ Elems(s) = {Head(s)} \cup Elems(Tail(s))
         /\ Once(s) => Once(Tail(s)) /\ Head(s) \notin Elems(Tail(s))
<1>1. /\ Len(s) \in Nat \ {0} /\ Head(s) = s[1] /\ Head(s) \in S /\ Tail(s) \in Seq(S)
      /\ Len(Tail(s)) = Len(s) - 1
      /\ \A i \in 1..Len(Tail(s)) : Tail(s)[i] = s[i + 1]
  OBVIOUS
<1>e. Indexed(s) /\ Indexed(Tail(s))
  BY <1>1, ElemsFacts
<1>2. \A i \in 1..Len(s) : i = 1 \/ (i - 1 \in 1..Len(Tail(s)) /\ Tail(s)[i - 1] = s[i])
  BY <1>1
<1>3. Elems(s) = {Head(s)} \cup Elems(Tail(s))
  <2>1. ASSUME NEW x \in Elems(s) PROVE x = Head(s) \/ x \in Elems(Tail(s))
    <3>1. PICK i \in 1..Len(s) : s[i] = x
      BY <2>1, <1>e DEF Indexed
    <3>2. CASE i = 1
      BY <3>1, <3>2, <1>1
    <3>3. CASE i - 1 \in 1..Len(Tail(s)) /\ Tail(s)[i - 1] = s[i]
      BY <3>1, <3>3, <1>e DEF Indexed
    <3> QED BY <3>2, <3>3, <1>2
  <2>2. Head(s) \in Elems(s) /\ \A x \in Elems(Tail(s)) : x \in Elems(s)
    BY <1>1, <1>e DEF Indexed
  <2> QED BY <2>1, <2>2
<1>4. Once(s) => Once(Tail(s)) /\ Head(s) \notin Elems(Tail(s))
  BY <1>1, <1>e DEF Indexed
<1> QED BY <1>1, <1>3, <1>4

LEMMA FirstNFacts ==
  ASSUME NEW S, NEW s \in Seq(S), NEW n \in Nat
  PROVE  /\ FirstN(s, n) \in Seq(S)
         /\ Len(FirstN(s, n)) = IF Len(s) <= n THEN Len(s) ELSE n
         /\ \A i \in 1..Len(FirstN(s, n)) : FirstN(s, n)[i] = s[i]
BY DEF FirstN

LEMMA ReverseFacts ==
  ASSUME NEW S, NEW s \in Seq(S)
  PROVE  /\ Reverse(s) \in Seq(S) /\ Len(Reverse(s)) = Len(s)
         /\ \A i \in 1..Len(s) : Reverse(s)[i] = s[Len(s) - i + 1]
BY DEF Reverse

\* A sequence read backwards.
LEMMA ReversedFacts ==
  ASSUME NEW S, NEW s \in Seq(S), NEW r \in Seq(S), Len(r) = Len(s),
         \A i \in 1..Len(s) : r[i] = s[Len(s) - i + 1]
  PROVE  Elems(r) = Elems(s) /\ (Once(s) => Once(r))
<1>e. Indexed(s) /\ Indexed(r)
  BY ElemsFacts
<1>1. \A i \in 1..Len(s) : /\ Len(s) - i + 1 \in 1..Len(s)
                           /\ Len(s) - (Len(s) - i + 1) + 1 = i
  BY <1>e DEF Indexed
<1>2. \A i \in 1..Len(s) : r[Len(s) - i + 1] = s[i]
  BY <1>1
<1>2a. \A i \in 1..Len(s) : r[i] \in Elems(s)
  BY <1>1, <1>e DEF Indexed
<1>3. \A x \in Elems(r) : x \in Elems(s)
  BY <1>2a, <1>e DEF Indexed
<1>4. \A i \in 1..Len(s) : s[i] \in Elems(r)
  BY <1>1, <1>2, <1>e DEF Indexed
<1>5. \A x \in Elems(s) : x \in Elems(r)
  BY <1>4, <1>e DEF Indexed
<1>6. ASSUME Once(s), NEW i \in 1..Len(r), NEW j \in 1..Len(r), r[i] = r[j]
      PROVE  i = j
  <2>1. Len(s) - i + 1 = Len(s) - j + 1
    <3>1. i \in 1..Len(s) /\ j \in 1..Len(s)
      BY <1>6
    <3>2. s[Len(s) - i + 1] = s[Len(s) - j + 1]
      BY <3>1, <1>6
    <3>3. \A a, b \in 1..Len(s) : s[a] = s[b] => a = b
      BY <1>6, <1>e DEF Indexed
    <3> QED BY <1>1, <3>1, <3>2, <3>3
  <2> QED BY <1>e, <2>1 DEF Indexed
<1> QED BY <1>3, <1>5, <1>6, <1>e DEF Indexed

\* What onmessage makes of the list.
LEMMA PushFacts ==
  ASSUME NEW S, NEW s \in Seq(S), NEW e \in S, NEW n \in Nat \ {0}
  PROVE  LET t == FirstN(<<e>> \o s, n)
         IN  /\ t \in Seq(S)
             /\ Len(t) = (IF Len(s) + 1 <= n THEN Len(s) + 1 ELSE n)
             /\ t[1] = e /\ 1 \in DOMAIN t
             /\ \A i \in 2..Len(t) : i - 1 \in DOMAIN s /\ t[i] = s[i - 1]
             /\ Elems(s) \subseteq Elems(t) \/ Len(t) >= n
<1> DEFINE t == FirstN(<<e>> \o s, n)
<1>1. /\ <<e>> \o s \in Seq(S) /\ Len(<<e>> \o s) = Len(s) + 1
      /\ (<<e>> \o s)[1] = e
      /\ \A i \in 2..(Len(s) + 1) : (<<e>> \o s)[i] = s[i - 1]
  OBVIOUS
<1>2. /\ t \in Seq(S) /\ Len(t) = (IF Len(s) + 1 <= n THEN Len(s) + 1 ELSE n)
      /\ \A i \in 1..Len(t) : t[i] = (<<e>> \o s)[i]
  BY <1>1, FirstNFacts
<1> HIDE DEF t
<1>3. t[1] = e /\ \A i \in 2..Len(t) : i - 1 \in DOMAIN s /\ t[i] = s[i - 1]
  BY <1>1, <1>2
<1>4. ASSUME Len(t) < n PROVE Elems(s) \subseteq Elems(t)
  <2>1. Len(t) = Len(s) + 1 /\ Len(s) \in Nat
    BY <1>2, <1>4
  <2>2. \A i \in DOMAIN s : i + 1 \in DOMAIN t /\ t[i + 1] = s[i]
    BY <1>2, <1>3, <2>1
  <2> QED BY <2>2 DEF Elems
<1> QED BY <1>2, <1>3, <1>4 DEF t

\* How many of a set of numbers come up to one of them: each has a place of
\* its own, and each place is one's.
LEMMA PlaceFacts ==
  ASSUME NEW n \in Nat, NEW K \in SUBSET (1..n)
  PROVE  LET Place(i) == Cardinality({j \in K : j <= i})
         IN  /\ Cardinality(K) \in Nat
             /\ \A i \in K : Place(i) \in 1..Cardinality(K)
             /\ \A i, j \in K : Place(i) = Place(j) => i = j
             /\ \A p \in 1..Cardinality(K) : \E i \in K : Place(i) = p
<1> DEFINE Upto(i) == {j \in K : j <= i}
           Place(i) == Cardinality(Upto(i))
           N == Cardinality(K)
           f == [i \in K |-> Place(i)]
<1>1. IsFiniteSet(K) /\ N \in Nat
  <2>1. IsFiniteSet(1..n)
    BY FS_Interval
  <2> QED BY <2>1, FS_Subset, FS_CardinalityType
<1>2. \A i \in K : /\ IsFiniteSet(Upto(i)) /\ Place(i) \in Nat /\ Place(i) <= N
  <2> SUFFICES ASSUME NEW i \in K
               PROVE  IsFiniteSet(Upto(i)) /\ Place(i) \in Nat /\ Place(i) <= N
    OBVIOUS
  <2>1. Upto(i) \in SUBSET K
    OBVIOUS
  <2> QED BY <1>1, <2>1, FS_Subset, FS_CardinalityType
<1>3. \A i \in K : Place(i) >= 1
  <2> SUFFICES ASSUME NEW i \in K PROVE Place(i) # 0
    BY <1>2
  <2>1. i \in Upto(i)
    OBVIOUS
  <2> QED BY <1>2, <2>1, FS_EmptySet
<1>4. \A i, j \in K : i < j => Place(i) # Place(j)
  <2> SUFFICES ASSUME NEW i \in K, NEW j \in K, i < j, Place(i) = Place(j) PROVE FALSE
    OBVIOUS
  <2>1. Upto(i) \in SUBSET Upto(j)
    <3>1. \A l \in K : l \in Int
      OBVIOUS
    <3>2. \A l \in K : l <= i => l <= j
      BY <3>1
    <3> QED BY <3>2
  <2>2. j \in Upto(j) /\ j \notin Upto(i)
    OBVIOUS
  <2>3. Upto(j) = Upto(i)
    BY <1>2, <2>1, FS_Subset
  <2> QED BY <2>2, <2>3
<1>5. \A i, j \in K : Place(i) = Place(j) => i = j
  <2>1. \A i, j \in K : i < j \/ j < i \/ i = j
    OBVIOUS
  <2> HIDE DEF Place
  <2> QED BY <1>4, <2>1
<1>6. IsFiniteSet(1..N) /\ Cardinality(1..N) = N
  BY <1>1, FS_Interval
<1>10. \A i \in K : Place(i) \in 1..N
  <2> SUFFICES ASSUME NEW i \in K PROVE Place(i) \in 1..N
    OBVIOUS
  <2>1. /\ N \in Nat /\ Place(i) \in Nat
        /\ Place(i) <= N /\ Place(i) >= 1
    BY <1>1, <1>2, <1>3
  <2> HIDE DEF Place, N
  <2> QED BY <2>1
<1> HIDE DEF Place, N
<1>7. f \in Injection(K, 1..N)
  <2>1. f \in [K -> 1..N] /\ \A i \in K : f[i] = Place(i)
    BY <1>10
  <2> HIDE DEF f
  <2> QED BY <1>5, <2>1 DEF Injection, IsInjective
<1>8. f \in Surjection(K, 1..N)
  <2> HIDE DEF f
  <2>1. N = Cardinality(K)
    BY DEF N
  <2> QED BY <1>6, <1>7, <2>1, FS_Injection
<1>9. \A p \in 1..N : \E i \in K : Place(i) = p
  BY <1>8 DEF Surjection
<1> QED BY <1>1, <1>5, <1>9, <1>10 DEF Place, N

\* The first row of each agent is listed, once if all are there once.
LEMMA PerAgentFacts ==
  ASSUME NEW S, NEW s \in Seq(S)
  PROVE  LET r == NewestPerAgent(s)
         IN  /\ r \in Seq(S)
             /\ Elems(r) \subseteq Elems(s)
             /\ Once(s) => Once(r)
             /\ \A i \in DOMAIN s :
                  s[i] \in Elems(r) \/ \E j \in 1..(i - 1) : AgentOf[s[j]] = AgentOf[s[i]]
<1> DEFINE K == {i \in DOMAIN s : \A j \in 1..(i - 1) : AgentOf[s[j]] # AgentOf[s[i]]}
           Place(i) == Cardinality({j \in K : j <= i})
           N == Cardinality(K)
           At(p) == CHOOSE i \in K : Place(i) = p
           r == [p \in 1..N |-> s[At(p)]]
<1>1. Len(s) \in Nat /\ DOMAIN s = 1..Len(s) /\ \A i \in 1..Len(s) : s[i] \in S
  OBVIOUS
<1>2. r = NewestPerAgent(s)
  BY DEF NewestPerAgent
<1>3. K \in SUBSET (1..Len(s))
  BY <1>1
<1>4. /\ N \in Nat
      /\ \A i \in K : Place(i) \in 1..N
      /\ \A i, j \in K : Place(i) = Place(j) => i = j
      /\ \A p \in 1..N : \E i \in K : Place(i) = p
  <2> HIDE DEF K
  <2> QED BY <1>1, <1>3, PlaceFacts
<1>5. \A i \in 1..Len(s) : i \in K \/ \E j \in 1..(i - 1) : AgentOf[s[j]] = AgentOf[s[i]]
  BY <1>1
<1> HIDE DEF K, Place, N
<1>6. \A p \in 1..N : At(p) \in K /\ Place(At(p)) = p
  BY <1>4
<1>7. \A i \in K : Place(i) \in 1..N /\ At(Place(i)) = i
  BY <1>4, <1>6
<1> HIDE DEF At
<1>8. /\ r \in Seq(S) /\ Len(r) = N /\ DOMAIN r = 1..N
      /\ \A p \in 1..N : r[p] = s[At(p)] /\ At(p) \in 1..Len(s)
  <2>1. \A p \in 1..N : At(p) \in 1..Len(s) /\ s[At(p)] \in S
    BY <1>1, <1>3, <1>6
  <2> QED BY <1>4, <2>1
<1> HIDE DEF r
<1>e. Indexed(s) /\ Indexed(r)
  BY <1>8, ElemsFacts
<1>9. Elems(r) \subseteq Elems(s)
  <2>1. \A p \in 1..Len(r) : r[p] \in Elems(s)
    BY <1>8, <1>e DEF Indexed
  <2> QED BY <2>1, <1>e DEF Indexed
<1>10. ASSUME Once(s), NEW p \in 1..N, NEW q \in 1..N, r[p] = r[q] PROVE p = q
  <2>1. At(p) = At(q)
    BY <1>8, <1>10, <1>e DEF Indexed
  <2> QED BY <1>6, <2>1
<1>11. Once(s) => Once(r)
  BY <1>8, <1>10, <1>e DEF Indexed
<1>12. \A i \in K : s[i] \in Elems(r)
  <2>1. \A i \in K : r[Place(i)] = s[i] /\ Place(i) \in 1..Len(r)
    BY <1>7, <1>8
  <2>2. \A p \in 1..Len(r) : r[p] \in Elems(r)
    BY <1>e DEF Indexed
  <2> QED BY <2>1, <2>2
<1> QED BY <1>1, <1>2, <1>5, <1>8, <1>9, <1>11, <1>12

\* What a snapshot lists of a table when its query returns n rows.
LEMMA ListedFacts ==
  ASSUME NEW k, stored[k] \in Seq(Messages), NEW n \in Nat
  PROVE  LET s == stored[k]
             r == Listed(k, n)
         IN  /\ r \in Seq(Messages)
             /\ Elems(r) \subseteq Elems(s)
             /\ Once(s) => Once(r)
             /\ \A i \in DOMAIN s :
                  \/ s[i] \in Elems(r)
                  \/ Len(s) - i >= n
                  \/ k \in PerAgent /\ \E j \in (i + 1)..Len(s) : AgentOf[s[j]] = AgentOf[s[i]]
<1> DEFINE s == stored[k]
           t == FirstN(Reverse(s), n)
           r == Listed(k, n)
<1>0. s \in Seq(Messages) /\ Len(s) \in Nat /\ DOMAIN s = 1..Len(s)
  OBVIOUS
<1>1. /\ t \in Seq(Messages) /\ Len(t) \in Nat /\ Len(t) <= Len(s)
      /\ Len(t) = (IF Len(s) <= n THEN Len(s) ELSE n)
      /\ \A i \in 1..Len(t) : t[i] = s[Len(s) - i + 1]
  <2> HIDE DEF s
  <2>1. /\ Reverse(s) \in Seq(Messages) /\ Len(Reverse(s)) = Len(s)
        /\ \A i \in 1..Len(s) : Reverse(s)[i] = s[Len(s) - i + 1]
    BY <1>0, ReverseFacts
  <2>2. /\ t \in Seq(Messages) /\ Len(t) = (IF Len(s) <= n THEN Len(s) ELSE n)
        /\ \A i \in 1..Len(t) : t[i] = Reverse(s)[i]
    BY <2>1, FirstNFacts
  <2> HIDE DEF t
  <2>3. Len(t) \in Nat /\ Len(t) <= Len(s)
    BY <1>0, <2>2
  <2>4. \A i \in 1..Len(t) : i \in 1..Len(s)
    BY <1>0, <2>3
  <2> QED BY <2>1, <2>2, <2>3, <2>4
<1>2. r = IF k \in PerAgent THEN NewestPerAgent(t) ELSE Reverse(t)
  BY DEF Listed
<1> HIDE DEF s, t, r
<1>e. Indexed(s) /\ Indexed(t)
  BY <1>0, <1>1, ElemsFacts
<1>3. \A i \in 1..Len(t) : Len(s) - i + 1 \in 1..Len(s)
  BY <1>0, <1>1
<1>4. Elems(t) \subseteq Elems(s)
  <2>1. \A i \in 1..Len(t) : t[i] \in Elems(s)
    BY <1>1, <1>3, <1>e DEF Indexed
  <2> QED BY <2>1, <1>e DEF Indexed
<1>5. Once(s) => Once(t)
  <2>1. ASSUME Once(s), NEW i \in 1..Len(t), NEW j \in 1..Len(t), t[i] = t[j] PROVE i = j
    <3>0. /\ s[Len(s) - i + 1] = s[Len(s) - j + 1]
          /\ Len(s) - i + 1 \in DOMAIN s /\ Len(s) - j + 1 \in DOMAIN s
      BY <1>1, <1>3, <2>1, <1>e DEF Indexed
    <3>1. Len(s) - i + 1 = Len(s) - j + 1
      BY <2>1, <3>0 DEF Once
    <3> QED BY <1>0, <3>1
  <2> QED BY <2>1, <1>e DEF Indexed
<1>6. ASSUME NEW i \in 1..Len(s), ~(Len(s) - i >= n)
      PROVE  /\ Len(s) - i + 1 \in 1..Len(t) /\ t[Len(s) - i + 1] = s[i]
  <2>1. Len(s) - i + 1 \in 1..Len(t) /\ Len(s) - (Len(s) - i + 1) + 1 = i
    BY <1>0, <1>1, <1>6
  <2> QED BY <1>1, <2>1
<1>7. CASE k \notin PerAgent
  <2>1. r \in Seq(Messages) /\ Elems(r) = Elems(t) /\ (Once(t) => Once(r))
    <3>1. /\ Reverse(t) \in Seq(Messages) /\ Len(Reverse(t)) = Len(t)
          /\ \A i \in 1..Len(t) : Reverse(t)[i] = t[Len(t) - i + 1]
      BY <1>1, ReverseFacts
    <3>2. r = Reverse(t)
      BY <1>2, <1>7
    <3> QED BY <1>1, <3>1, <3>2, ReversedFacts
  <2>2. \A i \in 1..Len(s) : s[i] \in Elems(t) \/ Len(s) - i >= n
    BY <1>6, <1>e DEF Indexed
  <2> QED BY <1>0, <1>4, <1>5, <2>1, <2>2 DEF s, r
<1>8. CASE k \in PerAgent
  <2>1. /\ r \in Seq(Messages) /\ Elems(r) \subseteq Elems(t) /\ (Once(t) => Once(r))
        /\ \A i \in DOMAIN t :
             t[i] \in Elems(r) \/ \E j \in 1..(i - 1) : AgentOf[t[j]] = AgentOf[t[i]]
    <3>1. r = NewestPerAgent(t)
      BY <1>2, <1>8
    <3> QED BY <1>1, <3>1, PerAgentFacts
  <2>2. ASSUME NEW i \in 1..Len(s), ~(Len(s) - i >= n), s[i] \notin Elems(r)
        PROVE  \E j \in (i + 1)..Len(s) : AgentOf[s[j]] = AgentOf[s[i]]
    <3>1. /\ Len(s) - i + 1 \in DOMAIN t /\ t[Len(s) - i + 1] = s[i]
      BY <1>6, <2>2, <1>e DEF Indexed
    <3>2. PICK l \in 1..(Len(s) - i) : AgentOf[t[l]] = AgentOf[s[i]]
      <4>1. Len(s) - i + 1 - 1 = Len(s) - i
        BY <1>0
      <4> QED BY <2>1, <2>2, <3>1, <4>1
    <3>3. l \in 1..Len(t) /\ Len(s) - l + 1 \in (i + 1)..Len(s)
      <4>1. Len(s) - i + 1 \in 1..Len(t)
        BY <3>1, <1>e DEF Indexed
      <4> QED BY <1>0, <1>1, <3>2, <4>1
    <3> QED BY <1>1, <3>2, <3>3
  <2> QED BY <1>0, <1>4, <1>5, <1>8, <2>1, <2>2 DEF s, r
<1> QED BY <1>7, <1>8

LEMMA ConcatFacts ==
  ASSUME NEW S, NEW s \in Seq(S), NEW t \in Seq(S)
  PROVE  /\ s \o t \in Seq(S) /\ Len(s \o t) = Len(s) + Len(t)
         /\ Elems(s \o t) = Elems(s) \cup Elems(t)
         /\ \A i \in DOMAIN s : i \in DOMAIN (s \o t) /\ (s \o t)[i] = s[i]
         /\ Once(s) /\ Once(t) /\ Elems(s) \cap Elems(t) = {} => Once(s \o t)
<1>1. /\ s \o t \in Seq(S) /\ Len(s \o t) = Len(s) + Len(t)
      /\ Len(s) \in Nat /\ Len(t) \in Nat
      /\ \A i \in 1..Len(s) : (s \o t)[i] = s[i]
      /\ \A i \in 1..Len(t) : (s \o t)[Len(s) + i] = t[i]
  OBVIOUS
<1>e. Indexed(s) /\ Indexed(t) /\ Indexed(s \o t)
  BY <1>1, ElemsFacts
<1>2. \A i \in 1..(Len(s) + Len(t)) :
        i \in 1..Len(s) \/ (i - Len(s) \in 1..Len(t) /\ (s \o t)[i] = t[i - Len(s)])
  BY <1>1
<1>3. Elems(s \o t) = Elems(s) \cup Elems(t)
  <2>1. \A x \in Elems(s \o t) : x \in Elems(s) \/ x \in Elems(t)
    <3>1. \A i \in 1..Len(s \o t) : (s \o t)[i] \in Elems(s) \/ (s \o t)[i] \in Elems(t)
      BY <1>1, <1>2, <1>e DEF Indexed
    <3> QED BY <1>1, <3>1, <1>e DEF Indexed
  <2>2. \A x \in Elems(s) : x \in Elems(s \o t)
    <3>1. \A i \in 1..Len(s) : i \in 1..Len(s \o t)
      BY <1>1
    <3> QED BY <1>1, <3>1, <1>e DEF Indexed
  <2>3. \A x \in Elems(t) : x \in Elems(s \o t)
    <3>1. \A i \in 1..Len(t) : Len(s) + i \in 1..Len(s \o t)
      BY <1>1
    <3>2. \A i \in 1..Len(t) : t[i] \in Elems(s \o t)
      BY <1>1, <3>1, <1>e DEF Indexed
    <3> QED BY <3>2, <1>e DEF Indexed
  <2> QED BY <2>1, <2>2, <2>3
<1>4. ASSUME Once(s), Once(t), Elems(s) \cap Elems(t) = {} PROVE Once(s \o t)
  <2> SUFFICES ASSUME NEW i \in 1..(Len(s) + Len(t)), NEW j \in 1..(Len(s) + Len(t)),
                      (s \o t)[i] = (s \o t)[j]
               PROVE  i = j
    BY <1>1, <1>e DEF Indexed
  <2>1. CASE i \in 1..Len(s) /\ j \in 1..Len(s)
    BY <2>1, <1>1, <1>4, <1>e DEF Indexed
  <2>2. CASE i \notin 1..Len(s) /\ j \notin 1..Len(s)
    <3>1. t[i - Len(s)] = t[j - Len(s)] /\ i - Len(s) \in 1..Len(t) /\ j - Len(s) \in 1..Len(t)
      BY <2>2, <1>2
    <3>2. i - Len(s) = j - Len(s)
      BY <3>1, <1>4, <1>e DEF Indexed
    <3> QED BY <1>1, <3>2
  <2>3. CASE i \in 1..Len(s) /\ j \notin 1..Len(s)
    BY <2>3, <1>1, <1>2, <1>4, <1>e DEF Indexed
  <2>4. CASE i \notin 1..Len(s) /\ j \in 1..Len(s)
    BY <2>4, <1>1, <1>2, <1>4, <1>e DEF Indexed
  <2> QED BY <2>1, <2>2, <2>3, <2>4
<1> QED BY <1>1, <1>3, <1>4

\* A sequence and its two parts.
LEMMA PartsFacts ==
  ASSUME NEW S, NEW s \in Seq(S), NEW a \in Seq(S), NEW b \in Seq(S),
         Len(s) = Len(a) + Len(b),
         \A i \in 1..Len(a) : a[i] = s[i],
         \A i \in 1..Len(b) : b[i] = s[Len(a) + i]
  PROVE  /\ Elems(a) \cup Elems(b) = Elems(s)
         /\ Once(s) => Once(a) /\ Once(b) /\ Elems(a) \cap Elems(b) = {}
<1>e. Indexed(s) /\ Indexed(a) /\ Indexed(b)
  BY ElemsFacts
<1>1. /\ \A i \in 1..Len(a) : i \in 1..Len(s)
      /\ \A i \in 1..Len(b) : Len(a) + i \in 1..Len(s)
      /\ \A i \in 1..Len(s) : i \in 1..Len(a) \/ i - Len(a) \in 1..Len(b)
  BY <1>e DEF Indexed
<1>2. \A x \in Elems(s) : x \in Elems(a) \/ x \in Elems(b)
  <2> SUFFICES ASSUME NEW x \in Elems(s) PROVE x \in Elems(a) \/ x \in Elems(b)
    OBVIOUS
  <2>1. PICK i \in 1..Len(s) : s[i] = x
    BY <1>e DEF Indexed
  <2>2. CASE i \in 1..Len(a)
    BY <2>1, <2>2, <1>e DEF Indexed
  <2>3. CASE i - Len(a) \in 1..Len(b)
    <3>1. b[i - Len(a)] = s[Len(a) + (i - Len(a))] /\ Len(a) + (i - Len(a)) = i
      BY <2>1, <2>3, <1>e DEF Indexed
    <3> QED BY <2>1, <2>3, <3>1, <1>e DEF Indexed
  <2> QED BY <1>1, <2>2, <2>3
<1>3. \A x \in Elems(a) : x \in Elems(s)
  BY <1>1, <1>e DEF Indexed
<1>4. \A x \in Elems(b) : x \in Elems(s)
  BY <1>1, <1>e DEF Indexed
<1>5. ASSUME Once(s) PROVE Once(a) /\ Once(b) /\ Elems(a) \cap Elems(b) = {}
  <2>1. \A i, j \in 1..Len(s) : s[i] = s[j] => i = j
    BY <1>5, <1>e DEF Indexed
  <2>2. \A i, j \in 1..Len(a) : a[i] = a[j] => i = j
    BY <1>1, <2>1
  <2>3. \A i, j \in 1..Len(b) : b[i] = b[j] => i = j
    <3> SUFFICES ASSUME NEW i \in 1..Len(b), NEW j \in 1..Len(b), b[i] = b[j]
                 PROVE  i = j
      OBVIOUS
    <3>1. Len(a) + i = Len(a) + j
      BY <1>1, <2>1
    <3> QED BY <3>1
  <2>4. \A i \in 1..Len(a) : \A j \in 1..Len(b) : a[i] # b[j]
    BY <1>1, <2>1
  <2>5. Elems(a) \cap Elems(b) = {}
    BY <2>4, <1>e DEF Indexed
  <2> QED BY <2>2, <2>3, <2>5, <1>e DEF Indexed
<1> QED BY <1>2, <1>3, <1>4, <1>5

LEMMA CutFacts ==
  ASSUME NEW S, NEW s \in Seq(S), NEW n \in 1..Len(s)
  PROVE  /\ SubSeq(s, 1, n) \in Seq(S) /\ SubSeq(s, n + 1, Len(s)) \in Seq(S)
         /\ Elems(SubSeq(s, 1, n)) \cup Elems(SubSeq(s, n + 1, Len(s))) = Elems(s)
         /\ Once(s) => /\ Once(SubSeq(s, 1, n)) /\ Once(SubSeq(s, n + 1, Len(s)))
                       /\ Elems(SubSeq(s, 1, n))
                            \cap Elems(SubSeq(s, n + 1, Len(s))) = {}
<1> DEFINE a == SubSeq(s, 1, n)
           b == SubSeq(s, n + 1, Len(s))
<1>1. /\ Len(s) \in Nat /\ n \in Nat /\ a \in Seq(S) /\ b \in Seq(S)
      /\ Len(a) = n /\ Len(b) = Len(s) - n
      /\ \A i \in 1..n : a[i] = s[i]
      /\ \A i \in 1..(Len(s) - n) : b[i] = s[n + i]
  OBVIOUS
<1> HIDE DEF a, b
<1>2. Len(s) = Len(a) + Len(b)
  BY <1>1
<1>3. \A i \in 1..Len(a) : a[i] = s[i]
  BY <1>1
<1>4. \A i \in 1..Len(b) : b[i] = s[Len(a) + i]
  BY <1>1
<1>5. a \in Seq(S) /\ b \in Seq(S)
  BY <1>1
<1>6. /\ Elems(a) \cup Elems(b) = Elems(s)
      /\ Once(s) => Once(a) /\ Once(b) /\ Elems(a) \cap Elems(b) = {}
  BY <1>2, <1>3, <1>4, <1>5, PartsFacts
<1> QED BY <1>5, <1>6 DEF a, b

\* The kinds are listed once each in KindOrder, being as many as it is long.
LEMMA OrderOnce == Once(KindOrder)
<1>1. /\ KindOrder \in Seq(Kinds) /\ Elems(KindOrder) = Kinds
      /\ Len(KindOrder) = Cardinality(Kinds)
  BY FeedAssumption
<1>2. KindOrder \in [1..Len(KindOrder) -> Kinds] /\ Len(KindOrder) \in Nat
  BY <1>1
<1>3. IsFiniteSet(1..Len(KindOrder)) /\ Cardinality(1..Len(KindOrder)) = Len(KindOrder)
  <2>1. 1 \in Int /\ Len(KindOrder) \in Int
    BY <1>2
  <2>2. IsFiniteSet(1..Len(KindOrder))
    BY <2>1, FS_Interval
  <2>3. Cardinality(1..Len(KindOrder)) =
          IF 1 > Len(KindOrder) THEN 0 ELSE Len(KindOrder) - 1 + 1
    BY <2>1, FS_Interval
  <2> QED BY <1>2, <2>2, <2>3
<1>4. KindOrder \in Surjection(1..Len(KindOrder), Kinds)
  BY <1>1, <1>2 DEF Surjection, Elems
<1>5. KindOrder \in Injection(1..Len(KindOrder), Kinds)
  BY <1>1, <1>3, <1>4, FS_SurjSameCardinalityImpliesInj
<1> QED BY <1>2, <1>5 DEF Injection, Once, IsInjective

\* What a message does to the list that is put before it.
LEMMA PushKeeps ==
  ASSUME NEW S, NEW s \in Seq(S), NEW t \in Seq(S), 1 \in DOMAIN t,
         \A i \in 2..Len(t) : i - 1 \in DOMAIN s /\ t[i] = s[i - 1]
  PROVE  /\ Twice(s) /\ OnceIn(s, t[1]) => Twice(t)
         /\ \A m : m # t[1] /\ OnceIn(s, m) => OnceIn(t, m)
<1>1. \A i \in DOMAIN t : i \in Nat /\ (i = 1 \/ i \in 2..Len(t))
  OBVIOUS
<1>2. \A i \in DOMAIN t : i = 1 \/ (i - 1 \in DOMAIN s /\ t[i] = s[i - 1])
  BY <1>1
<1>3. \A m : m # t[1] /\ OnceIn(s, m) => OnceIn(t, m)
  <2> SUFFICES ASSUME NEW m, m # t[1], OnceIn(s, m),
                      NEW i \in DOMAIN t, NEW j \in DOMAIN t, t[i] = m, t[j] = m
               PROVE  i = j
    BY DEF OnceIn
  <2>1. i - 1 = j - 1
    BY <1>2 DEF OnceIn
  <2> QED BY <1>1, <2>1
<1>4. ASSUME Twice(s), OnceIn(s, t[1]) PROVE Twice(t)
  <2> SUFFICES ASSUME NEW i \in DOMAIN t, NEW j \in DOMAIN t, NEW k \in DOMAIN t,
                      t[i] = t[j], t[j] = t[k], i # j, j # k, i # k
               PROVE  FALSE
    BY DEF Twice
  <2>1. CASE i = 1
    <3>1. j - 1 \in DOMAIN s /\ k - 1 \in DOMAIN s /\ s[j - 1] = t[1] /\ s[k - 1] = t[1]
      BY <1>2, <2>1
    <3>2. j - 1 = k - 1
      BY <3>1, <1>4 DEF OnceIn
    <3> QED BY <1>1, <3>2
  <2>2. CASE j = 1
    <3>1. i - 1 \in DOMAIN s /\ k - 1 \in DOMAIN s /\ s[i - 1] = t[1] /\ s[k - 1] = t[1]
      BY <1>2, <2>2
    <3>2. i - 1 = k - 1
      BY <3>1, <1>4 DEF OnceIn
    <3> QED BY <1>1, <3>2
  <2>3. CASE k = 1
    <3>1. i - 1 \in DOMAIN s /\ j - 1 \in DOMAIN s /\ s[i - 1] = t[1] /\ s[j - 1] = t[1]
      BY <1>2, <2>3
    <3>2. i - 1 = j - 1
      BY <3>1, <1>4 DEF OnceIn
    <3> QED BY <1>1, <3>2
  <2>4. CASE i # 1 /\ j # 1 /\ k # 1
    <3>1. /\ i - 1 \in DOMAIN s /\ j - 1 \in DOMAIN s /\ k - 1 \in DOMAIN s
          /\ s[i - 1] = s[j - 1] /\ s[j - 1] = s[k - 1]
      BY <1>2, <2>4
    <3>2. i - 1 = j - 1 \/ j - 1 = k - 1 \/ i - 1 = k - 1
      BY <3>1, <1>4 DEF Twice
    <3> QED BY <1>1, <3>2
  <2> QED BY <2>1, <2>2, <2>3, <2>4
<1> QED BY <1>3, <1>4

\* No three positions, so two positions at most.
LEMMA TwiceCounts ==
  ASSUME NEW S, NEW s \in Seq(S), Twice(s), NEW m
  PROVE  Cardinality({i \in DOMAIN s : s[i] = m}) <= 2
<1> DEFINE P == {i \in DOMAIN s : s[i] = m}
<1>p. \A i \in P : i \in DOMAIN s /\ s[i] = m
  OBVIOUS
<1> SUFFICES Cardinality(P) <= 2
  OBVIOUS
<1> HIDE DEF P
<1>1. IsFiniteSet({}) /\ Cardinality({}) = 0
  BY FS_EmptySet
<1>2. CASE P = {}
  BY <1>1, <1>2
<1>3. CASE P # {}
  <2>1. PICK a \in P : TRUE
    BY <1>3
  <2>2. CASE P = {a}
    <3>1. Cardinality({a}) = 1
      BY FS_Singleton
    <3> QED BY <2>2, <3>1
  <2>3. CASE P # {a}
    <3>1. PICK b \in P : b # a
      BY <2>1, <2>3
    <3>2. \A i \in P : i = a \/ i = b
      BY <1>p, <2>1, <3>1 DEF Twice
    <3>3. P = {a} \cup {b}
      BY <2>1, <3>1, <3>2
    <3>4. IsFiniteSet({a}) /\ Cardinality({a}) = 1
      BY FS_Singleton
    <3>5. Cardinality({a} \cup {b}) =
            IF b \in {a} THEN Cardinality({a}) ELSE Cardinality({a}) + 1
      BY <3>4, FS_AddElement
    <3>6. b \notin {a}
      BY <3>1
    <3>7. Cardinality({a} \cup {b}) = Cardinality({a}) + 1
      BY <3>5, <3>6, Zenon
    <3>8. Cardinality(P) = Cardinality({a}) + 1
      BY <3>3, <3>7, Zenon
    <3> QED BY <3>4, <3>8
  <2> QED BY <2>2, <2>3
<1> QED BY <1>2, <1>3
-------------------------------------------------------------------------------
(* The initial state.                                                        *)

LEMMA EmptyFacts ==
  ASSUME NEW e, e = <<>>
  PROVE  Elems(e) = {} /\ Once(e) /\ Twice(e) /\ \A m : OnceIn(e, m)
<1>1. DOMAIN e = {}
  OBVIOUS
<1>2. Elems(e) = {}
  BY <1>1, Zenon DEF Elems
<1>3. Once(e) /\ Twice(e) /\ \A m : OnceIn(e, m)
  BY <1>1, Zenon DEF Once, Twice, OnceIn
<1> QED BY <1>2, <1>3, Zenon

LEMMA InitInv == Init => Inv
<1> SUFFICES ASSUME Init PROVE Inv
  OBVIOUS
<1> USE FeedAssumption DEF Init, AbstractInit
<1>1. Types
  BY DEF Types, TypeOK, Fetches, Conns
<1>2. LogSound
  <2>1. /\ Elems(<<>>) = {} /\ Once(<<>>)
    BY EmptyFacts
  <2> QED BY <2>1 DEF LogSound
<1>3. AllBrokenBefore
  BY FS_EmptySet DEF AllBrokenBefore
<1>4. LinksSound
  <2>1. /\ Elems(<<>>) = {} /\ Once(<<>>)
    BY EmptyFacts
  <2> QED BY <2>1 DEF LinksSound
<1>5. CastsSound
  BY DEF CastsSound, ServesItsClients
<1>6. ViewSound
  <2>1. Twice(<<>>) /\ \A m : OnceIn(<<>>, m)
    BY EmptyFacts
  <2> QED BY <2>1, Zenon DEF ViewSound
<1>7. FetchSound /\ BaseSound
  BY DEF FetchSound, BaseSound
<1>8. Reached
  BY DEF Reached, Begun
<1> QED BY <1>1, <1>2, <1>3, <1>4, <1>5, <1>6, <1>7, <1>8 DEF Inv

-------------------------------------------------------------------------------
(* What an action leaves alone.                                              *)

LEMMA Frames ==
  ASSUME Inv
  PROVE  /\ UNCHANGED <<pending, stored, handler>> => LogSound'
         /\ UNCHANGED <<conn, broken, browser>> => AllBrokenBefore'
         /\ UNCHANGED <<link, buf, conn, handler, left>> => LinksSound'
         /\ UNCHANGED <<left, link, handler>> => CastsSound'
         /\ UNCHANGED <<view, handler, left, buf, conn>> => ViewSound'
         /\ UNCHANGED <<fetches, stored>> => FetchSound'
         /\ UNCHANGED <<base, unread, stored, view>> => BaseSound'
         /\ UNCHANGED <<handler, early, conn, link, broken, left, buf, dropped, view>>
              => Reached'
<1>1. UNCHANGED <<pending, stored, handler>> => LogSound'
  BY DEF Inv, LogSound
<1>2. UNCHANGED <<conn, broken, browser>> => AllBrokenBefore'
  BY DEF Inv, AllBrokenBefore
<1>3. UNCHANGED <<link, buf, conn, handler, left>> => LinksSound'
  BY DEF Inv, LinksSound, Begun
<1>4. UNCHANGED <<left, link, handler>> => CastsSound'
  BY DEF Inv, CastsSound, ServesItsClients, Clients
<1>5. UNCHANGED <<view, handler, left, buf, conn>> => ViewSound'
  BY DEF Inv, ViewSound, Due, OnItsWay, Begun
<1>6. UNCHANGED <<fetches, stored>> => FetchSound'
  BY DEF Inv, FetchSound, Old, Outdated
<1>7. UNCHANGED <<base, unread, stored, view>> => BaseSound'
  BY DEF Inv, BaseSound, Shown, Old, Outdated
<1>8. UNCHANGED <<handler, early, conn, link, broken, left, buf, dropped, view>>
        => Reached'
  BY DEF Inv, Reached, OnItsWay, Shown, Begun
<1> QED BY <1>1, <1>2, <1>3, <1>4, <1>5, <1>6, <1>7, <1>8

-------------------------------------------------------------------------------
(* The handlers and the pipeline.                                            *)

LEMMA QueueKeeps ==
  ASSUME Inv, NEW m \in Messages, Queue(m)
  PROVE  Inv'
<1> USE FeedAssumption
<1> DEFINE k == KindOf[m]
<1>0. /\ handler \in [Messages -> {"idle", "queued", "casting", "done"}]
      /\ pending \in [Kinds -> Seq(Messages)] /\ stored \in [Kinds -> Seq(Messages)]
      /\ handler[m] = "idle" /\ handler' = [handler EXCEPT ![m] = "queued"]
      /\ k \in Kinds
      /\ UNCHANGED <<left, link, shut, buf, dropped, broken, browser, conn, fetches,
                     view, base, unread, early, stored>>
  BY DEF Inv, Types, TypeOK, Queue, Admit, Refuse, pageVars
<1>1. /\ \A n \in Messages : n # m => handler'[n] = handler[n]
      /\ handler'[m] = "queued" /\ Begun' = Begun
  BY <1>0 DEF Begun
<1>2. /\ \A l \in Kinds : m \notin Elems(pending[l]) /\ m \notin Elems(stored[l])
  BY <1>0 DEF Inv, LogSound
<1>3. /\ Append(pending[k], m) \in Seq(Messages)
      /\ Elems(Append(pending[k], m)) = Elems(pending[k]) \cup {m}
      /\ Once(Append(pending[k], m))
  BY <1>0, <1>2, AppendFacts DEF Inv, LogSound
<1>4. \A l \in Kinds :
        \/ pending'[l] = pending[l]
        \/ l = k /\ pending'[l] = Append(pending[k], m)
  BY <1>0 DEF Queue, Admit, Refuse
<1>5. pending' \in [Kinds -> Seq(Messages)] /\ lost' \subseteq Messages
  <2>1. lost \subseteq Messages
    BY DEF Inv, Types, TypeOK
  <2>2. CASE Admit(m)
    BY <1>0, <1>3, <2>1, <2>2 DEF Admit
  <2>3. CASE Refuse(m)
    BY <1>0, <2>1, <2>3 DEF Refuse
  <2> QED BY <2>2, <2>3 DEF Queue
<1>6. handler' \in [Messages -> {"idle", "queued", "casting", "done"}]
  BY <1>0
<1>7. Types'
  BY <1>0, <1>5, <1>6 DEF Inv, Types, TypeOK
<1>8. LogSound'
  <2> SUFFICES ASSUME NEW l \in Kinds
               PROVE  /\ Once(stored[l]) /\ Once(pending'[l])
                      /\ Elems(pending'[l]) \cap Elems(stored[l]) = {}
                      /\ \A n \in Elems(pending'[l]) \cup Elems(stored[l]) :
                           KindOf[n] = l /\ handler'[n] # "idle"
    BY <1>0 DEF LogSound
  <2>1. /\ Once(stored[l]) /\ Once(pending[l])
        /\ Elems(pending[l]) \cap Elems(stored[l]) = {}
        /\ \A n \in Elems(pending[l]) \cup Elems(stored[l]) :
             KindOf[n] = l /\ handler[n] # "idle"
    BY DEF Inv, LogSound
  <2>2. \A n \in Elems(pending[l]) \cup Elems(stored[l]) : n \in Messages
    BY <1>0 DEF Elems
  <2>3. CASE pending'[l] = pending[l]
    BY <2>1, <2>2, <2>3, <1>1
  <2>4. CASE l = k /\ pending'[l] = Append(pending[k], m)
    <3> HIDE FeedAssumption
    <3>1. Once(stored[l]) /\ Once(pending'[l])
      BY <2>1, <2>4, <1>3
    <3>2. Elems(pending'[l]) \cap Elems(stored[l]) = {}
      BY <2>1, <2>4, <1>1, <1>2, <1>3
    <3>3. \A n \in Elems(pending'[l]) \cup Elems(stored[l]) :
            KindOf[n] = l /\ handler'[n] # "idle"
      BY <2>1, <2>2, <2>4, <1>1, <1>2, <1>3
    <3> QED BY <3>1, <3>2, <3>3
  <2> QED BY <1>4, <2>3, <2>4
<1>9. LinksSound'
  BY <1>0, <1>1 DEF Inv, LinksSound
<1>10. CastsSound'
  BY <1>0, <1>1 DEF Inv, CastsSound, ServesItsClients, Clients
<1>11. ViewSound'
  BY <1>0, <1>1 DEF Inv, ViewSound, Due, OnItsWay
<1>12. Reached'
  BY <1>0, <1>1 DEF Inv, Reached, OnItsWay, Shown
<1>13. AllBrokenBefore' /\ FetchSound' /\ BaseSound'
  BY <1>0, Frames
<1> QED BY <1>7, <1>8, <1>9, <1>10, <1>11, <1>12, <1>13 DEF Inv

\* A row stays, and stays as old, when others are put behind it.
LEMMA OldStays ==
  ASSUME NEW m \in Messages, Old(m),
         stored \in [Kinds -> Seq(Messages)],
         NEW k \in Kinds, NEW s \in Seq(Messages),
         stored' = [stored EXCEPT ![k] = @ \o s]
  PROVE  Old(m)'
<1> USE FeedAssumption
<1>1. PICK i \in 1..Len(stored[KindOf[m]]) :
        stored[KindOf[m]][i] = m /\ Outdated(KindOf[m], i)
  BY DEF Old
<1>2. CASE KindOf[m] # k
  <2>1. stored'[KindOf[m]] = stored[KindOf[m]]
    BY <1>2
  <2> QED BY <1>1, <2>1 DEF Old, Outdated
<1>3. CASE KindOf[m] = k
  <2>1. /\ Len(stored[k]) \in Nat /\ Len(s) \in Nat /\ stored'[k] = stored[k] \o s
        /\ Len(stored[k] \o s) = Len(stored[k]) + Len(s)
        /\ \A j \in 1..Len(stored[k]) : (stored[k] \o s)[j] = stored[k][j]
    <3>1. stored[k] \in Seq(Messages) /\ stored'[k] = stored[k] \o s
      OBVIOUS
    <3> HIDE FeedAssumption
    <3>2. /\ Len(stored[k]) \in Nat /\ Len(s) \in Nat
          /\ DOMAIN stored[k] = 1..Len(stored[k])
      BY <3>1
    <3> QED BY <3>1, <3>2, ConcatFacts
  <2>2. /\ i \in 1..Len(stored'[k]) /\ stored'[k][i] = m
        /\ stored'[k][i] = stored[k][i]
        /\ Len(stored[k]) <= Len(stored'[k])
    BY <1>1, <1>3, <2>1
  <2>3. CASE Len(stored[k]) - i >= RowLimit[k]
    <3>1. RowLimit[k] \in Nat
      OBVIOUS
    <3>2. Len(stored'[k]) - i >= RowLimit[k]
      BY <1>1, <1>3, <2>1, <2>3, <3>1
    <3> QED BY <1>3, <2>2, <3>2 DEF Old, Outdated
  <2>4. CASE k \in PerAgent /\ \E j \in (i + 1)..Len(stored[k]) :
                                 AgentOf[stored[k][j]] = AgentOf[stored[k][i]]
    <3>1. PICK j \in (i + 1)..Len(stored[k]) :
            AgentOf[stored[k][j]] = AgentOf[stored[k][i]]
      BY <2>4
    <3>2. j \in (i + 1)..Len(stored'[k]) /\ stored'[k][j] = stored[k][j]
      BY <1>1, <1>3, <2>1, <3>1
    <3>3. AgentOf[stored'[k][j]] = AgentOf[stored'[k][i]]
      BY <2>2, <3>1, <3>2
    <3>4. Outdated(k, i)'
      BY <2>4, <3>2, <3>3 DEF Outdated
    <3> QED BY <1>3, <2>2, <3>4 DEF Old
  <2> QED BY <1>1, <1>3, <2>3, <2>4 DEF Outdated
<1> QED BY <1>2, <1>3

LEMMA ProcessKeeps ==
  ASSUME Inv, NEW k \in Kinds, Process(k)
  PROVE  Inv'
<1>0. /\ pending \in [Kinds -> Seq(Messages)] /\ stored \in [Kinds -> Seq(Messages)]
      /\ lost \subseteq Messages
      /\ UNCHANGED <<handler, left, link, shut, buf, dropped, broken, browser, conn,
                     fetches, view, base, unread, early>>
  BY DEF Inv, Types, TypeOK, Process, serverVars, pageVars
<1>1. PICK n \in 1..Len(pending[k]) : Store(k, n) \/ GiveUp(k, n)
  BY DEF Process
<1> DEFINE a == Oldest(k, n)
           b == Rest(k, n)
<1>2. /\ a \in Seq(Messages) /\ b \in Seq(Messages)
      /\ Elems(a) \cup Elems(b) = Elems(pending[k])
      /\ Once(pending[k]) => Once(a) /\ Once(b) /\ Elems(a) \cap Elems(b) = {}
  BY <1>0, CutFacts DEF Oldest, Rest
<1>3. \/ /\ stored' = [stored EXCEPT ![k] = @ \o a]
         /\ pending' = [pending EXCEPT ![k] = b] /\ lost' = lost
      \/ /\ stored' = stored
         /\ pending' = [pending EXCEPT ![k] = b] /\ lost' = lost \cup Elems(a)
  BY <1>1 DEF Store, GiveUp
<1> HIDE DEF a, b
<1>4. /\ stored[k] \o a \in Seq(Messages)
      /\ Elems(stored[k] \o a) = Elems(stored[k]) \cup Elems(a)
      /\ Once(stored[k]) /\ Once(a) /\ Elems(stored[k]) \cap Elems(a) = {}
           => Once(stored[k] \o a)
  <2>1. stored[k] \in Seq(Messages)
    BY <1>0
  <2> QED BY <1>2, <2>1, ConcatFacts
<1>5. Elems(a) \subseteq Messages
  BY <1>2 DEF Elems
<1>6. /\ stored' \in [Kinds -> Seq(Messages)] /\ pending' \in [Kinds -> Seq(Messages)]
      /\ lost' \subseteq Messages
  BY <1>0, <1>2, <1>3, <1>4, <1>5
<1>7. Types'
  BY <1>0, <1>6 DEF Inv, Types, TypeOK
<1>8. LogSound'
  <2> SUFFICES ASSUME NEW l \in Kinds
               PROVE  /\ Once(stored'[l]) /\ Once(pending'[l])
                      /\ Elems(pending'[l]) \cap Elems(stored'[l]) = {}
                      /\ \A m \in Elems(pending'[l]) \cup Elems(stored'[l]) :
                           KindOf[m] = l /\ handler[m] # "idle"
    BY <1>0 DEF LogSound
  <2>1. /\ Once(stored[l]) /\ Once(pending[l])
        /\ Elems(pending[l]) \cap Elems(stored[l]) = {}
        /\ \A m \in Elems(pending[l]) \cup Elems(stored[l]) :
             KindOf[m] = l /\ handler[m] # "idle"
    BY DEF Inv, LogSound
  <2>2. CASE l # k
    <3>1. pending'[l] = pending[l] /\ stored'[l] = stored[l]
      BY <1>0, <1>3, <2>2
    <3> QED BY <2>1, <3>1
  <2>3. CASE l = k
    <3>1. pending'[k] = b /\ (stored'[k] = stored[k] \/ stored'[k] = stored[k] \o a)
      BY <1>0, <1>3
    <3>2. /\ Once(a) /\ Once(b) /\ Elems(a) \cap Elems(b) = {}
          /\ Elems(a) \subseteq Elems(pending[k]) /\ Elems(b) \subseteq Elems(pending[k])
      BY <1>2, <2>1, <2>3
    <3>3. /\ Once(stored'[k]) /\ Elems(b) \cap Elems(stored'[k]) = {}
          /\ Elems(stored'[k]) \subseteq Elems(stored[k]) \cup Elems(pending[k])
      <4>1. CASE stored'[k] = stored[k]
        BY <2>1, <2>3, <3>2, <4>1
      <4>2. CASE stored'[k] = stored[k] \o a
        BY <1>4, <2>1, <2>3, <3>2, <4>2
      <4> QED BY <3>1, <4>1, <4>2
    <3> QED BY <2>1, <2>3, <3>1, <3>2, <3>3
  <2> QED BY <2>2, <2>3
<1>9. ASSUME NEW m \in Messages, Old(m) PROVE Old(m)'
  <2>1. CASE stored' = stored
    BY <1>9, <2>1 DEF Old, Outdated
  <2>2. CASE stored' = [stored EXCEPT ![k] = @ \o a]
    BY <1>0, <1>2, <1>9, <2>2, OldStays
  <2> QED BY <1>3, <2>1, <2>2
<1>10. FetchSound'
  <2>1. \A f \in fetches : f.had \subseteq Messages
    BY DEF Inv, Types, TypeOK
  <2> QED BY <1>0, <1>9, <2>1 DEF Inv, FetchSound
<1>11. BaseSound'
  <2>1. base \subseteq Messages
    BY DEF Inv, Types, TypeOK
  <2> QED BY <1>0, <1>9, <2>1 DEF Inv, BaseSound, Shown
<1>12. AllBrokenBefore' /\ LinksSound' /\ CastsSound' /\ ViewSound' /\ Reached'
  BY <1>0, Frames
<1> QED BY <1>7, <1>8, <1>10, <1>11, <1>12 DEF Inv

LEMMA BeginCastKeeps ==
  ASSUME Inv, NEW m \in Messages, BeginCast(m)
  PROVE  Inv'
<1>0. /\ handler \in [Messages -> {"idle", "queued", "casting", "done"}]
      /\ left \in [Messages -> SUBSET Conns] /\ link \in [Conns -> {"none", "upgraded", "client", "gone"}]
      /\ handler[m] = "queued"
      /\ handler' = [handler EXCEPT ![m] = IF Clients = {} THEN "done" ELSE "casting"]
      /\ left' = [left EXCEPT ![m] = Clients]
      /\ UNCHANGED <<pending, stored, lost, link, shut, buf, dropped, broken, browser,
                     conn, fetches, view, base, unread, early>>
  BY DEF Inv, Types, TypeOK, BeginCast, abstractVars, pageVars
<1>1. /\ \A n \in Messages : n # m => handler'[n] = handler[n] /\ left'[n] = left[n]
      /\ handler'[m] = IF Clients = {} THEN "done" ELSE "casting"
      /\ left'[m] = Clients /\ Clients \subseteq Conns /\ Clients' = Clients
      /\ m \notin Begun /\ Begun' = Begun \cup {m}
  BY <1>0 DEF Begun, Clients
<1>2. Types'
  <2>1. /\ handler' \in [Messages -> {"idle", "queued", "casting", "done"}]
        /\ left' \in [Messages -> SUBSET Conns]
    BY <1>0, <1>1
  <2> QED BY <1>0, <2>1 DEF Inv, Types, TypeOK
<1>3. LogSound'
  <2>1. \A n : handler[n] # "idle" => handler'[n] # "idle"
    BY <1>0
  <2> QED BY <1>0, <2>1 DEF Inv, LogSound
<1>4. LinksSound'
  BY <1>0, <1>1 DEF Inv, LinksSound
<1>5. CastsSound'
  BY <1>0, <1>1 DEF Inv, CastsSound, ServesItsClients
<1>6. \A n \in Messages : Due(n)' => Due(n)
  BY <1>0, <1>1 DEF Due, OnItsWay
<1>7. ViewSound'
  BY <1>0, <1>6 DEF Inv, ViewSound
<1>8. Reached'
  BY <1>0, <1>1 DEF Inv, Reached, OnItsWay, Shown, Clients
<1>9. AllBrokenBefore' /\ FetchSound' /\ BaseSound'
  BY <1>0, Frames
<1> QED BY <1>2, <1>3, <1>4, <1>5, <1>7, <1>8, <1>9 DEF Inv

LEMMA CastKeeps ==
  ASSUME Inv, NEW m \in Messages, NEW c \in Conns, Cast(m, c)
  PROVE  Inv'
<1>0. /\ handler \in [Messages -> {"idle", "queued", "casting", "done"}]
      /\ left \in [Messages -> SUBSET Conns]
      /\ buf \in [Conns -> Seq(Messages)]
      /\ \A d \in Conns : Len(buf[d]) <= BufCap
      /\ dropped \subseteq Messages \X Conns
      /\ c \in left[m]
      /\ left' = [left EXCEPT ![m] = @ \ {c}]
      /\ handler' = [handler EXCEPT ![m] = IF left'[m] = {} THEN "done" ELSE @]
      /\ UNCHANGED <<pending, stored, lost, link, shut, broken, browser,
                     conn, fetches, view, base, unread, early>>
  BY DEF Inv, Types, TypeOK, Cast, abstractVars, pageVars
<1>1. /\ handler[m] = "casting" /\ link[c] = "client" /\ m \notin Elems(buf[c])
  BY <1>0 DEF Inv, CastsSound, ServesItsClients, Clients, LinksSound
<1>2. /\ \A n \in Messages : n # m => handler'[n] = handler[n] /\ left'[n] = left[n]
      /\ handler'[m] = IF left'[m] = {} THEN "done" ELSE "casting"
      /\ left'[m] = left[m] \ {c} /\ Clients' = Clients
      /\ Begun' = Begun /\ m \in Begun
  BY <1>0, <1>1 DEF Begun, Clients
<1>3. /\ Append(buf[c], m) \in Seq(Messages) /\ Len(Append(buf[c], m)) = Len(buf[c]) + 1
      /\ Elems(Append(buf[c], m)) = Elems(buf[c]) \cup {m}
      /\ Once(Append(buf[c], m))
  <2>1. buf[c] \in Seq(Messages)
    BY <1>0
  <2>2. Once(buf[c])
    BY DEF Inv, LinksSound
  <2> QED BY <1>1, <2>1, <2>2, AppendFacts
<1>4. /\ \A d \in Conns : d # c => buf'[d] = buf[d]
      /\ \/ /\ Len(buf[c]) < BufCap
            /\ buf'[c] = Append(buf[c], m) /\ dropped' = dropped
         \/ buf'[c] = buf[c] /\ dropped' = dropped \cup {<<m, c>>}
      /\ buf' \in [Conns -> Seq(Messages)]
  BY <1>0, <1>3 DEF Cast
<1>5. Types'
  <2>1. /\ handler' \in [Messages -> {"idle", "queued", "casting", "done"}]
        /\ left' \in [Messages -> SUBSET Conns]
    BY <1>0, <1>1, <1>2
  <2>2. \A d \in Conns : buf'[d] \in Seq(Messages) /\ Len(buf'[d]) <= BufCap
    <3>1. BufCap \in Nat /\ Len(buf[c]) \in Nat
      BY <1>0, FeedAssumption
    <3>2. Len(buf'[c]) <= BufCap
      <4>1. CASE Len(buf[c]) < BufCap /\ buf'[c] = Append(buf[c], m)
        BY <1>3, <3>1, <4>1
      <4>2. CASE buf'[c] = buf[c]
        BY <1>0, <4>2
      <4> QED BY <1>4, <4>1, <4>2
    <3>3. \A d \in Conns : Len(buf'[d]) <= BufCap
      BY <1>0, <1>4, <3>2
    <3> QED BY <1>4, <3>3
  <2>3. dropped' \subseteq Messages \X Conns
    BY <1>0, <1>4
  <2> QED BY <1>0, <1>4, <2>1, <2>2, <2>3 DEF Inv, Types, TypeOK
<1>6. LogSound'
  <2>1. \A n : handler[n] # "idle" => handler'[n] # "idle"
    BY <1>0
  <2> QED BY <1>0, <2>1 DEF Inv, LogSound
<1>7. LinksSound'
  <2> SUFFICES ASSUME NEW d \in Conns
               PROVE  /\ link[d] # "none" => d <= conn
                      /\ buf'[d] # <<>> => link[d] = "client"
                      /\ Once(buf'[d])
                      /\ \A n \in Elems(buf'[d]) : n \in Begun /\ d \notin left'[n]
    BY <1>0, <1>2 DEF LinksSound
  <2>1. /\ link[d] # "none" => d <= conn
        /\ buf[d] # <<>> => link[d] = "client"
        /\ Once(buf[d])
        /\ \A n \in Elems(buf[d]) : n \in Begun /\ d \notin left[n]
    BY DEF Inv, LinksSound
  <2>2. \A n \in Begun : d \notin left[n] => d \notin left'[n]
    BY <1>2 DEF Begun
  <2>3. CASE buf'[d] = buf[d]
    BY <2>1, <2>2, <2>3
  <2>4. CASE d = c /\ buf'[d] = Append(buf[c], m)
    BY <1>1, <1>2, <1>3, <2>1, <2>2, <2>4
  <2> QED BY <1>4, <2>3, <2>4
<1>8. CastsSound'
  BY <1>0, <1>1, <1>2 DEF Inv, CastsSound, ServesItsClients
<1>9. \A n \in Messages : \A d \in Conns :
        /\ OnItsWay(n, d)' => OnItsWay(n, d)
        /\ OnItsWay(n, d) => OnItsWay(n, d)' \/ <<n, d>> \in dropped'
  BY <1>0, <1>2, <1>3, <1>4 DEF OnItsWay
<1>10. ViewSound'
  BY <1>0, <1>2, <1>9 DEF Inv, ViewSound, Due
<1>11. Reached'
  <2>1. dropped \subseteq dropped'
    BY <1>4
  <2> QED BY <1>0, <1>2, <1>9, <2>1 DEF Inv, Reached, Shown, Begun
<1>12. AllBrokenBefore' /\ FetchSound' /\ BaseSound'
  BY <1>0, Frames
<1> QED BY <1>5, <1>6, <1>7, <1>8, <1>10, <1>11, <1>12 DEF Inv

-------------------------------------------------------------------------------
(* The connections.                                                          *)

LEMMA UpgradeKeeps ==
  ASSUME Inv, NEW c \in Conns, Upgrade(c) \/ Register(c)
  PROVE  Inv'
<1>0. /\ link \in [Conns -> {"none", "upgraded", "client", "gone"}]
      /\ handler \in [Messages -> {"idle", "queued", "casting", "done"}]
      /\ \/ link[c] = "none" /\ link' = [link EXCEPT ![c] = "upgraded"] /\ early' = early
         \/ /\ link[c] = "upgraded" /\ ~Locked /\ early' = early \cup Begun
            /\ link' = [link EXCEPT ![c] = "client"]
      /\ conn \in Nat /\ c <= conn
      /\ UNCHANGED <<pending, stored, lost, handler, left, shut, buf, dropped, broken,
                     browser, conn, fetches, view, base, unread>>
  BY DEF Inv, Types, TypeOK, Upgrade, Register, abstractVars, pageVars, LinksSound, Conns
<1>1. /\ \A d \in Conns : d # c => link'[d] = link[d]
      /\ link'[c] \in {"upgraded", "client"} /\ link[c] # "client"
      /\ Begun' = Begun /\ Clients \subseteq Clients'
      /\ Begun \subseteq Messages
  BY <1>0 DEF Begun, Clients
<1>2. Types'
  BY <1>0, <1>1 DEF Inv, Types, TypeOK
<1>3. LinksSound'
  BY <1>0, <1>1 DEF Inv, LinksSound
<1>4. CastsSound'
  BY <1>0, <1>1 DEF Inv, CastsSound, ServesItsClients
<1>5. Reached'
  BY <1>0, <1>1 DEF Inv, Reached, OnItsWay, Shown
<1>6. LogSound' /\ AllBrokenBefore' /\ ViewSound' /\ FetchSound' /\ BaseSound'
  BY <1>0, Frames
<1> QED BY <1>2, <1>3, <1>4, <1>5, <1>6 DEF Inv

LEMMA BreakKeeps ==
  ASSUME Inv, NEW c \in Conns, Break(c)
  PROVE  Inv'
<1>0. /\ conn \in Nat /\ broken \subseteq 1..conn
      /\ c = conn /\ browser # "closed" /\ c \notin broken
      /\ Cardinality(broken) < MaxBreaks /\ broken' = broken \cup {c}
      /\ UNCHANGED <<pending, stored, lost, handler, left, link, shut, buf, dropped,
                     browser, conn, fetches, view, base, unread, early>>
  BY DEF Inv, Types, TypeOK, Break, abstractVars, serverVars, pageVars
<1>1. Types'
  BY <1>0 DEF Inv, Types, TypeOK, Conns
<1>2. AllBrokenBefore'
  <2>1. IsFiniteSet(broken)
    <3>1. IsFiniteSet(1..conn)
      BY <1>0, FS_Interval
    <3> QED BY <1>0, <3>1, FS_Subset
  <2>2. Cardinality(broken \cup {c}) = Cardinality(broken) + 1
    BY <1>0, <2>1, FS_AddElement
  <2>3. Cardinality(broken) \in Nat
    BY <2>1, FS_CardinalityType
  <2>4. MaxBreaks \in Nat
    BY FeedAssumption
  <2>5. Cardinality(broken') <= MaxBreaks
    BY <1>0, <2>2, <2>3, <2>4
  <2> QED BY <1>0, <2>5 DEF Inv, AllBrokenBefore
<1>3. Reached'
  BY <1>0 DEF Inv, Reached, OnItsWay, Shown, Begun
<1>4. /\ LogSound' /\ LinksSound' /\ CastsSound' /\ ViewSound' /\ FetchSound'
      /\ BaseSound'
  BY <1>0, Frames
<1> QED BY <1>1, <1>2, <1>3, <1>4 DEF Inv

LEMMA WriteFailsKeeps ==
  ASSUME Inv, NEW c \in Conns, WriteFails(c)
  PROVE  Inv'
<1>0. /\ buf \in [Conns -> Seq(Messages)] /\ \A d \in Conns : Len(buf[d]) <= BufCap
      /\ c \in broken /\ buf[c] # <<>> /\ link[c] = "client"
      /\ buf' = [buf EXCEPT ![c] = Tail(@)] /\ shut' = shut \cup {c}
      /\ UNCHANGED <<pending, stored, lost, handler, left, link, dropped, broken,
                     browser, conn, fetches, view, base, unread, early>>
  BY DEF Inv, Types, TypeOK, WriteFails, abstractVars, pageVars
<1>1. /\ Tail(buf[c]) \in Seq(Messages) /\ Len(Tail(buf[c])) = Len(buf[c]) - 1
      /\ Elems(Tail(buf[c])) \subseteq Elems(buf[c])
      /\ Once(buf[c]) => Once(Tail(buf[c]))
  <2>1. buf[c] \in Seq(Messages)
    BY <1>0
  <2> QED BY <1>0, <2>1, TailFacts
<1>2. /\ \A d \in Conns : d # c => buf'[d] = buf[d]
      /\ buf'[c] = Tail(buf[c]) /\ buf' \in [Conns -> Seq(Messages)]
  BY <1>0, <1>1
<1>3. Types'
  <2>1. \A d \in Conns : Len(buf'[d]) <= BufCap
    <3>1. BufCap \in Nat /\ Len(buf[c]) \in Nat /\ Len(buf[c]) <= BufCap
      BY <1>0, FeedAssumption
    <3>2. Len(buf'[c]) <= BufCap
      BY <1>1, <1>2, <3>1
    <3> QED BY <1>0, <1>2, <3>2
  <2> QED BY <1>0, <1>2, <2>1 DEF Inv, Types, TypeOK
<1>4. LinksSound'
  BY <1>0, <1>1, <1>2 DEF Inv, LinksSound, Begun
<1>5. \A n, d : d \in Conns /\ OnItsWay(n, d)' => OnItsWay(n, d)
  BY <1>0, <1>1, <1>2 DEF OnItsWay
<1>6. ViewSound'
  BY <1>0, <1>5 DEF Inv, ViewSound, Due, Begun
<1>7. Reached'
  <2>1. \A n, d : d \in Conns /\ d \notin broken /\ OnItsWay(n, d) => OnItsWay(n, d)'
    BY <1>0, <1>2 DEF OnItsWay
  <2> QED BY <1>0, <2>1 DEF Inv, Reached, Shown, Begun
<1>8. LogSound' /\ AllBrokenBefore' /\ CastsSound' /\ FetchSound' /\ BaseSound'
  BY <1>0, Frames
<1> QED BY <1>3, <1>4, <1>6, <1>7, <1>8 DEF Inv

LEMMA DisconnectKeeps ==
  ASSUME Inv, NEW c \in Conns, Disconnect(c)
  PROVE  Inv'
<1>0. /\ buf \in [Conns -> Seq(Messages)] /\ \A d \in Conns : Len(buf[d]) <= BufCap
      /\ link \in [Conns -> {"none", "upgraded", "client", "gone"}]
      /\ left \in [Messages -> SUBSET Conns]
      /\ c \in broken /\ link[c] = "client" /\ ~Locked
      /\ buf' = [buf EXCEPT ![c] = <<>>] /\ link' = [link EXCEPT ![c] = "gone"]
      /\ UNCHANGED <<pending, stored, lost, handler, left, shut, dropped, broken,
                     browser, conn, fetches, view, base, unread, early>>
  BY DEF Inv, Types, TypeOK, Disconnect, abstractVars, pageVars
<1>1. /\ \A d \in Conns : d # c => buf'[d] = buf[d] /\ link'[d] = link[d]
      /\ buf'[c] = <<>> /\ link'[c] = "gone" /\ buf' \in [Conns -> Seq(Messages)]
      /\ \A d \in Conns : Len(buf'[d]) <= BufCap
  BY <1>0, FeedAssumption
<1>2. Types'
  BY <1>0, <1>1 DEF Inv, Types, TypeOK
<1>3. Elems(buf'[c]) = {} /\ Once(buf'[c])
  BY <1>1, EmptyFacts
<1>4. LinksSound'
  BY <1>0, <1>1, <1>3 DEF Inv, LinksSound, Begun
<1>5. CastsSound'
  <2>1. \A m \in Messages : left[m] = {}
    BY <1>0 DEF Inv, CastsSound, Locked
  <2> QED BY <1>0, <2>1 DEF Inv, CastsSound, ServesItsClients
<1>6. \A n, d : d \in Conns /\ OnItsWay(n, d)' => OnItsWay(n, d)
  BY <1>0, <1>1, <1>3 DEF OnItsWay
<1>7. ViewSound'
  BY <1>0, <1>6 DEF Inv, ViewSound, Due, Begun
<1>8. Reached'
  <2>1. \A n, d : d \in Conns /\ d \notin broken /\ OnItsWay(n, d) => OnItsWay(n, d)'
    BY <1>0, <1>1 DEF OnItsWay
  <2> QED BY <1>0, <1>1, <2>1 DEF Inv, Reached, Shown, Begun
<1>9. LogSound' /\ AllBrokenBefore' /\ FetchSound' /\ BaseSound'
  BY <1>0, Frames
<1> QED BY <1>2, <1>4, <1>5, <1>7, <1>8, <1>9 DEF Inv

-------------------------------------------------------------------------------
(* The page.                                                                 *)

LEMMA ConnectKeeps ==
  ASSUME Inv, Connect
  PROVE  Inv'
<1>0. /\ conn \in 0..(MaxBreaks + 1) /\ MaxBreaks \in Nat
      /\ broken \subseteq 1..conn /\ 1..conn \subseteq broken
      /\ Cardinality(broken) <= MaxBreaks
      /\ conn' = conn + 1 /\ browser' = "connecting"
      /\ UNCHANGED <<pending, stored, lost, handler, left, link, shut, buf, dropped,
                     broken, fetches, view, base, unread, early>>
  BY FeedAssumption
     DEF Inv, Types, TypeOK, AllBrokenBefore, Connect, abstractVars, serverVars
\* So many connections are broken, and no more may break.
<1>1. conn <= MaxBreaks
  <2>1. broken = 1..conn
    BY <1>0
  <2>2. Cardinality(1..conn) = IF 1 > conn THEN 0 ELSE conn - 1 + 1
    BY <1>0, FS_Interval
  <2>3. Cardinality(broken) = IF 1 > conn THEN 0 ELSE conn - 1 + 1
    BY <2>1, <2>2, Zenon
  <2> QED BY <1>0, <2>3
<1>2. Types'
  <2>1. conn' \in 0..(MaxBreaks + 1) /\ 1..conn \subseteq 1..conn'
    BY <1>0, <1>1
  <2> QED BY <1>0, <2>1 DEF Inv, Types, TypeOK
<1>3. AllBrokenBefore'
  <2>1. conn' - 1 = conn /\ conn' # 0
    BY <1>0
  <2> QED BY <1>0, <2>1 DEF AllBrokenBefore
<1>4. \A c \in Conns : link[c] # "none" => c <= conn /\ c # conn'
  BY <1>0 DEF Inv, LinksSound, Conns
<1>5. LinksSound'
  <2>1. \A c \in Conns : c <= conn => c <= conn'
    BY <1>0 DEF Conns
  <2> QED BY <1>0, <2>1 DEF Inv, LinksSound, Begun
<1>6. \A m \in Messages : \A c \in Conns : OnItsWay(m, c) => c # conn'
  <2> SUFFICES ASSUME NEW m \in Messages, NEW c \in Conns, OnItsWay(m, c)
               PROVE  link[c] # "none"
    BY <1>4
  <2>1. CASE c \in left[m]
    BY <2>1 DEF Inv, CastsSound, ServesItsClients, Clients
  <2>2. CASE m \in Elems(buf[c])
    <3>1. buf[c] # <<>>
      BY <2>2, EmptyFacts
    <3> QED BY <3>1 DEF Inv, LinksSound
  <2> QED BY <2>1, <2>2 DEF OnItsWay
<1>7. ViewSound'
  <2>1. \A m \in Messages : Due(m)' => Due(m)
    BY <1>0, <1>6 DEF Due, OnItsWay, Begun
  <2> QED BY <1>0, <2>1 DEF Inv, ViewSound
<1>8. Reached'
  BY <1>0, <1>4 DEF Reached
<1>9. LogSound' /\ CastsSound' /\ FetchSound' /\ BaseSound'
  BY <1>0, Frames
<1> QED BY <1>2, <1>3, <1>5, <1>7, <1>8, <1>9 DEF Inv

LEMMA OpenKeeps ==
  ASSUME Inv, OnOpen \/ OnClose
  PROVE  Inv'
<1>0. /\ conn \in 0..(MaxBreaks + 1) /\ conn \in Nat
      /\ browser # "closed" /\ browser' \in {"open", "closed"}
      /\ browser' = "closed" => conn \in broken
      /\ UNCHANGED <<pending, stored, lost, handler, left, link, shut, buf, dropped,
                     broken, conn, view, base, unread, early>>
  BY DEF Inv, Types, TypeOK, OnOpen, OnClose, abstractVars, serverVars
<1>1. conn \in Conns /\ conn \in 1..conn
  BY <1>0 DEF Inv, AllBrokenBefore, Conns
<1> DEFINE f == [id |-> conn, toRead |-> KindOrder, rows |-> <<>>, had |-> {},
               failed |-> {}]
<1>2. fetches' \subseteq fetches \cup {f}
  BY DEF OnOpen, OnClose
<1>3. /\ f.id = conn /\ f.toRead = KindOrder /\ f.rows = <<>> /\ f.had = {}
      /\ f \in Fetches
  BY <1>1, FeedAssumption DEF Fetches
<1> HIDE DEF f
<1>4. Types'
  <2>1. fetches' \subseteq Fetches
    BY <1>2, <1>3 DEF Inv, Types
  <2>2. \A g \in fetches' : /\ g.id \in 1..conn
                            /\ g.toRead \in Seq(Kinds) /\ g.rows \in Seq(Messages)
                            /\ g.had \subseteq Messages /\ g.failed \subseteq Kinds
    <3>1. \A g \in Fetches : /\ g.toRead \in Seq(Kinds) /\ g.rows \in Seq(Messages)
                             /\ g.had \subseteq Messages /\ g.failed \subseteq Kinds
      BY DEF Fetches
    <3>2. \A g \in fetches' : g.id \in 1..conn
      BY <1>1, <1>2, <1>3 DEF Inv, Types, TypeOK
    <3> QED BY <2>1, <3>1, <3>2
  <2> QED BY <1>0, <2>1, <2>2 DEF Inv, Types, TypeOK
<1>5. AllBrokenBefore'
  <2>1. \A c \in 1..conn : c \in 1..(conn - 1) \/ c = conn
    BY <1>0
  <2> QED BY <1>0, <1>1, <2>1 DEF Inv, AllBrokenBefore
<1>6. FetchSound'
  <2>1. Once(f.toRead) /\ Once(f.rows) /\ Elems(f.rows) = {} /\ f.had = {}
    BY <1>3, OrderOnce, EmptyFacts
  <2>2. \A m : Old(m)' <=> Old(m)
    BY <1>0 DEF Old, Outdated
  <2> QED BY <1>2, <2>1, <2>2 DEF Inv, FetchSound
<1>7. LogSound' /\ LinksSound' /\ CastsSound' /\ ViewSound' /\ BaseSound' /\ Reached'
  BY <1>0, Frames
<1> QED BY <1>4, <1>5, <1>6, <1>7 DEF Inv

LEMMA OnMessageKeeps ==
  ASSUME Inv, NEW c \in Conns, OnMessage(c)
  PROVE  Inv'
<1>0. /\ buf \in [Conns -> Seq(Messages)] /\ \A d \in Conns : Len(buf[d]) <= BufCap
      /\ view \in Seq(Messages) /\ ViewCap \in Nat \ {0} /\ BufCap \in Nat
      /\ c = conn /\ buf[c] # <<>> /\ link[c] = "client"
      /\ buf' = [buf EXCEPT ![c] = Tail(@)]
      /\ view' = FirstN(<<Head(buf[c])>> \o view, ViewCap)
      /\ UNCHANGED <<pending, stored, lost, handler, left, link, shut, dropped, broken,
                     browser, conn, fetches, base, unread, early>>
  BY FeedAssumption DEF Inv, Types, TypeOK, OnMessage, abstractVars
<1>m. PICK m \in Messages : m = Head(buf[c])
  <2>1. buf[c] \in Seq(Messages)
    BY <1>0
  <2> QED BY <1>0, <2>1, TailFacts
<1>1. /\ view' = FirstN(<<m>> \o view, ViewCap)
      /\ Tail(buf[c]) \in Seq(Messages) /\ Len(Tail(buf[c])) = Len(buf[c]) - 1
      /\ Elems(buf[c]) = {m} \cup Elems(Tail(buf[c]))
      /\ Once(Tail(buf[c])) /\ m \notin Elems(Tail(buf[c]))
  <2>1. buf[c] \in Seq(Messages)
    BY <1>0
  <2>2. Once(buf[c])
    BY DEF Inv, LinksSound
  <2> QED BY <1>0, <1>m, <2>1, <2>2, TailFacts
<1>2. /\ \A d \in Conns : d # c => buf'[d] = buf[d]
      /\ buf'[c] = Tail(buf[c]) /\ buf' \in [Conns -> Seq(Messages)]
  BY <1>0, <1>1
<1>3. /\ view' \in Seq(Messages)
      /\ Len(view') = (IF Len(view) + 1 <= ViewCap THEN Len(view) + 1 ELSE ViewCap)
      /\ view'[1] = m /\ 1 \in DOMAIN view'
      /\ \A i \in 2..Len(view') : i - 1 \in DOMAIN view /\ view'[i] = view[i - 1]
      /\ Elems(view) \subseteq Elems(view') \/ Len(view') >= ViewCap
  <2> DEFINE t == FirstN(<<m>> \o view, ViewCap)
  <2>1. view \in Seq(Messages) /\ ViewCap \in Nat \ {0}
    BY <1>0
  <2>2. /\ t \in Seq(Messages)
        /\ Len(t) = (IF Len(view) + 1 <= ViewCap THEN Len(view) + 1 ELSE ViewCap)
        /\ t[1] = m /\ 1 \in DOMAIN t
        /\ \A i \in 2..Len(t) : i - 1 \in DOMAIN view /\ t[i] = view[i - 1]
        /\ Elems(view) \subseteq Elems(t) \/ Len(t) >= ViewCap
    BY <2>1, PushFacts
  <2>3. view' = t
    BY <1>1
  <2> HIDE DEF t
  <2> QED BY <2>2, <2>3
<1>4. Types'
  <2>1. \A d \in Conns : Len(buf'[d]) <= BufCap
    <3>1. Len(buf[c]) \in Nat /\ Len(buf[c]) <= BufCap
      BY <1>0
    <3>2. Len(buf'[c]) <= BufCap
      BY <1>0, <1>1, <1>2, <3>1
    <3> QED BY <1>0, <1>2, <3>2
  <2> QED BY <1>0, <1>2, <1>3, <2>1 DEF Inv, Types, TypeOK
<1>5. LinksSound'
  BY <1>0, <1>1, <1>2 DEF Inv, LinksSound, Begun
<1>6. /\ \A n \in Messages : Due(n)' => Due(n) /\ n # m
      /\ Due(m)
  <2>1. m \in Begun /\ c \notin left[m]
    BY <1>1 DEF Inv, LinksSound
  <2>2. \A n : OnItsWay(n, c)' => OnItsWay(n, c) /\ n # m
    BY <1>0, <1>1, <1>2, <2>1 DEF OnItsWay
  <2>3. OnItsWay(m, c)
    BY <1>1 DEF OnItsWay
  <2> QED BY <1>0, <2>1, <2>2, <2>3 DEF Due, Begun
<1>7. ViewSound'
  <2>1. Twice(view) /\ \A n \in Messages : Due(n) => OnceIn(view, n)
    BY DEF Inv, ViewSound
  <2>2. /\ Twice(view) /\ OnceIn(view, m) => Twice(view')
        /\ \A n : n # m /\ OnceIn(view, n) => OnceIn(view', n)
    <3>1. /\ view \in Seq(Messages) /\ view' \in Seq(Messages) /\ 1 \in DOMAIN view'
          /\ \A i \in 2..Len(view') : i - 1 \in DOMAIN view /\ view'[i] = view[i - 1]
      BY <1>0, <1>3
    <3>2. /\ Twice(view) /\ OnceIn(view, view'[1]) => Twice(view')
          /\ \A n : n # view'[1] /\ OnceIn(view, n) => OnceIn(view', n)
      BY <3>1, PushKeeps
    <3> QED BY <1>3, <3>2
  <2>3. Twice(view')
    BY <1>1, <1>6, <2>1, <2>2
  <2> QED BY <1>6, <2>1, <2>2, <2>3 DEF ViewSound
<1>8. \A n : Shown(n) => Shown(n)'
  <2>1. Len(view) \in Nat
    BY <1>0
  <2>2. Len(view) >= ViewCap => Len(view') >= ViewCap
    BY <1>0, <1>3, <2>1
  <2> QED BY <1>3, <2>2 DEF Shown
<1>9. Shown(m)'
  <2>1. m \in Elems(view')
    BY <1>3 DEF Elems
  <2> QED BY <2>1 DEF Shown
<1>10. BaseSound'
  BY <1>0, <1>8 DEF Inv, BaseSound, Old, Outdated
<1>11. Reached'
  <2>1. \A n, d : d \in Conns /\ OnItsWay(n, d) => OnItsWay(n, d)' \/ n = m
    BY <1>0, <1>1, <1>2 DEF OnItsWay
  <2> SUFFICES ASSUME NEW d \in Conns, NEW n \in Begun \ early, d = conn,
                      link[d] = "client", d \notin broken
               PROVE  OnItsWay(n, d)' \/ <<n, d>> \in dropped \/ Shown(n)'
    BY <1>0 DEF Reached, Begun
  <2>2. OnItsWay(n, d) \/ <<n, d>> \in dropped \/ Shown(n)
    BY DEF Inv, Reached
  <2> QED BY <1>8, <1>9, <2>1, <2>2
<1>12. LogSound' /\ AllBrokenBefore' /\ CastsSound' /\ FetchSound'
  BY <1>0, Frames
<1> QED BY <1>4, <1>5, <1>7, <1>10, <1>11, <1>12 DEF Inv

\* A query, of which nothing is noted when it returns all rows it should.
LEMMA QueryKeeps ==
  ASSUME Inv, NEW f \in fetches, f.toRead # <<>>, NEW n \in Nat, NEW noted \in SUBSET Kinds,
         n = RowLimit[Head(f.toRead)] \/ Head(f.toRead) \in noted,
         fetches' = (fetches \ {f}) \cup {[WithRows(f, n) EXCEPT !.failed = @ \cup noted]},
         UNCHANGED <<pending, stored, lost, handler, left, link, shut, buf, dropped,
                     broken, browser, conn, view, base, unread, early>>
  PROVE  Inv'
<1> DEFINE k == Head(f.toRead)
           r == Listed(k, n)
           g == [WithRows(f, n) EXCEPT !.failed = @ \cup noted]
<1>0. /\ stored \in [Kinds -> Seq(Messages)] /\ f.toRead # <<>>
      /\ f \in Fetches /\ f.id \in 1..conn
      /\ fetches' = (fetches \ {f}) \cup {g}
      /\ UNCHANGED <<pending, stored, lost, handler, left, link, shut, buf, dropped,
                     broken, browser, conn, view, base, unread, early>>
  BY DEF Inv, Types, TypeOK
<1>1. /\ f.toRead \in Seq(Kinds) /\ f.rows \in Seq(Messages) /\ f.had \subseteq Messages
      /\ f.failed \subseteq Kinds
  BY <1>0 DEF Fetches
<1>2. /\ k \in Kinds /\ Tail(f.toRead) \in Seq(Kinds)
      /\ Elems(f.toRead) = {k} \cup Elems(Tail(f.toRead))
      /\ Once(f.toRead) => Once(Tail(f.toRead)) /\ k \notin Elems(Tail(f.toRead))
  BY <1>0, <1>1, TailFacts
<1>3. /\ stored[k] \in Seq(Messages) /\ RowLimit[k] \in Nat
      /\ Once(stored[k]) /\ \A m \in Elems(stored[k]) : KindOf[m] = k
      /\ Elems(stored[k]) \subseteq Messages
  <2>1. stored[k] \in Seq(Messages)
    BY <1>0, <1>2
  <2>2. RowLimit[k] \in Nat
    BY <1>2, FeedAssumption
  <2> HIDE DEF k
  <2>3. Elems(stored[k]) \subseteq Messages
    BY <2>1 DEF Elems
  <2> QED BY <1>2, <2>1, <2>2, <2>3 DEF Inv, LogSound
<1>4. /\ r \in Seq(Messages) /\ Elems(r) \subseteq Elems(stored[k]) /\ Once(r)
      /\ \A i \in DOMAIN stored[k] :
           stored[k][i] \in Elems(r) \/ Outdated(k, i) \/ k \in noted
  <2>1. n = RowLimit[k] \/ k \in noted
    OBVIOUS
  <2> HIDE DEF k
  <2>2. /\ r \in Seq(Messages) /\ Elems(r) \subseteq Elems(stored[k]) /\ Once(r)
        /\ \A i \in DOMAIN stored[k] :
             \/ stored[k][i] \in Elems(r)
             \/ Len(stored[k]) - i >= n
             \/ k \in PerAgent /\ \E j \in (i + 1)..Len(stored[k]) :
                                    AgentOf[stored[k][j]] = AgentOf[stored[k][i]]
    BY <1>3, ListedFacts
  <2> QED BY <2>1, <2>2 DEF Outdated
<1> HIDE DEF r, k
<1>5. /\ g.id = f.id /\ g.toRead = Tail(f.toRead) /\ g.rows = f.rows \o r
      /\ g.had = f.had \cup Elems(stored[k]) /\ g.failed = f.failed \cup noted
      /\ g \in Fetches
  <2>1. f.rows \o r \in Seq(Messages)
    BY <1>1, <1>4, ConcatFacts
  <2>2. f.had \cup Elems(stored[k]) \in SUBSET Messages
    BY <1>1, <1>3
  <2> DEFINE w == WithRows(f, n)
  <2>3. w = [f EXCEPT !.toRead = Tail(@), !.rows = @ \o r,
                      !.had = @ \cup Elems(stored[k])]
    BY DEF WithRows, r, k
  <2> HIDE DEF w
  <2>4. /\ w.id = f.id /\ w.toRead = Tail(f.toRead) /\ w.rows = f.rows \o r
        /\ w.had = f.had \cup Elems(stored[k]) /\ w.failed = f.failed
        /\ w \in Fetches
    BY <1>0, <1>1, <1>2, <2>1, <2>2, <2>3 DEF Fetches
  <2>5. g = [w EXCEPT !.failed = @ \cup noted]
    BY DEF w
  <2> HIDE DEF g
  <2> QED BY <2>4, <2>5 DEF Fetches
<1> HIDE DEF g
<1>6. Types'
  <2>1. fetches' \subseteq Fetches
    BY <1>0, <1>5 DEF Inv, Types
  <2>2. \A h \in fetches' : /\ h.id \in 1..conn
                            /\ h.toRead \in Seq(Kinds) /\ h.rows \in Seq(Messages)
                            /\ h.had \subseteq Messages /\ h.failed \subseteq Kinds
    <3>1. \A h \in Fetches : /\ h.toRead \in Seq(Kinds) /\ h.rows \in Seq(Messages)
                             /\ h.had \subseteq Messages /\ h.failed \subseteq Kinds
      BY DEF Fetches
    <3>2. \A h \in fetches' : h.id \in 1..conn
      BY <1>0, <1>5 DEF Inv, Types, TypeOK
    <3> QED BY <2>1, <3>1, <3>2
  <2> QED BY <1>0, <2>1, <2>2 DEF Inv, Types, TypeOK
<1>7. FetchSound'
  <2>1. /\ Once(f.toRead) /\ Once(f.rows)
        /\ \A m \in Elems(f.rows) : KindOf[m] \notin Elems(f.toRead)
        /\ \A m \in f.had : m \in Elems(f.rows) \/ Old(m) \/ KindOf[m] \in f.failed
    BY DEF Inv, FetchSound
  <2>2. Elems(f.rows) \cap Elems(r) = {}
    BY <1>2, <1>3, <1>4, <2>1
  <2>3. Once(g.rows) /\ Elems(g.rows) = Elems(f.rows) \cup Elems(r)
    BY <1>1, <1>4, <1>5, <2>1, <2>2, ConcatFacts
  <2>4. \A m \in Elems(g.rows) : KindOf[m] \notin Elems(g.toRead)
    BY <1>2, <1>3, <1>4, <1>5, <2>1, <2>3
  <2>5. \A m \in Elems(stored[k]) : m \in Elems(r) \/ Old(m) \/ KindOf[m] \in noted
    <3> SUFFICES ASSUME NEW m \in Elems(stored[k]), m \notin Elems(r), KindOf[m] \notin noted
                 PROVE  Old(m)
      OBVIOUS
    <3>1. PICK i \in DOMAIN stored[k] : stored[k][i] = m
      BY DEF Elems
    <3>2. DOMAIN stored[k] = 1..Len(stored[k]) /\ KindOf[m] = k
      BY <1>3
    <3> QED BY <1>4, <3>1, <3>2 DEF Old
  <2>6. \A m \in g.had : m \in Elems(g.rows) \/ Old(m) \/ KindOf[m] \in g.failed
    BY <1>5, <2>1, <2>3, <2>5
  <2>7. Once(g.toRead)
    BY <1>2, <1>5, <2>1
  <2>8. \A m : Old(m)' <=> Old(m)
    BY <1>0 DEF Old, Outdated
  <2> QED BY <1>0, <2>3, <2>4, <2>6, <2>7, <2>8 DEF Inv, FetchSound
<1>8. /\ LogSound' /\ AllBrokenBefore' /\ LinksSound' /\ CastsSound' /\ ViewSound'
      /\ BaseSound' /\ Reached'
  BY <1>0, Frames
<1> QED BY <1>6, <1>7, <1>8 DEF Inv

LEMMA ReadTableKeeps ==
  ASSUME Inv, NEW f \in fetches, ReadTable(f) \/ QueryFails(f)
  PROVE  Inv'
<1>0. /\ f.toRead # <<>> /\ f.toRead \in Seq(Kinds) /\ f.failed \subseteq Kinds
      /\ f \in Fetches
      /\ UNCHANGED <<pending, stored, lost, handler, left, link, shut, buf, dropped,
                     broken, browser, conn, view, base, unread, early>>
  BY DEF Inv, Types, TypeOK, ReadTable, QueryFails, abstractVars, serverVars
<1> DEFINE k == Head(f.toRead)
<1>1. k \in Kinds /\ RowLimit[k] \in Nat
  BY <1>0, TailFacts, FeedAssumption
<1>2. CASE ReadTable(f)
  <2>1. fetches' = (fetches \ {f}) \cup {WithRows(f, RowLimit[k])}
    BY <1>2 DEF ReadTable
  <2>2. [WithRows(f, RowLimit[k]) EXCEPT !.failed = @ \cup {}] = WithRows(f, RowLimit[k])
    BY <1>0 DEF WithRows, Fetches
  <2>3. fetches' = (fetches \ {f}) \cup
                   {[WithRows(f, RowLimit[k]) EXCEPT !.failed = @ \cup {}]}
    BY <2>1, <2>2
  <2> HIDE DEF k
  <2>4. k = Head(f.toRead) /\ {} \in SUBSET Kinds
    BY DEF k
  <2> QED BY <1>0, <1>1, <2>3, <2>4, QueryKeeps
<1>3. CASE QueryFails(f)
  <2>1. PICK n \in 0..(RowLimit[k] - 1) :
          fetches' = (fetches \ {f}) \cup {[WithRows(f, n) EXCEPT !.failed = @ \cup {k}]}
    BY <1>3 DEF QueryFails
  <2>2. n \in Nat /\ {k} \in SUBSET Kinds
    BY <1>1
  <2> QED BY <1>0, <2>1, <2>2, QueryKeeps
<1> QED BY <1>2, <1>3

LEMMA ApplySnapshotKeeps ==
  ASSUME Inv, NEW f \in fetches, ApplySnapshot(f)
  PROVE  Inv'
<1>0. /\ f.rows \in Seq(Messages) /\ f.had \subseteq Messages
      /\ view' = Reverse(f.rows) /\ base' = f.had /\ unread' = f.failed
      /\ f.failed \subseteq Kinds
      /\ early' = early \cup Begun /\ fetches' \subseteq fetches
      /\ UNCHANGED <<pending, stored, lost, handler, left, link, shut, buf, dropped,
                     broken, browser, conn>>
  BY DEF Inv, Types, TypeOK, ApplySnapshot, abstractVars, serverVars
<1>1. /\ view' \in Seq(Messages) /\ Elems(view') = Elems(f.rows)
      /\ Once(f.rows) => Once(view')
  <2>1. /\ Reverse(f.rows) \in Seq(Messages) /\ Len(Reverse(f.rows)) = Len(f.rows)
        /\ \A i \in 1..Len(f.rows) : Reverse(f.rows)[i] = f.rows[Len(f.rows) - i + 1]
    BY <1>0, ReverseFacts
  <2> QED BY <1>0, <2>1, ReversedFacts
<1>2. Types'
  BY <1>0, <1>1 DEF Inv, Types, TypeOK, Begun
<1>3. ViewSound'
  <2>1. Once(view')
    BY <1>1 DEF Inv, FetchSound
  <2>2. Twice(view') /\ \A m : OnceIn(view', m)
    BY <2>1 DEF Once, Twice, OnceIn
  <2> QED BY <2>2 DEF ViewSound
<1>4. FetchSound'
  BY <1>0 DEF Inv, FetchSound, Old, Outdated
<1>5. BaseSound'
  BY <1>0, <1>1 DEF Inv, FetchSound, BaseSound, Shown, Old, Outdated
<1>6. Reached'
  BY <1>0 DEF Reached, Begun
<1>7. LogSound' /\ AllBrokenBefore' /\ LinksSound' /\ CastsSound'
  BY <1>0, Frames
<1> QED BY <1>2, <1>3, <1>4, <1>5, <1>6, <1>7 DEF Inv

LEMMA FetchFailsKeeps ==
  ASSUME Inv, NEW f \in fetches, FetchFails(f)
  PROVE  Inv'
<1>0. /\ fetches' \subseteq fetches
      /\ UNCHANGED <<pending, stored, lost, handler, left, link, shut, buf, dropped,
                     broken, browser, conn, view, base, unread, early>>
  BY DEF FetchFails, abstractVars, serverVars
<1>1. Types'
  BY <1>0 DEF Inv, Types, TypeOK
<1>2. FetchSound'
  BY <1>0 DEF Inv, FetchSound, Old, Outdated
<1>3. /\ LogSound' /\ AllBrokenBefore' /\ LinksSound' /\ CastsSound' /\ ViewSound'
      /\ BaseSound' /\ Reached'
  BY <1>0, Frames
<1> QED BY <1>1, <1>2, <1>3 DEF Inv

-------------------------------------------------------------------------------
(* The theorems.                                                             *)

LEMMA StepInv == Inv /\ [Next]_vars => Inv'
<1> SUFFICES ASSUME Inv, [Next]_vars PROVE Inv'
  OBVIOUS
<1>1. CASE UNCHANGED vars
  <2>1. Types'
    BY <1>1 DEF Inv, Types, TypeOK, vars, abstractVars
  <2> QED BY <1>1, <2>1, Frames DEF Inv, vars, abstractVars
<1>2. CASE Next
  <2>1. \A m \in Messages : Queue(m) \/ BeginCast(m) => Inv'
    BY QueueKeeps, BeginCastKeeps
  <2>2. \A m \in Messages : \A c \in Conns : Cast(m, c) => Inv'
    BY CastKeeps
  <2>3. \A k \in Kinds : Process(k) => Inv'
    BY ProcessKeeps
  <2>4. \A c \in Conns :
          Upgrade(c) \/ Register(c) \/ Break(c) \/ WriteFails(c) \/ Disconnect(c) => Inv'
    BY UpgradeKeeps, BreakKeeps, WriteFailsKeeps, DisconnectKeeps
  <2>5. \A c \in Conns : OnMessage(c) => Inv'
    BY OnMessageKeeps
  <2>6. Connect \/ OnOpen \/ OnClose => Inv'
    BY ConnectKeeps, OpenKeeps
  <2>7. \A f \in fetches :
          ReadTable(f) \/ QueryFails(f) \/ ApplySnapshot(f) \/ FetchFails(f) => Inv'
    BY ReadTableKeeps, ApplySnapshotKeeps, FetchFailsKeeps
  <2> QED BY <1>2, <2>1, <2>2, <2>3, <2>4, <2>5, <2>6, <2>7, Zenon DEF Next
<1> QED BY <1>1, <1>2

\* The invariant holds of every reachable state.
THEOREM Invariance == Spec => []Inv
BY InitInv, StepInv, PTL DEF Spec

\* The variables have their types: the channel of a client never holds more
\* than its buffer, and only the connections there have been are broken.
THEOREM TypeCorrect == Spec => []TypeOK
<1>1. Inv => TypeOK
  BY DEF Inv, Types
<1> QED BY <1>1, Invariance, PTL

\* The broadcast sends only to registered clients, whose channels are open:
\* Disconnect and WriteFails need the lock that the broadcast holds.
THEOREM ServesOnlyItsClients == Spec => []ServesItsClients
<1>1. Inv => ServesItsClients
  BY DEF Inv, CastsSound
<1> QED BY <1>1, Invariance, PTL

\* A message comes to the page at most twice, once by the socket and once by a
\* snapshot, however often the page reconnects.
THEOREM NeverThrice == Spec => []ShownTwiceAtMost
<1>1. Inv => ShownTwiceAtMost
  <2> SUFFICES ASSUME Inv, NEW m \in Messages
               PROVE  Cardinality({i \in DOMAIN view : view[i] = m}) <= 2
    BY DEF ShownTwiceAtMost
  <2>1. view \in Seq(Messages) /\ Twice(view)
    BY DEF Inv, Types, TypeOK, ViewSound
  <2> QED BY <2>1, TwiceCounts
<1> QED BY <1>1, Invariance, PTL

\* A stored message that a settled page does not show was dropped, is older
\* than what it keeps or fetches, gave way to a newer one of its agent, is of a
\* table whose query failed, or fell into the gap of subscribing.
THEOREM MissingIsExcused == Spec => []MissingExcused
<1>1. Inv => MissingExcused
  <2> SUFFICES ASSUME Inv, Quiet, NEW k \in Kinds, NEW i \in DOMAIN stored[k],
                      NEW m, m = stored[k][i]
               PROVE  \/ m \in Elems(view)
                      \/ <<m, conn>> \in dropped
                      \/ Len(view) >= ViewCap
                      \/ Len(stored[k]) - i >= RowLimit[k]
                      \/ k \in PerAgent /\ \E j \in (i + 1)..Len(stored[k]) :
                                             AgentOf[stored[k][j]] = AgentOf[m]
                      \/ k \in unread
                      \/ m \in early /\ m \notin base
    BY DEF MissingExcused
  <2>1. /\ stored[k] \in Seq(Messages) /\ DOMAIN stored[k] = 1..Len(stored[k])
        /\ m \in Messages
    BY DEF Inv, Types, TypeOK
  <2>2. m \in Elems(stored[k])
    BY DEF Elems
  <2>3. KindOf[m] = k /\ handler[m] = "done" /\ Once(stored[k])
    BY <2>1, <2>2 DEF Inv, LogSound, Quiet
  <2>4. m \in Begun
    BY <2>1, <2>3 DEF Begun
  <2>5. CASE m \in base
    <3>1. Old(m) => Outdated(k, i)
      BY <2>1, <2>3 DEF Old, Once
    <3>2. Shown(m) \/ Old(m) \/ k \in unread
      BY <2>3, <2>5 DEF Inv, BaseSound
    <3> QED BY <3>1, <3>2 DEF Shown, Outdated
  <2>6. CASE m \notin base /\ m \notin early
    <3>1. conn \in Conns
      BY DEF Inv, Types, TypeOK, AllBrokenBefore, Quiet, Conns
    <3>2. Elems(buf[conn]) = {}
      BY EmptyFacts DEF Quiet
    <3>3. left[m] = {}
      BY <2>1, <2>3 DEF Inv, CastsSound
    <3> QED BY <2>4, <2>6, <3>1, <3>2, <3>3 DEF Inv, Reached, OnItsWay, Shown, Quiet
  <2> QED BY <2>5, <2>6
<1> QED BY <1>1, Invariance, PTL

===============================================================================
