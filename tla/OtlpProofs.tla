------------------------------ MODULE OtlpProofs ------------------------------
(***************************************************************************)
(* Proofs about OtlpDelivery, for every set of payloads and signals, all   *)
(* capacities and any number of faults.  The inductive invariant has three *)
(* parts beside the types:                                                 *)
(*                                                                         *)
(*   FirstInFirstOut  what was posted before a payload is further on than  *)
(*                    it, or was dropped;                                  *)
(*   Handed           an item of a payload the worker is at was offered to *)
(*                    a queue or is still to be offered by its request;    *)
(*   Counted          the rows of an item, with the places it has in batch *)
(*                    and queue, are at most as many as it was offered.    *)
(***************************************************************************)
EXTENDS OtlpDelivery, FiniteSetTheorems, SequenceTheorems, TLAPS

-------------------------------------------------------------------------------
(* Facts about sequences and the elements they hold.                         *)

LEMMA ElemsSubset ==
  ASSUME NEW S, NEW q \in Seq(S)
  PROVE  Elems(q) \subseteq S
BY LenProperties, ElementOfSeq DEF Elems

LEMMA ElemsEmpty == Elems(<<>>) = {}
BY EmptySeq, LenProperties DEF Elems

LEMMA ElemsAppend ==
  ASSUME NEW S, NEW q \in Seq(S), NEW e \in S
  PROVE  Elems(Append(q, e)) = Elems(q) \cup {e}
<1>1. /\ Len(q) \in Nat /\ DOMAIN q = 1..Len(q)
      /\ DOMAIN Append(q, e) = 1..Len(q) + 1
  BY LenProperties, AppendProperties
<1>2. /\ \A i \in 1..Len(q) : Append(q, e)[i] = q[i]
      /\ Append(q, e)[Len(q) + 1] = e
  BY AppendProperties
<1>3. ASSUME NEW x \in Elems(Append(q, e)) PROVE x \in Elems(q) \cup {e}
  <2>1. PICK i \in 1..Len(q) + 1 : x = Append(q, e)[i]
    BY <1>1 DEF Elems
  <2> QED BY <2>1, <1>1, <1>2 DEF Elems
<1>4. ASSUME NEW x \in Elems(q) PROVE x \in Elems(Append(q, e))
  <2>1. PICK i \in 1..Len(q) : x = q[i]
    BY <1>1 DEF Elems
  <2>2. i \in 1..Len(q) + 1
    BY <1>1
  <2> QED BY <2>1, <2>2, <1>1, <1>2 DEF Elems
<1>5. e \in Elems(Append(q, e))
  <2>1. Len(q) + 1 \in DOMAIN Append(q, e)
    BY <1>1
  <2> QED BY <2>1, <1>2 DEF Elems
<1> QED BY <1>3, <1>4, <1>5

LEMMA ElemsTail ==
  ASSUME NEW S, NEW q \in Seq(S), q # <<>>
  PROVE  Elems(q) = {Head(q)} \cup Elems(Tail(q))
<1>1. /\ Len(q) \in Nat \ {0} /\ DOMAIN q = 1..Len(q) /\ Head(q) = q[1]
      /\ DOMAIN Tail(q) = 1..Len(q) - 1
      /\ \A i \in 1..Len(q) - 1 : Tail(q)[i] = q[i + 1]
  BY EmptySeq, LenProperties, HeadTailProperties
<1>2. ASSUME NEW x \in Elems(q) PROVE x \in {Head(q)} \cup Elems(Tail(q))
  <2>1. PICK i \in 1..Len(q) : x = q[i]
    BY <1>1 DEF Elems
  <2>2. CASE i = 1
    BY <2>1, <2>2, <1>1
  <2>3. CASE i # 1
    <3>1. i - 1 \in 1..Len(q) - 1 /\ Tail(q)[i - 1] = q[i - 1 + 1]
      BY <2>3, <1>1
    <3>2. i - 1 + 1 = i
      BY <1>1
    <3> QED BY <3>1, <3>2, <2>1, <1>1 DEF Elems
  <2> QED BY <2>2, <2>3
<1>3. ASSUME NEW x \in Elems(Tail(q)) PROVE x \in Elems(q)
  <2>1. PICK i \in 1..Len(q) - 1 : x = Tail(q)[i]
    BY <1>1 DEF Elems
  <2>2. i + 1 \in 1..Len(q) /\ x = q[i + 1]
    BY <2>1, <1>1
  <2> QED BY <2>2, <1>1 DEF Elems
<1>4. Head(q) \in Elems(q)
  <2>1. 1 \in DOMAIN q
    BY <1>1
  <2> QED BY <2>1, <1>1 DEF Elems
<1> QED BY <1>2, <1>3, <1>4

-------------------------------------------------------------------------------
(* How often a sequence holds an item.                                       *)

LEMMA OccFinite ==
  ASSUME NEW S, NEW q \in Seq(S), NEW x
  PROVE  /\ IsFiniteSet({i \in DOMAIN q : q[i] = x})
         /\ Occurrences(x, q) \in Nat
         /\ Occurrences(x, q) = 0 <=> x \notin Elems(q)
<1>1. Len(q) \in Nat /\ DOMAIN q = 1..Len(q)
  BY LenProperties
<1>2. IsFiniteSet(DOMAIN q)
  BY <1>1, FS_Interval
<1>3. IsFiniteSet({i \in DOMAIN q : q[i] = x})
  BY <1>2, FS_Subset
<1>4. Occurrences(x, q) \in Nat
  BY <1>3, FS_CardinalityType DEF Occurrences
<1>5. Occurrences(x, q) = 0 <=> {i \in DOMAIN q : q[i] = x} = {}
  BY <1>3, FS_EmptySet DEF Occurrences
<1> QED BY <1>3, <1>4, <1>5 DEF Elems

LEMMA OccAppend ==
  ASSUME NEW S, NEW q \in Seq(S), NEW e \in S, NEW x
  PROVE  Occurrences(x, Append(q, e)) = Occurrences(x, q) + IF x = e THEN 1 ELSE 0
<1> DEFINE At == {i \in DOMAIN q : q[i] = x}
           AtA == {i \in DOMAIN Append(q, e) : Append(q, e)[i] = x}
<1>1. /\ Len(q) \in Nat /\ DOMAIN q = 1..Len(q)
      /\ DOMAIN Append(q, e) = 1..Len(q) + 1
  BY LenProperties, AppendProperties
<1>2. /\ \A i \in 1..Len(q) : Append(q, e)[i] = q[i]
      /\ Append(q, e)[Len(q) + 1] = e
  BY AppendProperties
<1>3. IsFiniteSet(At) /\ Cardinality(At) = Occurrences(x, q)
      /\ Occurrences(x, q) \in Nat
  BY OccFinite DEF Occurrences
<1>4. CASE x = e
  <2>1. AtA = At \cup {Len(q) + 1}
    BY <1>1, <1>2, <1>4
  <2>2. Len(q) + 1 \notin At
    BY <1>1
  <2>3. Cardinality(AtA) = Cardinality(At) + 1
    BY <2>1, <2>2, <1>3, FS_AddElement
  <2> QED BY <2>3, <1>3, <1>4 DEF Occurrences
<1>5. CASE x # e
  <2>1. AtA = At
    BY <1>1, <1>2, <1>5
  <2>2. Occurrences(x, Append(q, e)) = Occurrences(x, q)
    BY <2>1 DEF Occurrences
  <2> QED BY <2>2, <1>3, <1>5
<1> QED BY <1>4, <1>5

LEMMA OccTail ==
  ASSUME NEW S, NEW q \in Seq(S), q # <<>>, NEW x
  PROVE  Occurrences(x, q) =
           Occurrences(x, Tail(q)) + IF x = Head(q) THEN 1 ELSE 0
<1> DEFINE At == {i \in DOMAIN q : q[i] = x}
           AtT == {i \in DOMAIN Tail(q) : Tail(q)[i] = x}
           Moved == [i \in AtT |-> i + 1]
<1>1. /\ Len(q) \in Nat \ {0} /\ DOMAIN q = 1..Len(q) /\ Head(q) = q[1]
      /\ Tail(q) \in Seq(S)
      /\ DOMAIN Tail(q) = 1..Len(q) - 1
      /\ \A i \in 1..Len(q) - 1 : Tail(q)[i] = q[i + 1]
  BY EmptySeq, LenProperties, HeadTailProperties
<1>2. IsFiniteSet(At) /\ Cardinality(At) = Occurrences(x, q)
  BY OccFinite DEF Occurrences
<1>3. /\ IsFiniteSet(AtT) /\ Cardinality(AtT) = Occurrences(x, Tail(q))
      /\ Occurrences(x, Tail(q)) \in Nat
  BY <1>1, OccFinite DEF Occurrences
<1>4. Moved \in Bijection(AtT, At \ {1})
  <2>1. \A i \in AtT : i + 1 \in At \ {1}
    BY <1>1
  <2>2. \A j \in At \ {1} : j - 1 \in AtT /\ j - 1 + 1 = j
    BY <1>1
  <2>3. \A i, j \in AtT : i + 1 = j + 1 => i = j
    BY <1>1
  <2> QED BY <2>1, <2>2, <2>3, Zenon
      DEF Bijection, Injection, Surjection, IsInjective
<1>5. Cardinality(At \ {1}) = Cardinality(AtT)
  BY <1>3, <1>4, FS_Bijection, Zenon DEF ExistsBijection
<1>6. 1 \in At <=> x = Head(q)
  BY <1>1
<1>7. Cardinality(At \ {1}) =
        IF 1 \in At THEN Cardinality(At) - 1 ELSE Cardinality(At)
  BY <1>2, FS_RemoveElement
<1>8. Cardinality(At) \in Nat
  BY <1>2, FS_CardinalityType
<1> HIDE DEF At, AtT, Moved
<1> QED BY <1>2, <1>3, <1>5, <1>6, <1>7, <1>8

\* More than once is at two places, and nowhere else.
LEMMA OccTwice ==
  ASSUME NEW S, NEW q \in Seq(S), NEW x
  PROVE  Occurrences(x, q) > 1 <=>
           \E i, j \in DOMAIN q : i # j /\ q[i] = x /\ q[j] = x
<1> DEFINE At == {i \in DOMAIN q : q[i] = x}
<1>1. IsFiniteSet(At) /\ Occurrences(x, q) = Cardinality(At)
      /\ Cardinality(At) \in Nat
  BY OccFinite DEF Occurrences
<1>2. (\E i, j \in DOMAIN q : i # j /\ q[i] = x /\ q[j] = x)
        <=> \E i, j \in At : i # j
  OBVIOUS
<1> HIDE DEF At
<1>3. ASSUME NEW i \in At, NEW j \in At, i # j PROVE Cardinality(At) > 1
  <2>1. At # {} /\ ~\E y : At = {y}
    BY <1>3
  <2>2. Cardinality(At) # 0 /\ Cardinality(At) # 1
    BY <1>1, <2>1, FS_EmptySet, FS_Singleton
  <2> QED BY <1>1, <2>2
<1>4. ASSUME ~\E i, j \in At : i # j PROVE ~(Cardinality(At) > 1)
  <2>1. At = {} \/ \E y : At = {y}
    <3>1. ASSUME NEW y \in At PROVE At = {y}
      BY <1>4, <3>1
    <3> QED BY <3>1
  <2>2. Cardinality(At) = 0 \/ Cardinality(At) = 1
    BY <1>1, <2>1, FS_EmptySet, FS_Singleton
  <2> QED BY <2>2
<1>5. (\E i, j \in At : i # j) <=> Cardinality(At) > 1
  BY <1>3, <1>4
<1> QED BY <1>1, <1>2, <1>5

-------------------------------------------------------------------------------
(* The invariant.                                                            *)

Requests == {r \in [payload : Payloads, left : Seq(Items), id : 0..MaxFaults] :
               Elems(r.left) \subseteq Elems(ItemsOf[r.payload])}

Types ==
  /\ posted \in Seq(Payloads) /\ refused \subseteq Payloads
  /\ proxyQueue \in Seq(Payloads) /\ Len(proxyQueue) <= ProxyCap
  /\ item \in Payloads \cup {NoPayload} /\ done \subseteq Payloads
  /\ request \subseteq Requests /\ stale \subseteq Requests
  /\ \A r, q \in request : r = q
  /\ queue \in [Signals -> Seq(Items)] /\ batch \in [Signals -> Seq(Items)]
  /\ \A s \in Signals : /\ Elems(queue[s]) \cup Elems(batch[s]) \subseteq ItemsOn(s)
                        /\ Len(queue[s]) <= ServerCap /\ Len(batch[s]) <= BatchSize
  /\ inserting \subseteq Signals
  /\ rows \in [Items -> 0..CountCap] /\ offered \in [Items -> 0..CountCap]
  /\ faults \in 0..MaxFaults

\* The payloads that stand before place k of the queue of the proxy.
AheadOf(k) == {proxyQueue[h] : h \in 1..k - 1}

\* Nothing passes what was posted before it; everything posted is somewhere.
FirstInFirstOut ==
  /\ done \cup Elems(proxyQueue) \cup ({item} \ {NoPayload}) \subseteq Elems(posted)
  /\ Elems(posted) \subseteq refused \cup done \cup {item} \cup Elems(proxyQueue)
  /\ \A i, j \in DOMAIN posted : i < j =>
       /\ posted[i] # posted[j]
       /\ posted[j] \in done => posted[i] \in done \cup refused
       /\ posted[j] = item => posted[i] \in done \cup refused
       /\ \A k \in DOMAIN proxyQueue :
            posted[j] = proxyQueue[k] =>
              posted[i] \in done \cup refused \cup {item} \cup AheadOf(k)

Offered(i) == offered[i] > 0 \/ i \in overflow

\* The request is for the payload the worker is at; what it need not offer any
\* more was offered, and so was all of the payloads that are done.
Handed ==
  /\ \A r \in request :
       /\ r.payload = item
       /\ \A i \in Elems(ItemsOf[item]) : i \in Elems(r.left) \/ Offered(i)
  /\ \A p \in done : \A i \in Elems(ItemsOf[p]) : Offered(i)

\* Where an item that was offered is.
Kept ==
  \A s \in Signals : \A i \in ItemsOn(s) :
    offered[i] > 0 => rows[i] > 0 \/ i \in InFlight(s) \cup spoilt \cup gone

\* Counters stop at CountCap, and so does what is said about them.
Counted ==
  \A s \in Signals : \A i \in ItemsOn(s) :
    offered[i] < CountCap =>
      rows[i] + Occurrences(i, batch[s]) + Occurrences(i, queue[s]) <= offered[i]

Inv == Types /\ FirstInFirstOut /\ Handed /\ Kept /\ Counted /\ ResendsExplained

LEMMA ItemFacts ==
  /\ CountCap \in Nat /\ CountCap >= 2
  /\ \A s \in Signals : ItemsOn(s) \subseteq Items
  /\ \A p \in Payloads : /\ SignalOf[p] \in Signals
                         /\ Elems(ItemsOf[p]) \subseteq ItemsOn(SignalOf[p])
  /\ \A s, t \in Signals : \A i \in ItemsOn(s) : i \in ItemsOn(t) => s = t
<1> USE OtlpAssumption
<1>1. CountCap \in Nat /\ CountCap >= 2
  BY DEF CountCap
<1>2. \A s \in Signals : ItemsOn(s) \subseteq Items
  BY DEF ItemsOn, Items
<1>3. ASSUME NEW p \in Payloads
      PROVE  SignalOf[p] \in Signals /\ Elems(ItemsOf[p]) \subseteq ItemsOn(SignalOf[p])
  BY DEF ItemsOn
<1>4. ASSUME NEW s \in Signals, NEW t \in Signals, NEW i \in ItemsOn(s), i \in ItemsOn(t)
      PROVE  s = t
  <2>1. PICK p \in Payloads : SignalOf[p] = s /\ i \in Elems(ItemsOf[p])
    BY DEF ItemsOn
  <2>2. PICK q \in Payloads : SignalOf[q] = t /\ i \in Elems(ItemsOf[q])
    BY <1>4 DEF ItemsOn
  <2>3. p = q
    BY <2>1, <2>2
  <2> QED BY <2>1, <2>2, <2>3
<1> QED BY <1>1, <1>2, <1>3, <1>4

LEMMA CountType ==
  ASSUME NEW n \in 0..CountCap
  PROVE  /\ Count(n) \in 1..CountCap /\ Count(n) >= n
         /\ Count(n) < CountCap => Count(n) = n + 1
BY ItemFacts DEF Count

LEMMA InitInv == Init => Inv
<1> SUFFICES ASSUME Init PROVE Inv
  OBVIOUS
<1> USE OtlpAssumption, ItemFacts, ElemsEmpty DEF Init
<1>1. \A S : <<>> \in Seq(S) /\ Len(<<>>) = 0 /\ DOMAIN <<>> = {}
  BY EmptySeq, LenProperties
<1>2. Types
  BY <1>1 DEF Types
<1>3. FirstInFirstOut
  BY <1>1 DEF FirstInFirstOut
<1>4. Handed /\ Kept
  BY DEF Handed, Kept
<1>5. \A x : Occurrences(x, <<>>) = 0
  <2>1. \A x : {i \in DOMAIN <<>> : <<>>[i] = x} = {}
    BY <1>1
  <2> QED BY <2>1, FS_EmptySet DEF Occurrences
<1>6. Counted
  BY <1>5 DEF Counted
<1>7. ResendsExplained
  BY DEF ResendsExplained
<1> QED BY <1>2, <1>3, <1>4, <1>6, <1>7 DEF Inv

-------------------------------------------------------------------------------
(* The steps of the proxy.                                                   *)

LEMMA FifoQuiet ==
  ASSUME FirstInFirstOut, UNCHANGED proxyVars
  PROVE  FirstInFirstOut'
BY DEF FirstInFirstOut, proxyVars, AheadOf

\* What is in the server does not change.
LEMMA StoreQuiet ==
  ASSUME Kept, Counted, ResendsExplained, UNCHANGED <<queue, storeVars, offered>>
  PROVE  Kept' /\ Counted' /\ ResendsExplained'
BY DEF Kept, Counted, ResendsExplained, InFlight, storeVars

LEMMA PostInv ==
  ASSUME Inv, NEW p \in Payloads, Post(p)
  PROVE  Inv'
<1>9. Types /\ FirstInFirstOut /\ Handed /\ Kept /\ Counted /\ ResendsExplained
  BY DEF Inv
<1>0. /\ posted \in Seq(Payloads) /\ proxyQueue \in Seq(Payloads)
      /\ p \notin Elems(posted) /\ posted' = Append(posted, p)
      /\ item' = item /\ done' = done
      /\ UNCHANGED <<request, stale, queue, storeVars, faults, offered, overflow>>
  BY <1>9 DEF Types, Post
<1>1. /\ Len(posted) \in Nat /\ DOMAIN posted = 1..Len(posted)
      /\ DOMAIN posted' = 1..Len(posted) + 1
      /\ posted' \in Seq(Payloads)
      /\ \A i \in 1..Len(posted) : posted'[i] = posted[i]
      /\ posted'[Len(posted) + 1] = p
  BY <1>0, AppendProperties, LenProperties
<1>2. Elems(posted') = Elems(posted) \cup {p}
  BY <1>0, ElemsAppend
<1>3. \/ /\ Len(proxyQueue) < ProxyCap
         /\ proxyQueue' = Append(proxyQueue, p) /\ refused' = refused
      \/ refused' = refused \cup {p} /\ proxyQueue' = proxyQueue
  BY DEF Post
<1>4. /\ Len(proxyQueue) \in Nat /\ DOMAIN proxyQueue = 1..Len(proxyQueue)
      /\ Len(Append(proxyQueue, p)) = Len(proxyQueue) + 1
      /\ Append(proxyQueue, p) \in Seq(Payloads)
      /\ DOMAIN Append(proxyQueue, p) = 1..Len(proxyQueue) + 1
      /\ \A k \in 1..Len(proxyQueue) : Append(proxyQueue, p)[k] = proxyQueue[k]
      /\ Append(proxyQueue, p)[Len(proxyQueue) + 1] = p
      /\ Elems(Append(proxyQueue, p)) = Elems(proxyQueue) \cup {p}
  BY <1>0, AppendProperties, LenProperties, ElemsAppend
<1>5. Types'
  <2>1. /\ proxyQueue' \in Seq(Payloads) /\ Len(proxyQueue') <= ProxyCap
        /\ refused' \subseteq Payloads
    <3>1. ProxyCap \in Nat /\ Len(proxyQueue) <= ProxyCap /\ refused \subseteq Payloads
      BY <1>9, OtlpAssumption DEF Types
    <3>2. CASE Len(proxyQueue) < ProxyCap /\ proxyQueue' = Append(proxyQueue, p)
                /\ refused' = refused
      <4>1. Len(proxyQueue') <= ProxyCap
        BY <3>1, <3>2, <1>4
      <4> QED BY <4>1, <3>1, <3>2, <1>4
    <3>3. CASE refused' = refused \cup {p} /\ proxyQueue' = proxyQueue
      BY <3>1, <3>3, <1>0
    <3> QED BY <3>2, <3>3, <1>3
  <2> QED BY <2>1, <1>0, <1>1, <1>9 DEF Types, storeVars
<1>6. FirstInFirstOut'
  <2>1. /\ (done \cup Elems(proxyQueue) \cup ({item} \ {NoPayload}) \subseteq Elems(posted))'
        /\ (Elems(posted) \subseteq refused \cup done \cup {item} \cup Elems(proxyQueue))'
    BY <1>0, <1>2, <1>3, <1>4, <1>9 DEF FirstInFirstOut
  <2>2. ASSUME NEW i \in DOMAIN posted', NEW j \in DOMAIN posted', i < j
        PROVE  /\ posted'[i] # posted'[j]
               /\ posted'[j] \in done' => posted'[i] \in done' \cup refused'
               /\ posted'[j] = item' => posted'[i] \in done' \cup refused'
               /\ \A k \in DOMAIN proxyQueue' :
                    posted'[j] = proxyQueue'[k] =>
                      posted'[i] \in done' \cup refused' \cup {item'} \cup AheadOf(k)'
    <3>1. i \in DOMAIN posted /\ posted'[i] = posted[i] /\ posted[i] \in Elems(posted)
      BY <2>2, <1>1 DEF Elems
    <3>2. ASSUME NEW k \in DOMAIN proxyQueue
          PROVE  AheadOf(k)' = AheadOf(k)
      <4>1. \A h \in 1..k - 1 : proxyQueue'[h] = proxyQueue[h]
        BY <1>3, <1>4
      <4> QED BY <4>1 DEF AheadOf
    <3>3. CASE j \in DOMAIN posted
      <4>1. posted'[j] = posted[j] /\ posted[j] \in Elems(posted)
        BY <3>3, <1>1 DEF Elems
      <4>2. ASSUME NEW k \in DOMAIN proxyQueue', posted'[j] = proxyQueue'[k]
            PROVE  posted'[i] \in done' \cup refused' \cup {item'} \cup AheadOf(k)'
        <5>1. k \in DOMAIN proxyQueue /\ proxyQueue'[k] = proxyQueue[k]
          BY <4>1, <4>2, <1>0, <1>3, <1>4
        <5>2. posted[i] \in done \cup refused \cup {item} \cup AheadOf(k)
          BY <5>1, <4>1, <4>2, <3>1, <3>3, <2>2, <1>9 DEF FirstInFirstOut
        <5> QED BY <5>1, <5>2, <3>1, <3>2, <4>2, <1>0, <1>3
      <4>3. /\ posted[i] # posted[j]
            /\ posted[j] \in done => posted[i] \in done \cup refused
            /\ posted[j] = item => posted[i] \in done \cup refused
        BY <3>1, <3>3, <2>2, <1>9 DEF FirstInFirstOut
      <4> QED BY <4>1, <4>2, <4>3, <3>1, <1>0, <1>3
    <3>4. CASE j \notin DOMAIN posted
      <4>1. posted'[j] = p
        BY <3>4, <1>1
      <4>2. p \notin done /\ (p # item)
        BY <1>0, OtlpAssumption, <1>9 DEF FirstInFirstOut
      <4>3. ASSUME NEW k \in DOMAIN proxyQueue', p = proxyQueue'[k]
            PROVE  posted'[i] \in done' \cup refused' \cup {item'} \cup AheadOf(k)'
        <5>1. \A l \in 1..Len(proxyQueue) : proxyQueue[l] \in Elems(posted)
          BY <1>4, <1>9 DEF FirstInFirstOut, Elems
        <5>2. /\ k = Len(proxyQueue) + 1 /\ proxyQueue' = Append(proxyQueue, p)
              /\ refused' = refused
          BY <4>3, <5>1, <1>0, <1>3, <1>4
        <5>3. AheadOf(k)' = Elems(proxyQueue)
          <6>1. k - 1 = Len(proxyQueue)
            BY <5>2, <1>4
          <6>2. AheadOf(k)' = {proxyQueue'[h] : h \in 1..Len(proxyQueue)}
            BY <6>1 DEF AheadOf
          <6> QED BY <6>2, <5>2, <1>4 DEF Elems
        <5>4. posted[i] \in refused \cup done \cup {item} \cup Elems(proxyQueue)
          BY <3>1, <1>9 DEF FirstInFirstOut
        <5> QED BY <5>2, <5>3, <5>4, <3>1, <1>0
      <4> QED BY <4>1, <4>2, <4>3, <3>1, <1>0
    <3> QED BY <3>3, <3>4
  <2> QED BY <2>1, <2>2, <1>9 DEF FirstInFirstOut
<1>7. Handed'
  BY <1>0, <1>9 DEF Handed, Offered
<1> QED BY <1>0, <1>5, <1>6, <1>7, <1>9, StoreQuiet DEF Inv

LEMMA NextItemInv ==
  ASSUME Inv, NextItem
  PROVE  Inv'
<1>9. Types /\ FirstInFirstOut /\ Handed /\ Kept /\ Counted /\ ResendsExplained
  BY DEF Inv
<1>0. /\ proxyQueue \in Seq(Payloads) /\ proxyQueue # <<>> /\ item = NoPayload
      /\ item' = Head(proxyQueue) /\ proxyQueue' = Tail(proxyQueue)
      /\ posted' = posted /\ refused' = refused /\ done' = done
      /\ \A i \in DOMAIN posted : posted[i] \in Payloads
      /\ UNCHANGED <<request, stale, queue, storeVars, faults, offered, overflow>>
  BY <1>9, LenProperties, ElementOfSeq DEF Types, NextItem
<1>1. /\ Len(proxyQueue) \in Nat \ {0} /\ DOMAIN proxyQueue = 1..Len(proxyQueue)
      /\ Head(proxyQueue) = proxyQueue[1] /\ Head(proxyQueue) \in Payloads
      /\ Tail(proxyQueue) \in Seq(Payloads)
      /\ Len(Tail(proxyQueue)) = Len(proxyQueue) - 1
      /\ DOMAIN Tail(proxyQueue) = 1..Len(proxyQueue) - 1
      /\ \A k \in 1..Len(proxyQueue) - 1 : Tail(proxyQueue)[k] = proxyQueue[k + 1]
      /\ Elems(proxyQueue) = {Head(proxyQueue)} \cup Elems(Tail(proxyQueue))
  BY <1>0, EmptySeq, LenProperties, HeadTailProperties, ElemsTail
<1>2. Types'
  <2>1. Len(proxyQueue') <= ProxyCap
    BY <1>0, <1>1, <1>9, OtlpAssumption DEF Types
  <2> QED BY <2>1, <1>0, <1>1, <1>9 DEF Types, storeVars
<1>3. FirstInFirstOut'
  <2>1. /\ (done \cup Elems(proxyQueue) \cup ({item} \ {NoPayload}) \subseteq Elems(posted))'
        /\ (Elems(posted) \subseteq refused \cup done \cup {item} \cup Elems(proxyQueue))'
    <3>1. NoPayload \notin Elems(posted)
      BY <1>0, OtlpAssumption DEF Elems
    <3> QED BY <3>1, <1>0, <1>1, <1>9 DEF FirstInFirstOut
  <2>2. ASSUME NEW i \in DOMAIN posted, NEW j \in DOMAIN posted, i < j
        PROVE  /\ posted[i] # posted[j]
               /\ posted[j] \in done => posted[i] \in done \cup refused
               /\ posted[j] = item' => posted[i] \in done \cup refused
               /\ \A k \in DOMAIN proxyQueue' :
                    posted[j] = proxyQueue'[k] =>
                      posted[i] \in done \cup refused \cup {item'} \cup AheadOf(k)'
    <3>1. posted[i] # NoPayload
      BY <1>0, OtlpAssumption
    <3>2. posted[j] = proxyQueue[1] => posted[i] \in done \cup refused
      <4>1. 1 \in DOMAIN proxyQueue /\ AheadOf(1) = {}
        BY <1>1 DEF AheadOf
      <4> QED BY <4>1, <3>1, <2>2, <1>0, <1>9 DEF FirstInFirstOut
    <3>3. ASSUME NEW k \in DOMAIN proxyQueue', posted[j] = proxyQueue'[k]
          PROVE  posted[i] \in done \cup refused \cup {item'} \cup AheadOf(k)'
      <4>1. k + 1 \in DOMAIN proxyQueue /\ proxyQueue'[k] = proxyQueue[k + 1]
            /\ k \in 1..Len(proxyQueue) - 1
        BY <1>0, <1>1
      <4>2. posted[i] \in done \cup refused \cup {item} \cup AheadOf(k + 1)
        BY <4>1, <3>3, <2>2, <1>9 DEF FirstInFirstOut
      <4>3. ASSUME NEW h \in 1..(k + 1) - 1
            PROVE  proxyQueue[h] \in {item'} \cup AheadOf(k)'
        <5>1. CASE h = 1
          BY <5>1, <1>0, <1>1
        <5>2. CASE h # 1
          <6>1. h - 1 \in 1..k - 1 /\ h - 1 \in 1..Len(proxyQueue) - 1 /\ h - 1 + 1 = h
            BY <5>2, <4>1, <4>3, <1>1
          <6>2. proxyQueue[h] = proxyQueue'[h - 1]
            BY <6>1, <1>0, <1>1
          <6> QED BY <6>1, <6>2 DEF AheadOf
        <5> QED BY <5>1, <5>2
      <4> QED BY <4>2, <4>3, <3>1, <1>0 DEF AheadOf
    <3> QED BY <3>2, <3>3, <2>2, <1>0, <1>1, <1>9 DEF FirstInFirstOut
  <2> QED BY <2>1, <2>2, <1>0, <1>9 DEF FirstInFirstOut
<1>4. Handed'
  <2>1. request = {}
    BY <1>0, OtlpAssumption, <1>9 DEF Handed, Types, Requests
  <2> QED BY <2>1, <1>0, <1>9 DEF Handed, Offered
<1> QED BY <1>0, <1>2, <1>3, <1>4, <1>9, StoreQuiet DEF Inv

LEMMA SendInv ==
  ASSUME Inv, Send
  PROVE  Inv'
<1>9. Types /\ FirstInFirstOut /\ Handed /\ Kept /\ Counted /\ ResendsExplained
  BY DEF Inv
<1>1. /\ item \in Payloads
      /\ request' = {[payload |-> item, left |-> ItemsOf[item], id |-> faults]}
      /\ UNCHANGED <<proxyVars, stale, queue, storeVars, faults, offered, overflow>>
  BY <1>9 DEF Send, Types
<1>2. request' \subseteq Requests
  BY <1>1, <1>9, OtlpAssumption DEF Requests, Types
<1>3. Types'
  BY <1>1, <1>2, <1>9 DEF Types, proxyVars, storeVars
<1>4. Handed'
  BY <1>1, <1>9 DEF Handed, Offered, proxyVars
<1>5. FirstInFirstOut'
  BY <1>1, <1>9, FifoQuiet
<1> QED BY <1>1, <1>3, <1>4, <1>5, <1>9, StoreQuiet DEF Inv

LEMMA AnswerInv ==
  ASSUME Inv, Answer
  PROVE  Inv'
<1>9. Types /\ FirstInFirstOut /\ Handed /\ Kept /\ Counted /\ ResendsExplained
  BY DEF Inv
<1>0. PICK r \in request :
        /\ r.left = <<>>
        /\ IF r.payload \in Poison
           THEN UNCHANGED <<done, item>>
           ELSE done' = done \cup {item} /\ item' = NoPayload
        /\ request' = {}
        /\ UNCHANGED <<posted, refused, proxyQueue, stale, queue, storeVars, faults,
                       offered, overflow>>
  BY DEF Answer
<1>1. r.payload = item /\ item \in Payloads /\ \A i \in Elems(ItemsOf[item]) : Offered(i)
  <2>1. r \in Requests
    BY <1>9 DEF Types
  <2> QED BY <2>1, <1>0, <1>9, ElemsEmpty DEF Handed, Requests
<1>2. Types'
  BY <1>0, <1>1, <1>9 DEF Types, storeVars
<1>3. Handed'
  <2>1. \A p \in done' : p \in done \/ p = item
    BY <1>0
  <2>2. \A i : Offered(i)' <=> Offered(i)
    BY <1>0 DEF Offered
  <2> QED BY <2>1, <2>2, <1>0, <1>1, <1>9 DEF Handed
<1>4. FirstInFirstOut'
  <2>1. CASE r.payload \in Poison
    BY <2>1, <1>0, <1>9, FifoQuiet DEF proxyVars
  <2>2. CASE r.payload \notin Poison
    <3>1. done' = done \cup {item} /\ item' = NoPayload
      BY <2>2, <1>0
    <3>2. posted' = posted /\ refused' = refused /\ proxyQueue' = proxyQueue
      BY <1>0
    <3>3. NoPayload # item /\ \A j \in DOMAIN posted : posted[j] # NoPayload
      BY <1>1, <1>9, OtlpAssumption, LenProperties, ElementOfSeq DEF Types
    <3>4. /\ (done \cup Elems(proxyQueue) \cup ({item} \ {NoPayload}) \subseteq Elems(posted))'
          /\ (Elems(posted) \subseteq refused \cup done \cup {item} \cup Elems(proxyQueue))'
      BY <3>1, <3>2, <3>3, <1>9 DEF FirstInFirstOut
    <3>5. ASSUME NEW i \in DOMAIN posted, NEW j \in DOMAIN posted, i < j
          PROVE  /\ posted[i] # posted[j]
                 /\ posted[j] \in done' => posted[i] \in done' \cup refused
                 /\ posted[j] = item' => posted[i] \in done' \cup refused
                 /\ \A k \in DOMAIN proxyQueue :
                      posted[j] = proxyQueue[k] =>
                        posted[i] \in done' \cup refused \cup {item'} \cup AheadOf(k)'
      <4>1. \A k : AheadOf(k)' = AheadOf(k)
        BY <3>2 DEF AheadOf
      <4> QED BY <4>1, <3>1, <3>3, <3>5, <1>9 DEF FirstInFirstOut
    <3> QED BY <3>2, <3>4, <3>5 DEF FirstInFirstOut
  <2> QED BY <2>1, <2>2
<1> QED BY <1>0, <1>2, <1>3, <1>4, <1>9, StoreQuiet DEF Inv

LEMMA TimeoutInv ==
  ASSUME Inv, Timeout
  PROVE  Inv'
<1>9. Types /\ FirstInFirstOut /\ Handed /\ Kept /\ Counted /\ ResendsExplained
  BY DEF Inv
<1>1. PICK r \in request :
        /\ faults < MaxFaults
        /\ faults' = faults + 1
        /\ request' = {}
        /\ stale' \in {stale, stale \cup {r}}
        /\ UNCHANGED <<proxyVars, queue, storeVars, offered, overflow>>
  BY DEF Timeout
<1>2. faults' \in 0..MaxFaults /\ stale' \subseteq Requests
  BY <1>1, <1>9, OtlpAssumption DEF Types
<1>3. Types'
  BY <1>1, <1>2, <1>9 DEF Types, proxyVars, storeVars
<1>4. Handed'
  BY <1>1, <1>9 DEF Handed, Offered, proxyVars
<1>5. FirstInFirstOut'
  BY <1>1, <1>9, FifoQuiet
<1> QED BY <1>1, <1>3, <1>4, <1>5, <1>9, StoreQuiet DEF Inv

-------------------------------------------------------------------------------
(* The steps of the server.                                                  *)

LEMMA OfferInv ==
  ASSUME Inv, NEW r \in request \cup stale, Offer(r)
  PROVE  Inv'
<1>9. Types /\ FirstInFirstOut /\ Handed /\ Kept /\ Counted /\ ResendsExplained
  BY DEF Inv
<1> DEFINE s == SignalOf[r.payload]
           i == Head(r.left)
           rest == [r EXCEPT !.left = Tail(@)]
<1>0. /\ r.left # <<>>
      /\ QueueOrDrop(s, i)
      /\ IF r \in request
         THEN request' = {rest} /\ UNCHANGED stale
         ELSE /\ stale' = (stale \ {r}) \cup (IF rest.left = <<>> THEN {} ELSE {rest})
              /\ UNCHANGED request
      /\ UNCHANGED <<proxyVars, storeVars, faults>>
  BY DEF Offer
<1>1. /\ r \in Requests /\ r.payload \in Payloads /\ r.left \in Seq(Items)
      /\ Elems(r.left) \subseteq Elems(ItemsOf[r.payload])
  BY <1>9 DEF Types, Requests
<1>2. /\ i \in Items /\ Tail(r.left) \in Seq(Items)
      /\ Elems(r.left) = {i} \cup Elems(Tail(r.left))
  BY <1>0, <1>1, HeadTailProperties, ElemsTail
<1>3. s \in Signals /\ i \in ItemsOn(s)
  BY <1>1, <1>2, ItemFacts
<1>4. /\ rest \in Requests /\ rest.payload = r.payload
      /\ rest.left = Tail(r.left)
  BY <1>1, <1>2 DEF Requests
<1> HIDE DEF s, i, rest
<1>5. \/ /\ Len(queue[s]) < ServerCap
         /\ queue' = [queue EXCEPT ![s] = Append(queue[s], i)]
         /\ offered' = [offered EXCEPT ![i] = Count(offered[i])]
         /\ overflow' = overflow
      \/ overflow' = overflow \cup {i} /\ UNCHANGED <<queue, offered>>
  BY <1>0 DEF QueueOrDrop
<1>6. /\ queue[s] \in Seq(Items) /\ offered[i] \in 0..CountCap
      /\ Len(queue[s]) \in Nat
      /\ Append(queue[s], i) \in Seq(Items)
      /\ Len(Append(queue[s], i)) = Len(queue[s]) + 1
      /\ Elems(Append(queue[s], i)) = Elems(queue[s]) \cup {i}
  BY <1>2, <1>3, <1>9, LenProperties, AppendProperties, ElemsAppend DEF Types
<1>7. /\ Count(offered[i]) \in 1..CountCap /\ Count(offered[i]) >= offered[i]
      /\ offered[i] < CountCap => Count(offered[i]) = offered[i] + 1
      /\ Count(offered[i]) < CountCap => offered[i] < CountCap
  BY <1>6, CountType, ItemFacts DEF Count
<1>16. /\ queue' \in [Signals -> Seq(Items)] /\ offered' \in [Items -> 0..CountCap]
       /\ \/ /\ Len(queue[s]) < ServerCap /\ overflow' = overflow
             /\ \A t \in Signals : queue'[t] = IF t = s THEN Append(queue[s], i) ELSE queue[t]
             /\ \A j \in Items : offered'[j] = IF j = i THEN Count(offered[i]) ELSE offered[j]
          \/ /\ overflow' = overflow \cup {i}
             /\ UNCHANGED <<queue, offered>>
  <2>1. queue \in [Signals -> Seq(Items)] /\ offered \in [Items -> 0..CountCap]
    BY <1>9 DEF Types
  <2>2. CASE /\ Len(queue[s]) < ServerCap /\ overflow' = overflow
             /\ queue' = [queue EXCEPT ![s] = Append(queue[s], i)]
             /\ offered' = [offered EXCEPT ![i] = Count(offered[i])]
    <3>1. queue' \in [Signals -> Seq(Items)]
      BY <2>1, <2>2, <1>3, <1>6
    <3>2. Count(offered[i]) \in 0..CountCap
      BY <1>7, ItemFacts
    <3>3. offered' \in [Items -> 0..CountCap]
      BY <2>1, <2>2, <3>2
    <3> QED BY <2>1, <2>2, <3>1, <3>3
  <2>3. CASE overflow' = overflow \cup {i} /\ UNCHANGED <<queue, offered>>
    BY <2>1, <2>3
  <2> QED BY <2>2, <2>3, <1>5
<1>8. Types'
  <2>1. request' \subseteq Requests /\ stale' \subseteq Requests /\ \A p, q \in request' : p = q
    BY <1>0, <1>4, <1>9 DEF Types
  <2>2. queue' \in [Signals -> Seq(Items)] /\ offered' \in [Items -> 0..CountCap]
    BY <1>16
  <2>3. ASSUME NEW t \in Signals
        PROVE  Elems(queue'[t]) \subseteq ItemsOn(t) /\ Len(queue'[t]) <= ServerCap
    <3>1. ServerCap \in Nat /\ queue \in [Signals -> Seq(Items)]
      BY <1>9, OtlpAssumption DEF Types
    <3>2. Elems(queue[t]) \subseteq ItemsOn(t) /\ Len(queue[t]) <= ServerCap
      BY <1>9 DEF Types
    <3>3. CASE t = s /\ queue'[t] = Append(queue[s], i) /\ Len(queue[s]) < ServerCap
      <4>1. Len(queue'[t]) <= ServerCap
        BY <3>1, <3>3, <1>6
      <4> QED BY <4>1, <3>2, <3>3, <1>3, <1>6
    <3>4. CASE queue'[t] = queue[t]
      BY <3>2, <3>4
    <3> QED BY <3>3, <3>4, <1>16
  <2> QED BY <2>1, <2>2, <2>3, <1>0, <1>9 DEF Types, proxyVars, storeVars
<1>10. (\A j \in Items : Offered(j) => Offered(j)') /\ Offered(i)'
  <2>1. CASE /\ overflow' = overflow
             /\ \A j \in Items : offered'[j] = IF j = i THEN Count(offered[i]) ELSE offered[j]
    <3>1. Count(offered[i]) > 0
      BY <1>7
    <3> QED BY <2>1, <3>1, <1>2 DEF Offered
  <2>2. CASE overflow' = overflow \cup {i} /\ UNCHANGED offered
    BY <2>2 DEF Offered
  <2> QED BY <2>1, <2>2, <1>16
<1>11. Handed'
  <2>1. \A p \in Payloads : Elems(ItemsOf[p]) \subseteq Items
    BY ItemFacts
  <2>2. \A p \in done : \A j \in Elems(ItemsOf[p]) : Offered(j)'
    BY <2>1, <1>9, <1>10 DEF Handed, Types
  <2>3. CASE r \in request
    <3>1. request' = {rest} /\ r.payload = item /\ item' = item /\ done' = done
      BY <2>3, <1>0, <1>9 DEF Handed, proxyVars
    <3>2. \A j \in Elems(ItemsOf[item]) : j \in Elems(Tail(r.left)) \/ Offered(j)'
      BY <2>1, <2>3, <3>1, <1>1, <1>2, <1>9, <1>10 DEF Handed
    <3> QED BY <3>1, <3>2, <2>2, <1>4 DEF Handed
  <2>4. CASE r \notin request
    <3>1. request' = request /\ item' = item /\ done' = done
      BY <2>4, <1>0 DEF proxyVars
    <3>2. \A q \in request : q.payload = item /\ item \in Payloads
      BY <1>9 DEF Handed, Types, Requests
    <3> QED BY <3>1, <3>2, <2>1, <2>2, <1>9, <1>10 DEF Handed
  <2> QED BY <2>3, <2>4
<1>12. Kept'
  <2>1. rows' = rows /\ batch' = batch /\ spoilt' = spoilt /\ gone' = gone
    BY <1>0 DEF storeVars
  <2>2. ASSUME NEW t \in Signals, NEW j \in ItemsOn(t), offered'[j] > 0
        PROVE  rows[j] > 0 \/ j \in InFlight(t)' \cup spoilt \cup gone
    <3>0. j \in Items
      BY ItemFacts
    <3>1. CASE /\ \A u \in Signals : queue'[u] = IF u = s THEN Append(queue[s], i) ELSE queue[u]
               /\ \A k \in Items : offered'[k] = IF k = i THEN Count(offered[i]) ELSE offered[k]
      <4>1. Elems(queue[t]) \subseteq Elems(queue'[t])
        BY <3>1, <1>3, <1>6
      <4>2. CASE j = i
        <5>1. t = s
          BY <4>2, <1>3, ItemFacts
        <5> QED BY <5>1, <4>2, <3>1, <1>3, <1>6 DEF InFlight
      <4>3. CASE j # i
        <5>1. offered[j] > 0
          BY <4>3, <3>0, <3>1, <2>2
        <5> QED BY <5>1, <4>1, <2>1, <1>9 DEF Kept, InFlight
      <4> QED BY <4>2, <4>3
    <3>2. CASE UNCHANGED <<queue, offered>>
      BY <3>2, <2>1, <2>2, <1>9 DEF Kept, InFlight
    <3> QED BY <3>1, <3>2, <1>16
  <2> QED BY <2>1, <2>2 DEF Kept
<1>13. Counted'
  <2>1. rows' = rows /\ batch' = batch
    BY <1>0 DEF storeVars
  <2>2. ASSUME NEW t \in Signals, NEW j \in ItemsOn(t), offered'[j] < CountCap
        PROVE  rows[j] + Occurrences(j, batch[t]) + Occurrences(j, queue'[t]) <= offered'[j]
    <3>0. /\ j \in Items /\ rows[j] \in Nat /\ offered[j] \in Nat
          /\ Occurrences(j, batch[t]) \in Nat /\ Occurrences(j, queue[t]) \in Nat
      <4>1. j \in Items /\ batch[t] \in Seq(Items) /\ queue[t] \in Seq(Items)
        BY ItemFacts, <1>9 DEF Types
      <4>2. rows[j] \in 0..CountCap /\ offered[j] \in 0..CountCap
        BY <4>1, <1>9 DEF Types
      <4>3. Occurrences(j, batch[t]) \in Nat /\ Occurrences(j, queue[t]) \in Nat
        BY <4>1, OccFinite
      <4> QED BY <4>1, <4>2, <4>3, ItemFacts
    <3>1. offered[j] < CountCap =>
            rows[j] + Occurrences(j, batch[t]) + Occurrences(j, queue[t]) <= offered[j]
      BY <1>9 DEF Counted
    <3>2. CASE queue' = queue /\ offered' = offered
      BY <3>1, <3>2, <2>2
    <3>3. CASE /\ \A u \in Signals : queue'[u] = IF u = s THEN Append(queue[s], i) ELSE queue[u]
               /\ \A k \in Items : offered'[k] = IF k = i THEN Count(offered[i]) ELSE offered[k]
      <4>1. Occurrences(j, Append(queue[s], i)) =
              Occurrences(j, queue[s]) + IF j = i THEN 1 ELSE 0
        BY <1>2, <1>6, OccAppend
      <4>2. CASE j = i
        <5>1. t = s
          BY <4>2, <1>3, ItemFacts
        <5>2. queue'[t] = Append(queue[t], j) /\ offered'[j] = Count(offered[j])
          BY <5>1, <4>2, <3>3, <1>2, <1>3
        <5>3. offered'[j] = offered[j] + 1 /\ offered[j] < CountCap
          BY <5>2, <4>2, <2>2, <1>7
        <5> QED BY <5>1, <5>2, <5>3, <4>1, <4>2, <3>0, <3>1
      <4>3. CASE j # i
        <5>1. offered'[j] = offered[j]
          BY <4>3, <3>3, <3>0
        <5>2. Occurrences(j, queue'[t]) = Occurrences(j, queue[t])
          BY <4>1, <4>3, <3>3, <3>0, <1>3
        <5> QED BY <5>1, <5>2, <3>1, <2>2
      <4> QED BY <4>2, <4>3
    <3> QED BY <3>2, <3>3, <1>16
  <2> QED BY <2>1, <2>2 DEF Counted
<1>14. ResendsExplained'
  <2>1. rows' = rows /\ spoilt' = spoilt
    BY <1>0 DEF storeVars
  <2>2. \A j \in Items : offered'[j] >= offered[j] /\ offered[j] \in Nat /\ offered'[j] \in Nat
                         /\ rows[j] \in Nat
    <3>1. ASSUME NEW j \in Items
          PROVE  offered[j] \in 0..CountCap /\ offered'[j] \in 0..CountCap /\ rows[j] \in 0..CountCap
      BY <1>16, <1>9 DEF Types
    <3>2. ASSUME NEW j \in Items PROVE offered'[j] >= offered[j]
      BY <3>1, <1>7, <1>16, ItemFacts
    <3> QED BY <3>1, <3>2, ItemFacts
  <2>3. ASSUME NEW t \in Signals
        PROVE  /\ ItemsOn(t) \cap spoilt # {} => t \in Unique /\ \E j \in ItemsOn(t) : offered'[j] > 1
               /\ \A j \in ItemsOn(t) : rows[j] <= (IF t \in Unique THEN 1 ELSE offered'[j])
    <3>1. ItemsOn(t) \subseteq Items
      BY ItemFacts
    <3>2. ASSUME NEW j \in ItemsOn(t), offered[j] > 1 PROVE offered'[j] > 1
      BY <3>1, <3>2, <2>2
    <3>3. ASSUME NEW j \in ItemsOn(t)
          PROVE  rows[j] <= (IF t \in Unique THEN 1 ELSE offered'[j])
      BY <3>1, <2>2, <1>9 DEF ResendsExplained
    <3> QED BY <3>2, <3>3, <1>9 DEF ResendsExplained
  <2> QED BY <2>1, <2>3 DEF ResendsExplained
<1>15. FirstInFirstOut'
  BY <1>0, <1>9, FifoQuiet
<1> QED BY <1>8, <1>11, <1>12, <1>13, <1>14, <1>15 DEF Inv

\* Types of an item's counters.
LEMMA CountersType ==
  ASSUME Types, NEW s \in Signals, NEW i \in ItemsOn(s)
  PROVE  /\ i \in Items /\ rows[i] \in 0..CountCap /\ offered[i] \in 0..CountCap
         /\ rows[i] \in Nat /\ offered[i] \in Nat
         /\ Occurrences(i, batch[s]) \in Nat /\ Occurrences(i, queue[s]) \in Nat
         /\ Occurrences(i, batch[s]) = 0 <=> i \notin Elems(batch[s])
<1>1. i \in Items /\ batch[s] \in Seq(Items) /\ queue[s] \in Seq(Items)
  BY ItemFacts DEF Types
<1>2. rows[i] \in 0..CountCap /\ offered[i] \in 0..CountCap
  BY <1>1 DEF Types
<1>3. /\ Occurrences(i, batch[s]) \in Nat /\ Occurrences(i, queue[s]) \in Nat
      /\ Occurrences(i, batch[s]) = 0 <=> i \notin Elems(batch[s])
  BY <1>1, OccFinite
<1> QED BY <1>1, <1>2, <1>3, ItemFacts

LEMMA CollectInv ==
  ASSUME Inv, NEW s \in Signals, Collect(s)
  PROVE  Inv'
<1>9. Types /\ FirstInFirstOut /\ Handed /\ Kept /\ Counted /\ ResendsExplained
  BY DEF Inv
<1> DEFINE i == Head(queue[s])
<1>0. /\ queue[s] # <<>> /\ Len(batch[s]) < BatchSize
      /\ batch' = [batch EXCEPT ![s] = Append(batch[s], i)]
      /\ queue' = [queue EXCEPT ![s] = Tail(queue[s])]
      /\ UNCHANGED <<proxyVars, request, stale, inserting, rows, spoilt, gone,
                     faults, offered, overflow>>
  BY DEF Collect
<1>1. /\ queue \in [Signals -> Seq(Items)] /\ batch \in [Signals -> Seq(Items)]
      /\ queue[s] \in Seq(Items) /\ batch[s] \in Seq(Items)
  BY <1>9 DEF Types
<1>2. /\ i \in Items /\ Tail(queue[s]) \in Seq(Items)
      /\ Elems(queue[s]) = {i} \cup Elems(Tail(queue[s]))
      /\ Len(Tail(queue[s])) = Len(queue[s]) - 1 /\ Len(queue[s]) \in Nat
  BY <1>0, <1>1, HeadTailProperties, ElemsTail, LenProperties
<1>3. /\ Append(batch[s], i) \in Seq(Items)
      /\ Len(Append(batch[s], i)) = Len(batch[s]) + 1 /\ Len(batch[s]) \in Nat
      /\ Elems(Append(batch[s], i)) = Elems(batch[s]) \cup {i}
  BY <1>1, <1>2, AppendProperties, LenProperties, ElemsAppend
<1>4. /\ queue' \in [Signals -> Seq(Items)] /\ batch' \in [Signals -> Seq(Items)]
      /\ \A t \in Signals :
           /\ queue'[t] = IF t = s THEN Tail(queue[s]) ELSE queue[t]
           /\ batch'[t] = IF t = s THEN Append(batch[s], i) ELSE batch[t]
  BY <1>0, <1>1, <1>2, <1>3
<1> HIDE DEF i
<1>5. Types'
  <2>1. ASSUME NEW t \in Signals
        PROVE  /\ Elems(queue'[t]) \cup Elems(batch'[t]) \subseteq ItemsOn(t)
               /\ Len(queue'[t]) <= ServerCap /\ Len(batch'[t]) <= BatchSize
    <3>1. /\ Elems(queue[t]) \cup Elems(batch[t]) \subseteq ItemsOn(t)
          /\ Len(queue[t]) <= ServerCap /\ Len(batch[t]) <= BatchSize
      BY <1>9 DEF Types
    <3>2. CASE t = s
      <4>1. ServerCap \in Nat /\ BatchSize \in Nat
        BY OtlpAssumption
      <4>2. Len(queue'[t]) <= ServerCap /\ Len(batch'[t]) <= BatchSize
        BY <4>1, <3>1, <3>2, <1>0, <1>2, <1>3, <1>4
      <4> QED BY <4>2, <3>1, <3>2, <1>2, <1>3, <1>4
    <3>3. CASE t # s
      BY <3>1, <3>3, <1>4
    <3> QED BY <3>2, <3>3
  <2> QED BY <2>1, <1>0, <1>4, <1>9 DEF Types, proxyVars
<1>6. Handed'
  BY <1>0, <1>9 DEF Handed, Offered, proxyVars
<1>7. Kept'
  <2>1. ASSUME NEW t \in Signals PROVE InFlight(t)' = InFlight(t)
    BY <1>2, <1>3, <1>4 DEF InFlight
  <2> QED BY <2>1, <1>0, <1>9 DEF Kept
<1>8. Counted'
  <2>1. ASSUME NEW t \in Signals, NEW j \in ItemsOn(t)
        PROVE  Occurrences(j, batch'[t]) + Occurrences(j, queue'[t]) =
                 Occurrences(j, batch[t]) + Occurrences(j, queue[t])
    <3>1. CASE t = s
      <4>1. Occurrences(j, Append(batch[s], i)) =
              Occurrences(j, batch[s]) + IF j = i THEN 1 ELSE 0
        BY <1>1, <1>2, OccAppend
      <4>2. Occurrences(j, queue[s]) =
              Occurrences(j, Tail(queue[s])) + IF j = i THEN 1 ELSE 0
        BY <1>0, <1>1, OccTail DEF i
      <4>3. Occurrences(j, batch[s]) \in Nat /\ Occurrences(j, Tail(queue[s])) \in Nat
        BY <1>1, <1>2, OccFinite
      <4>4. /\ Occurrences(j, batch'[t]) = Occurrences(j, Append(batch[s], i))
            /\ Occurrences(j, queue'[t]) = Occurrences(j, Tail(queue[s]))
        BY <3>1, <1>4
      <4> QED BY <4>1, <4>2, <4>3, <4>4, <3>1
    <3>2. CASE t # s
      BY <3>2, <1>4
    <3> QED BY <3>1, <3>2
  <2>2. ASSUME NEW t \in Signals, NEW j \in ItemsOn(t), offered[j] < CountCap
        PROVE  rows[j] + Occurrences(j, batch'[t]) + Occurrences(j, queue'[t]) <= offered[j]
    <3>1. rows[j] + Occurrences(j, batch[t]) + Occurrences(j, queue[t]) <= offered[j]
      BY <2>2, <1>9 DEF Counted
    <3>2. /\ rows[j] \in Nat /\ offered[j] \in Nat
          /\ Occurrences(j, batch[t]) \in Nat /\ Occurrences(j, queue[t]) \in Nat
      BY <1>9, CountersType
    <3>3. batch'[t] \in Seq(Items) /\ queue'[t] \in Seq(Items)
      BY <1>4
    <3>4. Occurrences(j, batch'[t]) \in Nat /\ Occurrences(j, queue'[t]) \in Nat
      BY <3>3, OccFinite
    <3> QED BY <3>1, <3>2, <3>4, <2>1
  <2> QED BY <2>2, <1>0 DEF Counted
<1>10. ResendsExplained'
  BY <1>0, <1>9 DEF ResendsExplained
<1>11. FirstInFirstOut'
  BY <1>0, <1>9, FifoQuiet
<1> QED BY <1>5, <1>6, <1>7, <1>8, <1>10, <1>11 DEF Inv

LEMMA BeginInsertInv ==
  ASSUME Inv, NEW s \in Signals, BeginInsert(s)
  PROVE  Inv'
<1>9. Types /\ FirstInFirstOut /\ Handed /\ Kept /\ Counted /\ ResendsExplained
  BY DEF Inv
<1>1. /\ inserting' = inserting \cup {s}
      /\ UNCHANGED <<proxyVars, request, stale, queue, batch, rows, spoilt, gone,
                     faults, offered, overflow>>
  BY DEF BeginInsert
<1>2. Types'
  BY <1>1, <1>9 DEF Types, proxyVars
<1>3. Handed' /\ Kept' /\ Counted' /\ ResendsExplained'
  BY <1>1, <1>9 DEF Handed, Offered, Kept, InFlight, Counted, ResendsExplained, proxyVars
<1>4. FirstInFirstOut'
  BY <1>1, <1>9, FifoQuiet
<1> QED BY <1>2, <1>3, <1>4 DEF Inv

\* Batches and queues that are given up, with a note of what was in them.
LEMMA GivenUp ==
  ASSUME Inv, rows' = rows, offered' = offered, spoilt \cup gone \subseteq spoilt' \cup gone',
         queue' \in [Signals -> Seq(Items)], batch' \in [Signals -> Seq(Items)],
         \A t \in Signals :
           /\ \/ queue'[t] = queue[t]
              \/ queue'[t] = <<>> /\ Elems(queue[t]) \subseteq spoilt' \cup gone'
           /\ \/ batch'[t] = batch[t]
              \/ batch'[t] = <<>> /\ Elems(batch[t]) \subseteq spoilt' \cup gone'
  PROVE  /\ Kept' /\ Counted'
         /\ \A t \in Signals :
              /\ Elems(queue'[t]) \cup Elems(batch'[t]) \subseteq ItemsOn(t)
              /\ Len(queue'[t]) <= ServerCap /\ Len(batch'[t]) <= BatchSize
<1>9. Types /\ Kept /\ Counted
  BY DEF Inv
<1>1. Elems(<<>>) = {} /\ Len(<<>>) = 0
  BY ElemsEmpty, EmptySeq
<1>2. \A x : Occurrences(x, <<>>) = 0
  <2>1. <<>> \in Seq(Items)
    BY EmptySeq
  <2> QED BY <2>1, <1>1, OccFinite
<1>3. Kept'
  BY <1>9 DEF Kept, InFlight
<1>4. ASSUME NEW t \in Signals, NEW j \in ItemsOn(t), offered[j] < CountCap
      PROVE  rows[j] + Occurrences(j, batch'[t]) + Occurrences(j, queue'[t]) <= offered[j]
  <2>1. rows[j] + Occurrences(j, batch[t]) + Occurrences(j, queue[t]) <= offered[j]
    BY <1>4, <1>9 DEF Counted
  <2>2. /\ rows[j] \in Nat /\ offered[j] \in Nat
        /\ Occurrences(j, batch[t]) \in Nat /\ Occurrences(j, queue[t]) \in Nat
    BY <1>9, CountersType
  <2>3. /\ Occurrences(j, batch'[t]) \in {0, Occurrences(j, batch[t])}
        /\ Occurrences(j, queue'[t]) \in {0, Occurrences(j, queue[t])}
    BY <1>2
  <2> QED BY <2>1, <2>2, <2>3
<1>5. Counted'
  BY <1>4 DEF Counted
<1>6. ServerCap \in Nat /\ BatchSize \in Nat
  BY OtlpAssumption
<1>7. \A t \in Signals :
        /\ Elems(queue[t]) \cup Elems(batch[t]) \subseteq ItemsOn(t)
        /\ Len(queue[t]) <= ServerCap /\ Len(batch[t]) <= BatchSize
  BY <1>9 DEF Types
<1>8. ASSUME NEW t \in Signals
      PROVE  /\ Elems(queue'[t]) \cup Elems(batch'[t]) \subseteq ItemsOn(t)
             /\ Len(queue'[t]) <= ServerCap /\ Len(batch'[t]) <= BatchSize
  <2>1. queue'[t] \in {queue[t], <<>>} /\ batch'[t] \in {batch[t], <<>>}
    OBVIOUS
  <2>2. Len(queue'[t]) <= ServerCap /\ Len(batch'[t]) <= BatchSize
    BY <2>1, <1>1, <1>6, <1>7
  <2> QED BY <2>1, <2>2, <1>1, <1>7
<1> QED BY <1>3, <1>5, <1>8

LEMMA InsertFailsInv ==
  ASSUME Inv, NEW s \in Signals, InsertFails(s)
  PROVE  Inv'
<1>9. Types /\ FirstInFirstOut /\ Handed /\ ResendsExplained
  BY DEF Inv
<1>1. /\ faults < MaxFaults /\ faults' = faults + 1
      /\ inserting' = inserting \ {s}
      /\ batch' = [batch EXCEPT ![s] = <<>>]
      /\ gone' = gone \cup Elems(batch[s])
      /\ UNCHANGED <<proxyVars, request, stale, queue, rows, spoilt, offered, overflow>>
  BY DEF InsertFails
<1>2. /\ queue' \in [Signals -> Seq(Items)] /\ batch' \in [Signals -> Seq(Items)]
      /\ \A t \in Signals : batch'[t] = IF t = s THEN <<>> ELSE batch[t]
  BY <1>1, <1>9, EmptySeq DEF Types
<1>3. /\ Kept' /\ Counted'
      /\ \A t \in Signals :
           /\ Elems(queue'[t]) \cup Elems(batch'[t]) \subseteq ItemsOn(t)
           /\ Len(queue'[t]) <= ServerCap /\ Len(batch'[t]) <= BatchSize
  <2>1. \A t \in Signals :
          /\ \/ queue'[t] = queue[t]
             \/ queue'[t] = <<>> /\ Elems(queue[t]) \subseteq spoilt' \cup gone'
          /\ \/ batch'[t] = batch[t]
             \/ batch'[t] = <<>> /\ Elems(batch[t]) \subseteq spoilt' \cup gone'
    BY <1>1, <1>2
  <2>2. /\ rows' = rows /\ offered' = offered
        /\ spoilt \cup gone \subseteq spoilt' \cup gone'
    BY <1>1
  <2> QED BY <2>1, <2>2, <1>2, GivenUp
<1>4. faults' \in 0..MaxFaults
  BY <1>1, <1>9, OtlpAssumption DEF Types
<1>5. Types'
  BY <1>1, <1>2, <1>3, <1>4, <1>9 DEF Types, proxyVars
<1>6. Handed' /\ ResendsExplained'
  BY <1>1, <1>9 DEF Handed, Offered, ResendsExplained, proxyVars
<1>7. FirstInFirstOut'
  BY <1>1, <1>9, FifoQuiet
<1> QED BY <1>3, <1>5, <1>6, <1>7 DEF Inv

LEMMA RestartInv ==
  ASSUME Inv, Restart
  PROVE  Inv'
<1>9. Types /\ FirstInFirstOut /\ Handed /\ ResendsExplained
  BY DEF Inv
<1>1. /\ faults < MaxFaults /\ faults' = faults + 1
      /\ gone' = gone \cup UNION {Elems(queue[s]) \cup Elems(batch[s]) : s \in Signals}
      /\ queue' = [s \in Signals |-> <<>>] /\ batch' = [s \in Signals |-> <<>>]
      /\ inserting' = {} /\ request' = {} /\ stale' = {}
      /\ UNCHANGED <<proxyVars, rows, spoilt, offered, overflow>>
  BY DEF Restart
<1>2. /\ queue' \in [Signals -> Seq(Items)] /\ batch' \in [Signals -> Seq(Items)]
      /\ \A t \in Signals : batch'[t] = <<>> /\ queue'[t] = <<>>
  BY <1>1, EmptySeq
<1>3. /\ Kept' /\ Counted'
      /\ \A t \in Signals :
           /\ Elems(queue'[t]) \cup Elems(batch'[t]) \subseteq ItemsOn(t)
           /\ Len(queue'[t]) <= ServerCap /\ Len(batch'[t]) <= BatchSize
  <2>1. \A t \in Signals :
          /\ \/ queue'[t] = queue[t]
             \/ queue'[t] = <<>> /\ Elems(queue[t]) \subseteq spoilt' \cup gone'
          /\ \/ batch'[t] = batch[t]
             \/ batch'[t] = <<>> /\ Elems(batch[t]) \subseteq spoilt' \cup gone'
    BY <1>1, <1>2
  <2>2. /\ rows' = rows /\ offered' = offered
        /\ spoilt \cup gone \subseteq spoilt' \cup gone'
    BY <1>1
  <2> QED BY <2>1, <2>2, <1>2, GivenUp
<1>4. faults' \in 0..MaxFaults
  BY <1>1, <1>9, OtlpAssumption DEF Types
<1>5. Types'
  BY <1>1, <1>2, <1>3, <1>4, <1>9 DEF Types, proxyVars
<1>6. Handed' /\ ResendsExplained'
  BY <1>1, <1>9 DEF Handed, Offered, ResendsExplained, proxyVars
<1>7. FirstInFirstOut'
  BY <1>1, <1>9, FifoQuiet
<1> QED BY <1>3, <1>5, <1>6, <1>7 DEF Inv

\* A batch is rejected only if it holds an item that was offered twice.
LEMMA ConflictSays ==
  ASSUME Inv, NEW s \in Signals, Conflicts(s)
  PROVE  s \in Unique /\ \E j \in ItemsOn(s) : offered[j] > 1
<1>9. Types /\ Counted
  BY DEF Inv
<1>1. batch[s] \in Seq(Items)
  BY <1>9 DEF Types
<1>2. PICK k \in DOMAIN batch[s] :
        \/ rows[batch[s][k]] > 0
        \/ \E l \in DOMAIN batch[s] : k # l /\ batch[s][k] = batch[s][l]
  BY DEF Conflicts
<1> DEFINE j == batch[s][k]
<1>3. j \in Elems(batch[s]) /\ j \in ItemsOn(s)
  BY <1>9 DEF Elems, Types
<1>4. /\ rows[j] \in Nat /\ offered[j] \in 0..CountCap
      /\ Occurrences(j, batch[s]) \in Nat /\ Occurrences(j, queue[s]) \in Nat
      /\ Occurrences(j, batch[s]) # 0
  BY <1>3, <1>9, CountersType
<1>5. rows[j] > 0 \/ Occurrences(j, batch[s]) > 1
  <2>1. ASSUME NEW l \in DOMAIN batch[s], k # l, batch[s][k] = batch[s][l]
        PROVE  Occurrences(j, batch[s]) > 1
    BY <2>1, <1>1, OccTwice
  <2> QED BY <1>2, <2>1
<1> HIDE DEF j
<1>6. offered[j] < CountCap =>
        rows[j] + Occurrences(j, batch[s]) + Occurrences(j, queue[s]) <= offered[j]
  BY <1>3, <1>9 DEF Counted
<1>7. offered[j] > 1
  BY <1>4, <1>5, <1>6, ItemFacts
<1> QED BY <1>3, <1>7 DEF Conflicts

\* What the rows of an item are once a batch has been written.
LEMMA WrittenRows ==
  ASSUME Inv, NEW s \in Signals, rows' = RowsWith(batch[s]),
         NEW t \in Signals, NEW j \in ItemsOn(t)
  PROVE  /\ rows'[j] \in 0..CountCap /\ rows'[j] >= rows[j]
         /\ rows'[j] <= rows[j] + Occurrences(j, batch[s])
         /\ j \in Elems(batch[s]) => rows'[j] > 0 /\ t = s
         /\ t # s => rows'[j] = rows[j]
<1>9. Types
  BY DEF Inv
<1>1. j \in Items /\ rows[j] \in 0..CountCap
  BY <1>9, CountersType
<1>2. batch[s] \in Seq(Items) /\ Elems(batch[s]) \subseteq ItemsOn(s)
  BY <1>9 DEF Types
<1>3. /\ Occurrences(j, batch[s]) \in Nat
      /\ Occurrences(j, batch[s]) = 0 <=> j \notin Elems(batch[s])
  BY <1>2, OccFinite
<1>4. rows'[j] = IF rows[j] + Occurrences(j, batch[s]) <= CountCap
                 THEN rows[j] + Occurrences(j, batch[s]) ELSE CountCap
  BY <1>1 DEF RowsWith
<1>5. j \in Elems(batch[s]) => t = s
  BY <1>2, ItemFacts
<1> QED BY <1>1, <1>3, <1>4, <1>5, ItemFacts

LEMMA EndInsertInv ==
  ASSUME Inv, NEW s \in Signals, EndInsert(s)
  PROVE  Inv'
<1>9. Types /\ FirstInFirstOut /\ Handed /\ Kept /\ Counted /\ ResendsExplained
  BY DEF Inv
<1>1. /\ inserting' = inserting \ {s}
      /\ batch' = [batch EXCEPT ![s] = <<>>]
      /\ IF Conflicts(s)
         THEN spoilt' = spoilt \cup Elems(batch[s]) /\ UNCHANGED rows
         ELSE rows' = RowsWith(batch[s]) /\ UNCHANGED spoilt
      /\ UNCHANGED <<proxyVars, request, stale, queue, gone, faults, offered, overflow>>
  BY DEF EndInsert
<1>2. /\ queue' \in [Signals -> Seq(Items)] /\ batch' \in [Signals -> Seq(Items)]
      /\ \A t \in Signals : batch'[t] = IF t = s THEN <<>> ELSE batch[t]
  BY <1>1, <1>9, EmptySeq DEF Types
<1>3. Handed'
  BY <1>1, <1>9 DEF Handed, Offered, proxyVars
<1>4. FirstInFirstOut'
  BY <1>1, <1>9, FifoQuiet
<1>5. CASE Conflicts(s)
  <2>1. spoilt' = spoilt \cup Elems(batch[s]) /\ rows' = rows
    BY <1>1, <1>5
  <2>2. \A t \in Signals :
          /\ \/ queue'[t] = queue[t]
             \/ queue'[t] = <<>> /\ Elems(queue[t]) \subseteq spoilt' \cup gone'
          /\ \/ batch'[t] = batch[t]
             \/ batch'[t] = <<>> /\ Elems(batch[t]) \subseteq spoilt' \cup gone'
    BY <2>1, <1>1, <1>2
  <2>3. rows' = rows /\ offered' = offered /\ spoilt \cup gone \subseteq spoilt' \cup gone'
    BY <2>1, <1>1
  <2>4. /\ Kept' /\ Counted'
        /\ \A t \in Signals :
             /\ Elems(queue'[t]) \cup Elems(batch'[t]) \subseteq ItemsOn(t)
             /\ Len(queue'[t]) <= ServerCap /\ Len(batch'[t]) <= BatchSize
    BY <2>2, <2>3, <1>2, GivenUp
  <2>5. Types'
    BY <2>3, <2>4, <1>1, <1>2, <1>9 DEF Types, proxyVars
  <2>6. ASSUME NEW t \in Signals, ItemsOn(t) \cap spoilt' # {}
        PROVE  t \in Unique /\ \E j \in ItemsOn(t) : offered[j] > 1
    <3>1. CASE ItemsOn(t) \cap spoilt # {}
      BY <3>1, <1>9 DEF ResendsExplained
    <3>2. CASE ItemsOn(t) \cap Elems(batch[s]) # {}
      <4>1. Elems(batch[s]) \subseteq ItemsOn(s)
        BY <1>9 DEF Types
      <4>2. t = s
        BY <4>1, <3>2, ItemFacts
      <4> QED BY <4>2, <1>5, ConflictSays
    <3> QED BY <3>1, <3>2, <2>1, <2>6
  <2>7. ResendsExplained'
    BY <2>3, <2>6, <1>9 DEF ResendsExplained
  <2> QED BY <2>4, <2>5, <2>7, <1>3, <1>4 DEF Inv
<1>6. CASE ~Conflicts(s)
  <2>1. rows' = RowsWith(batch[s]) /\ spoilt' = spoilt /\ gone' = gone
        /\ queue' = queue /\ offered' = offered
    BY <1>1, <1>6
  <2>2. \A x \in Items : RowsWith(batch[s])[x] \in 0..CountCap
    <3>1. ASSUME NEW x \in Items PROVE RowsWith(batch[s])[x] \in 0..CountCap
      <4>1. rows[x] \in 0..CountCap /\ batch[s] \in Seq(Items)
        BY <1>9 DEF Types
      <4>2. Occurrences(x, batch[s]) \in Nat
        BY <4>1, OccFinite
      <4> QED BY <4>1, <4>2, ItemFacts DEF RowsWith
    <3> QED BY <3>1
  <2>3. rows' \in [Items -> 0..CountCap]
    BY <2>1, <2>2 DEF RowsWith
  <2>4. \A t \in Signals :
          /\ Elems(queue'[t]) \cup Elems(batch'[t]) \subseteq ItemsOn(t)
          /\ Len(queue'[t]) <= ServerCap /\ Len(batch'[t]) <= BatchSize
    <3>1. Elems(<<>>) = {} /\ Len(<<>>) = 0 /\ BatchSize \in Nat
      BY ElemsEmpty, EmptySeq, OtlpAssumption
    <3>2. 0 <= BatchSize
      BY <3>1
    <3> QED BY <3>1, <3>2, <2>1, <1>2, <1>9 DEF Types
  <2>5. Types'
    BY <2>3, <2>4, <1>1, <1>2, <1>6, <1>9 DEF Types, proxyVars
  <2>6. Kept'
    <3>1. ASSUME NEW t \in Signals, NEW j \in ItemsOn(t), offered[j] > 0
          PROVE  rows'[j] > 0 \/ j \in InFlight(t)' \cup spoilt \cup gone
      <4>1. /\ rows'[j] \in Nat /\ rows[j] \in Nat /\ rows'[j] >= rows[j]
            /\ j \in Elems(batch[s]) => rows'[j] > 0 /\ t = s
        BY <2>1, <1>9, WrittenRows, CountersType, ItemFacts
      <4>2. rows[j] > 0 \/ j \in InFlight(t) \cup spoilt \cup gone
        BY <3>1, <1>9 DEF Kept
      <4>3. j \in InFlight(t) => j \in InFlight(t)' \/ j \in Elems(batch[s])
        BY <2>1, <1>2 DEF InFlight
      <4> QED BY <4>1, <4>2, <4>3
    <3> QED BY <3>1, <2>1 DEF Kept
  <2>7. Counted'
    <3>1. ASSUME NEW t \in Signals, NEW j \in ItemsOn(t), offered[j] < CountCap
          PROVE  rows'[j] + Occurrences(j, batch'[t]) + Occurrences(j, queue[t]) <= offered[j]
      <4>1. rows[j] + Occurrences(j, batch[t]) + Occurrences(j, queue[t]) <= offered[j]
        BY <3>1, <1>9 DEF Counted
      <4>2. /\ rows[j] \in Nat /\ offered[j] \in Nat
            /\ Occurrences(j, batch[t]) \in Nat /\ Occurrences(j, queue[t]) \in Nat
        BY <1>9, CountersType
      <4>3. /\ rows'[j] \in Nat /\ rows'[j] <= rows[j] + Occurrences(j, batch[s])
            /\ t # s => rows'[j] = rows[j]
        BY <2>1, WrittenRows, ItemFacts
      <4>4. CASE t = s
        <5>1. batch'[t] = <<>> /\ <<>> \in Seq(Items)
          BY <4>4, <1>2, EmptySeq
        <5>2. Occurrences(j, batch'[t]) = 0
          BY <5>1, OccFinite, ElemsEmpty
        <5> QED BY <5>2, <4>1, <4>2, <4>3, <4>4
      <4>5. CASE t # s
        BY <4>1, <4>3, <4>5, <1>2
      <4> QED BY <4>4, <4>5
    <3> QED BY <3>1, <2>1 DEF Counted
  <2>8. ResendsExplained'
    <3>1. ASSUME NEW t \in Signals, NEW j \in ItemsOn(t)
          PROVE  rows'[j] <= (IF t \in Unique THEN 1 ELSE offered[j])
      <4>1. rows[j] <= (IF t \in Unique THEN 1 ELSE offered[j])
        BY <1>9 DEF ResendsExplained
      <4>2. /\ rows[j] \in Nat /\ offered[j] \in 0..CountCap /\ batch[s] \in Seq(Items)
            /\ Occurrences(j, batch[t]) \in Nat /\ Occurrences(j, queue[t]) \in Nat
            /\ Occurrences(j, batch[t]) = 0 <=> j \notin Elems(batch[t])
        BY <1>9, CountersType DEF Types
      <4>3. /\ rows'[j] \in 0..CountCap /\ rows'[j] <= rows[j] + Occurrences(j, batch[s])
            /\ t # s => rows'[j] = rows[j]
        BY <2>1, WrittenRows
      <4>4. CASE t # s
        BY <4>1, <4>3, <4>4
      <4>5. CASE t = s /\ t \in Unique /\ j \in Elems(batch[s])
        <5>1. PICK k \in DOMAIN batch[s] : j = batch[s][k]
          BY <4>5 DEF Elems
        <5>2. ~(rows[j] > 0) /\ ~\E l \in DOMAIN batch[s] : k # l /\ j = batch[s][l]
          BY <5>1, <4>5, <1>6 DEF Conflicts
        <5>3. ~(Occurrences(j, batch[s]) > 1)
          BY <5>1, <5>2, <4>2, OccTwice
        <5> QED BY <5>2, <5>3, <4>2, <4>3, <4>5, ItemFacts
      <4>6. CASE t = s /\ t \in Unique /\ j \notin Elems(batch[s])
        <5>1. Occurrences(j, batch[s]) = 0 /\ rows'[j] \in Nat
          BY <4>2, <4>3, <4>6, ItemFacts
        <5> QED BY <5>1, <4>1, <4>2, <4>3, <4>6
      <4>7. CASE t = s /\ t \notin Unique
        <5>1. offered[j] < CountCap =>
                rows[j] + Occurrences(j, batch[t]) + Occurrences(j, queue[t]) <= offered[j]
          BY <1>9 DEF Counted
        <5> QED BY <5>1, <4>2, <4>3, <4>7, ItemFacts
      <4> QED BY <4>4, <4>5, <4>6, <4>7
    <3> QED BY <3>1, <2>1, <1>9 DEF ResendsExplained
  <2> QED BY <2>5, <2>6, <2>7, <2>8, <1>3, <1>4 DEF Inv
<1> QED BY <1>5, <1>6

-------------------------------------------------------------------------------
(* The theorems.                                                             *)

LEMMA StepInv ==
  ASSUME Inv, [Next]_vars
  PROVE  Inv'
<1>1. CASE Next
  BY <1>1, PostInv, NextItemInv, SendInv, AnswerInv, TimeoutInv, OfferInv, CollectInv,
     BeginInsertInv, EndInsertInv, InsertFailsInv, RestartInv DEF Next
<1>2. CASE UNCHANGED vars
  <2>1. /\ UNCHANGED <<proxyVars, request, stale, queue, storeVars, faults, offered, overflow>>
    BY <1>2 DEF vars, proxyVars, storeVars
  <2>2. Types'
    BY <2>1 DEF Inv, Types, proxyVars, storeVars
  <2>3. Handed'
    BY <2>1 DEF Inv, Handed, Offered, proxyVars
  <2> QED BY <2>1, <2>2, <2>3, FifoQuiet, StoreQuiet DEF Inv
<1> QED BY <1>1, <1>2

\* The invariant holds of every reachable state, whatever is posted, lost,
\* repeated or restarted.
THEOREM Invariance == Spec => []Inv
BY InitInv, StepInv, PTL DEF Spec

\* The variables keep their types, and no queue of the proxy or the server, and
\* no batch, exceeds its limit.
THEOREM WithinLimits == Spec => []TypeOK
<1>1. Inv => TypeOK
  <2> SUFFICES ASSUME Types PROVE TypeOK
    BY DEF Inv
  <2>1. Elems(posted) \subseteq Payloads
    BY ElemsSubset DEF Types
  <2>2. \A r \in request \cup stale : r.payload \in Payloads
    BY DEF Types, Requests
  <2> QED BY <2>1, <2>2 DEF Types, TypeOK
<1> QED BY <1>1, Invariance, PTL

\* Payloads leave the proxy in the order in which they came: its one worker does
\* not go on before the server has taken the payload it is at.
THEOREM NothingOvertakes == Spec => []ForwardedInOrder
<1>1. Inv => ForwardedInOrder
  <2> SUFFICES ASSUME FirstInFirstOut, posted \in Seq(Payloads),
                      NEW i \in DOMAIN posted, NEW j \in DOMAIN posted,
                      i < j, posted[j] \in done
               PROVE  posted[i] \in done \cup refused
    BY DEF Inv, Types, ForwardedInOrder
  <2> QED BY DEF FirstInFirstOut
<1> QED BY <1>1, Invariance, PTL

\* An item of a payload the worker is done with was offered to the queue of its
\* signal, and what a queue took is a row, on its way, or in a batch or a
\* restart that took it away.
THEOREM NothingElseIsLost == Spec => []OfferedAccounted
<1>1. Inv => OfferedAccounted
  BY DEF Inv, Handed, Offered, Kept, OfferedAccounted
<1> QED BY <1>1, Invariance, PTL

\* Only a resend spoils a batch, and only one of a signal with a unique index;
\* such an item is one row at most, and another as many as it was sent times.
THEOREM OnlyResendsSpoil == Spec => []ResendsExplained
BY Invariance, PTL DEF Inv
===============================================================================
