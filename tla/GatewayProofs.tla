----------------------------- MODULE GatewayProofs -----------------------------
(***************************************************************************)
(* Proofs about GatewayTail, for a log of any length, any size of the      *)
(* batches and of the channel and any number of crashes.                   *)
(*                                                                         *)
(* The invariant says of every offset (known, saved, and the position of   *)
(* the call under way) that the units before it were handed over, are in   *)
(* the batch at hand, or are excused; of every file, that it was read to   *)
(* its end, or that the scan, an event or the call under way will read it; *)
(* and of every unit how often it was handed over, given the events that   *)
(* will still make the watcher begin again.                                *)
(***************************************************************************)
EXTENDS GatewayTail, FiniteSetTheorems, SequenceTheorems, TLAPS

Events == Paths \X {"write", "create", "rename", "remove"}
Offsets == [Paths -> Nat \cup {Unknown}]
Reads == [path : Paths, fd : Paths, pos : Nat, count : Nat, again : BOOLEAN]
Scans == {<<>>, <<"state">>, <<"live", "state">>, <<"old", "state">>,
          <<"live", "old", "state">>}

Reading == mode \in {"read", "emit"}
Waiting(e) == e \in ToSet(events)
InBatch(u) == u \in UnitsOf(lines)
Renamed == rotated \in {"renamed", "removed"}

Types ==
  /\ TypeOK
  /\ rd \in Reads /\ scan \in Scans
  /\ emitted \in [Units -> Nat]
  /\ ever \subseteq Units /\ timedOut \subseteq Units /\ killed \subseteq Units
  /\ shadow \in Nat
  /\ rotated = "no" => base = 0 /\ shadow = 0
  /\ base % 2 = 0
  /\ mode = "read" => Len(lines) < BatchSize
  /\ mode \in {"down", "ready", "tail"} => lines = <<>>
  /\ mode = "down" => ~started /\ events = <<>> /\ scan = <<>> /\ known = Nowhere
  /\ mode = "down" /\ crashes = 0 => saved = Nowhere
  /\ started => scan = <<>>
  /\ Offset(known, "old") <= base /\ Offset(saved, "old") <= base

\* What waits in the queue was caused by the rotation, which comes once.
OnceEach(q) ==
  \A i, j \in DOMAIN q : q[i] = q[j] /\ q[i][2] \in {"create", "rename"} => i = j

EventsSound ==
  /\ ToSet(events) \subseteq {<<"live", "write">>, <<"live", "rename">>,
                              <<"live", "create">>, <<"old", "create">>,
                              <<"old", "remove">>}
  /\ ~Renamed => ToSet(events) \subseteq {<<"live", "write">>}
  /\ Waiting(<<"old", "remove">>) => rotated = "removed"
  /\ OnceEach(events)

\* The old file is read for its create event, or because a scan found it, in
\* which case it was renamed before the agent came up.
OldOnce ==
  Waiting(<<"old", "create">>) \/ ~Renamed =>
    "old" \notin ToSet(scan) /\ ~(Reading /\ rd.path = "old")

\* An open file is the one its path names, or was renamed since; then the
\* events of the rotation wait, and the new file was not read yet.
ReadSound ==
  Reading =>
    /\ \/ rd.fd = rd.path
       \/ /\ rd.path = "live" /\ rd.fd = "old" /\ Renamed
          /\ Waiting(<<"live", "rename">>) /\ Waiting(<<"live", "create">>)
          /\ Waiting(<<"old", "create">>)
          /\ \A u \in Units : base < u => emitted[u] = 0 /\ ~InBatch(u)
    /\ rd.fd = "old" => Renamed
    /\ rotated # "emptied" => Begin(rd.fd) + rd.pos <= End(rd.fd)

\* Units that need not be handed over any more, whoever reads the log.
Done(u) ==
  \/ u \in ever \cup timedOut \cup killed
  \/ u <= base /\ rotated \in {"emptied", "removed"}
Shadowed(u) == base < u /\ u <= shadow
\* The watcher begins the new file anew, and no old offset counts any more.
Anew == /\ Renamed /\ crashes = 0 /\ mode # "down"
        /\ ~Waiting(<<"live", "create">>)
Met(u) == Done(u) \/ (Shadowed(u) /\ ~Anew)

Covered ==
  \A u \in Units :
    /\ Reading /\ Begin(rd.fd) < u /\ u <= Begin(rd.fd) + rd.pos =>
         Met(u) \/ InBatch(u)
    /\ \A p \in Paths :
         /\ Begin(p) < u /\ u <= Begin(p) + Offset(known, p) =>
              Met(u) \/ (mode \in {"save", "torn", "last"} /\ InBatch(u))
         /\ Begin(p) < u /\ u <= Begin(p) + Offset(saved, p) =>
              Done(u) \/ Shadowed(u) \/ (mode = "last" /\ InBatch(u))

WillBeRead ==
  mode # "down" => \A p \in Paths : Exists(p) =>
    \/ p \in ToSet(scan)
    \/ \E e \in ToSet(events) : e[1] = p
    \/ Size(p) <= Offset(known, p)
    \/ Reading /\ rd.path = p /\ rd.fd = p

\* How often u was handed over, the batch at hand included.
Load(u) == emitted[u] + IF InBatch(u) THEN 1 ELSE 0

\* How often the watcher began the new live file again.
Begun == IF ~Renamed THEN 0
         ELSE (IF Waiting(<<"live", "rename">>) THEN 0 ELSE 1)
              + (IF Waiting(<<"live", "create">>) THEN 0 ELSE 1)
\* How far it was read since.
LivePassed == base + IF Reading /\ rd.path = "live" /\ rd.fd = "live" THEN rd.pos
                     ELSE Offset(known, "live")
OldPassed == IF Reading /\ rd.path = "old" THEN rd.pos
             ELSE IF rotated = "removed" THEN base ELSE Offset(known, "old")

NewLoad(u) ==
  base < u =>
    Load(u) <= Begun + IF u <= LivePassed /\ LivePassed <= written THEN 1 ELSE 0

OldLoad(u) ==
  u <= base =>
    /\ ~Renamed => Load(u) <= 1
    /\ Renamed /\ Waiting(<<"old", "create">>) =>
         /\ Load(u) <= 1
         /\ Reading /\ rd.path # rd.fd /\ rd.pos < u => Load(u) = 0
    /\ Renamed /\ ~Waiting(<<"old", "create">>) =>
         Load(u) <= 1 + IF u <= OldPassed THEN 1 ELSE 0

Loads ==
  \A u \in Units :
    /\ written < u => Load(u) = 0
    /\ mode = "down" => emitted[u] <= IF ~Renamed THEN 1 ELSE IF u <= base THEN 2 ELSE 3
    /\ mode # "down" => NewLoad(u) /\ OldLoad(u)

Inv ==
  /\ Types /\ EventsSound /\ OldOnce /\ ReadSound /\ Covered /\ WillBeRead /\ Loads

-------------------------------------------------------------------------------
(* Queues, batches and files.                                                *)

LEMMA WithFacts ==
  ASSUME NEW q \in Seq(Events), NEW e \in Events
  PROVE  /\ With(q, e) \in Seq(Events)
         /\ ToSet(With(q, e)) = ToSet(q) \cup {e}
         /\ OnceEach(q) /\ (e[2] \in {"create", "rename"} => e \notin ToSet(q))
              => OnceEach(With(q, e))
<1>1. CASE q # <<>> /\ Last(q) = e
  <2>1. e \in ToSet(q)
    BY <1>1 DEF ToSet, Last
  <2> QED BY <1>1, <2>1 DEF With
<1>2. CASE ~(q # <<>> /\ Last(q) = e)
  <2>1. With(q, e) = Append(q, e)
    BY <1>2 DEF With
  <2>2. /\ Append(q, e) \in Seq(Events) /\ Len(q) \in Nat
        /\ Len(Append(q, e)) = Len(q) + 1 /\ DOMAIN q = 1..Len(q)
        /\ DOMAIN Append(q, e) = 1..(Len(q) + 1)
        /\ \A i \in 1..Len(q) : Append(q, e)[i] = q[i]
        /\ Append(q, e)[Len(q) + 1] = e
    OBVIOUS
  <2>3. \A i \in 1..(Len(q) + 1) : i \in 1..Len(q) \/ i = Len(q) + 1
    BY <2>2
  <2>4. ToSet(Append(q, e)) = ToSet(q) \cup {e}
    BY <2>2, <2>3 DEF ToSet
  <2>5. ASSUME OnceEach(q), e[2] \in {"create", "rename"} => e \notin ToSet(q),
               NEW i \in DOMAIN Append(q, e), NEW j \in DOMAIN Append(q, e),
               Append(q, e)[i] = Append(q, e)[j],
               Append(q, e)[i][2] \in {"create", "rename"}
        PROVE  i = j
    <3>1. CASE i \in 1..Len(q) /\ j \in 1..Len(q)
      BY <2>2, <2>5, <3>1 DEF OnceEach
    <3>2. CASE i = Len(q) + 1 \/ j = Len(q) + 1
      <4>1. e \notin ToSet(q)
        BY <2>2, <2>5, <3>2
      <4>2. \A l \in 1..Len(q) : q[l] # e
        BY <2>2, <4>1 DEF ToSet
      <4> QED BY <2>2, <2>3, <2>5, <3>2, <4>2
    <3> QED BY <2>2, <2>3, <3>1, <3>2
  <2> QED BY <2>1, <2>2, <2>4, <2>5 DEF OnceEach
<1> QED BY <1>1, <1>2

LEMMA HeadFacts ==
  ASSUME NEW q \in Seq(Events), q # <<>>
  PROVE  /\ Head(q) \in Events /\ Tail(q) \in Seq(Events)
         /\ ToSet(q) = {Head(q)} \cup ToSet(Tail(q))
         /\ OnceEach(q) => /\ OnceEach(Tail(q))
                           /\ Head(q)[2] \in {"create", "rename"} =>
                                Head(q) \notin ToSet(Tail(q))
<1> DEFINE t == Tail(q)
<1>1. /\ Len(q) \in Nat \ {0} /\ Head(q) = q[1] /\ Head(q) \in Events /\ t \in Seq(Events)
      /\ Len(t) = Len(q) - 1 /\ DOMAIN q = 1..Len(q) /\ DOMAIN t = 1..Len(t)
      /\ \A i \in 1..Len(t) : t[i] = q[i + 1]
  OBVIOUS
<1> HIDE DEF t
<1>2. \A i \in 1..Len(t) : i + 1 \in 1..Len(q) /\ i + 1 # 1
  BY <1>1
<1>3. \A i \in 1..Len(q) : i = 1 \/ (i - 1 \in 1..Len(t) /\ t[i - 1] = q[i])
  BY <1>1
<1>4. ToSet(q) = {Head(q)} \cup ToSet(t)
  <2>1. \A i \in 1..Len(q) : q[i] = Head(q) \/ q[i] \in ToSet(t)
    BY <1>1, <1>3 DEF ToSet
  <2>2. \A i \in 1..Len(t) : t[i] \in ToSet(q)
    BY <1>1, <1>2 DEF ToSet
  <2>3. q[1] \in ToSet(q)
    BY <1>1 DEF ToSet
  <2> QED BY <1>1, <2>1, <2>2, <2>3 DEF ToSet
<1>5. ASSUME OnceEach(q), NEW i \in 1..Len(t), NEW j \in 1..Len(t), t[i] = t[j],
             t[i][2] \in {"create", "rename"}
      PROVE  i = j
  <2>1. i + 1 \in DOMAIN q /\ j + 1 \in DOMAIN q
    BY <1>1, <1>2
  <2>2. q[i + 1] = q[j + 1] /\ q[i + 1][2] \in {"create", "rename"}
    BY <1>1, <1>5
  <2>3. i + 1 = j + 1
    BY <1>5, <2>1, <2>2, Zenon DEF OnceEach
  <2> QED BY <2>3
<1>6. ASSUME OnceEach(q), Head(q)[2] \in {"create", "rename"}
      PROVE  Head(q) \notin ToSet(t)
  <2>1. \A i \in 1..Len(t) : t[i] # Head(q)
    BY <1>1, <1>2, <1>6 DEF OnceEach
  <2> QED BY <1>1, <2>1 DEF ToSet
<1> QED BY <1>1, <1>4, <1>5, <1>6 DEF OnceEach, t

LEMMA EmptyBatch == UnitsOf(<<>>) = {}
BY DEF UnitsOf

LEMMA BatchFacts ==
  ASSUME NEW ls \in Seq(SUBSET Units), NEW N \in SUBSET Units
  PROVE  /\ UnitsOf(ls) \subseteq Units
         /\ Append(ls, N) \in Seq(SUBSET Units)
         /\ Len(Append(ls, N)) = Len(ls) + 1 /\ Len(ls) \in Nat
         /\ UnitsOf(Append(ls, N)) = UnitsOf(ls) \cup N
<1>1. /\ Len(ls) \in Nat /\ DOMAIN ls = 1..Len(ls)
      /\ \A i \in 1..Len(ls) : ls[i] \in SUBSET Units
      /\ Append(ls, N) \in Seq(SUBSET Units) /\ Len(Append(ls, N)) = Len(ls) + 1
      /\ DOMAIN Append(ls, N) = 1..(Len(ls) + 1)
      /\ \A i \in 1..Len(ls) : Append(ls, N)[i] = ls[i]
      /\ Append(ls, N)[Len(ls) + 1] = N
  OBVIOUS
<1>2. \A i \in 1..(Len(ls) + 1) : i \in 1..Len(ls) \/ i = Len(ls) + 1
  BY <1>1
<1>3. \A i \in 1..Len(ls) : i \in 1..(Len(ls) + 1)
  BY <1>1
<1>4. Len(ls) + 1 \in 1..(Len(ls) + 1)
  BY <1>1
<1>5. \A v : v \in UnitsOf(ls) <=> \E i \in 1..Len(ls) : v \in ls[i]
  BY <1>1 DEF UnitsOf
<1>6. \A v : v \in UnitsOf(Append(ls, N)) <=>
               \E i \in 1..(Len(ls) + 1) : v \in Append(ls, N)[i]
  BY <1>1 DEF UnitsOf
<1>7. \A v : v \in UnitsOf(Append(ls, N)) <=> v \in UnitsOf(ls) \/ v \in N
  BY <1>1, <1>2, <1>3, <1>4, <1>5, <1>6
<1> QED BY <1>1, <1>5, <1>7

\* What a scan still has to do.
LEMMA ScanFacts ==
  ASSUME NEW s \in Scans
  PROVE  /\ s \in Seq(Paths \cup {"state"})
         /\ s # <<>> /\ Head(s) # "state" =>
              /\ Head(s) \in Paths /\ Tail(s) \in Scans
              /\ \A q \in Paths : q \in ToSet(s) <=> q = Head(s) \/ q \in ToSet(Tail(s))
         /\ s = <<"state">> => \A q \in Paths : q \notin ToSet(s)
         /\ s = <<"live", "state">> => "live" \in ToSet(s) /\ "old" \notin ToSet(s)
         /\ s = <<"live", "old", "state">> => "live" \in ToSet(s) /\ "old" \in ToSet(s)
<1> USE DEF Paths
<1>1. CASE s = <<>>
  BY <1>1
<1>2. CASE s = <<"state">>
  BY <1>2 DEF ToSet
<1>3. CASE s = <<"live", "state">>
  <2>1. Head(s) = "live" /\ Tail(s) = <<"state">>
    BY <1>3
  <2>2. s \in Seq(Paths \cup {"state"})
    BY <1>3
  <2>3. \A q : q \in ToSet(s) <=> q \in {"live", "state"}
    BY <1>3 DEF ToSet
  <2>4. \A q : q \in ToSet(<<"state">>) <=> q = "state"
    BY DEF ToSet
  <2>5. <<"state">> \in Scans
    BY DEF Scans
  <2> QED BY <1>3, <2>1, <2>2, <2>3, <2>4, <2>5
<1>4. CASE s = <<"old", "state">>
  <2>1. Head(s) = "old" /\ Tail(s) = <<"state">>
    BY <1>4
  <2>2. s \in Seq(Paths \cup {"state"})
    BY <1>4
  <2>3. \A q : q \in ToSet(s) <=> q \in {"old", "state"}
    BY <1>4 DEF ToSet
  <2>4. \A q : q \in ToSet(<<"state">>) <=> q = "state"
    BY DEF ToSet
  <2>5. <<"state">> \in Scans
    BY DEF Scans
  <2> QED BY <1>4, <2>1, <2>2, <2>3, <2>4, <2>5
<1>5. CASE s = <<"live", "old", "state">>
  <2>1. Head(s) = "live" /\ Tail(s) = <<"old", "state">>
    BY <1>5
  <2>2. s \in Seq(Paths \cup {"state"})
    BY <1>5
  <2>3. \A q : q \in ToSet(s) <=> q \in {"live", "old", "state"}
    BY <1>5 DEF ToSet
  <2>4. \A q : q \in ToSet(<<"old", "state">>) <=> q \in {"old", "state"}
    BY DEF ToSet
  <2>5. <<"old", "state">> \in Scans
    BY DEF Scans
  <2> QED BY <1>5, <2>1, <2>2, <2>3, <2>4, <2>5
<1> QED BY <1>1, <1>2, <1>3, <1>4, <1>5 DEF Scans

LEMMA FileFacts ==
  ASSUME Types
  PROVE  /\ \A p : p \in Paths <=> p = "live" \/ p = "old"
         /\ 2 * LineCount \in Nat
         /\ \A u \in Units : u \in Nat \ {0}
         /\ written \in Nat /\ base \in Nat /\ base <= written /\ written <= 2 * LineCount
         /\ Begin("live") = base /\ End("live") = written
         /\ Begin("old") = 0 /\ End("old") = base
         /\ \A p \in Paths : /\ Begin(p) \in Nat /\ End(p) \in Nat /\ Size(p) \in Nat
                             /\ Begin(p) + Size(p) = End(p)
                             /\ Offset(known, p) \in Nat /\ Offset(saved, p) \in Nat
         /\ rd.path \in Paths /\ rd.fd \in Paths /\ rd.pos \in Nat
         /\ shadow \in Nat
<1>1. \A p : p \in Paths <=> p = "live" \/ p = "old"
  BY DEF Paths
<1>2. 2 * LineCount \in Nat /\ \A u \in Units : u \in Nat \ {0}
  BY GatewayAssumption DEF Units
<1>3. written \in Nat /\ base \in Nat /\ base <= written /\ written <= 2 * LineCount
  BY <1>2 DEF Types, TypeOK
<1>4. \A p \in Paths : Offset(known, p) \in Nat /\ Offset(saved, p) \in Nat
  BY GatewayAssumption DEF Types, TypeOK, Offset
<1>5. /\ rd.path \in Paths /\ rd.fd \in Paths /\ rd.pos \in Nat /\ shadow \in Nat
  BY DEF Types, TypeOK
<1> QED BY <1>1, <1>2, <1>3, <1>4, <1>5 DEF Begin, End, Size

\* ReadString returns the next units of the file.
LEMMA NextFacts ==
  ASSUME Types, NEW a, a = Begin(rd.fd) + rd.pos
  PROVE  /\ NextLine = {} => End(rd.fd) <= a
         /\ NextLine # {} =>
              LET n == Cardinality(NextLine)
              IN  /\ n \in Nat /\ a + n <= End(rd.fd)
                  /\ \A v \in Units : v \in NextLine <=> a < v /\ v <= a + n
                  /\ NextLine \subseteq Units
<1>1. a \in Nat /\ End(rd.fd) \in Nat /\ End(rd.fd) <= 2 * LineCount
  BY FileFacts
<1>2. Units = 1..(2 * LineCount) /\ 2 * LineCount \in Nat
  BY FileFacts DEF Units
<1>3. \/ NextLine = {} /\ End(rd.fd) < a + 1
      \/ NextLine = {a + 1} /\ a + 1 <= End(rd.fd)
      \/ NextLine = {a + 1, a + 2} /\ a + 2 <= End(rd.fd)
  BY <1>1 DEF NextLine
<1>4. CASE NextLine = {} /\ End(rd.fd) < a + 1
  BY <1>1, <1>4
<1>5. CASE NextLine = {a + 1} /\ a + 1 <= End(rd.fd)
  <2>1. Cardinality({a + 1}) = 1
    BY FS_Singleton
  <2>2. Cardinality(NextLine) = 1
    BY <1>5, <2>1
  <2>3. \A v \in Units : v \in NextLine <=> a < v /\ v <= a + 1
    BY <1>1, <1>2, <1>5
  <2>4. NextLine \subseteq Units
    BY <1>1, <1>2, <1>5
  <2> QED BY <1>5, <2>2, <2>3, <2>4
<1>6. CASE NextLine = {a + 1, a + 2} /\ a + 2 <= End(rd.fd)
  <2>1. IsFiniteSet({a + 1}) /\ Cardinality({a + 1}) = 1
    BY FS_Singleton
  <2>2. Cardinality({a + 1} \cup {a + 2}) = Cardinality({a + 1}) + 1
    <3>1. a + 2 \notin {a + 1}
      BY <1>1
    <3> QED BY <2>1, <3>1, FS_AddElement, Zenon
  <2>3. Cardinality(NextLine) = 2
    <3>1. NextLine = {a + 1} \cup {a + 2}
      BY <1>6
    <3> QED BY <2>1, <2>2, <3>1
  <2>4. \A v \in Units : v \in NextLine <=> a < v /\ v <= a + 2
    BY <1>1, <1>2, <1>6
  <2>5. NextLine \subseteq Units
    BY <1>1, <1>2, <1>6
  <2> QED BY <1>6, <2>3, <2>4, <2>5
<1> QED BY <1>3, <1>4, <1>5, <1>6

LEMMA LoadFacts ==
  ASSUME Types
  PROVE  /\ \A u \in Units : Load(u) \in Nat /\ emitted[u] \in Nat /\ emitted[u] <= Load(u)
         /\ Begun \in 0..2 /\ LivePassed \in Nat /\ OldPassed \in Nat
<1>1. \A u \in Units : emitted[u] \in Nat
  BY DEF Types
<1>2. \A u \in Units : Load(u) \in Nat /\ emitted[u] <= Load(u)
  BY <1>1 DEF Load
<1>3. Begun \in 0..2
  BY DEF Begun
<1>4. /\ base \in Nat /\ rd.pos \in Nat /\ Offset(known, "live") \in Nat
      /\ Offset(known, "old") \in Nat
  BY FileFacts
<1> QED BY <1>1, <1>2, <1>3, <1>4 DEF LivePassed, OldPassed

-------------------------------------------------------------------------------
(* The initial state, and what an action leaves alone.                       *)

LEMMA InitInv == Init => Inv
<1> SUFFICES ASSUME Init PROVE Inv
  OBVIOUS
<1> USE DEF Init
<1>1. /\ Nowhere \in Offsets /\ \A p \in Paths : Offset(Nowhere, p) = 0
      /\ 2 * LineCount \in Nat
  BY GatewayAssumption DEF Nowhere, Offsets, Offset
<1>2. ToSet(events) = {} /\ DOMAIN events = {} /\ UnitsOf(lines) = {}
  BY EmptyBatch DEF ToSet
<1>3. Types
  <2>1. Len(<<>>) = 0 /\ Len(<<>>) <= BatchSize /\ 0 \in 0..ChanCap /\ 0 \in 0..MaxCrashes
    BY GatewayAssumption
  <2>2. NoRead \in Reads
    BY DEF NoRead, Reads, Paths
  <2>3. NoRead.path \in Paths /\ NoRead.fd \in Paths /\ NoRead.pos \in Nat
    BY DEF NoRead, Paths
  <2>4. 0 \in 0..(2 * LineCount) /\ 0 \in 0..0
    BY <1>1
  <2>5. \A S : <<>> \in Seq(S)
    OBVIOUS
  <2>6. TypeOK
    BY <1>1, <2>1, <2>3, <2>4, <2>5 DEF TypeOK, Modes, Offsets
  <2> QED BY <1>1, <2>2, <2>6 DEF Types, Scans, Paths
<1>4. EventsSound /\ OldOnce /\ ReadSound /\ WillBeRead
  BY <1>2 DEF EventsSound, OnceEach, Waiting, OldOnce, ReadSound, Reading, WillBeRead,
              ToSet
<1>5. Covered
  <2>1. \A p \in Paths : Begin(p) = 0 /\ Offset(known, p) = 0 /\ Offset(saved, p) = 0
    BY <1>1 DEF Begin
  <2> QED BY <2>1, <1>1 DEF Covered, Reading, Units
<1>6. Loads
  <2>1. \A u \in Units : Load(u) = 0 /\ emitted[u] = 0
    BY <1>2 DEF Load, InBatch
  <2> QED BY <2>1 DEF Loads, Renamed
<1> QED BY <1>3, <1>4, <1>5, <1>6 DEF Inv

LEMMA Frames ==
  ASSUME Inv
  PROVE  /\ UNCHANGED <<events, rotated>> => EventsSound'
         /\ UNCHANGED <<events, rotated, scan, mode, rd>> => OldOnce'
         /\ UNCHANGED <<mode, rd, events, rotated, emitted, lines, base, written>>
              => ReadSound'
         /\ UNCHANGED <<mode, rd, base, ever, timedOut, killed, rotated, shadow, crashes,
                        events, known, saved, lines>> => Covered'
         /\ UNCHANGED <<mode, rotated, scan, events, base, written, known, rd>>
              => WillBeRead'
         /\ UNCHANGED <<emitted, lines, rotated, events, base, mode, rd, known, written>>
              => Loads'
<1>1. UNCHANGED <<events, rotated>> => EventsSound'
  BY DEF Inv, EventsSound, Renamed, Waiting
<1>6. UNCHANGED <<events, rotated, scan, mode, rd>> => OldOnce'
  BY DEF Inv, OldOnce, Renamed, Waiting, Reading
<1>2. UNCHANGED <<mode, rd, events, rotated, emitted, lines, base, written>>
        => ReadSound'
  BY DEF Inv, ReadSound, Reading, Renamed, Waiting, InBatch, Begin, End
<1>3. UNCHANGED <<mode, rd, base, ever, timedOut, killed, rotated, shadow, crashes,
                  events, known, saved, lines>> => Covered'
  BY DEF Inv, Covered, Reading, Renamed, Waiting, InBatch, Begin, Met, Done,
         Shadowed, Anew
<1>4. UNCHANGED <<mode, rotated, scan, events, base, written, known, rd>>
        => WillBeRead'
  BY DEF Inv, WillBeRead, Reading, Exists, Size, Begin, End
<1>5. UNCHANGED <<emitted, lines, rotated, events, base, mode, rd, known, written>>
        => Loads'
  BY DEF Inv, Loads, Load, NewLoad, OldLoad, Reading, Renamed, Waiting, InBatch,
         Begun, LivePassed, OldPassed
<1> QED BY <1>1, <1>2, <1>3, <1>4, <1>5, <1>6

-------------------------------------------------------------------------------
(* The gateway and the rotation of its log.                                  *)

LEMMA WriteKeeps ==
  ASSUME Inv, Write
  PROVE  Inv'
<1>0. /\ written < 2 * LineCount /\ written' = written + 1
      /\ events' = IF mode = "down" THEN events ELSE With(events, <<"live", "write">>)
      /\ UNCHANGED <<base, rotated, mode, started, scan, rd, lines, known, saved,
                     channel, crashes, emitted, ever, timedOut, killed, shadow>>
      /\ Types /\ events \in Seq(Events)
  BY DEF Write, Notify, history, Inv, Types, TypeOK, Events
<1>f. /\ written \in Nat /\ base \in Nat /\ base <= written /\ 2 * LineCount \in Nat
      /\ rd.fd \in {"live", "old"} /\ rd.pos \in Nat
  BY <1>0, FileFacts
<1>1. /\ events' \in Seq(Events)
      /\ \/ ToSet(events') = ToSet(events)
         \/ ToSet(events') = ToSet(events) \cup {<<"live", "write">>}
      /\ mode # "down" => <<"live", "write">> \in ToSet(events')
      /\ OnceEach(events) => OnceEach(events')
      /\ mode = "down" => events' = events
  <2>1. <<"live", "write">> \in Events
    BY DEF Events, Paths
  <2>2. <<"live", "write">>[2] \notin {"create", "rename"}
    OBVIOUS
  <2> QED BY <1>0, <2>1, <2>2, WithFacts
<1>2. \A e : e # <<"live", "write">> => (Waiting(e)' <=> Waiting(e))
  BY <1>1 DEF Waiting
<1>3. /\ Waiting(<<"live", "rename">>)' <=> Waiting(<<"live", "rename">>)
      /\ Waiting(<<"live", "create">>)' <=> Waiting(<<"live", "create">>)
      /\ Waiting(<<"old", "create">>)' <=> Waiting(<<"old", "create">>)
  BY <1>2
<1>4. Types'
  BY <1>0, <1>f, <1>1 DEF Types, TypeOK, Events
<1>5. EventsSound'
  <2>1. Waiting(<<"old", "remove">>)' <=> Waiting(<<"old", "remove">>)
    BY <1>2
  <2> QED BY <1>0, <1>1, <2>1 DEF Inv, EventsSound, Renamed
<1>10. OldOnce'
  BY <1>0, <1>3 DEF Inv, OldOnce, Renamed, Reading
<1>6. ReadSound'
  <2>1. Begin(rd.fd)' = Begin(rd.fd) /\ End(rd.fd) <= End(rd.fd)'
        /\ Begin(rd.fd) + rd.pos \in Nat /\ End(rd.fd) \in Nat /\ End(rd.fd)' \in Nat
    BY <1>0, <1>f DEF Begin, End
  <2> QED BY <1>0, <1>3, <2>1 DEF Inv, ReadSound, Reading, Renamed, InBatch
<1>7. Covered'
  <2>1. /\ \A u : (Met(u)' <=> Met(u)) /\ (Done(u)' <=> Done(u))
        /\ \A u : (Shadowed(u)' <=> Shadowed(u)) /\ (InBatch(u)' <=> InBatch(u))
        /\ \A p : Begin(p)' = Begin(p)
    BY <1>0, <1>3 DEF Met, Done, Shadowed, Anew, Renamed, InBatch, Begin
  <2> QED BY <1>0, <2>1 DEF Inv, Covered, Reading
<1>8. WillBeRead'
  <2>1. \A e \in ToSet(events) : e \in ToSet(events')
    BY <1>1
  <2>2. <<"live", "write">>[1] = "live"
    OBVIOUS
  <2>3. Size("old")' = Size("old") /\ \A p : Exists(p)' <=> Exists(p)
    BY <1>0 DEF Size, Begin, End, Exists
  <2>4. \A p \in Paths : p = "live" \/ p = "old"
    BY DEF Paths
  <2> QED BY <1>0, <1>1, <2>1, <2>2, <2>3, <2>4 DEF Inv, WillBeRead, Reading
<1>9. Loads'
  <2>1. \A u : Load(u)' = Load(u)
    BY <1>0 DEF Load, InBatch
  <2>2. /\ Begun' = Begun /\ LivePassed' = LivePassed /\ OldPassed' = OldPassed
        /\ Renamed' = Renamed
    BY <1>0, <1>3 DEF Begun, Renamed, LivePassed, OldPassed, Reading
  <2> SUFFICES ASSUME NEW u \in Units
               PROVE  /\ written' < u => Load(u) = 0
                      /\ mode = "down" =>
                           emitted[u] <= IF ~Renamed THEN 1 ELSE IF u <= base THEN 2 ELSE 3
                      /\ mode # "down" => NewLoad(u)' /\ OldLoad(u)'
    BY <1>0, <2>1, <2>2 DEF Loads
  <2>3. u \in Nat
    BY <1>0, FileFacts
  <2>4. written' < u => Load(u) = 0
    BY <1>0, <1>f, <2>3 DEF Inv, Loads
  <2>5. mode # "down" => NewLoad(u)'
    <3> SUFFICES ASSUME mode # "down", base < u
                 PROVE  Load(u) <= Begun + IF u <= LivePassed /\ LivePassed <= written'
                                           THEN 1 ELSE 0
      BY <1>0, <2>1, <2>2 DEF NewLoad
    <3>1. Load(u) <= Begun + IF u <= LivePassed /\ LivePassed <= written THEN 1 ELSE 0
      BY DEF Inv, Loads, NewLoad
    <3>2. /\ Load(u) \in Nat /\ Begun \in Nat /\ LivePassed \in Nat
      BY <1>0, LoadFacts
    <3> QED BY <1>0, <1>f, <2>3, <3>1, <3>2
  <2>6. mode # "down" => OldLoad(u)'
    BY <1>0, <1>3, <2>1, <2>2 DEF Inv, Loads, OldLoad, Reading
  <2> QED BY <2>4, <2>5, <2>6 DEF Inv, Loads
<1> QED BY <1>4, <1>5, <1>6, <1>7, <1>8, <1>9, <1>10 DEF Inv

\* A rotation: what was read of the old file is an offset in the new one.
LEMMA NewFileFacts ==
  ASSUME Inv, NewFile
  PROVE  /\ rotated = "no" /\ base = 0 /\ shadow = 0 /\ base' = written
         /\ written \in Nat /\ written % 2 = 0
         /\ ToSet(events) \subseteq {<<"live", "write">>} /\ "old" \notin ToSet(scan)
         /\ Reading => rd.path = "live" /\ rd.fd = "live" /\ rd.pos <= written
         /\ Offset(known, "old") = 0 /\ Offset(saved, "old") = 0
         /\ shadow' \in Nat /\ written + rd.pos <= shadow'
         /\ written + Offset(known, "live") <= shadow'
         /\ written + Offset(saved, "live") <= shadow'
         /\ \A u \in Units :
              /\ u > 0 /\ Load(u) \in Nat /\ emitted[u] \in Nat
              /\ mode = "down" => emitted[u] <= 1
              /\ mode # "down" => Load(u) <= 1
              /\ mode # "down" /\ Reading /\ rd.pos < u => Load(u) = 0
              /\ written < u => emitted[u] = 0 /\ ~InBatch(u) /\ Load(u) = 0
<1>9. Types
  BY DEF Inv
<1>0. /\ rotated = "no" /\ written % 2 = 0 /\ base' = written
      /\ shadow' = written + Larger(rd.pos, Larger(Offset(known, "live"),
                                                   Offset(saved, "live")))
  BY DEF NewFile
<1>1. base = 0 /\ shadow = 0
  BY <1>0, <1>9 DEF Types
<1>2. /\ written \in Nat /\ rd.pos \in Nat /\ Offset(known, "live") \in Nat
      /\ Offset(saved, "live") \in Nat /\ Offset(known, "old") \in Nat
      /\ Offset(saved, "old") \in Nat
      /\ rd.fd \in {"live", "old"} /\ rd.path \in {"live", "old"}
      /\ \A u \in Units : u \in Nat \ {0}
  BY <1>9, FileFacts
<1>3. Offset(known, "old") = 0 /\ Offset(saved, "old") = 0
  BY <1>1, <1>2, <1>9 DEF Types
<1>4. /\ shadow' \in Nat /\ written + rd.pos <= shadow'
      /\ written + Offset(known, "live") <= shadow'
      /\ written + Offset(saved, "live") <= shadow'
  BY <1>0, <1>2 DEF Larger
<1>5. ToSet(events) \subseteq {<<"live", "write">>}
  BY <1>0 DEF Inv, EventsSound, Renamed
<1>8. "old" \notin ToSet(scan)
  BY <1>0 DEF Inv, OldOnce, Renamed
<1>6. Reading => rd.path = "live" /\ rd.fd = "live" /\ rd.pos <= written
  BY <1>0, <1>1, <1>2 DEF Inv, ReadSound, Renamed, Begin, End
<1>7. ASSUME NEW u \in Units
      PROVE  /\ u > 0 /\ Load(u) \in Nat /\ emitted[u] \in Nat
             /\ mode = "down" => emitted[u] <= 1
             /\ mode # "down" => Load(u) <= 1
             /\ mode # "down" /\ Reading /\ rd.pos < u => Load(u) = 0
             /\ written < u => emitted[u] = 0 /\ ~InBatch(u) /\ Load(u) = 0
  <2>1. /\ Load(u) \in Nat /\ emitted[u] \in Nat /\ emitted[u] <= Load(u)
        /\ LivePassed \in Nat
    BY <1>9, LoadFacts
  <2>2. mode = "down" => emitted[u] <= 1
    BY <1>0 DEF Inv, Loads, Renamed
  <2>3. mode # "down" => Load(u) <= IF u <= LivePassed /\ LivePassed <= written
                                    THEN 1 ELSE 0
    <3>1. mode # "down" => Load(u) <= Begun + IF u <= LivePassed /\ LivePassed <= written
                                              THEN 1 ELSE 0
      BY <1>1, <1>2 DEF Inv, Loads, NewLoad
    <3>2. Begun = 0
      BY <1>0 DEF Begun, Renamed
    <3> QED BY <2>1, <3>1, <3>2
  <2>4. Reading => LivePassed = rd.pos
    BY <1>1, <1>2, <1>6 DEF LivePassed
  <2>5. written < u => Load(u) = 0
    BY DEF Inv, Loads
  <2>6. Load(u) = 0 => ~InBatch(u)
    BY <2>1 DEF Load
  <2> QED BY <1>2, <2>1, <2>2, <2>3, <2>4, <2>5, <2>6
<1> QED BY <1>0, <1>1, <1>2, <1>3, <1>4, <1>5, <1>6, <1>7, <1>8

LEMMA RenameKeeps ==
  ASSUME Inv, Rename
  PROVE  Inv'
<1> DEFINE q == With(With(With(events, <<"live", "rename">>), <<"old", "create">>),
                     <<"live", "create">>)
<1>9. Types /\ NewFile
  BY DEF Inv, Rename
<1>0. /\ rotated' = "renamed" /\ rd' = [rd EXCEPT !.fd = "old"]
      /\ events' = IF mode = "down" THEN events ELSE q
      /\ UNCHANGED <<written, mode, started, scan, lines, known, saved, channel,
                     crashes, emitted, ever, timedOut, killed>>
      /\ events \in Seq(Events)
  BY <1>9 DEF Rename, Notify, Types, TypeOK, Events
<1>1. /\ rotated = "no" /\ base = 0 /\ shadow = 0 /\ base' = written
      /\ written \in Nat /\ written % 2 = 0
      /\ ToSet(events) \subseteq {<<"live", "write">>} /\ "old" \notin ToSet(scan)
      /\ Reading => rd.path = "live" /\ rd.fd = "live" /\ rd.pos <= written
      /\ Offset(known, "old") = 0 /\ Offset(saved, "old") = 0
      /\ shadow' \in Nat /\ written + rd.pos <= shadow'
      /\ written + Offset(known, "live") <= shadow'
      /\ written + Offset(saved, "live") <= shadow'
  BY <1>9, NewFileFacts
<1>2. \A u \in Units :
        /\ u > 0 /\ Load(u) \in Nat /\ emitted[u] \in Nat
        /\ mode = "down" => emitted[u] <= 1
        /\ mode # "down" => Load(u) <= 1
        /\ mode # "down" /\ Reading /\ rd.pos < u => Load(u) = 0
        /\ written < u => emitted[u] = 0 /\ ~InBatch(u) /\ Load(u) = 0
  BY <1>9, NewFileFacts
<1>3. /\ q \in Seq(Events)
      /\ ToSet(q) = ToSet(events) \cup {<<"live", "rename">>, <<"old", "create">>,
                                        <<"live", "create">>}
      /\ OnceEach(q)
  <2> DEFINE q1 == With(events, <<"live", "rename">>)
             q2 == With(q1, <<"old", "create">>)
  <2>1. /\ <<"live", "rename">> \in Events /\ <<"old", "create">> \in Events
        /\ <<"live", "create">> \in Events
    BY DEF Events, Paths
  <2>2. /\ <<"live", "rename">> # <<"old", "create">>
        /\ <<"live", "rename">> # <<"live", "create">>
        /\ <<"old", "create">> # <<"live", "create">>
        /\ <<"live", "rename">> # <<"live", "write">>
        /\ <<"old", "create">> # <<"live", "write">>
        /\ <<"live", "create">> # <<"live", "write">>
    OBVIOUS
  <2>3. OnceEach(events)
    BY DEF Inv, EventsSound
  <2>4. /\ q1 \in Seq(Events) /\ ToSet(q1) = ToSet(events) \cup {<<"live", "rename">>}
        /\ OnceEach(q1)
    BY <1>0, <1>1, <2>1, <2>2, <2>3, WithFacts
  <2> HIDE DEF q1
  <2>5. /\ q2 \in Seq(Events) /\ ToSet(q2) = ToSet(q1) \cup {<<"old", "create">>}
        /\ OnceEach(q2)
    BY <1>1, <2>1, <2>2, <2>4, WithFacts
  <2> HIDE DEF q2
  <2>6. /\ With(q2, <<"live", "create">>) \in Seq(Events)
        /\ ToSet(With(q2, <<"live", "create">>)) = ToSet(q2) \cup {<<"live", "create">>}
        /\ OnceEach(With(q2, <<"live", "create">>))
    BY <1>1, <2>1, <2>2, <2>4, <2>5, WithFacts
  <2>7. q = With(q2, <<"live", "create">>)
    BY DEF q1, q2
  <2> HIDE DEF q
  <2> QED BY <2>4, <2>5, <2>6, <2>7
<1> HIDE DEF q
<1>4. /\ rd'.path = rd.path /\ rd'.fd = "old" /\ rd'.pos = rd.pos /\ rd' \in Reads
  BY <1>0, <1>9 DEF Types, Reads, Paths
<1>5. /\ Renamed' /\ ~Renamed
      /\ mode # "down" => /\ Waiting(<<"live", "rename">>)'
                          /\ Waiting(<<"live", "create">>)'
                          /\ Waiting(<<"old", "create">>)'
      /\ ~Anew' /\ ~Anew
  BY <1>0, <1>1, <1>3 DEF Renamed, Waiting, Anew
<1>6. Types'
  <2>1. TypeOK'
    <3>1. written \in 0..written
      BY <1>1
    <3>2. events' \in Seq(Paths \X {"write", "create", "rename", "remove"})
      BY <1>0, <1>3 DEF Events
    <3> QED BY <1>0, <1>1, <1>4, <1>9, <3>1, <3>2 DEF Types, TypeOK, Reads
  <2> QED BY <2>1, <1>0, <1>1, <1>4, <1>9 DEF Types
<1>7. EventsSound'
  <2>1. /\ <<"live", "rename">> # <<"old", "remove">>
        /\ <<"live", "create">> # <<"old", "remove">>
        /\ <<"old", "create">> # <<"old", "remove">>
        /\ <<"live", "write">> # <<"old", "remove">>
    OBVIOUS
  <2>2. OnceEach(events)
    BY DEF Inv, EventsSound
  <2>3. ~Waiting(<<"old", "remove">>)'
    BY <1>0, <1>1, <1>3, <2>1 DEF Waiting
  <2> QED BY <1>0, <1>1, <1>3, <1>5, <2>2, <2>3 DEF EventsSound
<1>13. OldOnce'
  BY <1>0, <1>1, <1>4 DEF OldOnce, Reading
<1>8. ReadSound'
  <2>1. CASE Reading
    <3>1. mode # "down"
      BY <2>1 DEF Reading
    <3>2. /\ rd'.path = "live" /\ rd'.fd = "old" /\ Renamed'
          /\ Waiting(<<"live", "rename">>)' /\ Waiting(<<"live", "create">>)'
          /\ Waiting(<<"old", "create">>)'
      BY <1>1, <1>4, <1>5, <2>1, <3>1
    <3>3. (\A u \in Units : base < u => emitted[u] = 0 /\ ~InBatch(u))'
      BY <1>0, <1>1, <1>2 DEF InBatch
    <3>4. Begin("old")' = 0 /\ End("old")' = written /\ 0 + rd'.pos <= written
      BY <1>1, <1>4, <2>1, FileFacts, <1>9 DEF Begin, End
    <3>5. (Begin(rd.fd) + rd.pos <= End(rd.fd))'
      BY <3>2, <3>4
    <3> QED BY <3>2, <3>3, <3>5 DEF ReadSound
  <2>2. CASE ~Reading
    BY <1>0, <2>2 DEF ReadSound, Reading
  <2> QED BY <2>1, <2>2
<1>10. Covered'
  <2> SUFFICES ASSUME NEW u \in Units
               PROVE  /\ Reading /\ 0 < u /\ u <= 0 + rd.pos => Done(u)' \/ InBatch(u)
                      /\ written < u /\ u <= written + Offset(known, "live") => Shadowed(u)'
                      /\ written < u /\ u <= written + Offset(saved, "live") => Shadowed(u)'
                      /\ ~(0 < u /\ u <= 0 + Offset(known, "old"))
                      /\ ~(0 < u /\ u <= 0 + Offset(saved, "old"))
    <3>1. Begin("old")' = 0 /\ Begin("live")' = written
      BY <1>1 DEF Begin
    <3>2. \A p \in Paths : p = "live" \/ p = "old"
      BY DEF Paths
    <3> QED BY <1>0, <1>4, <1>5, <3>1, <3>2 DEF Covered, Reading, Met, InBatch
  <2>1. u \in Nat \ {0} /\ rd.pos \in Nat /\ Offset(known, "live") \in Nat
        /\ Offset(saved, "live") \in Nat
    BY <1>9, FileFacts
  <2>2. Reading /\ u <= rd.pos => Done(u)' \/ InBatch(u)
    <3>1. Reading /\ u <= rd.pos => Met(u) \/ InBatch(u)
      BY <1>1, <2>1 DEF Inv, Covered, Begin
    <3>2. ~Shadowed(u)
      BY <1>1, <2>1 DEF Shadowed
    <3>3. Done(u) => Done(u)'
      BY <1>0, <1>1 DEF Done
    <3> QED BY <3>1, <3>2, <3>3 DEF Met
  <2>3. \A o \in Nat : written + o <= shadow' /\ written < u /\ u <= written + o
                         => Shadowed(u)'
    BY <1>1, <2>1 DEF Shadowed
  <2> QED BY <1>1, <2>1, <2>2, <2>3
<1>11. WillBeRead'
  <2>1. mode # "down" => <<"live", "create">> \in ToSet(events')
                         /\ <<"old", "create">> \in ToSet(events')
    BY <1>0, <1>3
  <2>2. <<"live", "create">>[1] = "live" /\ <<"old", "create">>[1] = "old"
    OBVIOUS
  <2> QED BY <1>0, <2>1, <2>2 DEF WillBeRead, Paths
<1>12. Loads'
  <2>1. \A u : Load(u)' = Load(u)
    BY <1>0 DEF Load, InBatch
  <2>2. Begun' \in Nat
    BY DEF Begun
  <2> SUFFICES ASSUME NEW u \in Units
               PROVE  /\ written < u => Load(u) = 0
                      /\ mode = "down" => emitted[u] <= IF u <= written THEN 2 ELSE 3
                      /\ mode # "down" => NewLoad(u)' /\ OldLoad(u)'
    BY <1>0, <1>1, <1>5, <2>1 DEF Loads
  <2>3. mode # "down" => NewLoad(u)'
    <3>1. mode # "down" /\ written < u => Load(u) <= Begun' + 0 /\ Load(u) <= Begun' + 1
      BY <1>2, <2>2
    <3> QED BY <1>1, <2>1, <3>1 DEF NewLoad
  <2>4. mode # "down" => OldLoad(u)'
    BY <1>0, <1>1, <1>2, <1>4, <1>5, <2>1 DEF OldLoad, Reading
  <2> QED BY <1>2, <2>3, <2>4
<1> QED BY <1>6, <1>7, <1>8, <1>10, <1>11, <1>12, <1>13 DEF Inv

LEMMA EmptyKeeps ==
  ASSUME Inv, Empty
  PROVE  Inv'
<1>9. Types /\ NewFile
  BY DEF Inv, Empty
<1>0. /\ rotated' = "emptied"
      /\ events' = IF mode = "down" THEN events ELSE With(events, <<"live", "write">>)
      /\ UNCHANGED <<written, mode, started, scan, rd, lines, known, saved, channel,
                     crashes, emitted, ever, timedOut, killed>>
      /\ events \in Seq(Events)
  BY <1>9 DEF Empty, Notify, Types, TypeOK, Events
<1>1. /\ rotated = "no" /\ base = 0 /\ shadow = 0 /\ base' = written
      /\ written \in Nat /\ written % 2 = 0
      /\ ToSet(events) \subseteq {<<"live", "write">>} /\ "old" \notin ToSet(scan)
      /\ Reading => rd.path = "live" /\ rd.fd = "live" /\ rd.pos <= written
      /\ Offset(known, "old") = 0 /\ Offset(saved, "old") = 0
      /\ shadow' \in Nat /\ written + rd.pos <= shadow'
      /\ written + Offset(known, "live") <= shadow'
      /\ written + Offset(saved, "live") <= shadow'
  BY <1>9, NewFileFacts
<1>2. \A u \in Units :
        /\ u > 0 /\ Load(u) \in Nat /\ emitted[u] \in Nat
        /\ mode = "down" => emitted[u] <= 1
        /\ mode # "down" => Load(u) <= 1
        /\ written < u => emitted[u] = 0 /\ ~InBatch(u) /\ Load(u) = 0
  BY <1>9, NewFileFacts
<1>3. /\ events' \in Seq(Events)
      /\ ToSet(events') \subseteq {<<"live", "write">>}
      /\ mode # "down" => <<"live", "write">> \in ToSet(events')
      /\ OnceEach(events')
  <2>1. <<"live", "write">> \in Events
    BY DEF Events, Paths
  <2>2. <<"live", "write">>[2] \notin {"create", "rename"}
    OBVIOUS
  <2>3. OnceEach(events)
    BY DEF Inv, EventsSound
  <2> DEFINE e == <<"live", "write">>
             q == With(events, e)
  <2>4. events \in Seq(Events)
    BY <1>0
  <2>5. q \in Seq(Events) /\ ToSet(q) = ToSet(events) \cup {e} /\ OnceEach(q)
    BY <2>1, <2>2, <2>3, <2>4, WithFacts
  <2>6. events' = IF mode = "down" THEN events ELSE q
    BY <1>0
  <2> HIDE DEF q
  <2> QED BY <1>1, <2>3, <2>4, <2>5, <2>6
<1>5. ~Renamed' /\ ~Renamed /\ ~Anew' /\ ~Anew
  BY <1>0, <1>1 DEF Renamed, Anew
<1>6. Types'
  <2>1. TypeOK'
    <3>1. written \in 0..written
      BY <1>1
    <3>2. events' \in Seq(Paths \X {"write", "create", "rename", "remove"})
      BY <1>3 DEF Events
    <3> QED BY <1>0, <1>1, <1>9, <3>1, <3>2 DEF Types, TypeOK
  <2>2. mode = "down" => events' = <<>>
    BY <1>0, <1>9 DEF Types
  <2> QED BY <2>1, <2>2, <1>0, <1>1, <1>9 DEF Types
<1>7. EventsSound'
  <2>1. <<"live", "write">> # <<"old", "remove">>
    OBVIOUS
  <2>2. ~Waiting(<<"old", "remove">>)'
    BY <1>3, <2>1 DEF Waiting
  <2> QED BY <1>3, <2>2 DEF EventsSound
<1>13. OldOnce'
  BY <1>0, <1>1 DEF OldOnce, Reading
<1>8. ReadSound'
  BY <1>0, <1>1 DEF ReadSound, Reading
<1>10. Covered'
  <2> SUFFICES ASSUME NEW u \in Units
               PROVE  /\ Reading /\ written < u /\ u <= written + rd.pos => Shadowed(u)'
                      /\ written < u /\ u <= written + Offset(known, "live") => Shadowed(u)'
                      /\ written < u /\ u <= written + Offset(saved, "live") => Shadowed(u)'
                      /\ ~(0 < u /\ u <= 0 + Offset(known, "old"))
                      /\ ~(0 < u /\ u <= 0 + Offset(saved, "old"))
    <3>1. Begin("old")' = 0 /\ Begin("live")' = written
      BY <1>1 DEF Begin
    <3>2. \A p \in Paths : p = "live" \/ p = "old"
      BY DEF Paths
    <3> QED BY <1>0, <1>1, <1>5, <3>1, <3>2 DEF Covered, Reading, Met, InBatch
  <2>1. u \in Nat \ {0} /\ rd.pos \in Nat /\ Offset(known, "live") \in Nat
        /\ Offset(saved, "live") \in Nat
    BY <1>9, FileFacts
  <2>3. \A o \in Nat : written + o <= shadow' /\ written < u /\ u <= written + o
                         => Shadowed(u)'
    BY <1>1, <2>1 DEF Shadowed
  <2>4. /\ written < u /\ u <= written + rd.pos => Shadowed(u)'
        /\ written < u /\ u <= written + Offset(known, "live") => Shadowed(u)'
        /\ written < u /\ u <= written + Offset(saved, "live") => Shadowed(u)'
    BY <1>1, <2>1, <2>3
  <2>5. /\ ~(0 < u /\ u <= 0 + Offset(known, "old"))
        /\ ~(0 < u /\ u <= 0 + Offset(saved, "old"))
    BY <1>1, <2>1
  <2> QED BY <2>4, <2>5
<1>11. WillBeRead'
  <2>1. <<"live", "write">>[1] = "live"
    OBVIOUS
  <2>2. \A p \in Paths : Exists(p)' => p = "live"
    BY <1>0 DEF Exists
  <2> QED BY <1>0, <1>3, <2>1, <2>2 DEF WillBeRead
<1>12. Loads'
  <2>1. \A u : Load(u)' = Load(u)
    BY <1>0 DEF Load, InBatch
  <2>2. Begun' = 0
    BY <1>5 DEF Begun
  <2> SUFFICES ASSUME NEW u \in Units
               PROVE  /\ written < u => Load(u) = 0
                      /\ mode = "down" => emitted[u] <= 1
                      /\ mode # "down" => NewLoad(u)' /\ OldLoad(u)'
    BY <1>0, <1>5, <2>1 DEF Loads
  <2>3. mode # "down" => NewLoad(u)'
    <3>1. mode # "down" /\ written < u => Load(u) <= 0 + 0 /\ Load(u) <= 0 + 1
      BY <1>2
    <3> QED BY <1>1, <2>1, <2>2, <3>1 DEF NewLoad
  <2>4. mode # "down" => OldLoad(u)'
    BY <1>2, <1>5, <2>1 DEF OldLoad
  <2> QED BY <1>2, <2>3, <2>4
<1> QED BY <1>6, <1>7, <1>8, <1>10, <1>11, <1>12, <1>13 DEF Inv

LEMMA UnlinkKeeps ==
  ASSUME Inv, Unlink
  PROVE  Inv'
<1>9. Types
  BY DEF Inv
<1>0. /\ rotated = "renamed" /\ rotated' = "removed"
      /\ events' = IF mode = "down" THEN events ELSE With(events, <<"old", "remove">>)
      /\ UNCHANGED <<written, base, mode, started, scan, rd, lines, known, saved,
                     channel, crashes, emitted, ever, timedOut, killed, shadow>>
      /\ events \in Seq(Events)
  BY <1>9 DEF Unlink, Notify, Types, TypeOK, Events, history
<1>1. /\ events' \in Seq(Events)
      /\ ToSet(events) \subseteq ToSet(events')
      /\ ToSet(events') \subseteq ToSet(events) \cup {<<"old", "remove">>}
      /\ OnceEach(events')
      /\ mode = "down" => events' = events
  <2>1. <<"old", "remove">> \in Events
    BY DEF Events, Paths
  <2>2. <<"old", "remove">>[2] \notin {"create", "rename"}
    OBVIOUS
  <2>3. OnceEach(events)
    BY DEF Inv, EventsSound
  <2> QED BY <1>0, <2>1, <2>2, <2>3, WithFacts
<1>2. /\ Waiting(<<"live", "rename">>)' <=> Waiting(<<"live", "rename">>)
      /\ Waiting(<<"live", "create">>)' <=> Waiting(<<"live", "create">>)
      /\ Waiting(<<"old", "create">>)' <=> Waiting(<<"old", "create">>)
      /\ Renamed' /\ Renamed
  <2>1. /\ <<"live", "rename">> # <<"old", "remove">>
        /\ <<"live", "create">> # <<"old", "remove">>
        /\ <<"old", "create">> # <<"old", "remove">>
    OBVIOUS
  <2> QED BY <1>0, <1>1, <2>1 DEF Waiting, Renamed
<1>3. Types'
  BY <1>0, <1>1, <1>9 DEF Types, TypeOK, Events
<1>4. EventsSound'
  BY <1>0, <1>1, <1>2 DEF Inv, EventsSound
<1>10. OldOnce'
  BY <1>0, <1>2 DEF Inv, OldOnce, Reading
<1>5. ReadSound'
  BY <1>0, <1>2 DEF Inv, ReadSound, Reading, InBatch, Begin, End
<1>6. Covered'
  <2>1. /\ \A u : (Done(u) => Done(u)') /\ (Shadowed(u)' <=> Shadowed(u))
        /\ \A u : InBatch(u)' <=> InBatch(u)
        /\ \A p : Begin(p)' = Begin(p)
        /\ Anew' <=> Anew
    BY <1>0, <1>2 DEF Done, Shadowed, Anew, InBatch, Begin
  <2> QED BY <1>0, <2>1 DEF Inv, Covered, Reading, Met
<1>7. WillBeRead'
  <2>1. \A p \in Paths : Exists(p)' => p = "live" /\ Exists(p) /\ Size(p)' = Size(p)
    BY <1>0 DEF Exists, Size, Begin, End
  <2>2. \A e \in ToSet(events) : e \in ToSet(events')
    BY <1>1
  <2> QED BY <1>0, <2>1, <2>2 DEF Inv, WillBeRead, Reading
<1>8. Loads'
  <2>1. \A u : Load(u)' = Load(u)
    BY <1>0 DEF Load, InBatch
  <2>2. Begun' = Begun /\ LivePassed' = LivePassed
    BY <1>0, <1>2 DEF Begun, LivePassed, Reading
  <2>3. \A u \in Nat : u <= base /\ u <= OldPassed => u <= OldPassed'
    <3>1. OldPassed \in Nat /\ base \in Nat
      BY <1>9, FileFacts, LoadFacts
    <3> QED BY <1>0, <3>1 DEF OldPassed, Reading
  <2> SUFFICES ASSUME NEW u \in Units
               PROVE  /\ written < u => Load(u) = 0
                      /\ mode = "down" => emitted[u] <= IF u <= base THEN 2 ELSE 3
                      /\ mode # "down" => NewLoad(u)' /\ OldLoad(u)'
    BY <1>0, <1>2, <2>1 DEF Loads
  <2>4. mode # "down" => NewLoad(u)'
    BY <1>0, <2>1, <2>2 DEF Inv, Loads, NewLoad
  <2>5. mode # "down" => OldLoad(u)'
    <3>1. mode # "down" => OldLoad(u)
      BY DEF Inv, Loads
    <3>2. u \in Nat /\ Load(u) \in Nat
      BY <1>9, FileFacts, LoadFacts
    <3>3. u <= base /\ u <= OldPassed => u <= OldPassed'
      BY <2>3, <3>2
    <3> QED BY <1>0, <1>2, <2>1, <3>1, <3>2, <3>3 DEF OldLoad, Reading
  <2> QED BY <1>2, <2>4, <2>5 DEF Inv, Loads
<1> QED BY <1>3, <1>4, <1>5, <1>6, <1>7, <1>8, <1>10 DEF Inv

-------------------------------------------------------------------------------
(* The watcher turns to a file.                                              *)

\* readNewLines is called with an empty batch; the offset of p is kept or reset,
\* and nothing but p leaves the scan or the queue.
LEMMA OpenKeeps ==
  ASSUME Inv, mode = "ready",
         NEW p \in Paths, NEW k \in Offsets, NEW again \in BOOLEAN,
         NEW after \in {"ready", "tail"}, Open(p, k, again, after),
         UNCHANGED <<written, base, rotated, started, lines, saved, channel, crashes,
                     emitted, ever, timedOut, killed, shadow>>,
         scan' \in Scans, started => scan' = <<>>,
         \A q \in Paths : q # p /\ q \in ToSet(scan) => q \in ToSet(scan'),
         \A e \in ToSet(events) : e[1] # p => e \in ToSet(events'),
         EventsSound', events' \in Seq(Events), OldOnce',
         k = known \/ k = [known EXCEPT ![p] = 0],
         Anew' => Anew \/ Offset(k, "live") = 0,
         \A u \in Units : base < u =>
           emitted[u] <= Begun' + IF u <= base + Offset(k, "live")
                                     /\ base + Offset(k, "live") <= written
                                  THEN 1 ELSE 0,
         \A u \in Units : u <= base =>
           /\ ~Renamed => emitted[u] <= 1
           /\ Renamed /\ Waiting(<<"old", "create">>)' => emitted[u] <= 1
           /\ Renamed /\ ~Waiting(<<"old", "create">>)' =>
                emitted[u] <= 1 + IF rotated = "removed" \/ u <= Offset(k, "old")
                                  THEN 1 ELSE 0
  PROVE  Inv'
<1>1. Types /\ lines = <<>> /\ UnitsOf(lines) = {} /\ ~Reading
  BY EmptyBatch DEF Inv, Types, Reading
<1>2. /\ known' = k
      /\ \/ mode' \in {"ready", "tail"} /\ rd' = rd
            /\ (~Exists(p) \/ Size(p) <= Offset(k, p))
         \/ /\ mode' = "read" /\ Exists(p)
            /\ rd'.path = p /\ rd'.fd = p /\ rd' \in Reads
            /\ rd'.pos <= Offset(k, p) /\ rd'.pos <= Size(p)
            /\ Offset(k, p) <= Size(p) => rd'.pos = Offset(k, p)
            /\ Size(p) < Offset(k, p) => rd'.pos = 0
  <2> DEFINE last == IF Size(p) < Offset(k, p) THEN 0 ELSE Offset(k, p)
  <2>1. /\ known' = k
        /\ IF ~Exists(p) \/ Size(p) = last
           THEN mode' = after /\ rd' = rd
           ELSE /\ mode' = "read"
                /\ rd' = [path |-> p, fd |-> p, pos |-> last, count |-> 0,
                          again |-> again]
    BY DEF Open
  <2>2. Size(p) \in Nat /\ Offset(k, p) \in Nat
    BY <1>1, FileFacts, GatewayAssumption DEF Offset, Offsets
  <2>3. /\ last \in Nat /\ last <= Offset(k, p) /\ last <= Size(p)
        /\ Offset(k, p) <= Size(p) => last = Offset(k, p)
        /\ Size(p) < Offset(k, p) => last = 0
    BY <2>2
  <2> HIDE DEF last
  <2>4. CASE ~Exists(p) \/ Size(p) = last
    BY <2>1, <2>3, <2>4
  <2>5. CASE ~(~Exists(p) \/ Size(p) = last)
    <3>1. /\ mode' = "read"
          /\ rd' = [path |-> p, fd |-> p, pos |-> last, count |-> 0, again |-> again]
      BY <2>1, <2>5
    <3>2. rd' \in Reads /\ rd'.path = p /\ rd'.fd = p /\ rd'.pos = last
      BY <2>3, <3>1 DEF Reads
    <3> QED BY <2>1, <2>3, <2>5, <3>1, <3>2
  <2> QED BY <2>4, <2>5
<1>3. /\ \A q \in Paths : /\ Offset(k, q) \in Nat /\ Offset(k, q) <= Offset(known, q)
                          /\ q # p => Offset(k, q) = Offset(known, q)
      /\ Offset(k, "old") <= base /\ Offset(k, "live") \in Nat
      /\ Offset(k, "old") \in Nat
  <2>1. known \in Offsets /\ Offset(known, "old") <= base /\ known # Torn
    BY <1>1, GatewayAssumption DEF Types, TypeOK, Offsets
  <2>2. \A q \in Paths : Offset(known, q) \in Nat /\ Offset(k, q) \in Nat
    BY <2>1, GatewayAssumption DEF Offset, Offsets
  <2>3. ASSUME k = [known EXCEPT ![p] = 0], NEW q \in Paths
        PROVE  Offset(k, q) = IF q = p THEN 0 ELSE Offset(known, q)
    BY <2>1, <2>3, GatewayAssumption DEF Offset, Offsets
  <2>4. \A q \in Paths : /\ Offset(k, q) \in Nat /\ Offset(k, q) <= Offset(known, q)
                         /\ q # p => Offset(k, q) = Offset(known, q)
    BY <2>2, <2>3
  <2>5. base \in Nat /\ "old" \in Paths /\ "live" \in Paths
    BY <1>1, FileFacts DEF Paths
  <2> QED BY <2>1, <2>2, <2>4, <2>5
<1>4. /\ written \in Nat /\ base \in Nat /\ base <= written
      /\ Begin("live") = base /\ End("live") = written
      /\ Begin("old") = 0 /\ End("old") = base
      /\ Begin(p) \in Nat /\ Size(p) \in Nat /\ Begin(p) + Size(p) = End(p)
      /\ Size("live") = written - base /\ Size("old") = base
      /\ p = "live" \/ p = "old"
  BY <1>1, FileFacts DEF Size, Begin, End
<1>5. /\ \A q : Begin(q)' = Begin(q) /\ End(q)' = End(q) /\ Size(q)' = Size(q)
      /\ \A q : Exists(q)' <=> Exists(q)
      /\ Renamed' <=> Renamed
  BY DEF Begin, End, Size, Exists, Renamed
<1>6. Types'
  <2>1. rd' \in Reads /\ mode' \in {"ready", "tail", "read"}
    BY <1>1, <1>2 DEF Types
  <2>2. rd'.path \in Paths /\ rd'.fd \in Paths /\ rd'.pos \in Nat
    BY <2>1 DEF Reads
  <2>3. scan' \in Seq(Paths \cup {"state"})
    BY ScanFacts
  <2>4. TypeOK'
    BY <1>1, <1>2, <2>1, <2>2, <2>3 DEF Types, TypeOK, Modes, Offsets, Events
  <2>5. Len(lines) < BatchSize
    BY <1>1, GatewayAssumption
  <2> QED BY <1>1, <1>2, <1>3, <2>1, <2>4, <2>5 DEF Types
<1>7. ReadSound'
  <2>1. ASSUME mode' = "read", Exists(p), rd'.path = p, rd'.fd = p, rd'.pos <= Size(p),
               rd' \in Reads
        PROVE  ReadSound'
    <3>1. p = "old" => Renamed
      BY <2>1 DEF Exists, Renamed
    <3>2. Begin(p) + rd'.pos <= End(p)
      BY <1>4, <2>1 DEF Reads
    <3> QED BY <1>5, <2>1, <3>1, <3>2 DEF ReadSound
  <2>2. mode' \in {"ready", "tail"} => ReadSound'
    BY DEF ReadSound, Reading
  <2> QED BY <1>2, <2>1, <2>2
<1>8. Covered'
  <2> SUFFICES ASSUME NEW u \in Units
               PROVE  /\ \A q \in Paths :
                           /\ Begin(q) < u /\ u <= Begin(q) + Offset(k, q) => Met(u)'
                           /\ Begin(q) < u /\ u <= Begin(q) + Offset(saved, q) =>
                                Done(u) \/ Shadowed(u)
                      /\ mode' = "read" /\ Begin(p) < u /\ u <= Begin(p) + rd'.pos => Met(u)'
    <3>1. \A u \in Units : (Done(u)' <=> Done(u)) /\ (Shadowed(u)' <=> Shadowed(u))
      BY DEF Done, Shadowed
    <3> QED BY <1>1, <1>2, <1>5, <3>1 DEF Covered, Reading
  <2>1. u \in Nat
    BY <1>1, FileFacts
  <2>2. \A q \in Paths : Begin(q) < u /\ u <= Begin(q) + Offset(saved, q) =>
                           Done(u) \/ Shadowed(u)
    BY DEF Inv, Covered
  <2>3. \A q \in Paths : Begin(q) < u /\ u <= Begin(q) + Offset(known, q) => Met(u)
    BY DEF Inv, Covered
  <2>4. ASSUME NEW q \in Paths, Begin(q) < u, u <= Begin(q) + Offset(k, q)
        PROVE  Met(u)'
    <3>1. Met(u)
      <4>1. /\ Begin(q) \in Nat /\ Offset(known, q) \in Nat /\ Offset(k, q) \in Nat
            /\ Offset(k, q) <= Offset(known, q)
        BY <1>1, <1>3, FileFacts
      <4>2. u <= Begin(q) + Offset(known, q)
        BY <2>1, <2>4, <4>1
      <4> QED BY <2>3, <2>4, <4>2
    <3>2. Shadowed(u) => q = "live"
      BY <1>3, <1>4, <2>1, <2>4 DEF Shadowed, Paths
    <3>3. Shadowed(u) => Offset(k, "live") # 0
      BY <1>4, <2>1, <2>4, <3>2
    <3>4. (Done(u)' <=> Done(u)) /\ (Shadowed(u)' <=> Shadowed(u))
      BY DEF Done, Shadowed
    <3> QED BY <3>1, <3>3, <3>4 DEF Met
  <2>5. mode' = "read" /\ Begin(p) < u /\ u <= Begin(p) + rd'.pos =>
          u <= Begin(p) + Offset(k, p)
    <3>1. mode' = "read" => rd'.pos \in Nat /\ rd'.pos <= Offset(k, p)
      BY <1>2 DEF Reads
    <3> QED BY <1>3, <1>4, <2>1, <3>1
  <2> QED BY <2>2, <2>4, <2>5
<1>9. WillBeRead'
  <2> SUFFICES ASSUME NEW q \in Paths, Exists(q)
               PROVE  \/ q \in ToSet(scan') \/ \E e \in ToSet(events') : e[1] = q
                      \/ Size(q) <= Offset(k, q)
                      \/ mode' = "read" /\ rd'.path = q /\ rd'.fd = q
    BY <1>2, <1>5 DEF WillBeRead, Reading
  <2>1. CASE q = p
    BY <1>2, <2>1
  <2>2. CASE q # p
    <3>1. \/ q \in ToSet(scan) \/ \E e \in ToSet(events) : e[1] = q
          \/ Size(q) <= Offset(known, q)
      BY <1>1 DEF Inv, WillBeRead
    <3> QED BY <1>3, <2>2, <3>1
  <2> QED BY <2>1, <2>2
<1>10. Loads'
  <2> SUFFICES ASSUME NEW u \in Units
               PROVE  /\ written < u => emitted[u] = 0
                      /\ base < u =>
                           emitted[u] <= Begun' + IF u <= LivePassed' /\ LivePassed' <= written
                                                  THEN 1 ELSE 0
                      /\ u <= base =>
                           /\ ~Renamed => emitted[u] <= 1
                           /\ Renamed /\ Waiting(<<"old", "create">>)' => emitted[u] <= 1
                           /\ Renamed /\ ~Waiting(<<"old", "create">>)' =>
                                emitted[u] <= 1 + IF u <= OldPassed' THEN 1 ELSE 0
    <3>1. \A u \in Units : emitted[u] \in Nat
      BY <1>1 DEF Types
    <3>2. \A u \in Units : Load(u)' = emitted[u]
      BY <1>1, <3>1 DEF Load, InBatch
    <3>3. Reading' => rd'.path = rd'.fd
      BY <1>2 DEF Reading
    <3>4. mode' # "down"
      BY <1>2
    <3> QED BY <1>5, <3>2, <3>3, <3>4 DEF Loads, NewLoad, OldLoad
  <2>1. u \in Nat /\ emitted[u] \in Nat /\ Begun' \in Nat
    <3>1. u \in Nat
      BY <1>1, FileFacts
    <3>2. emitted[u] \in Nat
      BY <1>1 DEF Types
    <3>3. Begun' \in Nat
      BY DEF Begun
    <3> QED BY <3>1, <3>2, <3>3
  <2>2. written < u => emitted[u] = 0
    <3>1. written < u => Load(u) = 0
      BY DEF Inv, Loads
    <3> QED BY <1>1, <2>1, <3>1 DEF Load, InBatch
  <2>3. \/ LivePassed' = base + Offset(k, "live")
        \/ LivePassed' = base /\ written < base + Offset(k, "live")
    BY <1>2, <1>3, <1>4 DEF LivePassed, Reading
  <2>4. OldPassed' = IF rotated = "removed" THEN base ELSE Offset(k, "old")
    <3>1. mode' = "read" /\ p = "old" => rotated = "renamed" /\ rd'.pos = Offset(k, "old")
      BY <1>2, <1>3, <1>4 DEF Exists
    <3> QED BY <1>2, <3>1 DEF OldPassed, Reading
  <2>5. base < u =>
          emitted[u] <= Begun' + IF u <= LivePassed' /\ LivePassed' <= written
                                 THEN 1 ELSE 0
    <3>1. base < u => emitted[u] <= Begun' + IF u <= base + Offset(k, "live")
                                                /\ base + Offset(k, "live") <= written
                                             THEN 1 ELSE 0
      OBVIOUS
    <3> QED BY <1>3, <1>4, <2>1, <2>3, <3>1
  <2>6. u <= base => u <= IF rotated = "removed" THEN base ELSE u
    BY <1>4, <2>1
  <2> QED BY <2>2, <2>4, <2>5, <2>6
<1> QED BY <1>6, <1>7, <1>8, <1>9, <1>10 DEF Inv

LEMMA ScanNextKeeps ==
  ASSUME Inv, ScanNext
  PROVE  Inv'
<1>1. /\ mode = "ready" /\ scan # <<>> /\ Head(scan) # "state" /\ scan' = Tail(scan)
      /\ UNCHANGED <<written, base, rotated, events, started, lines, saved, channel,
                     crashes, emitted, ever, timedOut, killed, shadow>>
      /\ Types /\ scan \in Scans /\ known \in Offsets /\ events \in Seq(Events)
      /\ ~started /\ UnitsOf(lines) = {} /\ ~Reading
  BY EmptyBatch DEF ScanNext, fileVars, history, Inv, Types, TypeOK, Offsets, Events,
                    Reading
<1>2. PICK p \in Paths : p = Head(scan)
  BY <1>1, ScanFacts
<1>3. /\ scan' \in Scans
      /\ \A q \in Paths : q \in ToSet(scan) <=> q = p \/ q \in ToSet(scan')
  BY <1>1, <1>2, ScanFacts
<1>4. PICK k \in Offsets, again \in BOOLEAN, after \in {"ready", "tail"} :
        /\ Open(p, k, again, after)
        /\ \/ k = known
           \/ /\ k = [known EXCEPT ![p] = 0]
              /\ known[p] = Unknown \/ Offset(known, p) > Size(p)
  <2> DEFINE seen == known[p] # Unknown /\ Size(p) > 0
  <2>1. IF known[p] = Unknown \/ Offset(known, p) > Size(p)
        THEN Open(p, [known EXCEPT ![p] = 0], seen, "ready")
        ELSE Open(p, known, seen, IF seen /\ Exists(p) THEN "tail" ELSE "ready")
    BY <1>2 DEF ScanNext
  <2>2. seen \in BOOLEAN
    OBVIOUS
  <2> HIDE DEF seen
  <2>3. [known EXCEPT ![p] = 0] \in Offsets
    BY <1>1 DEF Offsets
  <2> QED BY <1>1, <2>1, <2>2, <2>3
<1>5. /\ written \in Nat /\ base \in Nat /\ base <= written /\ 2 * LineCount \in Nat
      /\ Offset(known, "live") \in Nat /\ Offset(known, "old") \in Nat
      /\ Offset(known, "old") <= base
      /\ Size("live") = written - base /\ Size("old") = base
      /\ \A q \in Paths : q = "live" \/ q = "old"
  <2>1. /\ written \in Nat /\ base \in Nat /\ base <= written /\ 2 * LineCount \in Nat
        /\ "live" \in Paths /\ "old" \in Paths /\ \A q \in Paths : q = "live" \/ q = "old"
    BY <1>1, FileFacts
  <2>2. Offset(known, "live") \in Nat /\ Offset(known, "old") \in Nat
    BY <1>1, <2>1, FileFacts
  <2>3. Offset(known, "old") <= base
    BY <1>1 DEF Types
  <2>4. Size("live") = written - base /\ Size("old") = base
    BY <2>1 DEF Size, Begin, End
  <2> QED BY <2>1, <2>2, <2>3, <2>4
<1>6. \/ k = known
      \/ /\ k = [known EXCEPT ![p] = 0]
         /\ \A q \in Paths : Offset(k, q) = IF q = p THEN 0 ELSE Offset(known, q)
         /\ Offset(known, p) = 0 \/ Offset(known, p) > Size(p)
  <2>1. known # Torn /\ \A q \in Paths : [known EXCEPT ![p] = 0] # Torn
    BY <1>1, <1>4, GatewayAssumption DEF Offsets
  <2>2. CASE k = [known EXCEPT ![p] = 0] /\ (known[p] = Unknown \/ Offset(known, p) > Size(p))
    BY <1>1, <2>1, <2>2, GatewayAssumption DEF Offset, Offsets
  <2> QED BY <1>4, <2>2
<1>7. Offset(k, "old") = Offset(known, "old")
  BY <1>5, <1>6 DEF Paths
<1>8. \/ Offset(k, "live") = Offset(known, "live")
      \/ Offset(k, "live") = 0 /\ written < base + Offset(known, "live")
  BY <1>5, <1>6 DEF Paths
<1>9. mode' \in {"ready", "tail", "read"}
  BY <1>4 DEF Open
<1>10. EventsSound'
  BY <1>1, Frames
<1>11. OldOnce'
  <2>1. \A e : Waiting(e)' <=> Waiting(e)
    BY <1>1 DEF Waiting
  <2>2. Reading' => mode' = "read" /\ rd'.path = p
    BY <1>1, <1>4 DEF Open, Reading
  <2>3. "old" \in Paths
    BY DEF Paths
  <2> QED BY <1>1, <1>2, <1>3, <2>1, <2>2, <2>3 DEF Inv, OldOnce, Renamed
<1>12. Anew' => Anew
  BY <1>1 DEF Anew, Renamed, Waiting
<1>13. Begun' = Begun
  BY <1>1 DEF Begun, Renamed, Waiting
<1>14. \A u \in Units : emitted[u] \in Nat /\ Load(u) = emitted[u] /\ u \in Nat
  <2>1. \A u \in Units : emitted[u] \in Nat
    BY <1>1 DEF Types
  <2>2. \A u \in Units : u \in Nat
    BY <1>1, FileFacts
  <2> QED BY <1>1, <2>1, <2>2 DEF Load, InBatch
<1>15. \A u \in Units : base < u =>
         emitted[u] <= Begun' + IF u <= base + Offset(k, "live")
                                   /\ base + Offset(k, "live") <= written
                                THEN 1 ELSE 0
  <2> TAKE u \in Units
  <2>1. base < u => emitted[u] <= Begun + IF u <= base + Offset(known, "live")
                                             /\ base + Offset(known, "live") <= written
                                          THEN 1 ELSE 0
    BY <1>1, <1>14 DEF Inv, Loads, NewLoad, LivePassed
  <2>2. Begun \in Nat /\ emitted[u] \in Nat /\ u \in Nat
    BY <1>14 DEF Begun
  <2> QED BY <1>5, <1>8, <1>13, <2>1, <2>2
<1>16. \A u \in Units : u <= base =>
         /\ ~Renamed => emitted[u] <= 1
         /\ Renamed /\ Waiting(<<"old", "create">>)' => emitted[u] <= 1
         /\ Renamed /\ ~Waiting(<<"old", "create">>)' =>
              emitted[u] <= 1 + IF rotated = "removed" \/ u <= Offset(k, "old")
                                THEN 1 ELSE 0
  <2> SUFFICES ASSUME NEW u \in Units, u <= base
               PROVE  /\ ~Renamed => emitted[u] <= 1
                      /\ Renamed /\ Waiting(<<"old", "create">>) => emitted[u] <= 1
                      /\ Renamed /\ ~Waiting(<<"old", "create">>) =>
                           emitted[u] <= 1 + IF rotated = "removed" \/ u <= Offset(k, "old")
                                             THEN 1 ELSE 0
    BY <1>1 DEF Waiting
  <2>1. OldLoad(u)
    BY <1>1 DEF Inv, Loads
  <2>2. OldPassed = IF rotated = "removed" THEN base ELSE Offset(known, "old")
    BY <1>1 DEF OldPassed
  <2> QED BY <1>7, <1>14, <2>1, <2>2 DEF OldLoad
<1> QED BY <1>1, <1>3, <1>4, <1>6, <1>10, <1>11, <1>12, <1>15, <1>16, OpenKeeps

\* watchLoop: a write event, or one of the rotation.
LEMMA NoticeKeeps ==
  ASSUME Inv, Notice
  PROVE  Inv'
<1>1. /\ mode = "ready" /\ started /\ events # <<>> /\ events' = Tail(events)
      /\ UNCHANGED <<written, base, rotated, scan, started, lines, saved, channel,
                     crashes, emitted, ever, timedOut, killed, shadow>>
      /\ Types /\ scan = <<>> /\ scan' \in Scans /\ known \in Offsets
      /\ events \in Seq(Events) /\ UnitsOf(lines) = {} /\ ~Reading /\ EventsSound
  BY EmptyBatch DEF Notice, fileVars, history, Inv, Types, TypeOK, Offsets, Events,
                    Reading, Scans
<1>2. /\ events' \in Seq(Events) /\ ToSet(events) = {Head(events)} \cup ToSet(events')
      /\ OnceEach(events')
      /\ Head(events)[2] \in {"create", "rename"} => Head(events) \notin ToSet(events')
  BY <1>1, HeadFacts DEF EventsSound
<1>3. /\ Head(events) \in {<<"live", "write">>, <<"live", "rename">>, <<"live", "create">>,
                           <<"old", "create">>, <<"old", "remove">>}
      /\ Head(events) # <<"live", "write">> => Renamed
      /\ Head(events) = <<"old", "remove">> => rotated = "removed"
  BY <1>1, <1>2 DEF EventsSound, Waiting
<1>4. \A e : Waiting(e) <=> e = Head(events) \/ Waiting(e)'
  BY <1>2 DEF Waiting
<1>5. EventsSound'
  BY <1>1, <1>2, <1>4 DEF EventsSound, Renamed
<1>6. /\ written \in Nat /\ base \in Nat /\ base <= written
      /\ Offset(known, "live") \in Nat /\ Offset(known, "old") \in Nat
      /\ Offset(known, "old") <= base
      /\ \A q \in Paths : q = "live" \/ q = "old"
  BY <1>1, FileFacts DEF Types
<1>7. \A u \in Units :
        /\ emitted[u] \in Nat /\ Load(u) = emitted[u] /\ u \in Nat
        /\ base < u => emitted[u] <= Begun + IF u <= base + Offset(known, "live")
                                                /\ base + Offset(known, "live") <= written
                                             THEN 1 ELSE 0
        /\ u <= base =>
             /\ ~Renamed => emitted[u] <= 1
             /\ Renamed /\ Waiting(<<"old", "create">>) => emitted[u] <= 1
             /\ Renamed /\ ~Waiting(<<"old", "create">>) =>
                  emitted[u] <= 1 + IF rotated = "removed" \/ u <= Offset(known, "old")
                                    THEN 1 ELSE 0
  <2> TAKE u \in Units
  <2>1. emitted[u] \in Nat /\ u \in Nat
    BY <1>1, FileFacts DEF Types
  <2>2. Load(u) = emitted[u]
    BY <1>1, <2>1 DEF Load, InBatch
  <2>3. base < u => emitted[u] <= Begun + IF u <= base + Offset(known, "live")
                                             /\ base + Offset(known, "live") <= written
                                          THEN 1 ELSE 0
    BY <1>1, <2>2 DEF Inv, Loads, NewLoad, LivePassed
  <2>4. OldLoad(u)
    BY <1>1 DEF Inv, Loads
  <2>5. OldPassed = IF rotated = "removed" THEN base ELSE Offset(known, "old")
    BY <1>1 DEF OldPassed
  <2> QED BY <2>1, <2>2, <2>3, <2>4, <2>5 DEF OldLoad
<1>8. \A p \in Paths : \A q \in Paths :
        /\ [known EXCEPT ![p] = 0] \in Offsets
        /\ Offset([known EXCEPT ![p] = 0], q) = IF q = p THEN 0 ELSE Offset(known, q)
  <2> TAKE p \in Paths
  <2> TAKE q \in Paths
  <2>1. [known EXCEPT ![p] = 0] \in Offsets
    BY <1>1 DEF Offsets
  <2>2. [known EXCEPT ![p] = 0] # Torn /\ known # Torn
    BY <1>1, <2>1, GatewayAssumption DEF Offsets
  <2> QED BY <1>1, <2>1, <2>2, GatewayAssumption DEF Offset, Offsets
<1>9. Begun \in Nat /\ Begun' \in Nat
  BY DEF Begun
<1>10. "live" \in Paths /\ "old" \in Paths /\ \A q \in Paths : q \notin ToSet(scan)
  BY <1>1 DEF Paths, ToSet
<1>20. /\ <<"live", "write">>[1] = "live" /\ <<"live", "write">>[2] = "write"
       /\ <<"live", "rename">>[1] = "live" /\ <<"live", "rename">>[2] = "rename"
       /\ <<"live", "create">>[1] = "live" /\ <<"live", "create">>[2] = "create"
       /\ <<"old", "create">>[1] = "old" /\ <<"old", "create">>[2] = "create"
       /\ <<"old", "remove">>[1] = "old" /\ <<"old", "remove">>[2] = "remove"
  OBVIOUS
<1>21. /\ Head(events)[2] = "write" => Open(Head(events)[1], known, FALSE, "ready")
       /\ Head(events)[2] \in {"create", "rename"} =>
            Open(Head(events)[1], [known EXCEPT ![Head(events)[1]] = 0], FALSE, "ready")
       /\ Head(events)[2] = "remove" =>
            /\ known' = [known EXCEPT ![Head(events)[1]] = Unknown]
            /\ mode' = "save" /\ UNCHANGED rd
  BY <1>3, <1>20 DEF Notice
<1>22. ASSUME NEW p \in Paths, NEW k \in Offsets, Open(p, k, FALSE, "ready"),
              p = "old" => ~Waiting(<<"old", "create">>)' /\ Renamed
       PROVE  OldOnce'
  <2>1. Reading' => mode' = "read" /\ rd'.path = p
    BY <1>1, <1>22 DEF Open, Reading
  <2>2. Waiting(<<"old", "create">>)' => Waiting(<<"old", "create">>)
    BY <1>4
  <2> QED BY <1>1, <1>10, <1>22, <2>1, <2>2 DEF Inv, OldOnce, Renamed
<1>11. CASE Head(events) = <<"live", "write">>
  <2>1. Open("live", known, FALSE, "ready")
    BY <1>11, <1>20, <1>21
  <2>2. /\ Waiting(<<"live", "rename">>)' <=> Waiting(<<"live", "rename">>)
        /\ Waiting(<<"live", "create">>)' <=> Waiting(<<"live", "create">>)
        /\ Waiting(<<"old", "create">>)' <=> Waiting(<<"old", "create">>)
    BY <1>4, <1>11
  <2>3. Begun' = Begun /\ (Anew' => Anew)
    BY <1>1, <2>2 DEF Begun, Anew, Renamed
  <2>4. OldOnce'
    BY <1>10, <1>1, <1>22, <2>1
  <2>5. \A e \in ToSet(events) : e[1] # "live" => e \in ToSet(events')
    BY <1>2, <1>11, <1>20
  <2> QED BY <1>1, <1>2, <1>5, <1>7, <1>10, <2>1, <2>2, <2>3, <2>4, <2>5, OpenKeeps
<1>12. CASE Head(events) \in {<<"live", "rename">>, <<"live", "create">>}
  <2>1. PICK k \in Offsets : k = [known EXCEPT !["live"] = 0]
    BY <1>8, <1>10
  <2>2. Open("live", k, FALSE, "ready")
    BY <1>12, <1>20, <1>21, <2>1
  <2>3. Offset(k, "live") = 0 /\ Offset(k, "old") = Offset(known, "old")
    BY <1>8, <1>10, <2>1
  <2>4. Waiting(<<"old", "create">>)' <=> Waiting(<<"old", "create">>)
    BY <1>4, <1>12
  <2>5. Begun' = Begun + 1
    <3>1. <<"live", "rename">> # <<"live", "create">>
      OBVIOUS
    <3>3. Renamed /\ Renamed'
      BY <1>1, <1>3, <1>12, <3>1 DEF Renamed
    <3>4. CASE Head(events) = <<"live", "rename">>
      <4>1. Waiting(<<"live", "rename">>) /\ ~Waiting(<<"live", "rename">>)'
        BY <1>2, <1>4, <1>20, <3>4 DEF Waiting
      <4>2. Waiting(<<"live", "create">>)' <=> Waiting(<<"live", "create">>)
        BY <1>4, <3>1, <3>4
      <4> QED BY <3>3, <4>1, <4>2 DEF Begun
    <3>5. CASE Head(events) = <<"live", "create">>
      <4>1. Waiting(<<"live", "create">>) /\ ~Waiting(<<"live", "create">>)'
        BY <1>2, <1>4, <1>20, <3>5 DEF Waiting
      <4>2. Waiting(<<"live", "rename">>)' <=> Waiting(<<"live", "rename">>)
        BY <1>4, <3>1, <3>5
      <4> QED BY <3>3, <4>1, <4>2 DEF Begun
    <3> QED BY <1>12, <3>4, <3>5
  <2>6. OldOnce'
    BY <1>10, <1>22, <2>2
  <2>7. \A e \in ToSet(events) : e[1] # "live" => e \in ToSet(events')
    BY <1>2, <1>12, <1>20
  <2>8. \A u \in Units : base < u =>
          emitted[u] <= Begun' + IF u <= base + Offset(k, "live")
                                    /\ base + Offset(k, "live") <= written
                                 THEN 1 ELSE 0
    BY <1>6, <1>7, <1>9, <2>3, <2>5
  <2>9. \A u \in Units : u <= base =>
          /\ ~Renamed => emitted[u] <= 1
          /\ Renamed /\ Waiting(<<"old", "create">>)' => emitted[u] <= 1
          /\ Renamed /\ ~Waiting(<<"old", "create">>)' =>
               emitted[u] <= 1 + IF rotated = "removed" \/ u <= Offset(k, "old")
                                 THEN 1 ELSE 0
    BY <1>7, <2>3, <2>4
  <2> QED BY <1>1, <1>2, <1>5, <1>10, <2>1, <2>2, <2>3, <2>6, <2>7, <2>8, <2>9, OpenKeeps
<1>13. CASE Head(events) = <<"old", "create">>
  <2>1. PICK k \in Offsets : k = [known EXCEPT !["old"] = 0]
    BY <1>8, <1>10
  <2>2. Open("old", k, FALSE, "ready")
    BY <1>13, <1>20, <1>21, <2>1
  <2>3. Offset(k, "live") = Offset(known, "live")
    BY <1>8, <1>10, <2>1
  <2>4. /\ Waiting(<<"live", "rename">>)' <=> Waiting(<<"live", "rename">>)
        /\ Waiting(<<"live", "create">>)' <=> Waiting(<<"live", "create">>)
        /\ Waiting(<<"old", "create">>) /\ ~Waiting(<<"old", "create">>)'
    BY <1>2, <1>4, <1>13, <1>20 DEF Waiting
  <2>5. Begun' = Begun /\ (Anew' => Anew) /\ Renamed
    BY <1>1, <1>3, <1>13, <2>4 DEF Begun, Anew, Renamed
  <2>6. OldOnce'
    BY <1>10, <1>22, <2>2, <2>4, <2>5
  <2>7. \A e \in ToSet(events) : e[1] # "old" => e \in ToSet(events')
    BY <1>2, <1>13, <1>20
  <2>8. \A u \in Units : base < u =>
          emitted[u] <= Begun' + IF u <= base + Offset(k, "live")
                                    /\ base + Offset(k, "live") <= written
                                 THEN 1 ELSE 0
    BY <1>7, <2>3, <2>5
  <2>9. \A u \in Units : u <= base => emitted[u] <= 1 /\ emitted[u] <= 2
    BY <1>7, <2>4, <2>5
  <2>10. \A u \in Units : u <= base =>
          /\ ~Renamed => emitted[u] <= 1
          /\ Renamed /\ Waiting(<<"old", "create">>)' => emitted[u] <= 1
          /\ Renamed /\ ~Waiting(<<"old", "create">>)' =>
               emitted[u] <= 1 + IF rotated = "removed" \/ u <= Offset(k, "old")
                                 THEN 1 ELSE 0
    BY <2>9
  <2> QED BY <1>1, <1>2, <1>5, <1>10, <2>1, <2>2, <2>5, <2>6, <2>7, <2>8, <2>10, OpenKeeps
<1>14. CASE Head(events) = <<"old", "remove">>
  <2>1. /\ known' = [known EXCEPT !["old"] = Unknown] /\ mode' = "save" /\ rd' = rd
        /\ rotated = "removed" /\ Renamed /\ Renamed'
    BY <1>1, <1>3, <1>14, <1>20, <1>21 DEF Renamed
  <2>2. /\ known' \in Offsets /\ Offset(known', "old") = 0
        /\ Offset(known', "live") = Offset(known, "live")
    <3>1. known' \in Offsets
      BY <1>1, <2>1 DEF Offsets
    <3>2. known' # Torn /\ known # Torn
      BY <1>1, <3>1, GatewayAssumption DEF Offsets
    <3> QED BY <1>1, <1>10, <2>1, <3>1, <3>2, GatewayAssumption DEF Offset, Offsets
  <2>3. /\ Waiting(<<"live", "rename">>)' <=> Waiting(<<"live", "rename">>)
        /\ Waiting(<<"live", "create">>)' <=> Waiting(<<"live", "create">>)
        /\ Waiting(<<"old", "create">>)' <=> Waiting(<<"old", "create">>)
    BY <1>4, <1>14
  <2>4. ~Reading'
    BY <2>1 DEF Reading
  <2>5. Types'
    BY <1>1, <1>2, <1>6, <2>1, <2>2 DEF Types, TypeOK, Modes, Offsets, Events
  <2>6. OldOnce' /\ ReadSound'
    BY <1>1, <1>10, <2>1, <2>4 DEF OldOnce, ReadSound
  <2>7. Covered'
    <3>1. \A u : (Met(u)' <=> Met(u)) /\ (Done(u)' <=> Done(u)) /\ (Shadowed(u)' <=> Shadowed(u))
      BY <1>1, <2>1, <2>3 DEF Met, Done, Shadowed, Anew, Renamed
    <3>2. \A q \in Paths : Begin(q)' = Begin(q)
      BY <1>1 DEF Begin
    <3>3. \A u \in Units : \A q \in Paths :
            Begin(q) < u /\ u <= Begin(q) + Offset(known', q) => Met(u)
      <4>1. \A u \in Units : base < u /\ u <= base + Offset(known, "live") => Met(u)
        BY <1>1, <1>10 DEF Inv, Covered, Begin
      <4>2. \A u \in Units : ~(0 < u /\ u <= 0 + 0)
        BY <1>1, FileFacts
      <4>3. Begin("old") = 0 /\ Begin("live") = base
        BY DEF Begin
      <4> QED BY <1>6, <2>2, <4>1, <4>2, <4>3
    <3>4. \A u \in Units : \A q \in Paths :
            Begin(q) < u /\ u <= Begin(q) + Offset(saved, q) => Done(u) \/ Shadowed(u)
      BY <1>1 DEF Inv, Covered
    <3> QED BY <1>1, <2>4, <3>1, <3>2, <3>3, <3>4 DEF Covered
  <2>8. WillBeRead'
    <3>1. \A q \in Paths : Exists(q)' => q = "live" /\ Exists(q) /\ Size(q)' = Size(q)
      BY <1>1, <1>6, <2>1 DEF Exists, Size, Begin, End
    <3>2. \A e \in ToSet(events) : e[1] # "old" => e \in ToSet(events')
      BY <1>2, <1>14, <1>20
    <3> QED BY <1>1, <1>10, <2>1, <2>2, <3>1, <3>2 DEF Inv, WillBeRead
  <2>9. Loads'
    <3>1. Begun' = Begun
      BY <2>1, <2>3 DEF Begun
    <3>2. LivePassed' = base + Offset(known, "live") /\ OldPassed' = base
      BY <1>1, <2>1, <2>2, <2>4 DEF LivePassed, OldPassed
    <3>3. \A u \in Units : Load(u)' = emitted[u]
      BY <1>1, <1>7 DEF Load, InBatch
    <3>4. \A u \in Units : written < u => emitted[u] = 0
      BY <1>7 DEF Inv, Loads
    <3> QED BY <1>1, <1>7, <2>1, <2>3, <2>4, <3>1, <3>2, <3>3, <3>4
            DEF Loads, NewLoad, OldLoad
  <2> QED BY <1>5, <2>5, <2>6, <2>7, <2>8, <2>9 DEF Inv
<1> QED BY <1>3, <1>11, <1>12, <1>13, <1>14

-------------------------------------------------------------------------------
(* The agent comes up, and what leaves the log and its offsets alone.        *)

LEMMA StartKeeps ==
  ASSUME Inv, Start
  PROVE  Inv'
<1>1. /\ mode = "down" /\ mode' = "ready"
      /\ known' = IF saved = Torn THEN Nowhere ELSE saved
      /\ scan' = (IF rotated = "renamed" THEN <<"live", "old">> ELSE <<"live">>)
                 \o <<"state">>
      /\ emitted' = [u \in Units |-> 0]
      /\ UNCHANGED <<written, base, rotated, events, started, rd, lines, saved, channel,
                     crashes, ever, timedOut, killed, shadow>>
      /\ Types /\ ~started /\ events = <<>> /\ lines = <<>> /\ UnitsOf(lines) = {}
      /\ ToSet(events) = {}
  <2>1. Types /\ mode = "down"
    BY DEF Inv, Start
  <2>2. ~started /\ events = <<>> /\ lines = <<>>
    BY <2>1 DEF Types
  <2>3. ToSet(events) = {} /\ UnitsOf(lines) = {}
    BY <2>2, EmptyBatch DEF ToSet
  <2> QED BY <2>1, <2>2, <2>3 DEF Start, fileVars
<1>2. /\ scan' \in Scans /\ "live" \in ToSet(scan')
      /\ rotated = "renamed" => "old" \in ToSet(scan')
      /\ rotated # "renamed" => "old" \notin ToSet(scan')
  <2>1. \/ rotated = "renamed" /\ scan' = <<"live", "old", "state">>
        \/ rotated # "renamed" /\ scan' = <<"live", "state">>
    <3>1. <<"live", "old">> \o <<"state">> = <<"live", "old", "state">>
      <4> DEFINE c == <<"live", "old">> \o <<"state">>
                 d == <<"live", "old", "state">>
      <4>0. /\ <<"live", "old">> \in Seq(Paths \cup {"state"})
            /\ <<"state">> \in Seq(Paths \cup {"state"})
            /\ Len(<<"live", "old">>) = 2 /\ Len(<<"state">>) = 1
        BY DEF Paths
      <4>1. c \in Seq(Paths \cup {"state"}) /\ Len(c) = 3
        BY <4>0, ConcatProperties
      <4>4. d \in Seq(Paths \cup {"state"}) /\ Len(d) = 3
        BY DEF Paths
      <4>2. \A i \in 1..3 : c[i] = d[i]
        OBVIOUS
      <4> HIDE DEF c, d
      <4>3. c = d
        BY <4>1, <4>2, <4>4, SeqEqual
      <4> QED BY <4>3 DEF c, d
    <3>2. <<"live">> \o <<"state">> = <<"live", "state">>
      <4> DEFINE c == <<"live">> \o <<"state">>
                 d == <<"live", "state">>
      <4>0. /\ <<"live">> \in Seq(Paths \cup {"state"})
            /\ <<"state">> \in Seq(Paths \cup {"state"})
            /\ Len(<<"live">>) = 1 /\ Len(<<"state">>) = 1
        BY DEF Paths
      <4>1. c \in Seq(Paths \cup {"state"}) /\ Len(c) = 2
        BY <4>0, ConcatProperties
      <4>4. d \in Seq(Paths \cup {"state"}) /\ Len(d) = 2
        BY DEF Paths
      <4>2. \A i \in 1..2 : c[i] = d[i]
        OBVIOUS
      <4> HIDE DEF c, d
      <4>3. c = d
        BY <4>1, <4>2, <4>4, SeqEqual
      <4> QED BY <4>3 DEF c, d
    <3> QED BY <1>1, <3>1, <3>2, Zenon
  <2>2. scan' \in Scans
    BY <2>1 DEF Scans
  <2>3. CASE rotated = "renamed" /\ scan' = <<"live", "old", "state">>
    BY <2>2, <2>3, ScanFacts
  <2>4. CASE rotated # "renamed" /\ scan' = <<"live", "state">>
    BY <2>2, <2>4, ScanFacts
  <2> QED BY <2>1, <2>2, <2>3, <2>4
<1>3. /\ known' \in Offsets /\ \A q \in Paths : Offset(known', q) = Offset(saved, q)
      /\ Offset(known', "old") <= base
  <2>1. /\ Nowhere \in Offsets /\ \A q \in Paths : Offset(Nowhere, q) = 0
    BY GatewayAssumption DEF Nowhere, Offsets, Offset
  <2>2. saved = Torn \/ saved \in Offsets
    BY <1>1 DEF Types, TypeOK, Offsets
  <2>3. saved = Torn => \A q \in Paths : Offset(saved, q) = 0
    BY DEF Offset
  <2>4. Offset(saved, "old") <= base /\ "old" \in Paths
    BY <1>1 DEF Types, Paths
  <2> QED BY <1>1, <2>1, <2>2, <2>3, <2>4
<1>4. Types'
  <2>1. scan' \in Seq(Paths \cup {"state"})
    BY <1>2, ScanFacts
  <2>2. emitted' \in [Units -> Nat]
    BY <1>1
  <2>3. TypeOK'
    BY <1>1, <1>3, <2>1 DEF Types, TypeOK, Modes, Offsets
  <2> QED BY <1>1, <1>2, <1>3, <2>2, <2>3 DEF Types
<1>5. ~Reading' /\ \A e : ~Waiting(e)'
  BY <1>1 DEF Reading, Waiting
<1>6. EventsSound'
  BY <1>1, Frames
<1>7. OldOnce' /\ ReadSound'
  BY <1>1, <1>2, <1>5 DEF OldOnce, ReadSound, Renamed
<1>8. Covered'
  <2>1. \A u \in Units : \A q \in Paths :
          Begin(q) < u /\ u <= Begin(q) + Offset(saved, q) => Done(u) \/ Shadowed(u)
    BY <1>1 DEF Inv, Covered
  <2>2. /\ \A u : (Done(u)' <=> Done(u)) /\ (Shadowed(u)' <=> Shadowed(u))
        /\ \A q : Begin(q)' = Begin(q)
    BY <1>1 DEF Done, Shadowed, Begin
  <2>3. \A u \in Units : \A q \in Paths :
          Begin(q) < u /\ u <= Begin(q) + Offset(saved, q) => Met(u)'
    <3>1. CASE crashes = 0
      <4>1. \A q \in Paths : Offset(saved, q) = 0
        BY <1>1, <3>1, GatewayAssumption DEF Types, Nowhere, Offset
      <4>2. \A u \in Units : \A q \in Paths : ~(Begin(q) < u /\ u <= Begin(q) + 0)
        BY <1>1, FileFacts
      <4> QED BY <4>1, <4>2
    <3>2. CASE crashes # 0
      <4>1. ~Anew'
        BY <1>1, <3>2 DEF Anew
      <4> QED BY <2>1, <2>2, <4>1 DEF Met
    <3> QED BY <3>1, <3>2
  <2> QED BY <1>1, <1>3, <1>5, <2>1, <2>2, <2>3 DEF Covered
<1>9. WillBeRead'
  BY <1>1, <1>2 DEF WillBeRead, Exists, Paths
<1>10. Loads'
  <2>1. \A u \in Units : Load(u)' = 0 /\ emitted'[u] = 0
    BY <1>1 DEF Load, InBatch
  <2>2. Begun' \in Nat
    BY DEF Begun
  <2> QED BY <1>1, <1>5, <2>1, <2>2 DEF Loads, NewLoad, OldLoad
<1> QED BY <1>4, <1>6, <1>7, <1>8, <1>9, <1>10 DEF Inv

LEMMA ScanEndsKeeps ==
  ASSUME Inv, ScanEnds
  PROVE  Inv'
<1>1. /\ mode = "ready" /\ scan = <<"state">> /\ mode' = "save" /\ scan' = <<>>
      /\ UNCHANGED <<written, base, rotated, events, started, rd, lines, known, saved,
                     channel, crashes, emitted, ever, timedOut, killed, shadow>>
      /\ Types /\ ~Reading /\ ~Reading'
  BY DEF ScanEnds, fileVars, history, Inv, Reading
<1>2. \A q \in Paths : q \notin ToSet(scan)
  BY <1>1, ScanFacts DEF Types
<1>3. Types'
  BY <1>1 DEF Types, TypeOK, Modes, Scans
<1>4. EventsSound'
  BY <1>1, Frames
<1>5. OldOnce' /\ ReadSound'
  <2>1. ToSet(scan') = {}
    BY <1>1 DEF ToSet
  <2> QED BY <1>1, <2>1 DEF OldOnce, ReadSound
<1>6. Covered'
  <2>1. /\ \A u : (Done(u)' <=> Done(u)) /\ (Shadowed(u)' <=> Shadowed(u))
        /\ \A u : Met(u)' <=> Met(u)
        /\ \A q : Begin(q)' = Begin(q)
    BY <1>1 DEF Met, Done, Shadowed, Anew, Renamed, Waiting, Begin
  <2> QED BY <1>1, <2>1 DEF Inv, Covered
<1>7. WillBeRead'
  BY <1>1, <1>2 DEF Inv, WillBeRead, Exists, Size, Begin, End
<1>8. Loads'
  <2>1. /\ \A u : Load(u)' = Load(u)
        /\ Begun' = Begun /\ LivePassed' = LivePassed /\ OldPassed' = OldPassed
        /\ (Renamed' <=> Renamed)
        /\ \A e : Waiting(e)' <=> Waiting(e)
    BY <1>1 DEF Load, InBatch, Begun, LivePassed, OldPassed, Renamed, Waiting
  <2> QED BY <1>1, <2>1 DEF Inv, Loads, NewLoad, OldLoad
<1> QED BY <1>3, <1>4, <1>5, <1>6, <1>7, <1>8 DEF Inv

LEMMA StartMainKeeps ==
  ASSUME Inv, StartMain
  PROVE  Inv'
<1>1. /\ mode = "ready" /\ scan = <<>> /\ started' = TRUE
      /\ UNCHANGED <<written, base, rotated, events, mode, scan, rd, lines, known, saved,
                     channel, crashes, emitted, ever, timedOut, killed, shadow>>
      /\ Types
  BY DEF StartMain, fileVars, history, Inv
<1>2. Types'
  BY <1>1 DEF Types, TypeOK
<1> QED BY <1>1, <1>2, Frames DEF Inv

LEMMA TakeKeeps ==
  ASSUME Inv, Take
  PROVE  Inv'
<1>1. /\ channel > 0 /\ channel' = channel - 1
      /\ UNCHANGED <<written, base, rotated, events, mode, started, scan, rd, lines, known,
                     saved, crashes, emitted, ever, timedOut, killed, shadow>>
      /\ Types
  BY DEF Take, fileVars, history, Inv
<1>2. channel' \in 0..ChanCap
  BY <1>1, GatewayAssumption DEF Types, TypeOK
<1>3. Types'
  BY <1>1, <1>2 DEF Types, TypeOK
<1> QED BY <1>1, <1>3, Frames DEF Inv

LEMMA TailSnapshotKeeps ==
  ASSUME Inv, TailSnapshot
  PROVE  Inv'
<1>1. /\ mode = "tail" /\ mode' = "ready" /\ rd' = NoRead
      /\ channel' = IF channel < ChanCap THEN channel + 1 ELSE channel
      /\ UNCHANGED <<written, base, rotated, events, started, scan, lines, known, saved,
                     crashes, emitted, ever, timedOut, killed, shadow>>
      /\ Types /\ ~Reading /\ ~Reading'
  BY DEF TailSnapshot, fileVars, history, Inv, Reading
<1>2. channel' \in 0..ChanCap
  BY <1>1, GatewayAssumption DEF Types, TypeOK
<1>3. Types'
  <2>1. NoRead \in Reads /\ NoRead.path \in Paths /\ NoRead.fd \in Paths /\ NoRead.pos \in Nat
    BY DEF NoRead, Reads, Paths
  <2> QED BY <1>1, <1>2, <2>1 DEF Types, TypeOK, Modes
<1>4. EventsSound' /\ OldOnce' /\ ReadSound'
  BY <1>1, Frames DEF Inv, OldOnce, ReadSound, Renamed, Waiting
<1>5. Covered'
  <2>1. /\ \A u : (Done(u)' <=> Done(u)) /\ (Shadowed(u)' <=> Shadowed(u))
        /\ \A u : Met(u)' <=> Met(u)
        /\ \A q : Begin(q)' = Begin(q)
    BY <1>1 DEF Met, Done, Shadowed, Anew, Renamed, Waiting, Begin
  <2> QED BY <1>1, <2>1 DEF Inv, Covered
<1>6. WillBeRead'
  BY <1>1 DEF Inv, WillBeRead, Exists, Size, Begin, End
<1>7. Loads'
  <2>1. /\ \A u : Load(u)' = Load(u)
        /\ Begun' = Begun /\ LivePassed' = LivePassed /\ OldPassed' = OldPassed
        /\ (Renamed' <=> Renamed)
        /\ \A e : Waiting(e)' <=> Waiting(e)
    BY <1>1 DEF Load, InBatch, Begun, LivePassed, OldPassed, Renamed, Waiting
  <2> QED BY <1>1, <2>1 DEF Inv, Loads, NewLoad, OldLoad
<1> QED BY <1>3, <1>4, <1>5, <1>6, <1>7 DEF Inv

LEMMA CrashKeeps ==
  ASSUME Inv, Crash
  PROVE  Inv'
<1>1. /\ mode # "down" /\ crashes < MaxCrashes /\ crashes' = crashes + 1
      /\ mode' = "down" /\ started' = FALSE /\ scan' = <<>> /\ rd' = NoRead
      /\ events' = <<>> /\ lines' = <<>> /\ known' = Nowhere /\ channel' = 0
      /\ killed' = IF mode = "last" THEN killed \cup UnitsOf(lines) ELSE killed
      /\ UNCHANGED <<written, base, rotated, saved, emitted, ever, timedOut, shadow>>
      /\ Types
  BY DEF Crash, fileVars, Inv
<1>2. /\ ToSet(events') = {} /\ DOMAIN events' = {} /\ UnitsOf(lines') = {} /\ ~Reading'
      /\ ToSet(scan') = {}
  BY <1>1, EmptyBatch DEF ToSet, Reading
<1>3. Nowhere \in Offsets /\ \A p \in Paths : Offset(Nowhere, p) = 0
  BY GatewayAssumption DEF Nowhere, Offsets, Offset
<1>4. Types'
  <2>1. NoRead \in Reads /\ NoRead.path \in Paths /\ NoRead.fd \in Paths /\ NoRead.pos \in Nat
    BY DEF NoRead, Reads, Paths
  <2>2. /\ crashes' \in 0..MaxCrashes /\ crashes' # 0
        /\ Len(<<>>) = 0 /\ 0 <= BatchSize /\ 0 \in 0..ChanCap /\ 0 <= base
    BY <1>1, FileFacts, GatewayAssumption DEF Types, TypeOK
  <2>3. killed' \subseteq Units
    BY <1>1, BatchFacts DEF Types, TypeOK
  <2>4. \A S : <<>> \in Seq(S)
    OBVIOUS
  <2>5. "old" \in Paths /\ <<>> \in Scans
    BY DEF Paths, Scans
  <2>6. TypeOK'
    BY <1>1, <1>3, <2>1, <2>2, <2>4 DEF Types, TypeOK, Modes, Offsets
  <2> QED BY <1>1, <1>3, <2>1, <2>2, <2>3, <2>5, <2>6 DEF Types
<1>5. EventsSound' /\ OldOnce' /\ ReadSound'
  BY <1>2 DEF EventsSound, OnceEach, OldOnce, ReadSound, Waiting
<1>6. Covered'
  <2>1. \A u \in Units : \A p \in Paths :
          Begin(p) < u /\ u <= Begin(p) + Offset(saved, p) => Done(u)' \/ Shadowed(u)'
    <3>1. \A u \in Units : \A p \in Paths :
            Begin(p) < u /\ u <= Begin(p) + Offset(saved, p) =>
              Done(u) \/ Shadowed(u) \/ (mode = "last" /\ InBatch(u))
      BY DEF Inv, Covered
    <3>2. /\ \A u : Done(u) => Done(u)'
          /\ \A u : mode = "last" /\ InBatch(u) => Done(u)'
          /\ \A u : Shadowed(u)' <=> Shadowed(u)
      BY <1>1 DEF Done, InBatch, Shadowed
    <3> QED BY <3>1, <3>2
  <2>2. \A p : Begin(p)' = Begin(p)
    BY <1>1 DEF Begin
  <2>3. \A u \in Units : \A p \in Paths : ~(Begin(p) < u /\ u <= Begin(p) + 0)
    BY <1>1, FileFacts
  <2> QED BY <1>1, <1>2, <1>3, <2>1, <2>2, <2>3 DEF Covered
<1>7. WillBeRead'
  BY <1>1 DEF WillBeRead
<1>8. Loads'
  <2> SUFFICES ASSUME NEW u \in Units
               PROVE  /\ written < u => emitted[u] = 0
                      /\ emitted[u] <= IF ~Renamed THEN 1 ELSE IF u <= base THEN 2 ELSE 3
    <3>1. \A u \in Units : emitted[u] \in Nat
      BY <1>1 DEF Types
    <3>2. \A u \in Units : Load(u)' = emitted[u]
      BY <1>1, <1>2, <3>1 DEF Load, InBatch
    <3>3. Renamed' <=> Renamed
      BY <1>1 DEF Renamed
    <3> QED BY <1>1, <3>2, <3>3 DEF Loads
  <2>1. /\ Load(u) \in Nat /\ emitted[u] \in Nat /\ emitted[u] <= Load(u)
        /\ Begun \in 0..2 /\ (~Renamed => Begun = 0) /\ u \in Nat /\ base \in Nat
    BY <1>1, LoadFacts, FileFacts DEF Begun
  <2>2. written < u => Load(u) = 0
    BY DEF Inv, Loads
  <2>3. base < u => Load(u) <= Begun + 1
    <3>1. base < u => Load(u) <= Begun + IF u <= LivePassed /\ LivePassed <= written
                                         THEN 1 ELSE 0
      BY <1>1 DEF Inv, Loads, NewLoad
    <3> QED BY <2>1, <3>1
  <2>4. u <= base => Load(u) <= IF ~Renamed THEN 1 ELSE 2
    <3>1. OldLoad(u)
      BY <1>1 DEF Inv, Loads
    <3> QED BY <2>1, <3>1 DEF OldLoad
  <2> QED BY <2>1, <2>2, <2>3, <2>4
<1> QED BY <1>4, <1>5, <1>6, <1>7, <1>8 DEF Inv

-------------------------------------------------------------------------------
(* The state file, and a batch that is handed over or given up.              *)

LEMMA SaveTruncateKeeps ==
  ASSUME Inv, SaveTruncate
  PROVE  Inv'
<1>1. /\ mode = "save" /\ mode' = "torn" /\ saved' = Torn
      /\ UNCHANGED <<written, base, rotated, events, started, scan, rd, lines, known,
                     channel, crashes, emitted, ever, timedOut, killed, shadow>>
      /\ Types /\ ~Reading /\ ~Reading'
  BY DEF SaveTruncate, fileVars, history, Inv, Reading
<1>2. \A p : Offset(Torn, p) = 0
  BY DEF Offset
<1>3. Types'
  <2>1. 0 <= base
    BY <1>1, FileFacts
  <2> QED BY <1>1, <1>2, <2>1 DEF Types, TypeOK, Modes
<1>4. EventsSound' /\ OldOnce' /\ ReadSound'
  BY <1>1, Frames DEF Inv, OldOnce, ReadSound, Renamed, Waiting
<1>5. Covered'
  <2>1. /\ \A u : (Met(u)' <=> Met(u)) /\ (InBatch(u)' <=> InBatch(u))
        /\ \A p : Begin(p)' = Begin(p)
    BY <1>1 DEF Met, Done, Shadowed, Anew, Renamed, Waiting, Begin, InBatch
  <2>2. \A u \in Units : \A p \in Paths : ~(Begin(p) < u /\ u <= Begin(p) + 0)
    BY <1>1, FileFacts
  <2> QED BY <1>1, <1>2, <2>1, <2>2 DEF Inv, Covered
<1>6. WillBeRead'
  BY <1>1 DEF Inv, WillBeRead, Exists, Size, Begin, End
<1>7. Loads'
  <2>1. /\ \A u : Load(u)' = Load(u)
        /\ Begun' = Begun /\ LivePassed' = LivePassed /\ OldPassed' = OldPassed
        /\ (Renamed' <=> Renamed)
        /\ \A e : Waiting(e)' <=> Waiting(e)
    BY <1>1 DEF Load, InBatch, Begun, LivePassed, OldPassed, Renamed, Waiting
  <2> QED BY <1>1, <2>1 DEF Inv, Loads, NewLoad, OldLoad
<1> QED BY <1>3, <1>4, <1>5, <1>6, <1>7 DEF Inv

\* What is saved is what was counted; the batch it covers is in hand.
LEMMA SaveWriteKeeps ==
  ASSUME Inv, SaveWrite
  PROVE  Inv'
<1>1. /\ mode = "torn" /\ saved' = known
      /\ mode' \in {"ready", "tail", "last"}
      /\ lines # <<>> => mode' = "last"
      /\ lines = <<>> => mode' \in {"ready", "tail"}
      /\ rd' \in {rd, NoRead}
      /\ UNCHANGED <<written, base, rotated, events, started, scan, lines, known,
                     channel, crashes, emitted, ever, timedOut, killed, shadow>>
      /\ Types /\ ~Reading /\ ~Reading'
  BY DEF SaveWrite, AfterLast, fileVars, history, Inv, Reading
<1>2. Types'
  <2>1. NoRead \in Reads /\ NoRead.path \in Paths /\ NoRead.fd \in Paths /\ NoRead.pos \in Nat
    BY DEF NoRead, Reads, Paths
  <2>2. rd' \in Reads /\ rd'.path \in Paths /\ rd'.fd \in Paths /\ rd'.pos \in Nat
    BY <1>1, <2>1 DEF Types, TypeOK
  <2>3. TypeOK'
    BY <1>1, <2>2 DEF Types, TypeOK, Modes
  <2> QED BY <1>1, <2>2, <2>3 DEF Types
<1>3. EventsSound' /\ OldOnce' /\ ReadSound'
  BY <1>1, Frames DEF Inv, OldOnce, ReadSound, Renamed, Waiting
<1>4. Covered'
  <2>1. /\ \A u : (Done(u)' <=> Done(u)) /\ (Shadowed(u)' <=> Shadowed(u))
        /\ \A u : (Met(u)' <=> Met(u)) /\ (InBatch(u)' <=> InBatch(u))
        /\ \A p : Begin(p)' = Begin(p)
    BY <1>1 DEF Met, Done, Shadowed, Anew, Renamed, Waiting, Begin, InBatch
  <2>2. \A u : InBatch(u) => mode' = "last"
    BY <1>1, EmptyBatch DEF InBatch
  <2>3. \A u \in Units : \A p \in Paths :
          Begin(p) < u /\ u <= Begin(p) + Offset(known, p) => Met(u) \/ InBatch(u)
    BY DEF Inv, Covered
  <2> QED BY <1>1, <2>1, <2>2, <2>3 DEF Covered, Met
<1>5. WillBeRead'
  BY <1>1 DEF Inv, WillBeRead, Exists, Size, Begin, End
<1>6. Loads'
  <2>1. /\ \A u : Load(u)' = Load(u)
        /\ Begun' = Begun /\ LivePassed' = LivePassed /\ OldPassed' = OldPassed
        /\ (Renamed' <=> Renamed)
        /\ \A e : Waiting(e)' <=> Waiting(e)
    BY <1>1 DEF Load, InBatch, Begun, LivePassed, OldPassed, Renamed, Waiting
  <2> QED BY <1>1, <2>1 DEF Inv, Loads, NewLoad, OldLoad
<1> QED BY <1>2, <1>3, <1>4, <1>5, <1>6 DEF Inv

\* emitLines is over: every unit of the batch was handed over or given up.
LEMMA EmittedKeeps ==
  ASSUME Inv, mode \in {"emit", "last"}, Emitted,
         emitted' \in [Units -> Nat], \A u \in Units : emitted'[u] <= Load(u),
         ever \subseteq ever', timedOut \subseteq timedOut',
         ever' \subseteq Units, timedOut' \subseteq Units,
         UnitsOf(lines) \subseteq ever' \cup timedOut',
         channel' \in 0..ChanCap
  PROVE  Inv'
<1>1. /\ lines' = <<>>
      /\ mode = "emit" => mode' = "read" /\ rd' = rd
      /\ mode = "last" => mode' \in {"ready", "tail"} /\ rd' \in {rd, NoRead}
      /\ UNCHANGED <<written, base, rotated, events, started, scan, known, saved,
                     crashes, killed, shadow>>
      /\ Types /\ UnitsOf(lines') = {}
      /\ Reading' <=> Reading
  BY EmptyBatch DEF Emitted, AfterLast, fileVars, Inv, Reading
<1>2. Types'
  <2>1. NoRead \in Reads /\ NoRead.path \in Paths /\ NoRead.fd \in Paths /\ NoRead.pos \in Nat
    BY DEF NoRead, Reads, Paths
  <2>2. rd' \in Reads /\ rd'.path \in Paths /\ rd'.fd \in Paths /\ rd'.pos \in Nat
    BY <1>1, <2>1 DEF Types, TypeOK
  <2>3. /\ Len(<<>>) = 0 /\ 0 < BatchSize /\ 0 <= BatchSize
        /\ \A S : <<>> \in Seq(S)
    BY GatewayAssumption
  <2>4. TypeOK'
    BY <1>1, <2>2, <2>3 DEF Types, TypeOK, Modes
  <2> QED BY <1>1, <2>2, <2>3, <2>4 DEF Types
<1>3. EventsSound'
  BY <1>1, Frames
<1>4. OldOnce'
  <2>1. Reading => rd' = rd
    BY <1>1 DEF Reading
  <2> QED BY <1>1, <2>1 DEF Inv, OldOnce, Renamed, Waiting
<1>5. \A u \in Units : /\ emitted'[u] \in Nat /\ Load(u) \in Nat /\ emitted'[u] <= Load(u)
                       /\ Load(u)' = emitted'[u] /\ ~InBatch(u)'
                       /\ Done(u) => Done(u)'
                       /\ InBatch(u) => Done(u)'
                       /\ Shadowed(u)' <=> Shadowed(u)
                       /\ Met(u) => Met(u)'
  <2> TAKE u \in Units
  <2>1. emitted'[u] \in Nat /\ Load(u) \in Nat /\ emitted'[u] <= Load(u)
    BY <1>1, LoadFacts
  <2>2. ~InBatch(u)'
    BY <1>1 DEF InBatch
  <2>3. Load(u)' = emitted'[u]
    BY <2>1, <2>2 DEF Load
  <2>4. (Done(u) => Done(u)') /\ (InBatch(u) => Done(u)')
    BY <1>1 DEF Done, InBatch
  <2>5. (Shadowed(u)' <=> Shadowed(u)) /\ (Anew' <=> Anew)
    BY <1>1 DEF Shadowed, Anew, Renamed, Waiting
  <2> QED BY <2>1, <2>2, <2>3, <2>4, <2>5 DEF Met
<1>6. ReadSound'
  <2> SUFFICES ASSUME Reading
               PROVE  ReadSound'
    BY <1>1 DEF ReadSound
  <2>1. rd' = rd /\ mode = "emit"
    BY <1>1 DEF Reading
  <2>2. ASSUME \A u \in Units : base < u => emitted[u] = 0 /\ ~InBatch(u)
        PROVE  \A u \in Units : base < u => emitted'[u] = 0
    <3> TAKE u \in Units
    <3> HAVE base < u
    <3>1. Load(u) = 0
      BY <2>2 DEF Load
    <3> QED BY <1>5, <3>1
  <2>3. \A e : Waiting(e)' <=> Waiting(e)
    BY <1>1 DEF Waiting
  <2>4. Begin(rd.fd)' = Begin(rd.fd) /\ End(rd.fd)' = End(rd.fd)
    BY <1>1, <2>1 DEF Begin, End
  <2>5. \/ rd.fd = rd.path
        \/ /\ rd.path = "live" /\ rd.fd = "old" /\ Renamed
           /\ Waiting(<<"live", "rename">>) /\ Waiting(<<"live", "create">>)
           /\ Waiting(<<"old", "create">>)
           /\ \A u \in Units : base < u => emitted[u] = 0 /\ ~InBatch(u)
    BY DEF Inv, ReadSound
  <2>6. (rd.fd = "old" => Renamed) /\ (rotated # "emptied" => Begin(rd.fd) + rd.pos <= End(rd.fd))
    BY DEF Inv, ReadSound
  <2>7. (\/ rd.fd = rd.path
         \/ /\ rd.path = "live" /\ rd.fd = "old" /\ Renamed
            /\ Waiting(<<"live", "rename">>) /\ Waiting(<<"live", "create">>)
            /\ Waiting(<<"old", "create">>)
            /\ \A u \in Units : base < u => emitted[u] = 0 /\ ~InBatch(u))'
    <3>1. CASE rd.fd = rd.path
      BY <2>1, <3>1
    <3>2. CASE rd.fd # rd.path
      BY <1>1, <1>5, <2>1, <2>2, <2>3, <2>5, <3>2 DEF Renamed
    <3> QED BY <3>1, <3>2
  <2>8. (rd.fd = "old" => Renamed)'
        /\ (rotated # "emptied" => Begin(rd.fd) + rd.pos <= End(rd.fd))'
    BY <1>1, <2>1, <2>4, <2>6 DEF Renamed
  <2> QED BY <2>7, <2>8 DEF ReadSound
<1>7. Covered'
  <2>1. \A p : Begin(p)' = Begin(p)
    BY <1>1 DEF Begin
  <2>2. Reading => rd' = rd
    BY <1>1 DEF Reading
  <2> SUFFICES ASSUME NEW u \in Units
               PROVE  /\ Reading /\ Begin(rd.fd) < u /\ u <= Begin(rd.fd) + rd.pos => Met(u)'
                      /\ \A p \in Paths :
                           /\ Begin(p) < u /\ u <= Begin(p) + Offset(known, p) => Met(u)'
                           /\ Begin(p) < u /\ u <= Begin(p) + Offset(saved, p) =>
                                Done(u)' \/ Shadowed(u)'
    BY <1>1, <2>1, <2>2 DEF Covered
  <2>3. Reading /\ Begin(rd.fd) < u /\ u <= Begin(rd.fd) + rd.pos => Met(u) \/ InBatch(u)
    BY DEF Inv, Covered
  <2>4. \A p \in Paths :
          /\ Begin(p) < u /\ u <= Begin(p) + Offset(known, p) => Met(u) \/ InBatch(u)
          /\ Begin(p) < u /\ u <= Begin(p) + Offset(saved, p) =>
               Done(u) \/ Shadowed(u) \/ InBatch(u)
    BY DEF Inv, Covered
  <2>5. (Met(u) \/ InBatch(u) => Met(u)')
        /\ (Done(u) \/ Shadowed(u) \/ InBatch(u) => Done(u)' \/ Shadowed(u)')
    BY <1>5 DEF Met
  <2> QED BY <2>3, <2>4, <2>5
<1>8. WillBeRead'
  <2>1. Reading => rd' = rd
    BY <1>1 DEF Reading
  <2> QED BY <1>1, <2>1 DEF Inv, WillBeRead, Exists, Size, Begin, End
<1>9. Loads'
  <2>1. /\ Begun' = Begun /\ LivePassed' = LivePassed /\ OldPassed' = OldPassed
        /\ (Renamed' <=> Renamed)
        /\ \A e : Waiting(e)' <=> Waiting(e)
    <3>1. Reading => rd' = rd
      BY <1>1 DEF Reading
    <3> QED BY <1>1, <3>1 DEF Begun, LivePassed, OldPassed, Renamed, Waiting
  <2> SUFFICES ASSUME NEW u \in Units
               PROVE  /\ written < u => emitted'[u] = 0
                      /\ NewLoad(u)' /\ OldLoad(u)'
    <3>1. mode' # "down"
      BY <1>1
    <3> QED BY <1>1, <1>5, <3>1 DEF Loads
  <2>2. /\ u \in Nat /\ base \in Nat /\ Begun \in Nat /\ LivePassed \in Nat /\ OldPassed \in Nat
        /\ written \in Nat
    <3>1. u \in Nat /\ base \in Nat /\ written \in Nat
      BY <1>1, FileFacts
    <3>2. Begun \in 0..2 /\ LivePassed \in Nat /\ OldPassed \in Nat
      BY <1>1, LoadFacts
    <3> QED BY <3>1, <3>2
  <2>3. (written < u => Load(u) = 0) /\ NewLoad(u) /\ OldLoad(u)
    BY DEF Inv, Loads
  <2>4. written < u => emitted'[u] = 0
    BY <1>5, <2>3
  <2>5. NewLoad(u)'
    <3> SUFFICES ASSUME base < u
                 PROVE  emitted'[u] <= Begun + IF u <= LivePassed /\ LivePassed <= written
                                               THEN 1 ELSE 0
      BY <1>1, <1>5, <2>1 DEF NewLoad
    <3>1. Load(u) <= Begun + IF u <= LivePassed /\ LivePassed <= written THEN 1 ELSE 0
      BY <2>3 DEF NewLoad
    <3> QED BY <1>5, <2>2, <3>1
  <2>6. OldLoad(u)'
    <3>1. Reading => rd' = rd
      BY <1>1 DEF Reading
    <3>2. \A n \in Nat : Load(u) <= n => emitted'[u] <= n
      BY <1>5
    <3>3. Load(u) = 0 => emitted'[u] = 0
      BY <1>5
    <3>4. 1 + (IF u <= OldPassed THEN 1 ELSE 0) \in Nat
      OBVIOUS
    <3> QED BY <1>1, <1>5, <2>1, <2>3, <3>1, <3>2, <3>3, <3>4 DEF OldLoad
  <2> QED BY <2>4, <2>5, <2>6
<1> QED BY <1>2, <1>3, <1>4, <1>6, <1>7, <1>8, <1>9 DEF Inv

LEMMA EmitKeeps ==
  ASSUME Inv, Emit
  PROVE  Inv'
<1>1. /\ mode \in {"emit", "last"} /\ channel < ChanCap /\ channel' = channel + 1
      /\ emitted' = [u \in Units |-> emitted[u] + IF u \in UnitsOf(lines) THEN 1 ELSE 0]
      /\ ever' = ever \cup UnitsOf(lines) /\ timedOut' = timedOut /\ Emitted /\ Types
  BY DEF Emit, Inv
<1>2. channel' \in 0..ChanCap
  BY <1>1, GatewayAssumption DEF Types, TypeOK
<1>3. UnitsOf(lines) \subseteq Units
  BY <1>1, BatchFacts DEF Types, TypeOK
<1>4. emitted \in [Units -> Nat] /\ ever \subseteq Units /\ timedOut \subseteq Units
  BY <1>1 DEF Types
<1>5. emitted' \in [Units -> Nat]
  BY <1>1, <1>4
<1>6. \A u \in Units : emitted'[u] <= Load(u)
  BY <1>1, <1>4 DEF Load, InBatch
<1> QED BY <1>1, <1>2, <1>3, <1>4, <1>5, <1>6, EmittedKeeps

LEMMA GiveUpKeeps ==
  ASSUME Inv, GiveUp
  PROVE  Inv'
<1>1. /\ mode \in {"emit", "last"} /\ channel' = channel /\ emitted' = emitted
      /\ timedOut' = timedOut \cup UnitsOf(lines) /\ ever' = ever /\ Emitted /\ Types
  BY DEF GiveUp, Inv
<1>2. channel' \in 0..ChanCap
  BY <1>1 DEF Types, TypeOK
<1>3. UnitsOf(lines) \subseteq Units
  BY <1>1, BatchFacts DEF Types, TypeOK
<1>4. emitted \in [Units -> Nat] /\ ever \subseteq Units /\ timedOut \subseteq Units
  BY <1>1 DEF Types
<1>5. \A u \in Units : emitted'[u] <= Load(u)
  BY <1>1, LoadFacts
<1> QED BY <1>1, <1>2, <1>3, <1>4, <1>5, EmittedKeeps

-------------------------------------------------------------------------------
(* The loop of readNewLines.                                                 *)

\* A line is read of the file that is open, whatever its path names by now.
LEMMA ReadLineKeeps ==
  ASSUME Inv, ReadLine
  PROVE  Inv'
<1>1. /\ mode = "read" /\ NextLine # {} /\ lines' = Append(lines, NextLine)
      /\ rd' = [rd EXCEPT !.pos = @ + Cardinality(NextLine), !.count = 1]
      /\ mode' = IF Len(lines') >= BatchSize THEN "emit" ELSE "read"
      /\ UNCHANGED <<written, base, rotated, events, started, scan, known, saved, channel,
                     crashes, emitted, ever, timedOut, killed, shadow>>
      /\ Types /\ Reading /\ Reading'
  BY DEF ReadLine, fileVars, history, Inv, Reading
<1>2. PICK a \in Nat : a = Begin(rd.fd) + rd.pos
  <2>1. rd.fd \in Paths /\ rd.pos \in Nat
    BY <1>1, FileFacts
  <2>2. Begin(rd.fd) \in Nat
    BY <1>1, <2>1, FileFacts
  <2> QED BY <2>1, <2>2
<1>3. PICK n \in Nat : /\ n = Cardinality(NextLine) /\ a + n <= End(rd.fd)
                       /\ \A v \in Units : v \in NextLine <=> a < v /\ v <= a + n
  BY <1>1, <1>2, NextFacts
<1>4. PICK N \in SUBSET Units : N = NextLine
  BY <1>1, <1>2, NextFacts
<1>5. /\ rd'.path = rd.path /\ rd'.fd = rd.fd /\ rd'.pos = rd.pos + n /\ rd' \in Reads
      /\ rd.path \in Paths /\ rd.fd \in Paths /\ rd.pos \in Nat
  <2>1. rd \in Reads
    BY <1>1 DEF Types
  <2>2. rd' = [rd EXCEPT !.pos = @ + n, !.count = 1]
    BY <1>1, <1>3
  <2>3. rd.path \in Paths /\ rd.fd \in Paths /\ rd.pos \in Nat /\ rd.pos + n \in Nat
        /\ DOMAIN rd = {"path", "fd", "pos", "count", "again"}
    BY <2>1 DEF Reads
  <2>4. rd'.path = rd.path /\ rd'.fd = rd.fd /\ rd'.pos = rd.pos + n
    BY <2>2, <2>3
  <2>5. rd' \in Reads
    BY <2>1, <2>2, <2>3 DEF Reads
  <2> QED BY <2>3, <2>4, <2>5
<1>6. /\ written \in Nat /\ base \in Nat /\ base <= written
      /\ Begin(rd.fd) = (IF rd.fd = "live" THEN base ELSE 0)
      /\ End(rd.fd) = (IF rd.fd = "live" THEN written ELSE base)
      /\ \A u \in Units : u \in Nat \ {0}
      /\ \A p : Begin(p)' = Begin(p) /\ End(p)' = End(p)
  <2>1. written \in Nat /\ base \in Nat /\ base <= written /\ \A u \in Units : u \in Nat \ {0}
    BY <1>1, FileFacts
  <2> QED BY <1>1, <2>1 DEF Begin, End
<1>7. /\ lines' \in Seq(SUBSET Units) /\ Len(lines') = Len(lines) + 1 /\ Len(lines) \in Nat
      /\ UnitsOf(lines') = UnitsOf(lines) \cup N
  <2>1. lines \in Seq(SUBSET Units)
    BY <1>1 DEF Types, TypeOK
  <2> QED BY <1>1, <1>4, <2>1, BatchFacts
<1>8. \A u \in Units : /\ InBatch(u)' <=> InBatch(u) \/ (a < u /\ u <= a + n)
                       /\ Met(u)' <=> Met(u)
                       /\ (Done(u)' <=> Done(u)) /\ (Shadowed(u)' <=> Shadowed(u))
  <2>1. \A u : (Met(u)' <=> Met(u)) /\ (Done(u)' <=> Done(u)) /\ (Shadowed(u)' <=> Shadowed(u))
    BY <1>1 DEF Met, Done, Shadowed, Anew, Renamed, Waiting
  <2>2. \A u \in Units : InBatch(u)' <=> InBatch(u) \/ (a < u /\ u <= a + n)
    BY <1>3, <1>4, <1>7 DEF InBatch
  <2> QED BY <2>1, <2>2
<1>9. Types'
  <2>1. Len(lines') <= BatchSize /\ (mode' = "read" => Len(lines') < BatchSize)
    BY <1>1, <1>7, GatewayAssumption DEF Types
  <2>2. rd'.path \in Paths /\ rd'.fd \in Paths /\ rd'.pos \in Nat
    BY <1>5 DEF Reads
  <2>3. TypeOK'
    BY <1>1, <1>7, <2>1, <2>2 DEF Types, TypeOK, Modes
  <2>4. mode' \in {"read", "emit"}
    BY <1>1
  <2> QED BY <1>1, <1>5, <2>1, <2>3, <2>4 DEF Types
<1>10. EventsSound'
  BY <1>1, Frames
<1>11. OldOnce'
  BY <1>1, <1>5 DEF Inv, OldOnce, Renamed, Waiting
<1>12. ReadSound /\ (rd.fd # rd.path => /\ rd.path = "live" /\ rd.fd = "old" /\ Renamed
                                        /\ Waiting(<<"old", "create">>))
  BY <1>1 DEF Inv, ReadSound
<1>13. ReadSound'
  <2>1. \A e : Waiting(e)' <=> Waiting(e)
    BY <1>1 DEF Waiting
  <2>2. Begin(rd.fd) + rd'.pos <= End(rd.fd)
    BY <1>2, <1>3, <1>5, <1>6
  <2>3. (rd.fd = "old" => Renamed)' /\ (Begin(rd.fd) + rd.pos <= End(rd.fd))'
    <3>1. rd.fd = "old" => Renamed
      BY <1>1, <1>12 DEF ReadSound
    <3> QED BY <1>1, <1>5, <1>6, <2>2, <3>1 DEF Renamed
  <2>4. (\/ rd.fd = rd.path
         \/ /\ rd.path = "live" /\ rd.fd = "old" /\ Renamed
            /\ Waiting(<<"live", "rename">>) /\ Waiting(<<"live", "create">>)
            /\ Waiting(<<"old", "create">>)
            /\ \A u \in Units : base < u => emitted[u] = 0 /\ ~InBatch(u))'
    <3>1. CASE rd.fd = rd.path
      BY <1>5, <3>1
    <3>2. CASE rd.fd # rd.path
      <4>1. /\ rd.path = "live" /\ rd.fd = "old" /\ Renamed
            /\ Waiting(<<"live", "rename">>) /\ Waiting(<<"live", "create">>)
            /\ Waiting(<<"old", "create">>)
            /\ \A u \in Units : base < u => emitted[u] = 0 /\ ~InBatch(u)
        BY <1>1, <1>12, <3>2 DEF ReadSound
      <4>2. a + n <= base
        BY <1>3, <1>6, <4>1
      <4>3. \A u \in Units : base < u => ~(a < u /\ u <= a + n)
        BY <1>2, <1>3, <1>6, <4>2
      <4>4. (\A u \in Units : base < u => emitted[u] = 0 /\ ~InBatch(u))'
        BY <1>1, <1>8, <4>1, <4>3
      <4> QED BY <1>1, <1>5, <2>1, <4>1, <4>4 DEF Renamed
    <3> QED BY <3>1, <3>2
  <2> QED BY <2>3, <2>4 DEF ReadSound
<1>14. Covered'
  <2> SUFFICES ASSUME NEW u \in Units
               PROVE  /\ Begin(rd.fd) < u /\ u <= Begin(rd.fd) + rd'.pos => Met(u) \/ InBatch(u)'
                      /\ \A p \in Paths :
                           /\ Begin(p) < u /\ u <= Begin(p) + Offset(known, p) => Met(u)
                           /\ Begin(p) < u /\ u <= Begin(p) + Offset(saved, p) =>
                                Done(u) \/ Shadowed(u)
    BY <1>1, <1>5, <1>6, <1>8 DEF Covered
  <2>1. Begin(rd.fd) < u /\ u <= Begin(rd.fd) + rd.pos => Met(u) \/ InBatch(u)
    BY <1>1 DEF Inv, Covered
  <2>2. \A p \in Paths :
          /\ Begin(p) < u /\ u <= Begin(p) + Offset(known, p) => Met(u)
          /\ Begin(p) < u /\ u <= Begin(p) + Offset(saved, p) => Done(u) \/ Shadowed(u)
    BY <1>1 DEF Inv, Covered
  <2>3. u <= Begin(rd.fd) + rd'.pos => u <= Begin(rd.fd) + rd.pos \/ (a < u /\ u <= a + n)
    BY <1>2, <1>3, <1>5, <1>6
  <2> QED BY <1>8, <2>1, <2>2, <2>3
<1>15. WillBeRead'
  BY <1>1, <1>5 DEF Inv, WillBeRead, Exists, Size, Begin, End
<1>16. Loads'
  <2>1. Begun' = Begun /\ Begun \in Nat /\ (Renamed' <=> Renamed) /\ mode' # "down"
    BY <1>1 DEF Begun, Renamed, Waiting
  <2>2. \A e : Waiting(e)' <=> Waiting(e)
    BY <1>1 DEF Waiting
  <2> SUFFICES ASSUME NEW u \in Units
               PROVE  (written < u => Load(u)' = 0) /\ NewLoad(u)' /\ OldLoad(u)'
    BY <1>1, <2>1 DEF Loads
  <2>3. u \in Nat /\ Load(u) \in Nat /\ emitted[u] \in Nat
    BY <1>1, <1>6, LoadFacts
  <2>4. (written < u => Load(u) = 0) /\ NewLoad(u) /\ OldLoad(u)
    BY <1>1 DEF Inv, Loads
  <2>5. /\ ~(a < u /\ u <= a + n) => Load(u)' = Load(u)
        /\ Load(u)' \in Nat /\ Load(u)' <= Load(u) + 1
    BY <1>1, <1>8, <2>3 DEF Load
  <2>6. written < u => Load(u)' = 0
    <3>1. written < u => ~(a < u /\ u <= a + n)
      BY <1>2, <1>3, <1>6, <2>3
    <3> QED BY <2>4, <2>5, <3>1
  <2>7. NewLoad(u)'
    <3> SUFFICES ASSUME base < u
                 PROVE  Load(u)' <= Begun + IF u <= LivePassed' /\ LivePassed' <= written
                                            THEN 1 ELSE 0
      BY <1>1, <2>1 DEF NewLoad
    <3>1. /\ Load(u) <= Begun + IF u <= LivePassed /\ LivePassed <= written THEN 1 ELSE 0
          /\ LivePassed \in Nat
      BY <1>1, <2>4, LoadFacts DEF NewLoad
    <3>2. CASE rd.path = "live" /\ rd.fd = "live"
      <4>1. LivePassed = a /\ LivePassed' = a + n /\ a + n <= written
        BY <1>1, <1>2, <1>3, <1>5, <1>6, <3>2 DEF LivePassed
      <4> QED BY <2>1, <2>3, <2>5, <3>1, <4>1
    <3>3. CASE ~(rd.path = "live" /\ rd.fd = "live")
      <4>1. LivePassed' = LivePassed
        BY <1>1, <1>5, <3>3 DEF LivePassed
      <4>2. rd.fd = "old"
        BY <1>5, <1>12, <3>3 DEF Paths
      <4>3. ~(a < u /\ u <= a + n)
        BY <1>2, <1>3, <1>6, <2>3, <4>2
      <4> QED BY <2>5, <3>1, <4>1, <4>3
    <3> QED BY <3>2, <3>3
  <2>8. OldLoad(u)'
    <3> SUFFICES ASSUME u <= base
                 PROVE  /\ ~Renamed => Load(u)' <= 1
                        /\ Renamed /\ Waiting(<<"old", "create">>) =>
                             /\ Load(u)' <= 1
                             /\ rd.path # rd.fd /\ rd'.pos < u => Load(u)' = 0
                        /\ Renamed /\ ~Waiting(<<"old", "create">>) =>
                             Load(u)' <= 1 + IF u <= OldPassed' THEN 1 ELSE 0
      BY <1>1, <1>5, <2>1, <2>2 DEF OldLoad
    <3>1. /\ ~Renamed => Load(u) <= 1
          /\ Renamed /\ Waiting(<<"old", "create">>) =>
               /\ Load(u) <= 1
               /\ rd.path # rd.fd /\ rd.pos < u => Load(u) = 0
          /\ Renamed /\ ~Waiting(<<"old", "create">>) =>
               Load(u) <= 1 + IF u <= OldPassed THEN 1 ELSE 0
      BY <1>1, <2>4 DEF OldLoad
    <3>2. CASE rd.fd = "live"
      <4>1. ~(a < u /\ u <= a + n) /\ rd.path = "live"
        <5>1. base <= a
          BY <1>2, <1>5, <1>6, <3>2
        <5>2. rd.path = "live"
          BY <1>12, <3>2
        <5> QED BY <1>6, <2>3, <5>1, <5>2
      <4>2. OldPassed' = OldPassed
        BY <1>1, <1>5, <4>1 DEF OldPassed
      <4> QED BY <2>5, <3>1, <3>2, <4>1, <4>2
    <3>3. CASE rd.fd = "old" /\ rd.path = "old"
      <4>1. Renamed /\ ~Waiting(<<"old", "create">>)
        BY <1>1, <3>3 DEF Inv, OldOnce
      <4>2. OldPassed = a /\ OldPassed' = a + n
        BY <1>1, <1>2, <1>5, <1>6, <3>3 DEF OldPassed
      <4> QED BY <2>3, <2>5, <3>1, <4>1, <4>2
    <3>4. CASE rd.fd = "old" /\ rd.path = "live"
      <4>1. Renamed /\ Waiting(<<"old", "create">>)
        BY <1>12, <3>4
      <4>2. a = rd.pos /\ rd'.pos = a + n
        BY <1>2, <1>5, <1>6, <3>4
      <4>3. a < u => Load(u) = 0
        BY <3>1, <3>4, <4>1, <4>2
      <4>4. Load(u)' <= 1 /\ (rd'.pos < u => Load(u)' = 0)
        BY <2>3, <2>5, <3>1, <4>1, <4>2, <4>3
      <4> QED BY <4>1, <4>4
    <3> QED BY <1>5, <3>2, <3>3, <3>4, <1>12 DEF Paths
  <2> QED BY <2>6, <2>7, <2>8
<1> QED BY <1>9, <1>10, <1>11, <1>13, <1>14, <1>15, <1>16 DEF Inv

\* The end of the file is an offset of the path, also if the file has another
\* name by now; then the watcher still has the new file to begin.
LEMMA EndReadKeeps ==
  ASSUME Inv, EndRead
  PROVE  Inv'
<1>1. /\ mode = "read" /\ NextLine = {} /\ mode' = "save"
      /\ known' = [known EXCEPT ![rd.path] = rd.pos]
      /\ shadow' = (IF rd.fd # rd.path THEN Larger(shadow, base + rd.pos) ELSE shadow)
      /\ UNCHANGED <<written, base, rotated, events, started, scan, rd, lines, saved,
                     channel, crashes, emitted, ever, timedOut, killed>>
      /\ Types /\ Reading /\ ~Reading'
  BY DEF EndRead, fileVars, Inv, Reading
<1>2. End(rd.fd) <= Begin(rd.fd) + rd.pos
  BY <1>1, NextFacts
<1>3. /\ written \in Nat /\ base \in Nat /\ base <= written /\ shadow \in Nat
      /\ rd.path \in Paths /\ rd.fd \in Paths /\ rd.pos \in Nat
      /\ \A u \in Units : u \in Nat
      /\ \A p \in Paths : Size(p) \in Nat /\ Begin(p) \in Nat /\ Begin(p) + Size(p) = End(p)
      /\ Begin("live") = base /\ Begin("old") = 0 /\ End("live") = written
      /\ End("old") = base
      /\ \A p : p \in Paths <=> p = "live" \/ p = "old"
  BY <1>1, FileFacts
<1>4. /\ rd.fd = rd.path \/ /\ rd.path = "live" /\ rd.fd = "old" /\ Renamed
                            /\ Waiting(<<"live", "create">>)
                            /\ \A u \in Units : base < u => emitted[u] = 0 /\ ~InBatch(u)
      /\ rd.fd = "old" => Renamed
      /\ rotated # "emptied" => Begin(rd.fd) + rd.pos <= End(rd.fd)
  BY <1>1 DEF Inv, ReadSound
<1>5. /\ known' \in Offsets
      /\ \A p \in Paths : Offset(known', p) = IF p = rd.path THEN rd.pos ELSE Offset(known, p)
  <2>1. known \in Offsets
    BY <1>1 DEF Types, TypeOK, Offsets
  <2>2. known' \in Offsets
    BY <1>1, <1>3, <2>1 DEF Offsets
  <2>3. known # Torn /\ known' # Torn /\ rd.pos # Unknown
    BY <1>3, <2>1, <2>2, GatewayAssumption DEF Offsets
  <2> QED BY <1>1, <1>3, <2>1, <2>2, <2>3 DEF Offset, Offsets
<1>6. /\ shadow' \in Nat /\ shadow <= shadow'
      /\ rd.fd # rd.path => base + rd.pos <= shadow'
      /\ rd.fd = rd.path => shadow' = shadow
  BY <1>1, <1>3 DEF Larger
<1>7. rd.path = "old" => rd.fd = "old" /\ rd.pos <= base /\ Renamed
  BY <1>3, <1>4 DEF Renamed
<1>8. Types'
  <2>1. Offset(known', "old") <= base
    BY <1>1, <1>3, <1>5, <1>7 DEF Types
  <2>2. TypeOK'
    BY <1>1, <1>5, <1>6 DEF Types, TypeOK, Modes, Offsets
  <2>3. rotated = "no" => base = 0 /\ shadow' = 0
    BY <1>1, <1>4, <1>6 DEF Types, Renamed
  <2> QED BY <1>1, <1>6, <2>1, <2>2, <2>3 DEF Types
<1>9. EventsSound'
  BY <1>1, Frames
<1>10. OldOnce' /\ ReadSound'
  BY <1>1 DEF Inv, OldOnce, ReadSound, Renamed, Waiting
<1>11. Covered'
  <2>1. Anew' <=> Anew
    BY <1>1 DEF Anew, Renamed, Waiting
  <2>2. \A u \in Units : /\ Done(u)' <=> Done(u)
                         /\ Shadowed(u) => Shadowed(u)'
                         /\ Met(u) => Met(u)'
                         /\ InBatch(u)' <=> InBatch(u)
    BY <1>1, <1>3, <1>6, <2>1 DEF Done, Shadowed, Met, InBatch
  <2>3. \A p : Begin(p)' = Begin(p)
    BY <1>1 DEF Begin
  <2>4. ASSUME NEW u \in Units, Begin(rd.path) < u, u <= Begin(rd.path) + rd.pos
        PROVE  Met(u)' \/ InBatch(u)
    <3>1. CASE rd.fd = rd.path
      BY <1>1, <2>2, <2>4, <3>1 DEF Inv, Covered
    <3>2. CASE rd.fd # rd.path
      <4>1. Shadowed(u)'
        BY <1>1, <1>3, <1>4, <1>6, <2>4, <3>2 DEF Shadowed
      <4>2. ~Anew
        BY <1>4, <3>2 DEF Anew
      <4> QED BY <2>1, <4>1, <4>2 DEF Met
    <3> QED BY <3>1, <3>2
  <2>5. \A u \in Units : \A p \in Paths :
          /\ Begin(p) < u /\ u <= Begin(p) + Offset(known, p) => Met(u)
          /\ Begin(p) < u /\ u <= Begin(p) + Offset(saved, p) => Done(u) \/ Shadowed(u)
    BY <1>1 DEF Inv, Covered
  <2>6. \A u \in Units : \A p \in Paths :
          Begin(p) < u /\ u <= Begin(p) + Offset(known', p) => Met(u)' \/ InBatch(u)
    BY <1>3, <1>5, <2>2, <2>4, <2>5
  <2> QED BY <1>1, <2>2, <2>3, <2>5, <2>6 DEF Covered
<1>12. WillBeRead'
  <2> SUFFICES ASSUME NEW p \in Paths, Exists(p)
               PROVE  \/ p \in ToSet(scan) \/ \E e \in ToSet(events) : e[1] = p
                      \/ Size(p) <= Offset(known', p)
    BY <1>1 DEF WillBeRead, Exists, Size, Begin, End
  <2>1. CASE p = rd.path /\ rd.fd = rd.path
    BY <1>2, <1>3, <1>5, <2>1
  <2>2. CASE p = rd.path /\ rd.fd # rd.path
    <3>1. <<"live", "create">>[1] = "live"
      OBVIOUS
    <3> QED BY <1>4, <2>2, <3>1 DEF Waiting
  <2>3. CASE p # rd.path
    BY <1>1, <1>5, <2>3 DEF Inv, WillBeRead
  <2> QED BY <2>1, <2>2, <2>3
<1>13. Loads'
  <2>1. Begun' = Begun /\ Begun \in Nat /\ (Renamed' <=> Renamed)
    BY <1>1 DEF Begun, Renamed, Waiting
  <2>2. \A e : Waiting(e)' <=> Waiting(e)
    BY <1>1 DEF Waiting
  <2>3. \A u \in Units : emitted[u] \in Nat
    BY <1>1 DEF Types
  <2>4. \A u \in Units : Load(u)' = Load(u) /\ Load(u) \in Nat
    BY <1>1, <2>3 DEF Load, InBatch
  <2> SUFFICES ASSUME NEW u \in Units
               PROVE  NewLoad(u)' /\ OldLoad(u)'
    BY <1>1, <2>4 DEF Inv, Loads
  <2>5. u \in Nat /\ NewLoad(u) /\ OldLoad(u)
    BY <1>1, <1>3 DEF Inv, Loads
  <2>6. NewLoad(u)'
    <3> SUFFICES ASSUME base < u
                 PROVE  Load(u) <= Begun + IF u <= LivePassed' /\ LivePassed' <= written
                                           THEN 1 ELSE 0
      BY <1>1, <2>1, <2>4 DEF NewLoad
    <3>1. CASE rd.fd # rd.path
      <4>1. Load(u) = 0
        BY <1>4, <3>1 DEF Load
      <4> QED BY <2>1, <4>1
    <3>2. CASE rd.fd = rd.path
      <4>1. LivePassed' = LivePassed
        BY <1>1, <1>3, <1>5, <3>2 DEF LivePassed
      <4> QED BY <2>5, <4>1 DEF NewLoad
    <3> QED BY <3>1, <3>2
  <2>7. OldLoad(u)'
    <3>1. u <= base /\ u <= OldPassed => u <= OldPassed'
      BY <1>1, <1>3, <1>5, <1>7, <2>5 DEF OldPassed
    <3> SUFFICES ASSUME u <= base
                 PROVE  /\ ~Renamed => Load(u) <= 1
                        /\ Renamed /\ Waiting(<<"old", "create">>) => Load(u) <= 1
                        /\ Renamed /\ ~Waiting(<<"old", "create">>) =>
                             Load(u) <= 1 + IF u <= OldPassed' THEN 1 ELSE 0
      BY <1>1, <2>1, <2>2, <2>4 DEF OldLoad
    <3> QED BY <2>4, <2>5, <3>1 DEF OldLoad
  <2> QED BY <2>6, <2>7
<1> QED BY <1>8, <1>9, <1>10, <1>11, <1>12, <1>13 DEF Inv

-------------------------------------------------------------------------------
(* The theorems.                                                             *)

LEMMA StepInv == Inv /\ [Next]_vars => Inv'
<1> SUFFICES ASSUME Inv, [Next]_vars PROVE Inv'
  OBVIOUS
<1>1. CASE UNCHANGED vars
  <2>1. Types'
    BY <1>1 DEF vars, Inv, Types, TypeOK
  <2> QED BY <1>1, <2>1, Frames DEF vars, Inv
<1>2. CASE Next
  BY <1>2, WriteKeeps, RenameKeeps, EmptyKeeps, UnlinkKeeps, StartKeeps, ScanNextKeeps,
     ScanEndsKeeps, StartMainKeeps, NoticeKeeps, ReadLineKeeps, EndReadKeeps,
     SaveTruncateKeeps, SaveWriteKeeps, EmitKeeps, GiveUpKeeps, TailSnapshotKeeps,
     TakeKeeps, CrashKeeps DEF Next
<1> QED BY <1>1, <1>2

\* The invariant holds of every reachable state.
THEOREM Invariance == Spec => []Inv
BY InitInv, StepInv, PTL DEF Spec

\* The variables have their types: offsets and batches hold units of the log,
\* and a batch and gatewayEventChan stay within their limits.
THEOREM TypeCorrect == Spec => []TypeOK
<1>1. Inv => TypeOK
  BY DEF Inv, Types
<1> QED BY <1>1, Invariance, PTL

\* Whenever the watcher has nothing to do, everything written was handed over
\* in some life of the agent, or one of the named reasons holds: scanExisting
\* and the events of the rotation make it read every file to its end.
THEOREM NothingSkipped == Spec => []SkipsExcused
<1>1. Inv => SkipsExcused
  <2> SUFFICES ASSUME Inv, Quiet, NEW u \in 1..written
               PROVE  u \in ever \/ Excused(u)
    BY DEF SkipsExcused
  <2>1. /\ Types /\ mode = "ready" /\ scan = <<>> /\ events = <<>> /\ lines = <<>>
        /\ ~Reading
    BY DEF Inv, Types, Quiet, Reading
  <2>2. /\ written \in Nat /\ base \in Nat /\ base <= written /\ u \in Units
        /\ u \in Nat \ {0} /\ 2 * LineCount \in Nat
    BY <2>1, FileFacts DEF Units
  <2>3. /\ \A p \in Paths : /\ Offset(known, p) \in Nat /\ Size(p) \in Nat /\ Begin(p) \in Nat
                            /\ Begin(p) + Size(p) = End(p)
        /\ Begin("live") = base /\ End("live") = written
        /\ Begin("old") = 0 /\ End("old") = base
        /\ "live" \in Paths /\ "old" \in Paths
    BY <2>1, FileFacts
  <2>4. ToSet(scan) = {} /\ ToSet(events) = {}
    BY <2>1 DEF ToSet
  <2>5. \A p \in Paths : Exists(p) => Size(p) <= Offset(known, p)
    BY <2>1, <2>4 DEF Inv, WillBeRead
  <2>6. \A p \in Paths : Exists(p) /\ Begin(p) < u /\ u <= End(p) => Met(u)
    <3> SUFFICES ASSUME NEW p \in Paths, Exists(p), Begin(p) < u, u <= End(p)
                 PROVE  Met(u)
      OBVIOUS
    <3>1. u <= Begin(p) + Offset(known, p)
      BY <2>2, <2>3, <2>5
    <3> QED BY <2>1, <2>2, <3>1 DEF Inv, Covered
  <2>7. Met(u) => u \in ever \/ Excused(u)
    <3>1. Shadowed(u) => rotated # "no"
      BY <2>1, <2>2 DEF Shadowed, Types
    <3>2. ~Anew => ~Renamed \/ crashes # 0
      BY <2>1, <2>4 DEF Anew, Waiting
    <3>3. crashes # 0 => crashes > 0
      BY <2>1 DEF Types, TypeOK
    <3>4. rotated \in {"no", "renamed", "emptied", "removed"}
      BY <2>1 DEF Types, TypeOK
    <3> QED BY <3>1, <3>2, <3>3, <3>4 DEF Met, Done, Shadowed, Excused, Renamed
  <2>8. CASE base < u
    BY <2>2, <2>3, <2>6, <2>7, <2>8 DEF Exists
  <2>9. CASE u <= base
    <3>1. CASE rotated = "no"
      BY <2>1, <2>2, <2>9, <3>1 DEF Types
    <3>2. CASE rotated = "renamed"
      BY <2>2, <2>3, <2>6, <2>7, <2>9, <3>2 DEF Exists
    <3>3. CASE rotated \in {"emptied", "removed"}
      BY <2>9, <3>3 DEF Excused
    <3> QED BY <2>1, <3>1, <3>2, <3>3 DEF Types, TypeOK
  <2> QED BY <2>2, <2>8, <2>9
<1> QED BY <1>1, Invariance, PTL

\* In one life of the agent a unit is handed over once, unless a rename makes
\* the watcher begin again: twice then in the old file, thrice in the new one.
THEOREM RepeatsAreFew == Spec => []RepeatsBounded
<1>1. Inv => RepeatsBounded
  <2> SUFFICES ASSUME Inv, NEW u \in 1..written
               PROVE  emitted[u] <= IF rotated \in {"no", "emptied"} THEN 1
                                    ELSE IF u <= base THEN 2 ELSE 3
    BY DEF RepeatsBounded
  <2>1. Types /\ rotated \in {"no", "renamed", "emptied", "removed"}
    BY DEF Inv, Types, TypeOK
  <2>2. written \in Nat /\ base \in Nat /\ 2 * LineCount \in Nat /\ written <= 2 * LineCount
    BY <2>1, FileFacts
  <2>3. u \in Units /\ u \in Nat
    BY <2>2 DEF Units
  <2>4. /\ Load(u) \in Nat /\ emitted[u] \in Nat /\ emitted[u] <= Load(u)
        /\ Begun \in 0..2 /\ (~Renamed => Begun = 0)
    BY <2>1, <2>3, LoadFacts DEF Begun
  <2>5. CASE mode = "down"
    BY <2>1, <2>3, <2>5 DEF Inv, Loads, Renamed
  <2>6. CASE mode # "down"
    <3>1. NewLoad(u) /\ OldLoad(u)
      BY <2>3, <2>6 DEF Inv, Loads
    <3>2. base < u => Load(u) <= Begun + 1
      <4>1. base < u => Load(u) <= Begun + IF u <= LivePassed /\ LivePassed <= written
                                           THEN 1 ELSE 0
        BY <3>1 DEF NewLoad
      <4> QED BY <2>4, <4>1
    <3>3. u <= base => Load(u) <= IF ~Renamed THEN 1 ELSE 2
      BY <2>4, <3>1 DEF OldLoad
    <3> QED BY <2>1, <2>2, <2>3, <2>4, <3>2, <3>3 DEF Renamed
  <2> QED BY <2>5, <2>6
<1> QED BY <1>1, Invariance, PTL
===============================================================================
