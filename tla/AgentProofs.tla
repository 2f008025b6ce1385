------------------------------ MODULE AgentProofs ------------------------------
(***************************************************************************)
(* Proofs about what main of the agent does: it registers the node         *)
(* (NodeRegistry), and then sends what the watchers found (AgentDispatch). *)
(*                                                                         *)
(* Dispatch, for any number of changes and failed requests, any capacity   *)
(* of the channel, number of slots and of retries: events are numbered in  *)
(* the order in which they go through the channel and the hand of the main *)
(* loop; an event is somewhere on its way until the server has it or it is *)
(* lost; and what a file holds is in an event, or will be: a notification  *)
(* waits, the watcher has still to list or to read the file, it holds in   *)
(* its hands what it read, or the file is torn and will make a             *)
(* notification.                                                           *)
(*                                                                         *)
(* Registration, for any agents under one hostname, any number of          *)
(* attempts, lives and faults: a request is the one its agent waits for,   *)
(* or was given up, and then what it writes is in `abandoned'; what an     *)
(* answer on its way says of the row is true until it arrives.             *)
(***************************************************************************)
EXTENDS AgentDispatch, NodeRegistry, FiniteSetTheorems, SequenceTheorems, TLAPS

Events == [index : Nat \cup {None, Torn}, late : Nat \cup {None}, summary : BOOLEAN]
Files == [index : Nat, late : Nat, torn : BOOLEAN]
Todos == {<<>>, <<"list">>,
          <<"index", "changed", "list">>, <<"late", "changed", "list">>,
          <<"changed", "list">>,
          <<"index", "late", "emit">>, <<"late", "emit">>, <<"emit">>,
          <<"index", "emit">>,
          <<"index", "emit", "late", "emit">>, <<"emit", "late", "emit">>}
Loops == {"start", "starting", "select", "metrics", "acquire", "exited"}
InFlight == {g.event : g \in sending}

Types ==
  /\ kind \in Kinds /\ watched \in BOOLEAN
  /\ file \in Files
  /\ watched => file.late > 0
  /\ pending \in Seq(Parts \cup {"new"})
  /\ todo \in Todos
  /\ got \in Events
  /\ sent \in Seq(Events)
  /\ channel \in Seq(DOMAIN sent) /\ Len(channel) <= ChanCap
  /\ loop \in Loops
  /\ IF loop = "acquire" THEN hand \in DOMAIN sent \cup Others ELSE hand = None
  /\ IsFiniteSet(sending) /\ Cardinality(sending) <= Concurrency
  /\ sending \subseteq [event : DOMAIN sent \cup Others, try : 0..Retries]
  /\ behind \subseteq DOMAIN sent
  /\ handled \subseteq DOMAIN sent /\ lost \subseteq DOMAIN sent
  /\ shown \in [Parts -> handled \cup {None}]

\* Events leave the channel in the order of their numbers, through the hand.
InOrder ==
  /\ \A i, j \in DOMAIN channel : i < j => channel[i] < channel[j]
  /\ hand \in Nat => \A i \in DOMAIN channel : hand < channel[i]
  /\ \A n \in (handled \cup behind \cup InFlight) \ Others :
       /\ hand \in Nat => n < hand
       /\ \A i \in DOMAIN channel : n < channel[i]

\* No event disappears, unless the agent exits.
Accounted ==
  loop # "exited" =>
    \A n \in DOMAIN sent :
      n \in handled \cup lost \cup behind \cup InFlight \cup ToSet(channel) \cup {hand}

\* What a part holds is in an event, or the watcher will see to it.
SeenTo(p) ==
  \/ file.torn \/ pending # <<>>
  \/ "list" \in ToSet(todo) \/ p \in ToSet(todo)
  \/ got[p] = file[p] /\ todo # <<>>
  \/ \E n \in DOMAIN sent : sent[n][p] = file[p]

Fresh ==
  loop # "exited" => SeenTo("index") /\ (watched => SeenTo("late"))

Inv == Types /\ InOrder /\ Accounted /\ Fresh

-------------------------------------------------------------------------------
(* Queues, plans and numbers.                                                *)

LEMMA TodoFacts ==
  ASSUME NEW t \in Todos
  PROVE  /\ t \in Seq(Parts \cup {"list", "emit", "changed"})
         /\ t = <<>> => ToSet(t) = {}
         /\ t # <<>> =>
              /\ Tail(t) \in Todos
              /\ \A x : x \in ToSet(t) <=> x = Head(t) \/ x \in ToSet(Tail(t))
              /\ Head(t) \in Parts => Tail(t) # <<>>
<1>1. /\ \A S : <<>> \in Seq(S)
      /\ ToSet(<<>>) = {} /\ <<>> \in Todos
  BY DEF ToSet, Todos
<1>2. CASE t = <<>>
  BY <1>1, <1>2
<1>3. CASE t = <<"list">>
  <2>1. /\ t # <<>> /\ Head(t) = "list" /\ Tail(t) = <<>>
        /\ t \in Seq(Parts \cup {"list", "emit", "changed"})
    BY <1>3 DEF Parts
  <2>2. \A x : x \in ToSet(t) <=> x = Head(t) \/ x \in ToSet(Tail(t))
    BY <1>3, <2>1 DEF ToSet
  <2>3. Tail(t) \in Todos /\ (Head(t) \in Parts => Tail(t) # <<>>)
    BY <2>1 DEF Todos, Parts
  <2> QED BY <2>1, <2>2, <2>3
<1>4. CASE t = <<"index", "changed", "list">>
  <2>1. /\ t # <<>> /\ Head(t) = "index" /\ Tail(t) = <<"changed", "list">>
        /\ t \in Seq(Parts \cup {"list", "emit", "changed"})
    BY <1>4 DEF Parts
  <2>2. \A x : x \in ToSet(t) <=> x = Head(t) \/ x \in ToSet(Tail(t))
    BY <1>4, <2>1 DEF ToSet
  <2>3. Tail(t) \in Todos /\ (Head(t) \in Parts => Tail(t) # <<>>)
    BY <2>1 DEF Todos, Parts
  <2> QED BY <2>1, <2>2, <2>3
<1>5. CASE t = <<"late", "changed", "list">>
  <2>1. /\ t # <<>> /\ Head(t) = "late" /\ Tail(t) = <<"changed", "list">>
        /\ t \in Seq(Parts \cup {"list", "emit", "changed"})
    BY <1>5 DEF Parts
  <2>2. \A x : x \in ToSet(t) <=> x = Head(t) \/ x \in ToSet(Tail(t))
    BY <1>5, <2>1 DEF ToSet
  <2>3. Tail(t) \in Todos /\ (Head(t) \in Parts => Tail(t) # <<>>)
    BY <2>1 DEF Todos, Parts
  <2> QED BY <2>1, <2>2, <2>3
<1>6. CASE t = <<"changed", "list">>
  <2>1. /\ t # <<>> /\ Head(t) = "changed" /\ Tail(t) = <<"list">>
        /\ t \in Seq(Parts \cup {"list", "emit", "changed"})
    BY <1>6 DEF Parts
  <2>2. \A x : x \in ToSet(t) <=> x = Head(t) \/ x \in ToSet(Tail(t))
    BY <1>6, <2>1 DEF ToSet
  <2>3. Tail(t) \in Todos /\ (Head(t) \in Parts => Tail(t) # <<>>)
    BY <2>1 DEF Todos, Parts
  <2> QED BY <2>1, <2>2, <2>3
<1>7. CASE t = <<"index", "late", "emit">>
  <2>1. /\ t # <<>> /\ Head(t) = "index" /\ Tail(t) = <<"late", "emit">>
        /\ t \in Seq(Parts \cup {"list", "emit", "changed"})
    BY <1>7 DEF Parts
  <2>2. \A x : x \in ToSet(t) <=> x = Head(t) \/ x \in ToSet(Tail(t))
    BY <1>7, <2>1 DEF ToSet
  <2>3. Tail(t) \in Todos /\ (Head(t) \in Parts => Tail(t) # <<>>)
    BY <2>1 DEF Todos, Parts
  <2> QED BY <2>1, <2>2, <2>3
<1>8. CASE t = <<"late", "emit">>
  <2>1. /\ t # <<>> /\ Head(t) = "late" /\ Tail(t) = <<"emit">>
        /\ t \in Seq(Parts \cup {"list", "emit", "changed"})
    BY <1>8 DEF Parts
  <2>2. \A x : x \in ToSet(t) <=> x = Head(t) \/ x \in ToSet(Tail(t))
    BY <1>8, <2>1 DEF ToSet
  <2>3. Tail(t) \in Todos /\ (Head(t) \in Parts => Tail(t) # <<>>)
    BY <2>1 DEF Todos, Parts
  <2> QED BY <2>1, <2>2, <2>3
<1>9. CASE t = <<"emit">>
  <2>1. /\ t # <<>> /\ Head(t) = "emit" /\ Tail(t) = <<>>
        /\ t \in Seq(Parts \cup {"list", "emit", "changed"})
    BY <1>9 DEF Parts
  <2>2. \A x : x \in ToSet(t) <=> x = Head(t) \/ x \in ToSet(Tail(t))
    BY <1>9, <2>1 DEF ToSet
  <2>3. Tail(t) \in Todos /\ (Head(t) \in Parts => Tail(t) # <<>>)
    BY <2>1 DEF Todos, Parts
  <2> QED BY <2>1, <2>2, <2>3
<1>10. CASE t = <<"index", "emit">>
  <2>1. /\ t # <<>> /\ Head(t) = "index" /\ Tail(t) = <<"emit">>
        /\ t \in Seq(Parts \cup {"list", "emit", "changed"})
    BY <1>10 DEF Parts
  <2>2. \A x : x \in ToSet(t) <=> x = Head(t) \/ x \in ToSet(Tail(t))
    BY <1>10, <2>1 DEF ToSet
  <2>3. Tail(t) \in Todos /\ (Head(t) \in Parts => Tail(t) # <<>>)
    BY <2>1 DEF Todos, Parts
  <2> QED BY <2>1, <2>2, <2>3
<1>11. CASE t = <<"index", "emit", "late", "emit">>
  <2>1. /\ t # <<>> /\ Head(t) = "index" /\ Tail(t) = <<"emit", "late", "emit">>
        /\ t \in Seq(Parts \cup {"list", "emit", "changed"})
    BY <1>11 DEF Parts
  <2>2. \A x : x \in ToSet(t) <=> x = Head(t) \/ x \in ToSet(Tail(t))
    BY <1>11, <2>1 DEF ToSet
  <2>3. Tail(t) \in Todos /\ (Head(t) \in Parts => Tail(t) # <<>>)
    BY <2>1 DEF Todos, Parts
  <2> QED BY <2>1, <2>2, <2>3
<1>12. CASE t = <<"emit", "late", "emit">>
  <2>1. /\ t # <<>> /\ Head(t) = "emit" /\ Tail(t) = <<"late", "emit">>
        /\ t \in Seq(Parts \cup {"list", "emit", "changed"})
    BY <1>12 DEF Parts
  <2>2. \A x : x \in ToSet(t) <=> x = Head(t) \/ x \in ToSet(Tail(t))
    BY <1>12, <2>1 DEF ToSet
  <2>3. Tail(t) \in Todos /\ (Head(t) \in Parts => Tail(t) # <<>>)
    BY <2>1 DEF Todos, Parts
  <2> QED BY <2>1, <2>2, <2>3
<1> QED BY <1>2, <1>3, <1>4, <1>5, <1>6, <1>7, <1>8, <1>9, <1>10, <1>11, <1>12 DEF Todos

\* Whatever kind it is of, the watcher reads the index, and what is watched.
LEMMA PlanFacts ==
  ASSUME Types
  PROVE  /\ Plan \in Todos /\ Plan # <<>> /\ "index" \in ToSet(Plan)
         /\ watched => "late" \in ToSet(Plan)
<1>1. kind \in {"cron", "sessions", "workspace"} /\ (watched => file.late # 0)
  BY DispatchAssumption DEF Types, Files
<1>2. <<"index", "emit">> \o <<"late", "emit">> = <<"index", "emit", "late", "emit">>
  <2> DEFINE S == {"index", "late", "emit"}
             c == <<"index", "emit">> \o <<"late", "emit">>
             d == <<"index", "emit", "late", "emit">>
  <2>1. /\ <<"index", "emit">> \in Seq(S) /\ <<"late", "emit">> \in Seq(S)
        /\ Len(<<"index", "emit">>) = 2 /\ Len(<<"late", "emit">>) = 2
    OBVIOUS
  <2>2. c \in Seq(S) /\ Len(c) = 4
    BY <2>1, ConcatProperties
  <2>3. d \in Seq(S) /\ Len(d) = 4
    OBVIOUS
  <2>4. \A i \in 1..4 : c[i] = d[i]
    OBVIOUS
  <2> HIDE DEF c, d, S
  <2>5. c = d
    BY <2>2, <2>3, <2>4, SeqEqual
  <2> QED BY <2>5 DEF c, d
<1>3. <<"index", "emit">> \o <<>> = <<"index", "emit">>
  <2>1. <<"index", "emit">> \in Seq({"index", "emit"})
    OBVIOUS
  <2> QED BY <2>1, ConcatEmptySeq
<1>4. \/ Plan = <<"index", "late", "emit">>
      \/ ~watched /\ Plan = <<"index", "emit">>
      \/ Plan = <<"index", "emit", "late", "emit">>
  BY <1>1, <1>2, <1>3 DEF Plan
<1>5. CASE Plan = <<"index", "late", "emit">>
  BY <1>5 DEF Todos, ToSet
<1>6. CASE ~watched /\ Plan = <<"index", "emit">>
  BY <1>6 DEF Todos, ToSet
<1>7. CASE Plan = <<"index", "emit", "late", "emit">>
  BY <1>7 DEF Todos, ToSet
<1> QED BY <1>4, <1>5, <1>6, <1>7

LEMMA NumberFacts ==
  ASSUME Types
  PROVE  /\ Len(sent) \in Nat /\ DOMAIN sent = 1..Len(sent) /\ DOMAIN sent \subseteq Nat
         /\ None \notin DOMAIN sent /\ Others \cap DOMAIN sent = {}
         /\ Len(channel) \in Nat /\ DOMAIN channel = 1..Len(channel)
         /\ \A i \in DOMAIN channel : channel[i] \in DOMAIN sent
         /\ InFlight \subseteq DOMAIN sent \cup Others
<1>1. Len(sent) \in Nat /\ DOMAIN sent = 1..Len(sent)
  BY DEF Types
<1>2. DOMAIN sent \subseteq Nat
  BY <1>1
<1>3. None \notin DOMAIN sent /\ Others \cap DOMAIN sent = {}
  BY <1>2, DispatchAssumption
<1>4. /\ Len(channel) \in Nat /\ DOMAIN channel = 1..Len(channel)
      /\ \A i \in DOMAIN channel : channel[i] \in DOMAIN sent
  BY DEF Types
<1>5. InFlight \subseteq DOMAIN sent \cup Others
  BY DEF Types, InFlight
<1> QED BY <1>1, <1>2, <1>3, <1>4, <1>5

LEMMA InitInv == Init => Inv
<1> SUFFICES ASSUME Init PROVE Inv
  OBVIOUS
<1> USE DEF Init
<1>1. PICK n \in {0, 1} : file = [index |-> 1, late |-> n, torn |-> FALSE]
  OBVIOUS
<1>2. file \in Files /\ (watched => file.late > 0) /\ watched \in BOOLEAN
  <2>1. file \in Files
    BY <1>1 DEF Files
  <2>2. watched \in BOOLEAN
    BY Zenon
  <2>3. watched => file.late = 1
    BY Zenon
  <2>4. file.late = 1 => file.late > 0
    OBVIOUS
  <2> QED BY <2>1, <2>2, <2>3, <2>4, Zenon
<1>3. got \in Events /\ todo \in Todos
  BY DEF Nothing, Events, Todos
<1>4. \A S : <<>> \in Seq(S) /\ DOMAIN <<>> = {}
  OBVIOUS
<1>5. IsFiniteSet({}) /\ Cardinality({}) = 0 /\ 0 <= ChanCap /\ 0 <= Concurrency
      /\ Len(<<>>) = 0
  BY FS_EmptySet, DispatchAssumption
<1>6. shown \in [Parts -> handled \cup {None}]
  OBVIOUS
<1>7. Types
  BY <1>2, <1>3, <1>4, <1>5, <1>6 DEF Types, Loops
<1>8. InOrder
  BY <1>4 DEF InOrder, InFlight
<1>9. Accounted
  BY <1>4 DEF Accounted
<1>10. Fresh
  BY DEF Fresh, SeenTo, ToSet
<1> QED BY <1>7, <1>8, <1>9, <1>10 DEF Inv

LEMMA Frames ==
  ASSUME Inv
  PROVE  /\ UNCHANGED <<channel, hand, handled, behind, sending>> => InOrder'
         /\ UNCHANGED <<sent, handled, lost, behind, sending, channel, hand>>
              /\ (loop' # "exited" => loop # "exited") => Accounted'
         /\ UNCHANGED <<file, watched, pending, todo, got, sent>>
              /\ (loop' # "exited" => loop # "exited") => Fresh'
<1>1. UNCHANGED <<channel, hand, handled, behind, sending>> => InOrder'
  BY DEF Inv, InOrder, InFlight
<1>2. UNCHANGED <<sent, handled, lost, behind, sending, channel, hand>>
        /\ (loop' # "exited" => loop # "exited") => Accounted'
  BY DEF Inv, Accounted, InFlight
<1>3. UNCHANGED <<file, watched, pending, todo, got, sent>>
        /\ (loop' # "exited" => loop # "exited") => Fresh'
  BY DEF Inv, Fresh, SeenTo
<1> QED BY <1>1, <1>2, <1>3

-------------------------------------------------------------------------------
(* The files change.                                                         *)

LEMMA NotifyFacts ==
  ASSUME NEW S, pending \in Seq(S), NEW p \in S, Notify(p)
  PROVE  pending' \in Seq(S) /\ pending' # <<>>
<1>1. CASE pending # <<>> /\ Last(pending) = p
  BY <1>1 DEF Notify
<1>2. CASE ~(pending # <<>> /\ Last(pending) = p)
  <2>1. pending' = Append(pending, p)
    BY <1>2 DEF Notify
  <2> QED BY <2>1, AppendProperties
<1> QED BY <1>1, <1>2

\* A change makes a notification, or nobody watches it.
LEMMA FileKeeps ==
  ASSUME Inv, Truncate \/ Fill \/ ChangeLate \/ AppearLate
  PROVE  Inv'
<1>1. /\ loop # "exited" /\ UNCHANGED <<kind, todo, got, sent, channel, loop, hand, sending,
                                        behind, handled, shown, faults, lost, watched>>
      /\ Types
  BY DEF Truncate, Fill, ChangeLate, AppearLate, Restful, watchVars, loopVars, netVars, Inv
<1>2. \A p \in Parts : p = "index" \/ p = "late"
  BY DEF Parts
<1>3. /\ file' \in Files /\ (watched => file'.late > 0)
      /\ pending' \in Seq(Parts \cup {"new"})
      /\ \/ pending' # <<>>
         \/ ~watched /\ pending' = pending /\ file'.index = file.index
            /\ file'.torn = file.torn
  <2>1. /\ file \in Files /\ pending \in Seq(Parts \cup {"new"})
        /\ "index" \in Parts \cup {"new"} /\ "late" \in Parts \cup {"new"}
        /\ "new" \in Parts \cup {"new"} /\ (watched => file.late > 0) /\ file.late \in Nat
    BY <1>1 DEF Types, Parts, Files
  <2>2. CASE Truncate
    <3>1. file' = [file EXCEPT !.torn = TRUE] /\ Notify("index")
      BY <2>2 DEF Truncate
    <3>2. pending' \in Seq(Parts \cup {"new"}) /\ pending' # <<>>
      BY <2>1, <3>1, NotifyFacts
    <3>3. file' \in Files /\ file'.late = file.late
      BY <2>1, <3>1 DEF Files
    <3> QED BY <2>1, <3>2, <3>3
  <2>3. CASE Fill
    <3>1. file' = [file EXCEPT !.torn = FALSE, !.index = @ + 1] /\ Notify("index")
      BY <2>3 DEF Fill
    <3>2. pending' \in Seq(Parts \cup {"new"}) /\ pending' # <<>>
      BY <2>1, <3>1, NotifyFacts
    <3>3. file.index + 1 \in Nat /\ FALSE \in BOOLEAN
          /\ DOMAIN file = {"index", "late", "torn"}
      BY <2>1 DEF Files
    <3>4. file'.late = file.late
      BY <3>1, <3>3
    <3>5. file' \in Files
      BY <2>1, <3>1, <3>3 DEF Files
    <3> QED BY <2>1, <3>2, <3>4, <3>5
  <2>4. CASE ChangeLate
    <3>1. /\ file' = [file EXCEPT !.late = @ + 1]
          /\ IF watched THEN Notify("late") ELSE pending' = pending
      BY <2>4 DEF ChangeLate
    <3>2. /\ pending' \in Seq(Parts \cup {"new"})
          /\ pending' # <<>> \/ (~watched /\ pending' = pending)
      BY <2>1, <3>1, NotifyFacts
    <3>3. file' \in Files /\ file'.late > 0 /\ file'.index = file.index
          /\ file'.torn = file.torn
      BY <2>1, <3>1 DEF Files
    <3> QED BY <3>2, <3>3
  <2>5. CASE AppearLate
    <3>1. /\ file' = [file EXCEPT !.late = 1] /\ file.late = 0
          /\ IF kind = "workspace" THEN Notify("new") ELSE pending' = pending
      BY <2>5 DEF AppearLate
    <3>2. /\ pending' \in Seq(Parts \cup {"new"})
          /\ pending' # <<>> \/ pending' = pending
      BY <2>1, <3>1, NotifyFacts
    <3>3. file' \in Files /\ file'.late > 0 /\ file'.index = file.index
          /\ file'.torn = file.torn
      BY <2>1, <3>1 DEF Files
    <3>4. ~watched
      BY <2>1, <3>1
    <3> QED BY <3>2, <3>3, <3>4
  <2> QED BY <2>2, <2>3, <2>4, <2>5
<1>4. Types'
  BY <1>1, <1>3 DEF Types
<1>5. InOrder' /\ Accounted'
  BY <1>1, Frames
<1>6. Fresh'
  <2>1. CASE pending' # <<>>
    BY <2>1 DEF Fresh, SeenTo
  <2>2. CASE ~watched /\ pending' = pending /\ file'.index = file.index
             /\ file'.torn = file.torn
    <3>1. SeenTo("index") => SeenTo("index")'
      BY <1>1, <2>2 DEF SeenTo
    <3> QED BY <1>1, <2>2, <3>1 DEF Inv, Fresh
  <2> QED BY <1>3, <2>1, <2>2
<1> QED BY <1>4, <1>5, <1>6 DEF Inv

-------------------------------------------------------------------------------
(* The watcher.                                                              *)

\* What it notices it will read from the list on.
LEMMA NoticeKeeps ==
  ASSUME Inv, NoticeJobs \/ NoticeSessions \/ NoticeWorkspace
  PROVE  Inv'
<1>1. /\ loop # "exited" /\ todo = <<>> /\ pending # <<>> /\ pending' = Tail(pending)
      /\ UNCHANGED <<kind, file, watched, got, sent, channel, loop, hand,
                     sending, behind, handled, shown, faults, lost>>
      /\ Types
  BY DEF NoticeJobs, NoticeSessions, NoticeWorkspace, Received, dirVars, loopVars, netVars,
         Inv
<1>2. \/ todo' = <<"list">>
      \/ \E p \in Parts : todo' = <<p, "changed", "list">>
  BY DEF NoticeJobs, NoticeSessions, NoticeWorkspace
<1>3. todo' \in Todos /\ "list" \in ToSet(todo')
  <2>1. CASE todo' = <<"list">>
    BY <2>1 DEF Todos, ToSet
  <2>2. CASE todo' = <<"index", "changed", "list">>
    BY <2>2 DEF Todos, ToSet
  <2>3. CASE todo' = <<"late", "changed", "list">>
    BY <2>3 DEF Todos, ToSet
  <2> QED BY <1>2, <2>1, <2>2, <2>3 DEF Parts
<1>4. Types'
  <2>1. pending' \in Seq(Parts \cup {"new"})
    BY <1>1 DEF Types
  <2> QED BY <1>1, <1>3, <2>1 DEF Types
<1>5. InOrder' /\ Accounted'
  BY <1>1, Frames
<1>6. Fresh'
  BY <1>3 DEF Fresh, SeenTo
<1> QED BY <1>4, <1>5, <1>6 DEF Inv

LEMMA ListKeeps ==
  ASSUME Inv, List
  PROVE  Inv'
<1>1. /\ todo' = Plan
      /\ UNCHANGED <<kind, file, watched, pending, got, sent, channel, loop, hand,
                     sending, behind, handled, shown, faults, lost>>
      /\ Types
  BY DEF List, dirVars, loopVars, netVars, Inv
<1>2. /\ todo' \in Todos /\ "index" \in ToSet(todo')
      /\ watched => "late" \in ToSet(todo')
  BY <1>1, PlanFacts
<1>3. Types'
  BY <1>1, <1>2 DEF Types
<1>4. InOrder' /\ Accounted'
  BY <1>1, Frames
<1>5. Fresh'
  BY <1>1, <1>2 DEF Fresh, SeenTo
<1> QED BY <1>3, <1>4, <1>5 DEF Inv

\* A part that is read is in hand, as it is then; jobs are given up only while
\* their file is torn.
LEMMA ReadPartKeeps ==
  ASSUME Inv, ReadPart
  PROVE  Inv'
<1>1. Types
  BY DEF Inv
<1>2. CASE AbandonJobs
  <2>1. /\ file.torn /\ todo' = <<>>
        /\ UNCHANGED <<kind, file, watched, pending, got, sent, channel, loop, hand,
                       sending, behind, handled, shown, faults, lost>>
    BY <1>2 DEF AbandonJobs, IsTorn, dirVars, loopVars, netVars
  <2>2. Types'
    BY <1>1, <2>1 DEF Types, Todos
  <2>3. InOrder' /\ Accounted'
    BY <2>1, Frames
  <2>4. Fresh'
    BY <2>1 DEF Fresh, SeenTo
  <2> QED BY <2>2, <2>3, <2>4 DEF Inv
<1>3. ASSUME NEW p \in Parts, Reads(p)
      PROVE  Inv'
  <2>1. /\ todo # <<>> /\ Head(todo) = p /\ todo' = Tail(todo)
        /\ got' = [got EXCEPT ![p] = IF IsTorn(p) THEN Torn ELSE file[p]]
        /\ UNCHANGED <<kind, file, watched, pending, sent, channel, loop, hand,
                       sending, behind, handled, shown, faults, lost>>
    BY <1>3 DEF Reads, dirVars, loopVars, netVars
  <2>2. /\ todo' \in Todos /\ todo' # <<>>
        /\ \A x : x \in ToSet(todo) <=> x = p \/ x \in ToSet(todo')
        /\ p # "list"
    <3>1. todo \in Todos
      BY <1>1 DEF Types
    <3> QED BY <2>1, <3>1, TodoFacts DEF Parts
  <2>3. /\ got' \in Events
        /\ ~file.torn => got'[p] = file[p]
        /\ \A q \in Parts : q # p => got'[q] = got[q]
    <3>1. got \in Events /\ file \in Files
      BY <1>1 DEF Types
    <3>2. DOMAIN got = {"index", "late", "summary"} /\ p \in {"index", "late"}
      BY <3>1 DEF Events, Parts
    <3>3. (IF IsTorn(p) THEN Torn ELSE file[p]) \in
            IF p = "index" THEN Nat \cup {None, Torn} ELSE Nat \cup {None}
      BY <3>1, <3>2 DEF Files, IsTorn
    <3>4. got' \in Events
      BY <2>1, <3>1, <3>2, <3>3 DEF Events
    <3>5. \A q \in Parts : q # p => got'[q] = got[q]
      BY <2>1, <3>2 DEF Parts
    <3>6. ~file.torn => got'[p] = file[p]
      BY <2>1, <3>2 DEF IsTorn
    <3> QED BY <3>4, <3>5, <3>6
  <2>4. Types'
    BY <1>1, <2>1, <2>2, <2>3 DEF Types
  <2>5. InOrder' /\ Accounted'
    BY <2>1, Frames
  <2>6. ASSUME NEW q \in Parts, SeenTo(q)
        PROVE  SeenTo(q)'
    BY <2>1, <2>2, <2>3, <2>6 DEF SeenTo
  <2>7. Fresh'
    BY <2>1, <2>6 DEF Inv, Fresh, Parts
  <2> QED BY <2>4, <2>5, <2>7 DEF Inv
<1> QED BY <1>2, <1>3 DEF ReadPart, ReadJobs, ReadSessions, ReadWorkspace

\* The event that is made has the next number, and what was in hand.
LEMMA MadeKeeps ==
  ASSUME Inv, Made,
         UNCHANGED <<kind, file, watched, pending, loop, hand, sending, behind, handled,
                     shown, faults>>,
         \/ /\ Len(channel) < ChanCap
            /\ channel' = Append(channel, Len(sent')) /\ lost' = lost
         \/ channel' = channel /\ lost' = lost \cup {Len(sent')}
  PROVE  Inv'
<1>1. /\ todo # <<>> /\ Head(todo) \in {"emit", "changed"} /\ todo' = Tail(todo)
      /\ sent' = Append(sent, [got EXCEPT !.summary = Head(todo) = "emit"])
      /\ got' = Nothing /\ Types
  BY DEF Made, Inv
<1>2. /\ Len(sent) \in Nat /\ DOMAIN sent = 1..Len(sent)
      /\ DOMAIN sent \subseteq Nat /\ Others \cap DOMAIN sent = {}
      /\ Len(channel) \in Nat /\ DOMAIN channel = 1..Len(channel)
      /\ \A i \in DOMAIN channel : channel[i] \in DOMAIN sent
      /\ InFlight \subseteq DOMAIN sent \cup Others
  BY <1>1, NumberFacts
<1>3. PICK n \in Nat : n = Len(sent) + 1
  BY <1>2
<1>4. PICK e \in Events : /\ e = [got EXCEPT !.summary = Head(todo) = "emit"]
                          /\ \A p \in Parts : e[p] = got[p]
  <2>1. got \in Events
    BY <1>1 DEF Types
  <2>2. PICK b \in BOOLEAN : b = (Head(todo) = "emit")
    BY Zenon
  <2>3. [got EXCEPT !.summary = b] \in Events
    BY <2>1 DEF Events
  <2>4. \A p \in Parts : [got EXCEPT !.summary = b][p] = got[p]
    BY <2>1 DEF Events, Parts
  <2> QED BY <2>2, <2>3, <2>4, Zenon
<1>5. /\ sent' \in Seq(Events) /\ Len(sent') = n /\ DOMAIN sent' = 1..n
      /\ sent'[n] = e /\ \A i \in DOMAIN sent : sent'[i] = sent[i]
      /\ DOMAIN sent' = DOMAIN sent \cup {n} /\ \A i \in DOMAIN sent : i < n
  <2>1. sent \in Seq(Events)
    BY <1>1 DEF Types
  <2>2. /\ sent' \in Seq(Events) /\ Len(sent') = n
        /\ sent'[n] = e /\ \A i \in 1..Len(sent) : sent'[i] = sent[i]
    BY <1>1, <1>3, <1>4, <2>1, AppendProperties
  <2>3. DOMAIN sent' = 1..n
    BY <2>2
  <2>4. 1..n = 1..Len(sent) \cup {n} /\ \A i \in 1..Len(sent) : i < n
    BY <1>2, <1>3
  <2> QED BY <1>2, <2>2, <2>3, <2>4
<1>6. \/ /\ Len(channel) < ChanCap /\ channel' = Append(channel, n) /\ lost' = lost
      \/ channel' = channel /\ lost' = lost \cup {n}
  BY <1>5
<1>7. /\ channel' \in Seq(DOMAIN sent') /\ Len(channel') <= ChanCap
      /\ \A i \in DOMAIN channel' :
           \/ i \in DOMAIN channel /\ channel'[i] = channel[i]
           \/ i \notin DOMAIN channel /\ channel'[i] = n /\ \A j \in DOMAIN channel' : j <= i
      /\ ToSet(channel) \subseteq ToSet(channel')
      /\ n \in ToSet(channel') \cup lost'
  <2>1. channel \in Seq(DOMAIN sent') /\ Len(channel) <= ChanCap /\ n \in DOMAIN sent'
    <3>1. channel \in Seq(DOMAIN sent) /\ Len(channel) <= ChanCap
      BY <1>1 DEF Types
    <3> QED BY <1>5, <3>1
  <2>2. CASE channel' = channel /\ lost' = lost \cup {n}
    BY <2>1, <2>2
  <2>3. CASE Len(channel) < ChanCap /\ channel' = Append(channel, n)
    <3>1. /\ channel' \in Seq(DOMAIN sent') /\ Len(channel') = Len(channel) + 1
          /\ \A i \in 1..Len(channel) : channel'[i] = channel[i]
          /\ channel'[Len(channel) + 1] = n
      BY <2>1, <2>3, AppendProperties
    <3>2. DOMAIN channel' = 1..(Len(channel) + 1)
      BY <3>1
    <3>3. Len(channel') <= ChanCap
      <4>1. ChanCap \in Nat
        BY DispatchAssumption
      <4>2. Len(channel) \in Nat
        BY <1>2
      <4>3. Len(channel) < ChanCap
        BY <2>3
      <4>4. Len(channel') = Len(channel) + 1
        BY <3>1
      <4>5. \A k \in Nat, cap \in Nat : k < cap => k + 1 <= cap
        OBVIOUS
      <4> QED BY <4>1, <4>2, <4>3, <4>4, <4>5
    <3>4. \A i \in DOMAIN channel' :
           \/ i \in DOMAIN channel /\ channel'[i] = channel[i]
           \/ i \notin DOMAIN channel /\ channel'[i] = n /\ \A j \in DOMAIN channel' : j <= i
      BY <1>2, <3>1, <3>2
    <3>5. DOMAIN channel \subseteq DOMAIN channel' /\ Len(channel) + 1 \in DOMAIN channel'
      BY <1>2, <3>2
    <3>6. ToSet(channel) \subseteq ToSet(channel')
      BY <1>2, <3>1, <3>5 DEF ToSet
    <3>7. n \in ToSet(channel')
      BY <3>1, <3>5 DEF ToSet
    <3> QED BY <3>1, <3>3, <3>4, <3>6, <3>7
  <2> QED BY <1>6, <2>2, <2>3
<1>8. todo \in Todos /\ todo' \in Todos
      /\ \A x : x \in ToSet(todo) <=> x = Head(todo) \/ x \in ToSet(todo')
  <2>1. todo \in Todos
    BY <1>1 DEF Types
  <2> QED BY <1>1, <2>1, TodoFacts
<1>9. Types'
  <2>1. Nothing \in Events
    BY DEF Nothing, Events
  <2>2. lost' \subseteq DOMAIN sent'
    BY <1>1, <1>5, <1>6 DEF Types
  <2>3. /\ handled \subseteq DOMAIN sent' /\ behind \subseteq DOMAIN sent'
        /\ sending \subseteq [event : DOMAIN sent' \cup Others, try : 0..Retries]
        /\ IF loop = "acquire" THEN hand \in DOMAIN sent' \cup Others ELSE hand = None
    BY <1>1, <1>5 DEF Types
  <2> QED BY <1>1, <1>5, <1>7, <1>8, <2>1, <2>2, <2>3 DEF Types
<1>10. InOrder'
  <2>1. hand \in Nat => hand \in DOMAIN sent
    BY <1>1, DispatchAssumption DEF Types
  <2>2. InFlight' = InFlight
    BY DEF InFlight
  <2>3. (handled \cup behind \cup InFlight) \ Others \subseteq DOMAIN sent
    BY <1>1, <1>2 DEF Types
  <2>4. /\ \A i, j \in DOMAIN channel : i < j => channel[i] < channel[j]
        /\ hand \in Nat => \A i \in DOMAIN channel : hand < channel[i]
        /\ \A m \in (handled \cup behind \cup InFlight) \ Others :
             /\ hand \in Nat => m < hand
             /\ \A i \in DOMAIN channel : m < channel[i]
    BY DEF Inv, InOrder
  <2>5. ASSUME NEW m \in Nat, m < n, \A i \in DOMAIN channel : m < channel[i],
               NEW i \in DOMAIN channel'
        PROVE  m < channel'[i]
    BY <1>7, <2>5
  <2>6. ASSUME NEW i \in DOMAIN channel', NEW j \in DOMAIN channel', i < j
        PROVE  channel'[i] < channel'[j]
    <3>1. i \in DOMAIN channel
      <4>1. ~(j <= i)
        <5>1. i \in Nat /\ j \in Nat
          BY <1>7
        <5> QED BY <2>6, <5>1
      <4> QED BY <1>7, <4>1
    <3>2. channel'[i] = channel[i] /\ channel[i] \in DOMAIN sent
      BY <1>2, <1>7, <3>1
    <3>3. channel[i] < n
      BY <1>5, <3>2
    <3> QED BY <1>7, <2>4, <2>6, <3>1, <3>2, <3>3
  <2>7. hand \in Nat => \A i \in DOMAIN channel' : hand < channel'[i]
    BY <1>5, <2>1, <2>4, <2>5
  <2>8. ASSUME NEW m \in (handled \cup behind \cup InFlight) \ Others
        PROVE  \A i \in DOMAIN channel' : m < channel'[i]
    BY <1>2, <1>5, <2>3, <2>4, <2>5
  <2> QED BY <2>2, <2>4, <2>6, <2>7, <2>8 DEF InOrder
<1>11. Accounted'
  <2>1. InFlight' = InFlight
    BY DEF InFlight
  <2> QED BY <1>5, <1>6, <1>7, <2>1 DEF Inv, Accounted
<1>12. Fresh'
  <2>1. ASSUME NEW p \in Parts, SeenTo(p)
        PROVE  SeenTo(p)'
    <3>1. Head(todo) # "list" /\ Head(todo) # p
      BY <1>1, <2>1 DEF Parts
    <3>2. \/ file.torn \/ pending # <<>>
          \/ "list" \in ToSet(todo') \/ p \in ToSet(todo')
          \/ got[p] = file[p]
          \/ \E i \in DOMAIN sent : sent[i][p] = file[p]
      BY <1>8, <2>1, <3>1 DEF SeenTo
    <3>3. got[p] = file[p] => \E i \in DOMAIN sent' : sent'[i][p] = file[p]
      BY <1>4, <1>5
    <3>4. (\E i \in DOMAIN sent : sent[i][p] = file[p])
            => \E i \in DOMAIN sent' : sent'[i][p] = file[p]
      BY <1>5
    <3> QED BY <3>2, <3>3, <3>4 DEF SeenTo
  <2> QED BY <2>1 DEF Inv, Fresh, Parts
<1> QED BY <1>9, <1>10, <1>11, <1>12 DEF Inv

LEMMA EmitKeeps ==
  ASSUME Inv, Emit \/ GiveUp
  PROVE  Inv'
<1>1. /\ Made
      /\ UNCHANGED <<kind, file, watched, pending, loop, hand, sending, behind, handled,
                     shown, faults>>
      /\ \/ /\ Len(channel) < ChanCap
            /\ channel' = Append(channel, Len(sent')) /\ lost' = lost
         \/ channel' = channel /\ lost' = lost \cup {Len(sent')}
  BY DEF Emit, GiveUp, dirVars, loopVars, netVars
<1> QED BY <1>1, MadeKeeps

-------------------------------------------------------------------------------
(* The main loop.                                                            *)

LEMMA LoopKeeps ==
  ASSUME Inv, StartReturns \/ StartMain \/ TakeMetrics \/ MetricsDone
  PROVE  Inv'
<1>1. /\ loop \in {"start", "starting", "select", "metrics"}
      /\ loop' \in {"start", "starting", "select", "metrics"}
      /\ UNCHANGED <<kind, file, watched, pending, todo, got, sent, channel, hand,
                     sending, behind, handled, shown, faults, lost>>
      /\ Types
  BY DEF StartReturns, StartMain, TakeMetrics, MetricsDone, dirVars, watchVars, netVars, Inv
<1>2. Types'
  BY <1>1 DEF Types, Loops
<1>3. InOrder' /\ Accounted' /\ Fresh'
  BY <1>1, Frames
<1> QED BY <1>2, <1>3 DEF Inv

\* The oldest event in the channel comes into the hand.
LEMMA TakeKeeps ==
  ASSUME Inv, Take
  PROVE  Inv'
<1>1. /\ loop = "select" /\ channel # <<>> /\ hand' = Head(channel)
      /\ channel' = Tail(channel) /\ loop' = "acquire"
      /\ UNCHANGED <<kind, file, watched, pending, todo, got, sent, sending, behind,
                     handled, shown, faults, lost>>
      /\ Types /\ hand = None /\ channel \in Seq(DOMAIN sent) /\ Len(channel) <= ChanCap
  BY DEF Take, dirVars, watchVars, netVars, Inv, Types
<1>2. /\ Len(channel) \in Nat /\ DOMAIN channel = 1..Len(channel) /\ Len(channel) > 0
      /\ channel' \in Seq(DOMAIN sent) /\ Len(channel') = Len(channel) - 1
      /\ DOMAIN channel' = 1..Len(channel') /\ hand' = channel[1]
      /\ \A i \in 1..Len(channel') : channel'[i] = channel[i + 1]
      /\ hand' \in DOMAIN sent
  BY <1>1
<1>3. /\ \A i \in DOMAIN channel' : i + 1 \in DOMAIN channel /\ 1 < i + 1
      /\ \A i \in DOMAIN channel : i = 1 \/ (i - 1 \in DOMAIN channel' /\ channel'[i - 1] = channel[i])
      /\ 1 \in DOMAIN channel
  BY <1>2
<1>4. Types'
  <2>1. Len(channel') <= ChanCap
    <3>1. ChanCap \in Nat
      BY DispatchAssumption
    <3> QED BY <1>1, <1>2, <3>1
  <2> QED BY <1>1, <1>2, <2>1 DEF Types, Loops
<1>5. InFlight' = InFlight
  BY <1>1 DEF InFlight
<1>6. InOrder'
  <2>1. \A i, j \in DOMAIN channel' : i < j => channel'[i] < channel'[j]
    <3> SUFFICES ASSUME NEW i \in DOMAIN channel', NEW j \in DOMAIN channel', i < j
                 PROVE  channel'[i] < channel'[j]
      OBVIOUS
    <3>1. i + 1 \in DOMAIN channel /\ j + 1 \in DOMAIN channel /\ i + 1 < j + 1
      BY <1>2, <1>3
    <3>2. channel[i + 1] < channel[j + 1]
      BY <3>1 DEF Inv, InOrder
    <3> QED BY <1>2, <3>2
  <2>2. \A i \in DOMAIN channel' : hand' < channel'[i]
    <3> TAKE i \in DOMAIN channel'
    <3>1. channel[1] < channel[i + 1]
      BY <1>3 DEF Inv, InOrder
    <3> QED BY <1>2, <3>1
  <2>3. \A n \in (handled \cup behind \cup InFlight) \ Others :
          n < hand' /\ \A i \in DOMAIN channel' : n < channel'[i]
    BY <1>2, <1>3 DEF Inv, InOrder
  <2> QED BY <1>1, <1>5, <2>1, <2>2, <2>3 DEF InOrder
<1>7. Accounted'
  <2>1. ToSet(channel) \subseteq ToSet(channel') \cup {hand'}
    BY <1>2, <1>3 DEF ToSet
  <2>2. None \notin DOMAIN sent
    BY <1>1, NumberFacts
  <2> QED BY <1>1, <1>5, <2>1, <2>2 DEF Inv, Accounted
<1>8. Fresh'
  BY <1>1, Frames
<1> QED BY <1>4, <1>6, <1>7, <1>8 DEF Inv

LEMMA TakeOtherKeeps ==
  ASSUME Inv, TakeOther
  PROVE  Inv'
<1>1. /\ loop = "select" /\ hand' \in Others /\ loop' = "acquire"
      /\ UNCHANGED <<kind, file, watched, pending, todo, got, sent, channel, sending,
                     behind, handled, shown, faults, lost>>
      /\ Types /\ hand = None
  BY DEF TakeOther, dirVars, watchVars, netVars, Inv, Types
<1>2. hand' \notin Nat /\ None \notin DOMAIN sent
  BY <1>1, NumberFacts, DispatchAssumption
<1>3. Types'
  BY <1>1 DEF Types, Loops
<1>4. InFlight' = InFlight
  BY <1>1 DEF InFlight
<1>5. InOrder'
  BY <1>1, <1>2, <1>4 DEF Inv, InOrder
<1>6. Accounted'
  BY <1>1, <1>2, <1>4 DEF Inv, Accounted
<1>7. Fresh'
  BY <1>1, Frames
<1> QED BY <1>3, <1>5, <1>6, <1>7 DEF Inv

\* The event in the hand gets a slot.
LEMMA AcquireKeeps ==
  ASSUME Inv, Acquire
  PROVE  Inv'
<1>1. /\ loop = "acquire" /\ Cardinality(sending) < Concurrency
      /\ sending' = sending \cup {[event |-> hand, try |-> 0]}
      /\ loop' = "select" /\ hand' = None
      /\ UNCHANGED <<kind, file, watched, pending, todo, got, sent, channel, behind,
                     handled, shown, faults, lost>>
      /\ Types /\ hand \in DOMAIN sent \cup Others
  BY DEF Acquire, dirVars, watchVars, Inv, Types
<1>2. /\ None \notin Nat /\ Retries \in Nat /\ Concurrency \in Nat
  BY DispatchAssumption
<1>3. Types'
  <2>1. IsFiniteSet(sending)
    BY <1>1 DEF Types
  <2>2. /\ IsFiniteSet(sending') /\ Cardinality(sending) \in Nat
        /\ \/ Cardinality(sending') = Cardinality(sending)
           \/ Cardinality(sending') = Cardinality(sending) + 1
    BY <1>1, <2>1, FS_AddElement, FS_CardinalityType
  <2>3. Cardinality(sending') <= Concurrency
    BY <1>1, <1>2, <2>2
  <2>4. sending' \subseteq [event : DOMAIN sent \cup Others, try : 0..Retries]
    <3>1. 0 \in 0..Retries
      BY <1>2
    <3> QED BY <1>1, <3>1 DEF Types
  <2> QED BY <1>1, <2>2, <2>3, <2>4 DEF Types, Loops
<1>4. InFlight' = InFlight \cup {hand}
  <2>1. PICK h : h = [event |-> hand, try |-> 0]
    OBVIOUS
  <2>2. h.event = hand
    BY <2>1
  <2>3. sending' = sending \cup {h}
    BY <1>1, <2>1
  <2> QED BY <2>2, <2>3 DEF InFlight
<1>5. InOrder'
  <2>1. hand \in DOMAIN sent => hand \in Nat
    BY <1>1, NumberFacts
  <2> QED BY <1>1, <1>2, <1>4, <2>1 DEF Inv, InOrder
<1>6. Accounted'
  BY <1>1, <1>4 DEF Inv, Accounted
<1>7. Fresh'
  BY <1>1, Frames
<1> QED BY <1>3, <1>5, <1>6, <1>7 DEF Inv

LEMMA ExitKeeps ==
  ASSUME Inv, Exit
  PROVE  Inv'
<1>1. /\ loop = "select" /\ loop' = "exited" /\ sending' = {} /\ channel' = <<>>
      /\ UNCHANGED <<kind, file, watched, pending, todo, got, sent, hand, behind,
                     handled, shown, faults, lost>>
      /\ Types
  BY DEF Exit, dirVars, watchVars, Inv
<1>2. Types'
  <2>1. /\ IsFiniteSet({}) /\ Cardinality({}) = 0 /\ 0 <= ChanCap /\ 0 <= Concurrency
        /\ Len(<<>>) = 0 /\ \A S : <<>> \in Seq(S)
    BY FS_EmptySet, DispatchAssumption
  <2> QED BY <1>1, <2>1 DEF Types, Loops
<1>3. InOrder'
  <2>1. DOMAIN channel' = {} /\ InFlight' = {} /\ hand' \notin Nat
    BY <1>1, DispatchAssumption DEF InFlight, Types
  <2> QED BY <2>1 DEF InOrder
<1>4. Accounted' /\ Fresh'
  BY <1>1 DEF Accounted, Fresh
<1> QED BY <1>2, <1>3, <1>4 DEF Inv

-------------------------------------------------------------------------------
(* The goroutines and the server.                                            *)

\* What the server gets it stores, and the page shows what is stored.
LEMMA ArrivesFacts ==
  ASSUME Types, NEW e \in DOMAIN sent \cup Others, Arrives(e)
  PROVE  /\ handled \subseteq handled' /\ handled' \subseteq handled \cup ({e} \ Others)
         /\ handled' \subseteq DOMAIN sent /\ e \in handled' \cup Others
         /\ shown' \in [Parts -> handled' \cup {None}]
<1>1. CASE e \in Others
  BY <1>1 DEF Arrives, Types
<1>2. CASE e \notin Others
  <2>1. /\ handled' = handled \cup {e}
        /\ shown' = [p \in Parts |->
                       IF kind = "workspace" /\ shown[p] = None
                          /\ sent[e].summary /\ sent[e][p] # None
                       THEN e ELSE shown[p]]
    BY <1>2 DEF Arrives, Shows
  <2>2. shown \in [Parts -> handled \cup {None}]
    BY DEF Types
  <2>3. \A p \in Parts : shown'[p] = e \/ shown'[p] = shown[p]
    BY <2>1
  <2>4. shown' \in [Parts -> handled' \cup {None}]
    BY <2>1, <2>2, <2>3
  <2> QED BY <1>2, <2>1, <2>4 DEF Types
<1> QED BY <1>1, <1>2

\* Whatever happens to a request, its event stays accounted for, and no event
\* comes to be on its way that was not.
LEMMA RequestKeeps ==
  ASSUME Inv,
         UNCHANGED <<kind, file, watched, pending, todo, got, sent, channel, loop, hand>>,
         IsFiniteSet(sending'), Cardinality(sending') <= Concurrency,
         sending' \subseteq [event : DOMAIN sent \cup Others, try : 0..Retries],
         behind' \subseteq DOMAIN sent, handled' \subseteq DOMAIN sent,
         lost' \subseteq DOMAIN sent, shown' \in [Parts -> handled' \cup {None}],
         handled' \cup behind' \cup InFlight'
           \subseteq handled \cup behind \cup InFlight \cup Others,
         handled \cup lost \cup behind \cup InFlight
           \subseteq handled' \cup lost' \cup behind' \cup InFlight' \cup Others
  PROVE  Inv'
<1>1. Types'
  BY DEF Inv, Types
<1>2. InOrder'
  <2>1. /\ \A i, j \in DOMAIN channel : i < j => channel[i] < channel[j]
        /\ hand \in Nat => \A i \in DOMAIN channel : hand < channel[i]
        /\ \A n \in (handled \cup behind \cup InFlight) \ Others :
             /\ hand \in Nat => n < hand
             /\ \A i \in DOMAIN channel : n < channel[i]
    BY DEF Inv, InOrder
  <2>2. (handled' \cup behind' \cup InFlight') \ Others
          \subseteq (handled \cup behind \cup InFlight) \ Others
    OBVIOUS
  <2>3. (handled \cup behind \cup InFlight)' = handled' \cup behind' \cup InFlight'
    OBVIOUS
  <2> QED BY <2>1, <2>2, <2>3 DEF InOrder
<1>3. Accounted'
  <2>1. Others \cap DOMAIN sent = {}
    BY NumberFacts DEF Inv
  <2> QED BY <2>1 DEF Inv, Accounted
<1>4. Fresh'
  BY Frames
<1> QED BY <1>1, <1>2, <1>3, <1>4 DEF Inv

LEMMA SendKeeps ==
  ASSUME Inv, NEW g \in sending, Send(g)
  PROVE  Inv'
<1>1. /\ Types /\ g \in [event : DOMAIN sent \cup Others, try : 0..Retries]
      /\ g.event \in DOMAIN sent \cup Others /\ g.event \in InFlight
      /\ g.try \in 0..Retries /\ Retries \in Nat
      /\ IsFiniteSet(sending) /\ Cardinality(sending) <= Concurrency
      /\ sending \subseteq [event : DOMAIN sent \cup Others, try : 0..Retries]
      /\ handled \subseteq DOMAIN sent /\ behind \subseteq DOMAIN sent
      /\ lost \subseteq DOMAIN sent /\ shown \in [Parts -> handled \cup {None}]
      /\ Concurrency \in Nat
  BY DispatchAssumption DEF Inv, Types, InFlight
<1>2. /\ IsFiniteSet(sending \ {g}) /\ Cardinality(sending) \in Nat
      /\ Cardinality(sending \ {g}) = Cardinality(sending) - 1
      /\ Cardinality(sending \ {g}) <= Concurrency
  <2>1. /\ IsFiniteSet(sending \ {g}) /\ Cardinality(sending) \in Nat
        /\ Cardinality(sending \ {g}) = Cardinality(sending) - 1
    BY <1>1, FS_RemoveElement, FS_CardinalityType
  <2> QED BY <1>1, <2>1
<1>3. /\ {h.event : h \in sending \ {g}} \subseteq InFlight
      /\ InFlight \subseteq {h.event : h \in sending \ {g}} \cup {g.event}
  BY DEF InFlight
<1>4. CASE Answered(g)
  <2>1. /\ Arrives(g.event) /\ sending' = sending \ {g}
        /\ UNCHANGED <<kind, file, watched, pending, todo, got, sent, channel, loop, hand,
                       behind, faults, lost>>
    BY <1>4 DEF Answered, dirVars, watchVars, loopVars
  <2>2. /\ handled \subseteq handled' /\ handled' \subseteq handled \cup ({g.event} \ Others)
        /\ handled' \subseteq DOMAIN sent /\ g.event \in handled' \cup Others
        /\ shown' \in [Parts -> handled' \cup {None}]
    BY <1>1, <2>1, ArrivesFacts
  <2>3. InFlight' \subseteq InFlight /\ InFlight \subseteq InFlight' \cup {g.event}
    BY <1>3, <2>1 DEF InFlight
  <2>4. /\ handled' \cup behind' \cup InFlight'
             \subseteq handled \cup behind \cup InFlight \cup Others
        /\ handled \cup lost \cup behind \cup InFlight
             \subseteq handled' \cup lost' \cup behind' \cup InFlight' \cup Others
    BY <1>1, <2>1, <2>2, <2>3
  <2> QED BY <1>1, <1>2, <2>1, <2>2, <2>4, RequestKeeps
<1>5. CASE Refused(g)
  <2>1. /\ lost' = lost \cup ({g.event} \ Others) /\ sending' = sending \ {g}
        /\ UNCHANGED <<kind, file, watched, pending, todo, got, sent, channel, loop, hand,
                       behind, handled, shown>>
    BY <1>5 DEF Refused, dirVars, watchVars, loopVars
  <2>2. InFlight' \subseteq InFlight /\ InFlight \subseteq InFlight' \cup {g.event}
    BY <1>3, <2>1 DEF InFlight
  <2>3. /\ handled' \cup behind' \cup InFlight'
             \subseteq handled \cup behind \cup InFlight \cup Others
        /\ handled \cup lost \cup behind \cup InFlight
             \subseteq handled' \cup lost' \cup behind' \cup InFlight' \cup Others
    BY <1>1, <2>1, <2>2
  <2>4. lost' \subseteq DOMAIN sent
    BY <1>1, <2>1
  <2> QED BY <1>1, <1>2, <2>1, <2>3, <2>4, RequestKeeps
<1>6. CASE TimedOut(g)
  <2>1. /\ \/ UNCHANGED <<handled, shown, behind>>
           \/ Arrives(g.event) /\ UNCHANGED behind
           \/ behind' = behind \cup ({g.event} \ Others) /\ UNCHANGED <<handled, shown>>
        /\ Again(g)
        /\ UNCHANGED <<kind, file, watched, pending, todo, got, sent, channel, loop, hand>>
    BY <1>6 DEF TimedOut, dirVars, watchVars, loopVars
  <2>2. /\ handled \subseteq handled' /\ handled' \subseteq handled \cup ({g.event} \ Others)
        /\ behind \subseteq behind' /\ behind' \subseteq behind \cup ({g.event} \ Others)
        /\ handled' \subseteq DOMAIN sent /\ behind' \subseteq DOMAIN sent
        /\ shown' \in [Parts -> handled' \cup {None}]
    <3>1. CASE Arrives(g.event) /\ behind' = behind
      BY <1>1, <3>1, ArrivesFacts
    <3>2. CASE UNCHANGED <<handled, shown, behind>>
      BY <1>1, <3>2
    <3>3. CASE behind' = behind \cup ({g.event} \ Others) /\ UNCHANGED <<handled, shown>>
      BY <1>1, <3>3
    <3> QED BY <2>1, <3>1, <3>2, <3>3
  <2>3. /\ IsFiniteSet(sending') /\ Cardinality(sending') <= Concurrency
        /\ sending' \subseteq [event : DOMAIN sent \cup Others, try : 0..Retries]
        /\ lost \subseteq lost' /\ lost' \subseteq DOMAIN sent
        /\ InFlight' \subseteq InFlight
        /\ InFlight \subseteq InFlight' \cup lost' \cup Others
    <3>1. CASE g.try < Retries
      <4>1. PICK h : h = [g EXCEPT !.try = @ + 1]
        OBVIOUS
      <4>2. h.event = g.event
        BY <1>1, <4>1
      <4>3. h \in [event : DOMAIN sent \cup Others, try : 0..Retries]
        <5>1. g.try + 1 \in 0..Retries
          BY <1>1, <3>1
        <5> QED BY <1>1, <4>1, <5>1
      <4>4. sending' = (sending \ {g}) \cup {h} /\ lost' = lost
        BY <2>1, <3>1, <4>1 DEF Again
      <4>5. /\ IsFiniteSet(sending')
            /\ \/ Cardinality(sending') = Cardinality(sending \ {g})
               \/ Cardinality(sending') = Cardinality(sending \ {g}) + 1
        BY <1>2, <4>4, FS_AddElement
      <4>6. Cardinality(sending') <= Concurrency
        BY <1>1, <1>2, <4>5
      <4>7. InFlight' = {x.event : x \in sending \ {g}} \cup {g.event}
        BY <4>2, <4>4 DEF InFlight
      <4> QED BY <1>1, <1>3, <4>3, <4>4, <4>5, <4>6, <4>7
    <3>2. CASE ~(g.try < Retries)
      <4>1. sending' = sending \ {g} /\ lost' = lost \cup ({g.event} \ Others)
        BY <2>1, <3>2 DEF Again
      <4>2. InFlight' \subseteq InFlight /\ InFlight \subseteq InFlight' \cup {g.event}
        BY <1>3, <4>1 DEF InFlight
      <4> QED BY <1>1, <1>2, <4>1, <4>2
    <3> QED BY <3>1, <3>2
  <2>4. /\ handled' \cup behind' \cup InFlight'
             \subseteq handled \cup behind \cup InFlight \cup Others
        /\ handled \cup lost \cup behind \cup InFlight
             \subseteq handled' \cup lost' \cup behind' \cup InFlight' \cup Others
    BY <1>1, <2>2, <2>3
  <2> QED BY <2>1, <2>2, <2>3, <2>4, RequestKeeps
<1> QED BY <1>4, <1>5, <1>6 DEF Send

LEMMA ArrivesLateKeeps ==
  ASSUME Inv, ArrivesLate
  PROVE  Inv'
<1>1. PICK e \in behind :
        /\ Arrives(e) /\ behind' = behind \ {e}
        /\ UNCHANGED <<kind, file, watched, pending, todo, got, sent, channel, loop, hand,
                       sending, faults, lost>>
  BY DEF ArrivesLate, dirVars, watchVars, loopVars
<1>2. /\ Types /\ e \in DOMAIN sent
      /\ IsFiniteSet(sending) /\ Cardinality(sending) <= Concurrency
      /\ sending \subseteq [event : DOMAIN sent \cup Others, try : 0..Retries]
      /\ behind \subseteq DOMAIN sent /\ lost \subseteq DOMAIN sent
  BY DEF Inv, Types
<1>3. /\ handled \subseteq handled' /\ handled' \subseteq handled \cup ({e} \ Others)
      /\ handled' \subseteq DOMAIN sent /\ e \in handled' \cup Others
      /\ shown' \in [Parts -> handled' \cup {None}]
  BY <1>1, <1>2, ArrivesFacts
<1>4. InFlight' = InFlight
  BY <1>1 DEF InFlight
<1>5. /\ handled' \cup behind' \cup InFlight'
           \subseteq handled \cup behind \cup InFlight \cup Others
      /\ handled \cup lost \cup behind \cup InFlight
           \subseteq handled' \cup lost' \cup behind' \cup InFlight' \cup Others
  BY <1>1, <1>3, <1>4
<1>6. behind' \subseteq DOMAIN sent
  BY <1>1, <1>2
<1> QED BY <1>1, <1>2, <1>3, <1>5, <1>6, RequestKeeps

-------------------------------------------------------------------------------
(* The theorems.                                                             *)

LEMMA StepInv == Inv /\ [Next]_vars => Inv'
<1> SUFFICES ASSUME Inv, [Next]_vars PROVE Inv'
  OBVIOUS
<1>1. CASE UNCHANGED vars
  <2>1. Types'
    BY <1>1 DEF vars, Inv, Types
  <2> QED BY <1>1, <2>1, Frames DEF vars, Inv
<1>2. CASE Next
  BY <1>2, FileKeeps, NoticeKeeps, ListKeeps, ReadPartKeeps, EmitKeeps, LoopKeeps, TakeKeeps,
     TakeOtherKeeps, AcquireKeeps, ExitKeeps, SendKeeps, ArrivesLateKeeps DEF Next, Watch
<1> QED BY <1>1, <1>2

\* The invariant holds of every reachable state.
THEOREM Invariance == Spec => []Inv
BY InitInv, StepInv, PTL DEF Spec

\* The variables have their types: the channel and the semaphore keep their
\* limits, and whoever holds an event holds one that was made.
THEOREM TypeCorrect == Spec => []TypeOK
<1>1. Inv => TypeOK
  <2> SUFFICES ASSUME Inv PROVE TypeOK
    OBVIOUS
  <2>1. Types
    BY DEF Inv
  <2>2. todo \in Seq(Parts \cup {"list", "emit", "changed"})
    BY <2>1, TodoFacts DEF Types
  <2>3. \A n \in DOMAIN sent : sent[n] \in Events
    BY <2>1 DEF Types
  <2>4. (loop = "acquire") = (hand \in DOMAIN sent \cup Others)
    <3>1. None \notin DOMAIN sent \cup Others
      BY <2>1, NumberFacts, DispatchAssumption
    <3>2. loop = "acquire" <=> hand \in DOMAIN sent \cup Others
      BY <2>1, <3>1 DEF Types
    <3> QED BY <3>2
  <2>5. \A g \in sending : g.event \in DOMAIN sent \cup Others /\ g.try \in 0..Retries
    BY <2>1 DEF Types
  <2> QED BY <2>1, <2>2, <2>3, <2>4, <2>5 DEF Types, TypeOK, Files, Events, Loops
<1> QED BY <1>1, Invariance, PTL

\* At rest the server has been told what is in the files, or that event was
\* lost: the watchers read after they received the notification, and a torn
\* file makes another one.
THEOREM ToldOrLost == Spec => []NewestTold
<1>1. Inv => NewestTold
  <2> SUFFICES ASSUME Inv, Quiet, NEW p \in Parts, p = "late" => watched
               PROVE  \E n \in handled \cup lost : sent[n][p] = file[p]
    BY DEF NewestTold
  <2>1. /\ Types /\ loop = "select" /\ pending = <<>> /\ todo = <<>> /\ channel = <<>>
        /\ sending = {} /\ behind = {} /\ ~file.torn /\ hand = None
    BY DEF Inv, Types, Quiet
  <2>2. ToSet(todo) = {} /\ ToSet(channel) = {} /\ InFlight = {} /\ None \notin DOMAIN sent
    BY <2>1, NumberFacts DEF ToSet, InFlight
  <2>3. SeenTo(p)
    BY <2>1 DEF Inv, Fresh, Parts
  <2>4. PICK n \in DOMAIN sent : sent[n][p] = file[p]
    BY <2>1, <2>2, <2>3 DEF SeenTo
  <2>5. n \in handled \cup lost
    BY <2>1, <2>2 DEF Inv, Accounted
  <2> QED BY <2>4, <2>5
<1> QED BY <1>1, Invariance, PTL

\* Only requests that are on their way at the same time overtake each other:
\* the channel and the main loop keep the order of the events.
THEOREM OrderUntilSlot == Spec => []OvertakesInFlightOnly
<1>1. Inv => OvertakesInFlightOnly
  <2> SUFFICES ASSUME Inv, NEW m \in (Range(channel) \cup {hand}) \cap DOMAIN sent,
                      NEW n \in handled \cup behind \cup InFlight, n \notin Others
               PROVE  n < m
    BY DEF OvertakesInFlightOnly, InFlight
  <2>1. DOMAIN sent \subseteq Nat
    BY NumberFacts DEF Inv
  <2>2. CASE m = hand
    BY <2>1, <2>2 DEF Inv, InOrder
  <2>3. CASE m \in Range(channel)
    BY <2>3 DEF Inv, InOrder, Range
  <2> QED BY <2>2, <2>3
<1> QED BY <1>1, Invariance, PTL

-------------------------------------------------------------------------------
(* Registration.                                                             *)

\* What an agent may conclude from an answer.
RowSound(a) ==
  /\ row # NoRow
  /\ row[1] = a => row[2] = life[a] \/ row \in abandoned
RefusalSound(a) == a \in dbFailed \/ (a \notin hadRow /\ row # NoRow)

\* The last attempt is not repeated.
AttemptsLeft ==
  \A a \in Agents : /\ phase[a] = "idle" => attempt[a] < Attempts
                    /\ phase[a] = "waiting" => attempt[a] > 0

\* Requests are numbered in each life.
Numbered ==
  \A r \in requests : /\ r.life <= life[r.agent]
                      /\ r.life = life[r.agent] => r.no <= attempt[r.agent]

AwaitedOrLeft ==
  \A r \in requests : \/ Awaited(r)
                      \/ r.step \in Running /\ Info(r) \in abandoned

OneAwaited ==
  \A r, q \in requests :
    r.agent = q.agent /\ Awaited(r) /\ Awaited(q) => r = q

StepsSound ==
  \A r \in requests :
    /\ r.step = "ok" => RowSound(r.agent)
    /\ r.step = "refused" => RefusalSound(r.agent)
    /\ r.step = "create" /\ Awaited(r) =>
         r.agent \in dbFailed \/ r.agent \notin hadRow

AnswersSound ==
  \A a \in Agents :
    /\ answer[a] \in {"ok", "refused"} => phase[a] = "running"
    /\ answer[a] = "ok" => RowSound(a)
    /\ answer[a] = "refused" => RefusalSound(a)

RowKnown == hadRow # {} => row # NoRow

RegistryInv ==
  /\ RegistryTypeOK /\ AttemptsLeft /\ Numbered /\ AwaitedOrLeft /\ OneAwaited /\ StepsSound
  /\ AnswersSound /\ RowKnown

LEMMA RegistryInitInv == RegistryInit => RegistryInv
<1> SUFFICES ASSUME RegistryInit PROVE RegistryInv
  OBVIOUS
<1>1. RegistryTypeOK
  BY RegistryAssumption DEF RegistryInit, RegistryTypeOK
<1>2. /\ AttemptsLeft /\ Numbered /\ AwaitedOrLeft /\ OneAwaited /\ StepsSound
      /\ AnswersSound /\ RowKnown
  BY DEF RegistryInit, AttemptsLeft, Numbered, AwaitedOrLeft, OneAwaited, StepsSound, AnswersSound, RowKnown
<1> QED BY <1>1, <1>2 DEF RegistryInv

-------------------------------------------------------------------------------
(* The agent.                                                                *)

LEMMA LaunchInv ==
  ASSUME RegistryInv, NEW a \in Agents, Launch(a)
  PROVE  RegistryInv'
<1>1. /\ phase[a] = "down" /\ life[a] < MaxLives[a]
      /\ phase' = [phase EXCEPT ![a] = "idle"]
      /\ life' = [life EXCEPT ![a] = @ + 1]
      /\ attempt' = [attempt EXCEPT ![a] = 0]
      /\ answer' = [answer EXCEPT ![a] = "none"]
      /\ hadRow' = (IF row # NoRow THEN hadRow \cup {a} ELSE hadRow \ {a})
      /\ dbFailed' = dbFailed \ {a}
      /\ UNCHANGED <<requests, row, errors, abandoned>>
  BY DEF Launch
<1>2. RegistryTypeOK /\ Attempts \in Nat \ {0} /\ MaxLives \in [Agents -> Nat]
  BY RegistryAssumption DEF RegistryInv
<1>3. /\ life[a] \in Nat /\ life'[a] = life[a] + 1 /\ attempt'[a] = 0
      /\ phase'[a] = "idle" /\ answer'[a] = "none"
      /\ \A b \in Agents : b # a => /\ life'[b] = life[b] /\ attempt'[b] = attempt[b]
                                    /\ phase'[b] = phase[b] /\ answer'[b] = answer[b]
  BY <1>1, <1>2 DEF RegistryTypeOK
<1>4. RegistryTypeOK'
  BY <1>1, <1>2, <1>3 DEF RegistryTypeOK
<1>5. \A r \in requests : r.agent \in Agents /\ r.life \in Nat /\ r.no \in Nat
  BY <1>2 DEF RegistryTypeOK, Requests
<1>6. AttemptsLeft' /\ Numbered'
  <2>1. AttemptsLeft'
    BY <1>2, <1>3 DEF RegistryInv, AttemptsLeft
  <2>2. Numbered'
    BY <1>1, <1>3, <1>5 DEF RegistryInv, Numbered
  <2> QED BY <2>1, <2>2
<1>7. \A r \in requests : Awaited(r)' <=> Awaited(r)
  BY <1>1, <1>3, <1>5 DEF Awaited
<1>8. AwaitedOrLeft' /\ OneAwaited'
  BY <1>1, <1>7 DEF RegistryInv, AwaitedOrLeft, OneAwaited, Info
<1>9. \A r \in requests : r.agent = a => r.step \in Running
  BY <1>1 DEF RegistryInv, AwaitedOrLeft, Awaited
<1>10. StepsSound'
  BY <1>1, <1>3, <1>5, <1>7, <1>9 DEF RegistryInv, StepsSound, Awaited, RowSound, RefusalSound, Running
<1>11. AnswersSound' /\ RowKnown'
  BY <1>1, <1>3 DEF RegistryInv, AnswersSound, RowKnown, RowSound, RefusalSound
<1> QED BY <1>4, <1>6, <1>8, <1>10, <1>11 DEF RegistryInv

LEMMA AskInv ==
  ASSUME RegistryInv, NEW a \in Agents, Ask(a)
  PROVE  RegistryInv'
<1>0. PICK new : new = [agent |-> a, life |-> life[a], no |-> attempt[a] + 1,
                        step |-> "asked"]
  OBVIOUS
<1>1. /\ phase[a] = "idle"
      /\ attempt' = [attempt EXCEPT ![a] = @ + 1]
      /\ phase' = [phase EXCEPT ![a] = "waiting"]
      /\ requests' = requests \cup {new}
      /\ UNCHANGED <<life, answer, row, errors, hadRow, abandoned, dbFailed>>
  BY <1>0 DEF Ask, history
<1>2. RegistryTypeOK /\ Attempts \in Nat \ {0}
  BY RegistryAssumption DEF RegistryInv
<1>3. /\ attempt[a] \in Nat /\ attempt[a] < Attempts /\ life[a] \in Nat
      /\ attempt'[a] = attempt[a] + 1 /\ phase'[a] = "waiting"
      /\ \A b \in Agents : b # a => attempt'[b] = attempt[b] /\ phase'[b] = phase[b]
  <2>1. attempt[a] \in Nat /\ attempt[a] < Attempts /\ life[a] \in Nat
    BY <1>1, <1>2 DEF RegistryInv, AttemptsLeft, RegistryTypeOK
  <2>2. attempt'[a] = attempt[a] + 1 /\ phase'[a] = "waiting"
    BY <1>1, <1>2 DEF RegistryTypeOK
  <2>3. \A b \in Agents : b # a => attempt'[b] = attempt[b] /\ phase'[b] = phase[b]
    BY <1>1, <1>2 DEF RegistryTypeOK
  <2> QED BY <2>1, <2>2, <2>3
<1>4. \A r \in requests : /\ r.agent \in Agents /\ r.life \in Nat /\ r.no \in Nat
                          /\ r.life <= life[r.agent]
                          /\ r.life = life[r.agent] => r.no <= attempt[r.agent]
  BY <1>2 DEF RegistryInv, Numbered, RegistryTypeOK, Requests
<1>5. new \in Requests /\ new.agent = a /\ new.life = life[a] /\ new.no = attempt[a] + 1
      /\ new.step = "asked"
  BY <1>0, <1>2, <1>3 DEF Requests, Running
<1>6. RegistryTypeOK'
  BY <1>1, <1>2, <1>3, <1>5 DEF RegistryTypeOK
<1>7. AttemptsLeft' /\ Numbered'
  <2>1. AttemptsLeft'
    BY <1>2, <1>3 DEF RegistryInv, AttemptsLeft
  <2>2. ASSUME NEW r \in requests'
        PROVE  r.life <= life'[r.agent] /\ (r.life = life'[r.agent] => r.no <= attempt'[r.agent])
    <3>1. CASE r = new
      BY <3>1, <1>1, <1>3, <1>5
    <3>2. CASE r \in requests
      BY <3>2, <1>1, <1>3, <1>4
    <3> QED BY <3>1, <3>2, <1>1
  <2> QED BY <2>1, <2>2 DEF Numbered
<1>8. \A r \in requests : /\ r.agent = a => ~Awaited(r) /\ ~Awaited(r)'
                          /\ r.agent # a => (Awaited(r)' <=> Awaited(r))
  BY <1>1, <1>3, <1>4 DEF Awaited
<1>9. Awaited(new)'
  BY <1>1, <1>3, <1>5 DEF Awaited
<1>10. AwaitedOrLeft' /\ OneAwaited'
  <2>1. AwaitedOrLeft'
    BY <1>1, <1>8, <1>9 DEF RegistryInv, AwaitedOrLeft, Info
  <2>2. ASSUME NEW r \in requests', NEW q \in requests', r.agent = q.agent, Awaited(r)', Awaited(q)'
        PROVE  r = q
    <3>1. r # new => r \in requests /\ r.agent # a
      BY <2>2, <1>1, <1>8
    <3>2. q # new => q \in requests /\ q.agent # a
      BY <2>2, <1>1, <1>8
    <3>3. CASE r # new /\ q # new
      BY <3>1, <3>2, <3>3, <2>2, <1>8 DEF RegistryInv, OneAwaited
    <3> QED BY <3>1, <3>2, <3>3, <2>2, <1>5
  <2> QED BY <2>1, <2>2 DEF OneAwaited
<1>11. StepsSound'
  <2>1. ASSUME NEW r \in requests', r # new
        PROVE  /\ r.step = "ok" => RowSound(r.agent)
               /\ r.step = "refused" => RefusalSound(r.agent)
               /\ r.step = "create" /\ Awaited(r)' =>
                    r.agent \in dbFailed \/ r.agent \notin hadRow
    BY <2>1, <1>1, <1>8 DEF RegistryInv, StepsSound
  <2> QED BY <2>1, <1>1, <1>5 DEF StepsSound, RowSound, RefusalSound
<1>12. AnswersSound' /\ RowKnown'
  BY <1>1, <1>3 DEF RegistryInv, AnswersSound, RowKnown, RowSound, RefusalSound
<1> QED BY <1>6, <1>7, <1>10, <1>11, <1>12 DEF RegistryInv

\* An attempt ends without an answer.
LEMMA AttemptOver ==
  ASSUME RegistryInv, NEW a \in Agents, phase[a] \in {"idle", "waiting"}, attempt'[a] \in 1..Attempts,
         NextAttempt(a, attempt'[a]),
         \A b \in Agents : b # a => attempt'[b] = attempt[b],
         attempt' \in [Agents -> 0..Attempts], attempt[a] <= attempt'[a],
         requests' \subseteq requests, abandoned \subseteq abandoned', abandoned' \subseteq Infos,
         \A r \in requests' : r.agent = a => r.step \in Running /\ Info(r) \in abandoned',
         UNCHANGED <<life, row, errors, hadRow, dbFailed>>
  PROVE  RegistryInv'
<1>2. RegistryTypeOK /\ Attempts \in Nat \ {0}
  BY RegistryAssumption DEF RegistryInv
<1>1. /\ phase' = [phase EXCEPT ![a] = IF attempt'[a] = Attempts THEN "running" ELSE "idle"]
      /\ answer' = [answer EXCEPT ![a] = IF attempt'[a] = Attempts THEN "nothing" ELSE "none"]
  BY DEF NextAttempt
<1>3. /\ phase'[a] = (IF attempt'[a] = Attempts THEN "running" ELSE "idle")
      /\ answer'[a] = (IF attempt'[a] = Attempts THEN "nothing" ELSE "none")
      /\ \A b \in Agents : b # a => answer'[b] = answer[b] /\ phase'[b] = phase[b]
      /\ attempt'[a] \in Nat /\ attempt'[a] <= Attempts
  BY <1>1, <1>2 DEF RegistryTypeOK
<1>4. RegistryTypeOK'
  BY <1>1, <1>2, <1>3 DEF RegistryTypeOK
<1>5. \A r \in requests : /\ r.agent \in Agents /\ r.no \in Nat /\ attempt[r.agent] \in Nat
                          /\ r.life <= life[r.agent]
                          /\ r.life = life[r.agent] => r.no <= attempt[r.agent]
  BY <1>2 DEF RegistryInv, Numbered, RegistryTypeOK, Requests
<1>6. AttemptsLeft' /\ Numbered'
  <2>1. AttemptsLeft'
    BY <1>2, <1>3 DEF RegistryInv, AttemptsLeft
  <2>2. \A r \in requests' : /\ r.life <= life'[r.agent]
                             /\ r.life = life'[r.agent] => r.no <= attempt'[r.agent]
    BY <1>3, <1>5
  <2> QED BY <2>1, <2>2 DEF Numbered
<1>7. \A r \in requests : /\ r.agent = a => ~Awaited(r)'
                          /\ r.agent # a => (Awaited(r)' <=> Awaited(r))
  BY <1>3, <1>5 DEF Awaited
<1>8. AwaitedOrLeft' /\ OneAwaited'
  BY <1>7 DEF RegistryInv, AwaitedOrLeft, OneAwaited, Info
<1>9. \A b \in Agents : (RowSound(b) => RowSound(b)') /\ (RefusalSound(b) => RefusalSound(b)')
  BY DEF RowSound, RefusalSound
<1>10. StepsSound'
  BY <1>5, <1>7, <1>9 DEF RegistryInv, StepsSound, Running
<1>11. AnswersSound' /\ RowKnown'
  BY <1>3, <1>9 DEF RegistryInv, AnswersSound, RowKnown
<1> QED BY <1>4, <1>6, <1>8, <1>10, <1>11 DEF RegistryInv

LEMMA UnreachableInv ==
  ASSUME RegistryInv, NEW a \in Agents, Unreachable(a)
  PROVE  RegistryInv'
<1>1. /\ phase[a] = "idle" /\ attempt' = [attempt EXCEPT ![a] = @ + 1]
      /\ NextAttempt(a, attempt[a] + 1)
      /\ UNCHANGED <<life, requests, row, errors, hadRow, abandoned, dbFailed>>
  BY DEF Unreachable, history
<1>2. /\ attempt \in [Agents -> 0..Attempts] /\ Attempts \in Nat \ {0}
      /\ attempt[a] \in Nat /\ attempt[a] < Attempts /\ abandoned \subseteq Infos
  BY <1>1, RegistryAssumption DEF RegistryInv, RegistryTypeOK, AttemptsLeft
<1>3. /\ attempt'[a] = attempt[a] + 1 /\ attempt' \in [Agents -> 0..Attempts]
      /\ \A b \in Agents : b # a => attempt'[b] = attempt[b]
  BY <1>1, <1>2
<1>4. \A r \in requests : r.agent = a => r.step \in Running /\ Info(r) \in abandoned
  BY <1>1 DEF RegistryInv, AwaitedOrLeft, Awaited
<1>5. NextAttempt(a, attempt'[a])
  BY <1>1, <1>3
<1>6. attempt'[a] \in 1..Attempts /\ attempt[a] <= attempt'[a]
  BY <1>2, <1>3
<1> QED BY <1>1, <1>2, <1>3, <1>4, <1>5, <1>6, AttemptOver

\* What an agent leaves behind is abandoned.
LEMMA LeaveFacts ==
  ASSUME RegistryInv, NEW a \in Agents, Leave(a)
  PROVE  /\ requests' \subseteq requests
         /\ abandoned \subseteq abandoned' /\ abandoned' \subseteq Infos
         /\ \A r \in requests' : r.agent = a => r.step \in Running /\ Info(r) \in abandoned'
<1>1. /\ requests' = {r \in requests : r.agent = a => r.step \in Running}
      /\ abandoned' = abandoned \cup {Info(r) : r \in {q \in requests' : q.agent = a}}
  BY DEF Leave
<1>2. \A r \in requests : Info(r) \in Infos
  BY DEF RegistryInv, RegistryTypeOK, Requests, Info, Infos
<1>3. abandoned \subseteq Infos
  BY DEF RegistryInv, RegistryTypeOK
<1> QED BY <1>1, <1>2, <1>3

LEMMA NoAnswerInv ==
  ASSUME RegistryInv, NEW a \in Agents, NoAnswer(a)
  PROVE  RegistryInv'
<1>1. /\ phase[a] = "waiting" /\ NextAttempt(a, attempt[a]) /\ Leave(a)
      /\ UNCHANGED <<life, attempt, row, errors, hadRow, dbFailed>>
  BY DEF NoAnswer
<1>2. attempt \in [Agents -> 0..Attempts] /\ Attempts \in Nat \ {0} /\ attempt[a] \in Nat
  BY RegistryAssumption DEF RegistryInv, RegistryTypeOK
<1>3. attempt[a] \in 1..Attempts
  BY <1>1, <1>2 DEF RegistryInv, AttemptsLeft
<1>4. NextAttempt(a, attempt'[a]) /\ attempt'[a] = attempt[a]
  BY <1>1
<1> QED BY <1>1, <1>2, <1>3, <1>4, AttemptOver, LeaveFacts

LEMMA CrashInv ==
  ASSUME RegistryInv, NEW a \in Agents, Crash(a)
  PROVE  RegistryInv'
<1>1. /\ phase' = [phase EXCEPT ![a] = "down"] /\ answer' = [answer EXCEPT ![a] = "none"]
      /\ Leave(a) /\ UNCHANGED <<life, attempt, row, errors, hadRow, dbFailed>>
  BY DEF Crash
<1>2. RegistryTypeOK
  BY DEF RegistryInv
<1>3. /\ phase'[a] = "down" /\ answer'[a] = "none"
      /\ \A b \in Agents : b # a => phase'[b] = phase[b] /\ answer'[b] = answer[b]
  BY <1>1, <1>2 DEF RegistryTypeOK
<1>4. /\ requests' \subseteq requests
      /\ abandoned \subseteq abandoned' /\ abandoned' \subseteq Infos
      /\ \A r \in requests' : r.agent = a => r.step \in Running /\ Info(r) \in abandoned'
  BY <1>1, LeaveFacts
<1>5. RegistryTypeOK'
  BY <1>1, <1>2, <1>4 DEF RegistryTypeOK
<1>6. AttemptsLeft' /\ Numbered'
  BY <1>1, <1>3, <1>4 DEF RegistryInv, AttemptsLeft, Numbered
<1>7. \A r \in requests : /\ r.agent \in Agents
                          /\ r.agent = a => ~Awaited(r)'
                          /\ r.agent # a => (Awaited(r)' <=> Awaited(r))
  BY <1>1, <1>2, <1>3 DEF Awaited, RegistryTypeOK, Requests
<1>8. AwaitedOrLeft' /\ OneAwaited'
  BY <1>4, <1>7 DEF RegistryInv, AwaitedOrLeft, OneAwaited, Info
<1>9. \A b \in Agents : (RowSound(b) => RowSound(b)') /\ (RefusalSound(b) => RefusalSound(b)')
  BY <1>1, <1>4 DEF RowSound, RefusalSound
<1>10. StepsSound'
  BY <1>1, <1>4, <1>7, <1>9 DEF RegistryInv, StepsSound, Running
<1>11. AnswersSound' /\ RowKnown'
  BY <1>1, <1>3, <1>9 DEF RegistryInv, AnswersSound, RowKnown
<1> QED BY <1>5, <1>6, <1>8, <1>10, <1>11 DEF RegistryInv

LEMMA AnswerInv ==
  ASSUME RegistryInv, NEW r \in requests, Answer(r)
  PROVE  RegistryInv'
<1>1. /\ r.step \in {"ok", "refused"} /\ requests' = requests \ {r}
      /\ phase' = [phase EXCEPT ![r.agent] = "running"]
      /\ answer' = [answer EXCEPT ![r.agent] = r.step]
      /\ UNCHANGED <<life, attempt, row, errors, hadRow, abandoned, dbFailed>>
  BY DEF Answer, history
<1>2. RegistryTypeOK /\ r.agent \in Agents
  BY DEF RegistryInv, RegistryTypeOK, Requests
<1>3. /\ phase'[r.agent] = "running" /\ answer'[r.agent] = r.step
      /\ \A b \in Agents : b # r.agent => phase'[b] = phase[b] /\ answer'[b] = answer[b]
  BY <1>1, <1>2 DEF RegistryTypeOK
<1>4. RegistryTypeOK'
  BY <1>1, <1>2 DEF RegistryTypeOK
<1>5. AttemptsLeft' /\ Numbered'
  BY <1>1, <1>3 DEF RegistryInv, AttemptsLeft, Numbered
<1>6. Awaited(r)
  BY <1>1 DEF RegistryInv, AwaitedOrLeft, Running
<1>7. \A q \in requests' : /\ q \in requests /\ q.agent \in Agents
                           /\ Awaited(q) => q.agent # r.agent
                           /\ Awaited(q)' <=> Awaited(q)
  <2>1. ASSUME NEW q \in requests'
        PROVE  q \in requests /\ q.agent \in Agents /\ (Awaited(q) => q.agent # r.agent)
    BY <2>1, <1>1, <1>2, <1>6 DEF RegistryInv, OneAwaited, RegistryTypeOK, Requests
  <2>2. ASSUME NEW q \in requests' PROVE Awaited(q)' <=> Awaited(q)
    BY <2>1, <1>1, <1>3 DEF Awaited
  <2> QED BY <2>1, <2>2
<1>8. AwaitedOrLeft' /\ OneAwaited'
  BY <1>1, <1>7 DEF RegistryInv, AwaitedOrLeft, OneAwaited, Info
<1>9. \A b \in Agents : (RowSound(b)' <=> RowSound(b)) /\ (RefusalSound(b)' <=> RefusalSound(b))
  BY <1>1 DEF RowSound, RefusalSound
<1>10. StepsSound'
  BY <1>1, <1>7, <1>9 DEF RegistryInv, StepsSound
<1>11. AnswersSound' /\ RowKnown'
  BY <1>1, <1>2, <1>3, <1>9 DEF RegistryInv, AnswersSound, StepsSound, RowKnown
<1> QED BY <1>4, <1>5, <1>8, <1>10, <1>11 DEF RegistryInv

-------------------------------------------------------------------------------
(* The handler.                                                              *)

\* A step of the handler changes the step of one request, or ends one that
\* nobody waits for.
Handled(r, step) ==
  \/ /\ requests' = (requests \ {r}) \cup {[r EXCEPT !.step = step]}
     /\ step \in Running \/ Awaited(r)
  \/ requests' = requests \ {r} /\ ~Awaited(r)

LEMMA HandledKept ==
  ASSUME RegistryInv, NEW r \in requests, r.step \in Running,
         NEW step \in Running \cup {"ok", "refused"}, Handled(r, step),
         UNCHANGED <<phase, life, attempt, abandoned>>
  PROVE  /\ requests' \subseteq Requests
         /\ Numbered' /\ AwaitedOrLeft' /\ OneAwaited'
         /\ \A q \in requests' :
              \/ q \in requests /\ q # r
              \/ /\ q = [r EXCEPT !.step = step] /\ q.step = step
                 /\ q.agent = r.agent /\ q.life = r.life
                 /\ Awaited(q)' <=> Awaited(r)
<1>0. PICK n : n = [r EXCEPT !.step = step]
  OBVIOUS
<1>1. r \in Requests /\ n \in Requests /\ n.agent = r.agent /\ n.life = r.life /\ n.no = r.no
      /\ n.step = step
  BY <1>0 DEF RegistryInv, RegistryTypeOK, Requests
<1>2. requests' \subseteq (requests \ {r}) \cup {n}
  BY <1>0 DEF Handled
<1>3. n \in requests' /\ n \notin requests => step \in Running \/ Awaited(r)
  BY <1>0 DEF Handled
<1>4. \A q : Awaited(q)' <=> Awaited(q)
  BY DEF Awaited
<1>5. Awaited(n) <=> Awaited(r)
  BY <1>1 DEF Awaited
<1>6. requests' \subseteq Requests
  BY <1>1, <1>2 DEF RegistryInv, RegistryTypeOK
<1>7. Numbered'
  BY <1>1, <1>2 DEF RegistryInv, Numbered
<1>8. AwaitedOrLeft'
  BY <1>1, <1>2, <1>3, <1>4, <1>5 DEF RegistryInv, AwaitedOrLeft, Info
<1>9. OneAwaited'
  BY <1>1, <1>2, <1>4, <1>5 DEF RegistryInv, OneAwaited
<1> QED BY <1>0, <1>1, <1>2, <1>4, <1>5, <1>6, <1>7, <1>8, <1>9

LEMMA LookupInv ==
  ASSUME RegistryInv, NEW r \in requests, Lookup(r) \/ LookupFails(r)
  PROVE  RegistryInv'
<1>0. PICK step \in {"create", "update"} : Become(r, step) /\ (step = "create" =>
                                             row = NoRow \/ r.agent \in dbFailed')
  BY DEF Lookup, LookupFails
<1>1. /\ r.step = "asked" /\ UNCHANGED <<phase, life, attempt, answer, row, hadRow, abandoned>>
      /\ errors' = errors \/ (errors < MaxErrors /\ errors' = errors + 1)
      /\ dbFailed' = dbFailed \/ dbFailed' = dbFailed \cup {r.agent}
  BY DEF Lookup, LookupFails, agentVars, history
<1>2. RegistryTypeOK /\ r.agent \in Agents
  BY DEF RegistryInv, RegistryTypeOK, Requests
<1>3. Handled(r, step) /\ r.step \in Running /\ step \in Running \cup {"ok", "refused"}
  BY <1>0, <1>1 DEF Handled, Become, Running
<1>4. /\ requests' \subseteq Requests
      /\ Numbered' /\ AwaitedOrLeft' /\ OneAwaited'
      /\ \A q \in requests' :
           \/ q \in requests /\ q # r
           \/ q.step = step /\ q.agent = r.agent
  BY <1>1, <1>3, HandledKept
<1>5. errors' \in 0..MaxErrors
  BY <1>1, <1>2, RegistryAssumption DEF RegistryInv, RegistryTypeOK
<1>6. RegistryTypeOK' /\ AttemptsLeft'
  BY <1>1, <1>2, <1>4, <1>5 DEF RegistryInv, RegistryTypeOK, AttemptsLeft
<1>7. \A b \in Agents : (RowSound(b)' <=> RowSound(b)) /\ (RefusalSound(b) => RefusalSound(b)')
  BY <1>1 DEF RowSound, RefusalSound
<1>8. \A q \in requests : q.agent \in Agents /\ (Awaited(q)' <=> Awaited(q))
  BY <1>1, <1>2 DEF RegistryTypeOK, Requests, Awaited
<1>9. StepsSound'
  <2>1. ASSUME NEW q \in requests', q \in requests
        PROVE  /\ q.step = "ok" => RowSound(q.agent)'
               /\ q.step = "refused" => RefusalSound(q.agent)'
               /\ q.step = "create" /\ Awaited(q)' =>
                    q.agent \in dbFailed' \/ q.agent \notin hadRow'
    BY <2>1, <1>1, <1>7, <1>8 DEF RegistryInv, StepsSound
  <2>2. ASSUME NEW q \in requests', q.step = step, q.agent = r.agent
        PROVE  /\ q.step # "ok" /\ q.step # "refused"
               /\ q.step = "create" => q.agent \in dbFailed' \/ q.agent \notin hadRow'
    BY <2>2, <1>0, <1>1 DEF RegistryInv, RowKnown
  <2> QED BY <2>1, <2>2, <1>4 DEF StepsSound
<1>10. AnswersSound' /\ RowKnown'
  BY <1>1, <1>7 DEF RegistryInv, AnswersSound, RowKnown
<1> QED BY <1>4, <1>6, <1>9, <1>10 DEF RegistryInv

\* What a row says when a request has just been written to it: it is the
\* request its agent waits for, or one that was given up.
LEMMA RowWritten ==
  ASSUME RegistryInv, NEW r \in requests, row' = Info(r),
         UNCHANGED <<phase, life, attempt, abandoned>>
  PROVE  /\ row' # NoRow /\ row' \in Infos
         /\ \A a \in Agents : ~(Awaited(r) /\ r.agent = a) => RowSound(a)'
         /\ Awaited(r) => RowSound(r.agent)'
<1>1. r.agent \in Agents /\ r.life \in Nat /\ row'[1] = r.agent /\ row'[2] = r.life
  BY DEF RegistryInv, RegistryTypeOK, Requests, Info
<1>2. row' # NoRow /\ row' \in Infos
  BY <1>1, RegistryAssumption DEF RegistryInv, Info, Infos
<1>3. Awaited(r) \/ row' \in abandoned
  BY DEF RegistryInv, AwaitedOrLeft
<1>4. Awaited(r) => r.life = life[r.agent]
  BY DEF Awaited
<1> QED BY <1>1, <1>2, <1>3, <1>4 DEF RowSound

LEMMA WriteInv ==
  ASSUME RegistryInv, NEW r \in requests, Save(r) \/ Create(r) \/ WriteFails(r)
  PROVE  RegistryInv'
<1>0. PICK step \in {"ok", "refused"} :
        /\ Reply(r, step)
        /\ step = "ok" => row' = Info(r)
        /\ step = "refused" => /\ row' = row
                               /\ \/ r.agent \in dbFailed'
                                  \/ r.step = "create" /\ row # NoRow
  BY DEF Save, Create, WriteFails
<1>1. /\ r.step \in Running
      /\ UNCHANGED <<phase, life, attempt, answer, hadRow, abandoned>>
      /\ errors' = errors \/ (errors < MaxErrors /\ errors' = errors + 1)
      /\ dbFailed' = dbFailed \/ dbFailed' = dbFailed \cup {r.agent}
  BY DEF Save, Create, WriteFails, agentVars, history, Running
<1>2. RegistryTypeOK /\ r.agent \in Agents
  BY DEF RegistryInv, RegistryTypeOK, Requests
<1>3. Handled(r, step) /\ step \in Running \cup {"ok", "refused"}
  BY <1>0 DEF Handled, Reply, Become
<1>4. /\ requests' \subseteq Requests
      /\ Numbered' /\ AwaitedOrLeft' /\ OneAwaited'
      /\ \A q \in requests' :
           \/ q \in requests /\ q # r
           \/ q.step = step /\ q.agent = r.agent
  BY <1>1, <1>3, HandledKept
<1>5. errors' \in 0..MaxErrors
  BY <1>1, <1>2, RegistryAssumption DEF RegistryInv, RegistryTypeOK
<1>6. /\ row' \in Infos \cup {NoRow} /\ (row # NoRow => row' # NoRow)
      /\ step = "ok" => /\ row' # NoRow
                        /\ \A a \in Agents : RowSound(a)'
  BY <1>0, <1>1, <1>2, RowWritten DEF RegistryTypeOK
<1>7. RegistryTypeOK' /\ AttemptsLeft'
  BY <1>1, <1>2, <1>4, <1>5, <1>6 DEF RegistryInv, RegistryTypeOK, AttemptsLeft
<1>8. \A b \in Agents : (RowSound(b) => RowSound(b)') /\ (RefusalSound(b) => RefusalSound(b)')
  <2>1. \A b \in Agents : RefusalSound(b) => RefusalSound(b)'
    BY <1>1, <1>6 DEF RefusalSound
  <2>2. step = "refused" => \A b \in Agents : RowSound(b) => RowSound(b)'
    BY <1>0, <1>1 DEF RowSound
  <2> QED BY <2>1, <2>2, <1>6
<1>9. \A q \in requests : q.agent \in Agents /\ (Awaited(q)' <=> Awaited(q))
  BY <1>1, <1>2 DEF RegistryTypeOK, Requests, Awaited
<1>10. StepsSound'
  <2>1. ASSUME NEW q \in requests', q \in requests, q # r
        PROVE  /\ q.step = "ok" => RowSound(q.agent)'
               /\ q.step = "refused" => RefusalSound(q.agent)'
               /\ q.step = "create" /\ Awaited(q)' =>
                    q.agent \in dbFailed' \/ q.agent \notin hadRow'
    BY <2>1, <1>1, <1>8, <1>9 DEF RegistryInv, StepsSound
  <2>2. ASSUME NEW q \in requests', q.step = step, q.agent = r.agent, ~(q \in requests /\ q # r)
        PROVE  /\ q.step = "ok" => RowSound(q.agent)'
               /\ q.step = "refused" => RefusalSound(q.agent)'
               /\ q.step # "create"
    <3>1. Awaited(r)
      BY <2>2, <1>0, <1>1 DEF Reply, Running
    <3>2. step = "refused" => RefusalSound(r.agent)'
      BY <3>1, <1>0, <1>1 DEF RegistryInv, StepsSound, RefusalSound
    <3> QED BY <3>2, <2>2, <1>2, <1>6
  <2> QED BY <2>1, <2>2, <1>4 DEF StepsSound
<1>11. AnswersSound' /\ RowKnown'
  BY <1>1, <1>6, <1>8 DEF RegistryInv, AnswersSound, RowKnown
<1> QED BY <1>4, <1>7, <1>10, <1>11 DEF RegistryInv

LEMMA RestartInv ==
  ASSUME RegistryInv, ServerRestarts \/ UNCHANGED registryVars
  PROVE  RegistryInv'
<1>1. /\ requests' \subseteq requests
      /\ UNCHANGED <<phase, life, attempt, answer, row, hadRow, abandoned, dbFailed>>
      /\ errors' = errors \/ (errors < MaxErrors /\ errors' = errors + 1)
  BY DEF ServerRestarts, registryVars, agentVars, history
<1>2. errors' \in 0..MaxErrors
  BY <1>1, RegistryAssumption DEF RegistryInv, RegistryTypeOK
<1>3. RegistryTypeOK' /\ AttemptsLeft' /\ Numbered'
  BY <1>1, <1>2 DEF RegistryInv, RegistryTypeOK, AttemptsLeft, Numbered
<1>4. AwaitedOrLeft' /\ OneAwaited'
  BY <1>1 DEF RegistryInv, AwaitedOrLeft, OneAwaited, Awaited, Info
<1>5. StepsSound' /\ AnswersSound' /\ RowKnown'
  BY <1>1 DEF RegistryInv, StepsSound, AnswersSound, RowKnown, RowSound, RefusalSound, Awaited
<1> QED BY <1>3, <1>4, <1>5 DEF RegistryInv

LEMMA RegistryStepInv == RegistryInv /\ [RegistryNext]_registryVars => RegistryInv'
<1> SUFFICES ASSUME RegistryInv, [RegistryNext]_registryVars PROVE RegistryInv'
  OBVIOUS
<1>1. ASSUME NEW a \in Agents,
             Launch(a) \/ Ask(a) \/ Unreachable(a) \/ NoAnswer(a) \/ Crash(a)
      PROVE  RegistryInv'
  BY <1>1, LaunchInv, AskInv, UnreachableInv, NoAnswerInv, CrashInv
<1>2. ASSUME NEW r \in requests, Handle(r) PROVE RegistryInv'
  BY <1>2, LookupInv, WriteInv DEF Handle
<1>3. ASSUME NEW r \in requests, Answer(r) PROVE RegistryInv'
  BY <1>3, AnswerInv
<1>4. CASE ServerRestarts \/ UNCHANGED registryVars
  BY <1>4, RestartInv
<1> QED BY <1>1, <1>2, <1>3, <1>4 DEF RegistryNext

-------------------------------------------------------------------------------
(* The theorems.                                                             *)

\* The invariant holds of every reachable state.
THEOREM RegistryInvariance == RegistrySpec => []RegistryInv
BY RegistryInitInv, RegistryStepInv, PTL DEF RegistrySpec

\* Types and bounds: RegisterNode is not called more often than main allows.
THEOREM WithinAttempts == RegistrySpec => []RegistryTypeOK
<1>1. RegistryInv => RegistryTypeOK
  BY DEF RegistryInv
<1> QED BY <1>1, RegistryInvariance, PTL

\* Once RegisterNode answered 200, the row is the agent's newest, another
\* agent's, or that of a request the agent had given up; and it refuses a node
\* that has a row only if the database fails.
THEOREM AnswersAreExplained == RegistrySpec => []AnswersExplained
<1>1. RegistryInv => RowIsNewest
  BY DEF RegistryInv, AnswersSound, RowSound, RowIsNewest
<1>2. RegistryInv => RefusedOnlyAtFirst
  BY DEF RegistryInv, AnswersSound, RefusalSound, RefusedOnlyAtFirst
<1>3. RegistryInv => AnswersExplained
  BY <1>1, <1>2 DEF AnswersExplained
<1> QED BY <1>3, RegistryInvariance, PTL
===============================================================================
