----------------------------- MODULE OtlpDelivery -----------------------------
(***************************************************************************)
(* The way of an OTLP payload from the plugin to the tables of the server: *)
(* the proxy of the agent (services/agent/otlp/proxy.go) with its queue    *)
(* and its one worker that retries for ever, the HTTP client it uses       *)
(* (client.go), the Receive* handlers of the server (api/otel.go), and the *)
(* processor behind each of their queues (processQueue in api/events.go).  *)
(*                                                                         *)
(* A payload carries the items (spans, metrics or logs) of one signal.     *)
(* The retries inside the HTTP client and the retry loop around it repeat  *)
(* the same request, so one Retry stands for both.  A request the client   *)
(* has given up goes on in the server.                                     *)
(***************************************************************************)
EXTENDS Naturals, Sequences, FiniteSets

CONSTANTS
  Payloads,    \* the payloads the plugin may post to the proxy
  ItemsOf,     \* the items of each payload, a sequence
  SignalOf,    \* the signal of each payload
  Signals,     \* traces, metrics, logs
  Unique,      \* signals whose table has a unique index on the item
  Poison,      \* payloads the server answers with an error
  ProxyCap,    \* capacity of the queue of the proxy
  ServerCap,   \* capacity of the queue of each signal in the server
  BatchSize,   \* batchSize of processQueue
  MaxFaults,   \* bound: lost requests, lost answers, restarts of the server
  NoPayload    \* no payload at the worker

Elems(s) == {s[i] : i \in DOMAIN s}
Items == UNION {Elems(ItemsOf[p]) : p \in Payloads}
ItemsOn(s) == UNION {Elems(ItemsOf[p]) : p \in {q \in Payloads : SignalOf[q] = s}}

\* A poison payload cannot be decoded at all, and has no items, or has a
\* resource span without resource, and its items are those before it: the
\* handler panics there and gin answers 500.
ASSUME OtlpAssumption ==
  /\ SignalOf \in [Payloads -> Signals]
  /\ \A p \in Payloads : ItemsOf[p] \in Seq(Items)
  /\ \A p \in Payloads : \A i, j \in DOMAIN ItemsOf[p] :
       ItemsOf[p][i] = ItemsOf[p][j] => i = j
  /\ \A p, q \in Payloads :
       p # q => Elems(ItemsOf[p]) \cap Elems(ItemsOf[q]) = {}
  /\ Unique \subseteq Signals /\ Poison \subseteq Payloads
  /\ {ProxyCap, ServerCap, BatchSize} \subseteq Nat \ {0}
  /\ MaxFaults \in Nat
  /\ NoPayload \notin Payloads

VARIABLES
  posted,     \* payloads posted to the proxy, in order, dropped ones included
  refused,    \* payloads the full queue of the proxy dropped
  proxyQueue, \* OtlpProxy.queue
  item,       \* the payload the worker is at
  request,    \* the request the worker waits for: {} or one record
  stale,      \* requests the client has given up that the server still runs
  done,       \* payloads the worker is done with
  queue,      \* the queue of each signal in the server
  batch,      \* the local batch of the processor of each signal
  inserting,  \* signals whose processor is inside BatchInsert
  rows,       \* how many rows hold each item
  faults,     \* how many faults there were
  offered,    \* history: how often each item entered a server queue
  overflow,   \* history: items a full server queue dropped
  spoilt,     \* history: items of batches the unique index rejected
  gone        \* history: items lost by a restart, or by another failed insert

proxyVars == <<posted, refused, proxyQueue, item, done>>
storeVars == <<batch, inserting, rows, spoilt, gone>>
vars == <<posted, refused, proxyQueue, item, request, stale, done, queue,
          batch, inserting, rows, faults, offered, overflow, spoilt, gone>>

Init ==
  /\ posted = <<>> /\ refused = {} /\ proxyQueue = <<>> /\ item = NoPayload
  /\ request = {} /\ stale = {} /\ done = {}
  /\ queue = [s \in Signals |-> <<>>] /\ batch = [s \in Signals |-> <<>>]
  /\ inserting = {}
  /\ rows = [i \in Items |-> 0]
  /\ faults = 0
  /\ offered = [i \in Items |-> 0]
  /\ overflow = {} /\ spoilt = {} /\ gone = {}

\* Counters of a poison payload, which is sent again and again, stop here.
CountCap == MaxFaults + 2
Count(n) == IF n < CountCap THEN n + 1 ELSE n

-------------------------------------------------------------------------------
(* The proxy.                                                                *)

\* Mutant: the proxy never drops.
PostAnyway(p) ==
  /\ p \notin Elems(posted)
  /\ posted' = Append(posted, p)
  /\ proxyQueue' = Append(proxyQueue, p)
  /\ UNCHANGED <<refused, item, request, stale, done, queue, storeVars, faults,
                 offered, overflow>>

\* handle: queue the payload or drop it, and answer 200 in either case.
Post(p) ==
  /\ p \notin Elems(posted)
  /\ posted' = Append(posted, p)
  /\ IF Len(proxyQueue) < ProxyCap
     THEN proxyQueue' = Append(proxyQueue, p) /\ UNCHANGED refused
     ELSE refused' = refused \cup {p} /\ UNCHANGED proxyQueue
  /\ UNCHANGED <<item, request, stale, done, queue, storeVars, faults, offered,
                 overflow>>

\* for item := range p.queue
NextItem ==
  /\ item = NoPayload /\ proxyQueue # <<>>
  /\ item' = Head(proxyQueue)
  /\ proxyQueue' = Tail(proxyQueue)
  /\ UNCHANGED <<posted, refused, request, stale, done, queue, storeVars,
                 faults, offered, overflow>>

\* Mutant: nothing is sent any more after the first transport error.
SendUnlessFailed ==
  /\ item # NoPayload /\ request = {} /\ faults = 0
  /\ request' = {[payload |-> item, left |-> ItemsOf[item], id |-> faults]}
  /\ UNCHANGED <<proxyVars, stale, queue, storeVars, faults, offered, overflow>>

\* SendOtlpData, for the first time or after an error.
Send ==
  /\ item # NoPayload /\ request = {}
  /\ request' = {[payload |-> item, left |-> ItemsOf[item], id |-> faults]}
  /\ UNCHANGED <<proxyVars, stale, queue, storeVars, faults, offered, overflow>>

\* Mutant: a payload that the server refuses goes to the end of the queue.
AnswerRequeues ==
  \E r \in request :
    /\ r.left = <<>>
    /\ IF r.payload \in Poison
       THEN proxyQueue' = Append(proxyQueue, item) /\ UNCHANGED done
       ELSE done' = done \cup {item} /\ UNCHANGED proxyQueue
    /\ item' = NoPayload /\ request' = {}
    /\ UNCHANGED <<posted, refused, stale, queue, storeVars, faults, offered,
                   overflow>>

\* The answer of the server arrives: break on success, else retry for ever.
Answer ==
  \E r \in request :
    /\ r.left = <<>>
    /\ IF r.payload \in Poison
       THEN UNCHANGED <<done, item>>
       ELSE done' = done \cup {item} /\ item' = NoPayload
    /\ request' = {}
    /\ UNCHANGED <<posted, refused, proxyQueue, stale, queue, storeVars, faults,
                   offered, overflow>>

\* Transport error or timeout: the request, or its answer, is lost, or the
\* server is slow and goes on with it.
Timeout ==
  \E r \in request :
    /\ faults < MaxFaults
    /\ faults' = faults + 1
    /\ request' = {}
    /\ stale' \in {stale, stale \cup {r}}
    /\ UNCHANGED <<proxyVars, queue, storeVars, offered, overflow>>

-------------------------------------------------------------------------------
(* The server.                                                               *)

\* The select of every Receive* handler: queue the item, or drop it.
QueueOrDrop(s, i) ==
  IF Len(queue[s]) < ServerCap
  THEN /\ queue' = [queue EXCEPT ![s] = Append(@, i)]
       /\ offered' = [offered EXCEPT ![i] = Count(@)]
       /\ UNCHANGED overflow
  ELSE /\ overflow' = overflow \cup {i}
       /\ UNCHANGED <<queue, offered>>

\* One turn of the loops of a Receive* handler.
Offer(r) ==
  LET rest == [r EXCEPT !.left = Tail(@)]
  IN  /\ r.left # <<>>
      /\ QueueOrDrop(SignalOf[r.payload], Head(r.left))
      /\ IF r \in request
         THEN request' = {rest} /\ UNCHANGED stale
         ELSE /\ stale' = (stale \ {r}) \cup (IF rest.left = <<>> THEN {} ELSE {rest})
              /\ UNCHANGED request
      /\ UNCHANGED <<proxyVars, storeVars, faults>>

\* processQueue: the batch grows while the channel has more.
Collect(s) ==
  /\ s \notin inserting
  /\ queue[s] # <<>> /\ Len(batch[s]) < BatchSize
  /\ batch' = [batch EXCEPT ![s] = Append(@, Head(queue[s]))]
  /\ queue' = [queue EXCEPT ![s] = Tail(@)]
  /\ UNCHANGED <<proxyVars, request, stale, inserting, rows, spoilt, gone,
                 faults, offered, overflow>>

\* Mutant: a full batch is noticed only once the next item has been received.
BeginInsertLosesItem(s) ==
  /\ s \notin inserting
  /\ batch[s] # <<>>
  /\ \/ queue[s] = <<>> /\ UNCHANGED queue
     \/ Len(batch[s]) = BatchSize /\ queue[s] # <<>>
        /\ queue' = [queue EXCEPT ![s] = Tail(@)]
  /\ inserting' = inserting \cup {s}
  /\ UNCHANGED <<proxyVars, request, stale, batch, rows, spoilt, gone,
                 faults, offered, overflow>>

\* The batch is full or the channel empty: the insert begins.
BeginInsert(s) ==
  /\ s \notin inserting
  /\ batch[s] # <<>>
  /\ Len(batch[s]) = BatchSize \/ queue[s] = <<>>
  /\ inserting' = inserting \cup {s}
  /\ UNCHANGED <<proxyVars, request, stale, queue, batch, rows, spoilt, gone,
                 faults, offered, overflow>>

\* Some item of the batch is in the table already, or twice in the batch.
Conflicts(s) ==
  /\ s \in Unique
  /\ \E i \in DOMAIN batch[s] :
       \/ rows[batch[s][i]] > 0
       \/ \E j \in DOMAIN batch[s] : i # j /\ batch[s][i] = batch[s][j]

\* The rows of x once b has been written.
Occurrences(x, b) == Cardinality({i \in DOMAIN b : b[i] = x})
RowsWith(b) ==
  [x \in Items |-> IF rows[x] + Occurrences(x, b) <= CountCap
                   THEN rows[x] + Occurrences(x, b) ELSE CountCap]

\* Mutant: the batch is not cleared once it has been written.
EndInsertKeepsBatch(s) ==
  /\ s \in inserting
  /\ inserting' = inserting \ {s}
  /\ IF Conflicts(s)
     THEN spoilt' = spoilt \cup Elems(batch[s]) /\ UNCHANGED rows
     ELSE rows' = RowsWith(batch[s]) /\ UNCHANGED spoilt
  /\ UNCHANGED <<proxyVars, request, stale, queue, batch, gone, faults,
                 offered, overflow>>

\* CreateInBatches: one transaction, all of the batch or nothing of it; the
\* batch is forgotten in either case.
EndInsert(s) ==
  /\ s \in inserting
  /\ inserting' = inserting \ {s}
  /\ batch' = [batch EXCEPT ![s] = <<>>]
  /\ IF Conflicts(s)
     THEN spoilt' = spoilt \cup Elems(batch[s]) /\ UNCHANGED rows
     ELSE rows' = RowsWith(batch[s]) /\ UNCHANGED spoilt
  /\ UNCHANGED <<proxyVars, request, stale, queue, gone, faults, offered, overflow>>

\* The insert fails for another reason: disk, lock, busy timeout.
InsertFails(s) ==
  /\ s \in inserting
  /\ faults < MaxFaults /\ faults' = faults + 1
  /\ inserting' = inserting \ {s}
  /\ batch' = [batch EXCEPT ![s] = <<>>]
  /\ gone' = gone \cup Elems(batch[s])
  /\ UNCHANGED <<proxyVars, request, stale, queue, rows, spoilt, offered, overflow>>

\* The server dies and comes back: what was in memory is gone, and the
\* client sees its connection reset.
Restart ==
  /\ faults < MaxFaults /\ faults' = faults + 1
  /\ gone' = gone \cup UNION {Elems(queue[s]) \cup Elems(batch[s]) : s \in Signals}
  /\ queue' = [s \in Signals |-> <<>>] /\ batch' = [s \in Signals |-> <<>>]
  /\ inserting' = {} /\ request' = {} /\ stale' = {}
  /\ UNCHANGED <<proxyVars, rows, spoilt, offered, overflow>>

Next ==
  \/ \E p \in Payloads : Post(p)
  \/ NextItem \/ Send \/ Answer \/ Timeout
  \/ \E r \in request \cup stale : Offer(r)
  \/ \E s \in Signals : Collect(s) \/ BeginInsert(s) \/ EndInsert(s) \/ InsertFails(s)
  \/ Restart

\* The worker, the handlers and the processors run when they can.  A fault
\* may happen MaxFaults times only: the network is not down for ever.
Fairness ==
  /\ WF_vars(NextItem) /\ WF_vars(Send) /\ WF_vars(Answer)
  /\ WF_vars(\E r \in request : Offer(r))
  /\ WF_vars(\E r \in stale : Offer(r))
  /\ \A s \in Signals : /\ WF_vars(Collect(s) \/ BeginInsert(s))
                        /\ WF_vars(EndInsert(s) \/ InsertFails(s))

Spec == Init /\ [][Next]_vars
FairSpec == Spec /\ Fairness

-------------------------------------------------------------------------------
(* Properties.                                                               *)

\* Types, and the bounds of the queues and batches.
TypeOK ==
  /\ Elems(posted) \subseteq Payloads /\ refused \subseteq Payloads
  /\ Len(proxyQueue) <= ProxyCap
  /\ item \in Payloads \cup {NoPayload}
  /\ \A r \in request \cup stale : r.payload \in Payloads
  /\ \A r, q \in request : r = q
  /\ \A s \in Signals : Len(queue[s]) <= ServerCap /\ Len(batch[s]) <= BatchSize
  /\ inserting \subseteq Signals
  /\ \A i \in Items : rows[i] \in 0..CountCap /\ offered[i] \in 0..CountCap
  /\ faults \in 0..MaxFaults

\* Payloads leave the proxy in the order in which they came: nothing passes
\* a payload that the server keeps refusing.
ForwardedInOrder ==
  \A i, j \in DOMAIN posted :
    i < j /\ posted[j] \in done => posted[i] \in done \cup refused

InFlight(s) == Elems(batch[s]) \cup Elems(queue[s])

\* Neither the proxy nor the processors lose anything of their own accord: each
\* item of a payload the worker is done with entered the queue of its signal or
\* found it full; and what entered a queue is a row, on its way, or was lost by
\* a batch or by a restart.
OfferedAccounted ==
  /\ \A p \in done : \A i \in Elems(ItemsOf[p]) : offered[i] > 0 \/ i \in overflow
  /\ \A s \in Signals : \A i \in ItemsOn(s) :
       offered[i] > 0 => rows[i] > 0 \/ i \in InFlight(s) \cup spoilt \cup gone

\* What a resend does.  A span is one row at most, and its index rejects a batch
\* as a whole, but only for a repeated item: if nothing was sent twice on a
\* signal, no batch of it was spoilt.  A metric or log, which no index protects,
\* is stored at most as often as it was sent.
ResendsExplained ==
  \A s \in Signals :
    /\ ItemsOn(s) \cap spoilt # {} =>
         s \in Unique /\ \E i \in ItemsOn(s) : offered[i] > 1
    /\ \A i \in ItemsOn(s) :
         rows[i] <= (IF s \in Unique THEN 1 ELSE offered[i])

Accepted(p) == p \in Elems(posted) /\ p \notin refused
\* A payload that the server never accepts came before p.
PoisonBefore(p) ==
  \E i, j \in DOMAIN posted :
    i <= j /\ posted[j] = p /\ posted[i] \in Poison \ refused

\* A payload the proxy has queued is eventually forwarded, unless one that
\* the server keeps refusing is ahead of it.
EventuallyForwarded ==
  \A p \in Payloads : Accepted(p) ~> (p \in done \/ PoisonBefore(p))
===============================================================================
