-------------------------------- MODULE Ingest --------------------------------
(***************************************************************************)
(* The ingestion pipeline of the server (services/server): the Report*     *)
(* handlers of api/events.go and api/handlers.go, the bounded queue of     *)
(* each kind of telemetry, the processor goroutine behind each queue, the  *)
(* single database connection they share, and the shutdown sequence of     *)
(* main.go.                                                                *)
(*                                                                         *)
(* Every HTTP request runs in a goroutine of its own.  After the offer to  *)
(* the queue a handler only broadcasts and answers 201, and neither waits  *)
(* (BroadcastRaw skips a client whose buffer is full), so one step stands  *)
(* for the whole handler.  An event is identified with the request that    *)
(* carries it; its contents are left out.                                  *)
(***************************************************************************)
EXTENDS Naturals, Sequences

CONSTANTS
  Kinds,      \* one per table: agent events, metrics, gateway logs, ...
  Requests,   \* the HTTP requests that may arrive
  KindOf,     \* the kind of event each request reports
  Capacity,   \* capacity of the queue of each kind
  BatchSize,  \* batchSize of processQueue
  NoKind      \* the owner of the database connection when it is free

ASSUME IngestAssumption ==
  /\ KindOf \in [Requests -> Kinds]
  /\ Capacity \in [Kinds -> Nat \ {0}]
  /\ BatchSize \in Nat \ {0}
  /\ NoKind \notin Kinds

VARIABLES
  handler,   \* whether each request is still to come or was answered 201
  queue,     \* the buffered channel of each kind
  worker,    \* where the processor of each kind is
  batch,     \* the local batch of the processor of each kind
  conn,      \* the kind whose insert holds the only database connection
  table,     \* the rows of each kind, in insertion order
  dropped,   \* events refused by a full queue
  failed,    \* events of a batch whose insert failed
  phase,     \* where main() is: up, cancelled, closing, exited
  arrival,   \* history: the position at which an event was admitted
  clock      \* history: how many events were admitted

requestVars == <<handler, arrival, clock, dropped>>
workerVars == <<worker, batch, conn, table, failed>>
vars == <<handler, queue, worker, batch, conn, table, dropped, failed, phase,
          arrival, clock>>

HandlerStates == {"idle", "answered"}
WorkerStates == {"select", "drain", "insert", "writing", "stopped"}
Phases == {"up", "cancelled", "closing", "exited"}

\* The events whose sender was told 201: admitted or dropped.
Offered == {r \in Requests : handler[r] = "answered"}

Running == phase # "exited"
\* ctx.Done() is ready once main has called cancel().
Cancelled == phase # "up"

Init ==
  /\ handler = [r \in Requests |-> "idle"]
  /\ queue = [k \in Kinds |-> <<>>]
  /\ worker = [k \in Kinds |-> "select"]
  /\ batch = [k \in Kinds |-> <<>>]
  /\ conn = NoKind
  /\ table = [k \in Kinds |-> <<>>]
  /\ dropped = {}
  /\ failed = {}
  /\ phase = "up"
  /\ arrival = [r \in Requests |-> 0]
  /\ clock = 0

-------------------------------------------------------------------------------
(* The Report* handlers.  They run until the process ends: the listener is   *)
(* still open while main sleeps after cancel(), and srv.Shutdown waits for   *)
(* the requests it has accepted.                                             *)

\* ShouldBindJSON fails: the answer is 400 and nothing is left behind, so the
\* same identity may stand for a later, well-formed request.
Reject(r) ==
  /\ Running
  /\ handler[r] = "idle"
  /\ UNCHANGED vars

\* select { case Queue <- dbEvent: } with room in the channel.
Enqueue(r) ==
  /\ Running
  /\ handler[r] = "idle"
  /\ Len(queue[KindOf[r]]) < Capacity[KindOf[r]]
  /\ queue' = [queue EXCEPT ![KindOf[r]] = Append(@, r)]
  /\ handler' = [handler EXCEPT ![r] = "answered"]
  /\ arrival' = [arrival EXCEPT ![r] = clock + 1]
  /\ clock' = clock + 1
  /\ UNCHANGED <<workerVars, dropped, phase>>

\* select { default: }: the channel is full, the event is dropped.
DropFull(r) ==
  /\ Running
  /\ handler[r] = "idle"
  /\ Len(queue[KindOf[r]]) = Capacity[KindOf[r]]
  /\ dropped' = dropped \cup {r}
  /\ handler' = [handler EXCEPT ![r] = "answered"]
  /\ UNCHANGED <<queue, workerVars, phase, arrival, clock>>

-------------------------------------------------------------------------------
(* processQueue.                                                             *)

\* case item := <-queue
Receive(k) ==
  /\ Running
  /\ worker[k] = "select"
  /\ queue[k] # <<>>
  /\ batch' = [batch EXCEPT ![k] = Append(@, Head(queue[k]))]
  /\ queue' = [queue EXCEPT ![k] = Tail(@)]
  /\ worker' = [worker EXCEPT ![k] = "drain"]
  /\ UNCHANGED <<requestVars, conn, table, failed, phase>>

\* Mutant: the loop tests the batch after it has received (<= for <).
DrainOneTooMany(k) ==
  /\ Running
  /\ worker[k] = "drain"
  /\ Len(batch[k]) <= BatchSize
  /\ queue[k] # <<>>
  /\ batch' = [batch EXCEPT ![k] = Append(@, Head(queue[k]))]
  /\ queue' = [queue EXCEPT ![k] = Tail(@)]
  /\ UNCHANGED <<requestVars, worker, conn, table, failed, phase>>

\* One turn of the draining loop that finds another item.
DrainOne(k) ==
  /\ Running
  /\ worker[k] = "drain"
  /\ Len(batch[k]) < BatchSize
  /\ queue[k] # <<>>
  /\ batch' = [batch EXCEPT ![k] = Append(@, Head(queue[k]))]
  /\ queue' = [queue EXCEPT ![k] = Tail(@)]
  /\ UNCHANGED <<requestVars, worker, conn, table, failed, phase>>

\* Mutant: a full batch is noticed only once the next item has been received.
DrainDoneLosesItem(k) ==
  /\ Running
  /\ worker[k] = "drain"
  /\ \/ queue[k] = <<>> /\ UNCHANGED queue
     \/ /\ queue[k] # <<>> /\ Len(batch[k]) >= BatchSize
        /\ queue' = [queue EXCEPT ![k] = Tail(@)]
  /\ worker' = [worker EXCEPT ![k] = "insert"]
  /\ UNCHANGED <<requestVars, batch, conn, table, failed, phase>>

\* The batch is full, or the channel is empty (goto ProcessBatch).
DrainDone(k) ==
  /\ Running
  /\ worker[k] = "drain"
  /\ Len(batch[k]) >= BatchSize \/ queue[k] = <<>>
  /\ worker' = [worker EXCEPT ![k] = "insert"]
  /\ UNCHANGED <<requestVars, queue, batch, conn, table, failed, phase>>

\* database.BatchInsert waits for the only connection (SetMaxOpenConns(1)).
BeginInsert(k) ==
  /\ Running
  /\ worker[k] = "insert"
  /\ conn = NoKind
  /\ conn' = k
  /\ worker' = [worker EXCEPT ![k] = "writing"]
  /\ UNCHANGED <<requestVars, queue, batch, table, failed, phase>>

\* Mutant: the connection is not given back.
EndOfBatchLeaksConn(k) ==
  /\ Running
  /\ worker[k] = "writing"
  /\ UNCHANGED conn
  /\ batch' = [batch EXCEPT ![k] = <<>>]
  /\ worker' = [worker EXCEPT ![k] = "select"]

\* batch = batch[:0], whatever the insert answered; back to the select.
EndOfBatch(k) ==
  /\ Running
  /\ worker[k] = "writing"
  /\ conn' = NoKind
  /\ batch' = [batch EXCEPT ![k] = <<>>]
  /\ worker' = [worker EXCEPT ![k] = "select"]

\* CreateInBatches writes the whole batch in one transaction.
InsertOk(k) ==
  /\ EndOfBatch(k)
  /\ table' = [table EXCEPT ![k] = @ \o batch[k]]
  /\ UNCHANGED <<requestVars, queue, failed, phase>>

Elems(s) == {s[i] : i \in DOMAIN s}

\* Mutant: a failed batch goes back to the end of the channel.
InsertFailsRequeues(k) ==
  /\ EndOfBatch(k)
  /\ queue' = [queue EXCEPT ![k] = @ \o batch[k]]
  /\ UNCHANGED <<requestVars, table, failed, phase>>

\* The insert fails: the error is logged and the batch is forgotten.
InsertFails(k) ==
  /\ EndOfBatch(k)
  /\ failed' = failed \cup Elems(batch[k])
  /\ UNCHANGED <<requestVars, queue, table, phase>>

\* case <-ctx.Done(): flush what the batch holds, and return.  The branch of
\* the ticker flushes a non-empty batch too and goes on; BatchEmptyAtSelect
\* says that neither flush ever finds anything, so the ticker has no action.
Stop(k) ==
  /\ Running
  /\ Cancelled
  /\ worker[k] = "select"
  /\ table' = [table EXCEPT ![k] = @ \o batch[k]]
  /\ batch' = [batch EXCEPT ![k] = <<>>]
  /\ worker' = [worker EXCEPT ![k] = "stopped"]
  /\ UNCHANGED <<requestVars, queue, conn, failed, phase>>

-------------------------------------------------------------------------------
(* main(): signal, sleep, srv.Shutdown, exit.  The sleep and the shutdown    *)
(* timeout are not synchronised with the processors, so each step may come   *)
(* at any point of their work.                                               *)

\* SIGINT or SIGTERM: cancel() stops the processors; the listener stays open.
Signal ==
  /\ phase = "up"
  /\ phase' = "cancelled"
  /\ UNCHANGED <<requestVars, queue, workerVars>>

\* srv.Shutdown closes the listener.
CloseListener ==
  /\ phase = "cancelled"
  /\ phase' = "closing"
  /\ UNCHANGED <<requestVars, queue, workerVars>>

\* Shutdown returned, or its timeout expired: the process ends, with
\* whatever is still in the channels, in a batch or in an open transaction.
Exit ==
  /\ phase = "closing"
  /\ phase' = "exited"
  /\ UNCHANGED <<requestVars, queue, workerVars>>

Next ==
  \/ \E r \in Requests :
       Reject(r) \/ Enqueue(r) \/ DropFull(r)
  \/ \E k \in Kinds :
       \/ Receive(k) \/ DrainOne(k) \/ DrainDone(k)
       \/ BeginInsert(k) \/ InsertOk(k) \/ InsertFails(k)
       \/ Stop(k)
  \/ Signal \/ CloseListener \/ Exit

\* A goroutine that can run is eventually run: the handlers and processors
\* are weakly fair.  No signal need ever come, and an insert may always fail.
Fairness ==
  /\ \A k \in Kinds :
       /\ WF_vars(Receive(k) \/ Stop(k))
       /\ WF_vars(DrainOne(k) \/ DrainDone(k))
       /\ WF_vars(BeginInsert(k))
       /\ WF_vars(InsertOk(k) \/ InsertFails(k))
  /\ WF_vars(CloseListener) /\ WF_vars(Exit)

Spec == Init /\ [][Next]_vars
FairSpec == Spec /\ Fairness

-------------------------------------------------------------------------------
(* Properties.                                                               *)

\* Every variable has the type its Go counterpart has; no channel and no
\* batch outgrows what it was made for.
TypeOK ==
  /\ handler \in [Requests -> HandlerStates]
  /\ queue \in [Kinds -> Seq(Requests)]
  /\ \A k \in Kinds : Len(queue[k]) <= Capacity[k]
  /\ worker \in [Kinds -> WorkerStates]
  /\ batch \in [Kinds -> Seq(Requests)]
  /\ \A k \in Kinds : Len(batch[k]) <= BatchSize
  /\ conn \in Kinds \cup {NoKind}
  /\ table \in [Kinds -> Seq(Requests)]
  /\ dropped \in SUBSET Requests
  /\ failed \in SUBSET Requests
  /\ phase \in Phases
  /\ arrival \in [Requests -> Nat]
  /\ clock \in Nat

\* What was admitted for kind k and not lost, oldest first.
Line(k) == table[k] \o (batch[k] \o queue[k])

\* The rows of a table, then the batch, then the channel: events stand in the
\* order in which they were admitted.  Since that order is strict, no event
\* is stored twice, or stored while it is still queued, whatever fails.
InOrderOnce ==
  \A k \in Kinds : \A i, j \in 1..Len(Line(k)) :
    i < j => arrival[Line(k)[i]] < arrival[Line(k)[j]]

\* Every event whose handler answered 201 is in the line of its own kind,
\* was dropped by a full queue, or was in a batch whose insert failed: the
\* pipeline loses nothing in any other way, and only those events are there.
Accounted ==
  /\ \A r \in Requests :
       r \in Offered <=> r \in dropped \cup failed \cup Elems(Line(KindOf[r]))
  /\ \A k \in Kinds : \A r \in Elems(Line(k)) :
       KindOf[r] = k /\ r \notin dropped \cup failed
  /\ dropped \cap failed = {}

\* A processor that waits in its select holds no event: the flush of the
\* ctx.Done() branch and the flush of the ticker branch have nothing to do.
BatchEmptyAtSelect ==
  \A k \in Kinds : worker[k] \in {"select", "stopped"} => batch[k] = <<>>

\* At most one processor is inside an insert, and it holds the connection.
OneWriter ==
  \A k \in Kinds : worker[k] = "writing" <=> conn = k

\* The pipeline implements the lossy log.
Log == INSTANCE LossyLog WITH
         Messages <- Requests,
         pending <- [k \in Kinds |-> batch[k] \o queue[k]],
         stored <- table,
         lost <- dropped \cup failed
RefinesLossyLog == Log!AbstractSpec

Settled(r) ==
  r \in dropped \cup failed \cup Elems(table[KindOf[r]])

\* While no shutdown is asked for, an acknowledged event is eventually
\* written, unless the queue or the insert refused it: no processor stays
\* blocked and none starves another of the connection.
EventuallySettled ==
  \A r \in Requests : r \in Offered ~> (Settled(r) \/ Cancelled)

\* Requests that were answered 201 and left no trace anywhere: neither a row
\* nor a report of a full queue or of a failed insert.
Vanished(k) ==
  {r \in Requests : KindOf[r] = k /\ r \in Offered /\ ~Settled(r)}

\* main.go and processQueue say that a shutdown flushes the background
\* inserts: once the server has exited, with every processor returned from
\* its ctx.Done() branch in time, no acknowledged event has vanished.
ShutdownFlushes ==
  phase = "exited" /\ (\A k \in Kinds : worker[k] = "stopped") =>
    \A k \in Kinds : Vanished(k) = {}
===============================================================================
