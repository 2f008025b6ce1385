------------------------------- MODULE LiveFeed -------------------------------
(***************************************************************************)
(* How telemetry reaches the list a browser shows: the handlers, which     *)
(* queue a message and then broadcast it (api/events.go, handlers.go), the *)
(* ConnectionManager of the server (websocket/manager.go), the snapshot of *)
(* the tables (api/snapshot.go) and the hook of the page that puts the two *)
(* together (web/src/hooks/useWebSocket.ts).                               *)
(*                                                                         *)
(* Queues, processors and tables are those of LossyLog, which the pipeline *)
(* of Ingest implements.  A message that is written to a socket is taken   *)
(* by the page in the same step: what travels stays in the send channel.   *)
(* The answer of the snapshot lists two pairs of tables in another order   *)
(* than it reads them; here one order stands for both.                     *)
(***************************************************************************)
EXTENDS LossyLog, FiniteSets, SequencesExt

CONSTANTS
  KindOrder, \* the kinds in the order the snapshot reads and lists them
  RowLimit,  \* how many rows of each kind a snapshot takes
  PerAgent,  \* kinds of which it lists the newest row of each agent only
  AgentOf,   \* the agent that a message is about
  BufCap,    \* capacity of the send channel of a client
  ViewCap,   \* how many messages the page keeps
  MaxBreaks  \* bound: how often the connection breaks

ASSUME FeedAssumption ==
  /\ KindOf \in [Messages -> Kinds]
  /\ KindOrder \in Seq(Kinds) /\ Elems(KindOrder) = Kinds
  /\ Len(KindOrder) = Cardinality(Kinds)
  /\ RowLimit \in [Kinds -> Nat \ {0}]
  /\ PerAgent \subseteq Kinds /\ DOMAIN AgentOf = Messages
  /\ BufCap \in Nat \ {0} /\ ViewCap \in Nat \ {0} /\ MaxBreaks \in Nat

Conns == 1..(MaxBreaks + 1)

VARIABLES
  handler, \* handler[m]: idle, queued (before BroadcastRaw), casting, done
  left,    \* left[m]: clients the loop of BroadcastRaw has still to serve
  link,    \* link[c], in the server: none, upgraded, client, gone
  shut,    \* connections whose writePump gave up and closed them
  buf,     \* buf[c]: the send channel of a client
  broken,  \* connections that no longer carry anything
  browser, \* the socket of the page: closed, connecting, open
  conn,    \* the connection the page opened last; 0 before the first
  fetches, \* requests for the snapshot under way
  view,    \* messages, newest first
  dropped, \* history: <<m, c>> when m found the channel of c full
  base,    \* history: what the tables held when they were read for the
           \* snapshot the page applied last
  unread,  \* history: the kinds whose query failed for that snapshot
  early    \* history: messages whose broadcast began before conn was
           \* registered, or before that snapshot was applied

serverVars == <<handler, left, link, shut, buf, dropped>>
pageVars == <<browser, conn, fetches, view, base, unread>>
vars == <<abstractVars, handler, left, link, shut, buf, broken, browser, conn,
          fetches, view, dropped, base, unread, early>>

Clients == {c \in Conns : link[c] = "client"}
\* BroadcastRaw holds the read lock of the manager from its start to its end.
Locked == \E m \in Messages : handler[m] = "casting"
Begun == {m \in Messages : handler[m] \in {"casting", "done"}}

Init ==
  /\ AbstractInit
  /\ handler = [m \in Messages |-> "idle"]
  /\ left = [m \in Messages |-> {}]
  /\ link = [c \in Conns |-> "none"]
  /\ shut = {} /\ broken = {}
  /\ buf = [c \in Conns |-> <<>>]
  /\ browser = "closed" /\ conn = 0
  /\ fetches = {} /\ view = <<>>
  /\ dropped = {} /\ base = {} /\ unread = {} /\ early = {}

-------------------------------------------------------------------------------
(* The handlers of the server, and the pipeline behind them.                 *)

\* The non-blocking send to the queue: it is admitted, or dropped.
Queue(m) ==
  /\ handler[m] = "idle"
  /\ Admit(m) \/ Refuse(m)
  /\ handler' = [handler EXCEPT ![m] = "queued"]
  /\ UNCHANGED <<left, link, shut, buf, dropped, broken, pageVars, early>>

Process(k) ==
  /\ \E n \in 1..Len(pending[k]) : Store(k, n) \/ GiveUp(k, n)
  /\ UNCHANGED <<serverVars, broken, pageVars, early>>

\* BroadcastRaw takes the read lock; with no client there is nothing to do.
BeginCast(m) ==
  /\ handler[m] = "queued"
  /\ handler' = [handler EXCEPT ![m] = IF Clients = {} THEN "done" ELSE "casting"]
  /\ left' = [left EXCEPT ![m] = Clients]
  /\ UNCHANGED <<abstractVars, link, shut, buf, dropped, broken, pageVars, early>>

\* Mutant: the channel has no limit.
CastAnyway(m, c) ==
  /\ c \in left[m]
  /\ left' = [left EXCEPT ![m] = @ \ {c}]
  /\ handler' = [handler EXCEPT ![m] = IF left'[m] = {} THEN "done" ELSE @]
  /\ buf' = [buf EXCEPT ![c] = Append(@, m)]
  /\ UNCHANGED <<abstractVars, link, shut, dropped, broken, pageVars, early>>

\* Mutant: a client that is too slow ends the loop.
CastStopsAtFull(m, c) ==
  /\ c \in left[m]
  /\ left' = [left EXCEPT ![m] = IF Len(buf[c]) < BufCap THEN @ \ {c} ELSE {}]
  /\ handler' = [handler EXCEPT ![m] = IF left'[m] = {} THEN "done" ELSE @]
  /\ IF Len(buf[c]) < BufCap
     THEN buf' = [buf EXCEPT ![c] = Append(@, m)] /\ UNCHANGED dropped
     ELSE dropped' = dropped \cup {<<m, c>>} /\ UNCHANGED buf
  /\ UNCHANGED <<abstractVars, link, shut, broken, pageVars, early>>

\* One turn of its loop over the clients: select with a default.
Cast(m, c) ==
  /\ c \in left[m]
  /\ left' = [left EXCEPT ![m] = @ \ {c}]
  /\ handler' = [handler EXCEPT ![m] = IF left'[m] = {} THEN "done" ELSE @]
  /\ IF Len(buf[c]) < BufCap
     THEN buf' = [buf EXCEPT ![c] = Append(@, m)] /\ UNCHANGED dropped
     ELSE dropped' = dropped \cup {<<m, c>>} /\ UNCHANGED buf
  /\ UNCHANGED <<abstractVars, link, shut, broken, pageVars, early>>

-------------------------------------------------------------------------------
(* The connections.                                                          *)

\* WebsocketEndpoint answers the handshake ...
Upgrade(c) ==
  /\ browser = "connecting" /\ c = conn
  /\ link[c] = "none" /\ c \notin broken
  /\ link' = [link EXCEPT ![c] = "upgraded"]
  /\ UNCHANGED <<abstractVars, handler, left, shut, buf, dropped, broken,
                 pageVars, early>>

\* ... and Connect registers the client under the lock.
Register(c) ==
  /\ link[c] = "upgraded"
  /\ ~Locked
  /\ link' = [link EXCEPT ![c] = "client"]
  /\ early' = early \cup Begun
  /\ UNCHANGED <<abstractVars, handler, left, shut, buf, dropped, broken, pageVars>>

\* The page, or the network, gives up the connection.
Break(c) ==
  /\ browser # "closed" /\ c = conn /\ c \notin broken
  /\ Cardinality(broken) < MaxBreaks
  /\ broken' = broken \cup {c}
  /\ UNCHANGED <<abstractVars, serverVars, pageVars, early>>

\* Mutant: the write fails, but the connection stays open.
WriteFailsQuietly(c) ==
  /\ link[c] = "client" /\ c \in broken \ shut
  /\ buf[c] # <<>>
  /\ buf' = [buf EXCEPT ![c] = Tail(@)]
  /\ UNCHANGED <<abstractVars, handler, left, link, shut, dropped, broken,
                 pageVars, early>>

\* writePump: a write that fails ends the loop, and closes the connection.
WriteFails(c) ==
  /\ link[c] = "client" /\ c \in broken \ shut
  /\ buf[c] # <<>>
  /\ buf' = [buf EXCEPT ![c] = Tail(@)]
  /\ shut' = shut \cup {c}
  /\ UNCHANGED <<abstractVars, handler, left, link, dropped, broken, pageVars, early>>

\* Mutant: the client is deleted without the lock.
DisconnectUnlocked(c) ==
  /\ link[c] = "client" /\ c \in broken
  /\ link' = [link EXCEPT ![c] = "gone"]
  /\ buf' = [buf EXCEPT ![c] = <<>>]
  /\ UNCHANGED <<abstractVars, handler, left, shut, dropped, broken, pageVars, early>>

\* readPump: the read fails, now or much later; Disconnect deletes the client
\* and closes its channel, whose messages can no longer be written.
Disconnect(c) ==
  /\ link[c] = "client" /\ c \in broken
  /\ ~Locked
  /\ link' = [link EXCEPT ![c] = "gone"]
  /\ buf' = [buf EXCEPT ![c] = <<>>]
  /\ UNCHANGED <<abstractVars, handler, left, shut, dropped, broken, pageVars, early>>

-------------------------------------------------------------------------------
(* The page.                                                                 *)

\* connect(), for the first time or three seconds after onclose.
Connect ==
  /\ browser = "closed"
  /\ conn' = conn + 1
  /\ browser' = "connecting"
  /\ UNCHANGED <<abstractVars, serverVars, broken, fetches, view, base, unread, early>>

\* onopen: initData asks for the snapshot.
OnOpen ==
  /\ browser = "connecting"
  /\ link[conn] # "none" /\ conn \notin broken
  /\ browser' = "open"
  /\ fetches' = fetches \cup {[id |-> conn, toRead |-> KindOrder,
                           rows |-> <<>>, had |-> {}, failed |-> {}]}
  /\ UNCHANGED <<abstractVars, serverVars, broken, conn, view, base, unread, early>>

\* onclose, after an error or when the connection ends.
OnClose ==
  /\ browser # "closed" /\ conn \in broken
  /\ browser' = "closed"
  /\ UNCHANGED <<abstractVars, serverVars, broken, conn, fetches, view, base,
                 unread, early>>

FirstN(s, n) == SubSeq(s, 1, IF Len(s) <= n THEN Len(s) ELSE n)

\* writePump writes the next message; onmessage puts it before the others.
OnMessage(c) ==
  /\ browser = "open" /\ c = conn /\ c \notin broken
  /\ link[c] = "client" /\ buf[c] # <<>>
  /\ buf' = [buf EXCEPT ![c] = Tail(@)]
  /\ view' = FirstN(<<Head(buf[c])>> \o view, ViewCap)
  /\ UNCHANGED <<abstractVars, handler, left, link, shut, dropped, broken,
                 browser, conn, fetches, base, unread, early>>

\* Mutant: a later row takes the place of the one listed for the agent.
OldestPerAgent(rows) ==
  LET kept == {i \in DOMAIN rows :
                 \A j \in (i + 1)..Len(rows) : AgentOf[rows[j]] # AgentOf[rows[i]]}
      Place(i) == Cardinality({j \in kept : j <= i})
  IN  [n \in 1..Cardinality(kept) |-> rows[CHOOSE i \in kept : Place(i) = n]]

\* Of rows that come newest first, the first of each agent (seenWsAgents).
NewestPerAgent(rows) ==
  LET kept == {i \in DOMAIN rows :
                 \A j \in 1..(i - 1) : AgentOf[rows[j]] # AgentOf[rows[i]]}
      Place(i) == Cardinality({j \in kept : j <= i})
  IN  [n \in 1..Cardinality(kept) |-> rows[CHOOSE i \in kept : Place(i) = n]]

\* How the snapshot lists the newest n rows of a table: the oldest of them
\* first, but those of each agent in the order of the query.
Listed(k, n) ==
  LET rows == FirstN(Reverse(stored[k]), n)
  IN  IF k \in PerAgent THEN NewestPerAgent(rows) ELSE Reverse(rows)

\* The request f after the query of its next table has returned n rows.
WithRows(f, n) ==
  [f EXCEPT !.toRead = Tail(@), !.rows = @ \o Listed(Head(f.toRead), n),
            !.had = @ \cup Elems(stored[Head(f.toRead)])]

\* GetSnapshot: one query per table, its newest rows.
ReadTable(f) ==
  /\ f.toRead # <<>>
  /\ fetches' = (fetches \ {f}) \cup {WithRows(f, RowLimit[Head(f.toRead)])}
  /\ UNCHANGED <<abstractVars, serverVars, broken, browser, conn, view, base,
                 unread, early>>

\* The query fails, which nothing looks at: the answer lists the rows that it
\* returned before, if any, and is as good as another.
QueryFails(f) ==
  /\ f.toRead # <<>>
  /\ \E n \in 0..(RowLimit[Head(f.toRead)] - 1) :
       fetches' = (fetches \ {f}) \cup
                  {[WithRows(f, n) EXCEPT !.failed = @ \cup {Head(f.toRead)}]}
  /\ UNCHANGED <<abstractVars, serverVars, broken, browser, conn, view, base,
                 unread, early>>

\* Mutant: the snapshot is put behind what the page shows already.
ApplySnapshotBehind(f) ==
  /\ f.toRead = <<>>
  /\ view' = FirstN(view \o Reverse(f.rows), ViewCap)
  /\ base' = f.had /\ unread' = f.failed
  /\ early' = early \cup Begun
  /\ fetches' = fetches \ {f}
  /\ UNCHANGED <<abstractVars, serverVars, broken, browser, conn>>

\* The answer arrives: the snapshot replaces all that the page shows,
\* whichever connection it was asked for.
ApplySnapshot(f) ==
  /\ f.toRead = <<>>
  /\ view' = Reverse(f.rows)
  /\ base' = f.had /\ unread' = f.failed
  /\ early' = early \cup Begun
  /\ fetches' = fetches \ {f}
  /\ UNCHANGED <<abstractVars, serverVars, broken, browser, conn>>

\* The request fails: the page keeps what it shows.
FetchFails(f) ==
  /\ fetches' = fetches \ {f}
  /\ UNCHANGED <<abstractVars, serverVars, broken, browser, conn, view, base,
                 unread, early>>

Next ==
  \/ \E m \in Messages :
       Queue(m) \/ BeginCast(m) \/ \E c \in Conns : Cast(m, c)
  \/ \E k \in Kinds : Process(k)
  \/ \E c \in Conns :
       \/ Upgrade(c) \/ Register(c) \/ Break(c)
       \/ WriteFails(c) \/ Disconnect(c) \/ OnMessage(c)
  \/ Connect \/ OnOpen \/ OnClose
  \/ \E f \in fetches :
       ReadTable(f) \/ QueryFails(f) \/ ApplySnapshot(f) \/ FetchFails(f)

\* A handler that broadcasts and the pumps of a client are goroutines that run
\* when they can.  A connection that writePump has closed fails its next read;
\* one that is merely broken may stay half open for ever.  The page need not
\* open anything.
Fairness ==
  /\ WF_vars(\E m \in Messages, c \in Conns : Cast(m, c))
  /\ \A c \in Conns : /\ WF_vars(WriteFails(c))
                      /\ WF_vars(c \in shut /\ Disconnect(c))

Spec == Init /\ [][Next]_vars
FairSpec == Spec /\ Fairness

-------------------------------------------------------------------------------
(* Properties.                                                               *)

\* Types; no channel exceeds its capacity.
TypeOK ==
  /\ pending \in [Kinds -> Seq(Messages)] /\ stored \in [Kinds -> Seq(Messages)]
  /\ lost \subseteq Messages
  /\ handler \in [Messages -> {"idle", "queued", "casting", "done"}]
  /\ left \in [Messages -> SUBSET Conns]
  /\ link \in [Conns -> {"none", "upgraded", "client", "gone"}]
  /\ shut \subseteq broken /\ broken \subseteq 1..conn
  /\ \A c \in Conns : buf[c] \in Seq(Messages) /\ Len(buf[c]) <= BufCap
  /\ browser \in {"closed", "connecting", "open"} /\ conn \in 0..(MaxBreaks + 1)
  /\ \A f \in fetches : /\ f.id \in 1..conn
                        /\ f.toRead \in Seq(Kinds) /\ f.rows \in Seq(Messages)
                        /\ f.had \subseteq Messages /\ f.failed \subseteq Kinds
  /\ view \in Seq(Messages)
  /\ dropped \subseteq Messages \X Conns
  /\ base \subseteq Messages /\ early \subseteq Messages /\ unread \subseteq Kinds

\* BroadcastRaw never sends to a channel that Disconnect has closed, which
\* would panic, nor serves a client that came while it was at work.
ServesItsClients == \A m \in Messages : left[m] \subseteq Clients

\* Whatever the page reconnects to, fetches late or receives while it
\* fetches, it shows a message twice at most: once from the socket, in front,
\* and once from the snapshot.
ShownTwiceAtMost ==
  \A m \in Messages : Cardinality({i \in DOMAIN view : view[i] = m}) <= 2

\* Everything has arrived where it goes.
Quiet ==
  /\ browser = "open" /\ link[conn] = "client" /\ conn \notin broken
  /\ buf[conn] = <<>> /\ fetches = {}
  /\ \A m \in Messages : handler[m] \in {"idle", "done"}

\* A message that is in a table and that the page does not show was dropped
\* by the full channel of its client, is older than what the page keeps or
\* the snapshot takes, is not the newest of its agent where the snapshot lists
\* only that, is of a table whose query failed in the snapshot that replaced
\* the list, or fell into the gap that subscribing and fetching leave open: its
\* broadcast began before the page was registered or the snapshot applied, and
\* the table was read before the message was stored, or not at all.
MissingExcused ==
  Quiet => \A k \in Kinds : \A i \in DOMAIN stored[k] :
             LET m == stored[k][i]
             IN  \/ m \in Elems(view)
                 \/ <<m, conn>> \in dropped
                 \/ Len(view) >= ViewCap
                 \/ Len(stored[k]) - i >= RowLimit[k]
                 \/ k \in PerAgent /\ \E j \in (i + 1)..Len(stored[k]) :
                                        AgentOf[stored[k][j]] = AgentOf[m]
                 \/ k \in unread
                 \/ m \in early /\ m \notin base

\* A client whose connection is broken does not stay registered once there is
\* something to send to it, so the manager does not fill up with dead ones.
DeadClientsLeave ==
  \A c \in Conns :
    (c \in broken /\ link[c] = "client" /\ buf[c] # <<>>) ~> (link[c] = "gone")
===============================================================================
