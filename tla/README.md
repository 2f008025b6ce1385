# A TLA+ model of clawo11y

clawo11y observes OpenClaw agents.  A plugin inside the OpenClaw runtime turns
its hooks into OpenTelemetry spans, metrics and logs; a Go agent on the same
host follows OpenClaw's files and forwards everything to a Go server; the
server stores it in SQLite and shows it, live and aggregated, in a React page.

Telemetry is lossy by design, and its failures are silent: a handler answers
201 and drops the event, a queue dies with the process, a batch that fails is
forgotten.  So the models here do not say "nothing is lost".  They say **which
ways of losing, repeating and reordering there are, and that there are no
others**, and history variables record each way where it happens.

## The system

| Part | State | Operations | What is hard |
|---|---|---|---|
| OTEL plugin (`openclaw-otel-plugin/src/index.ts`) | module-level Maps: active spans, names of sessions and subagents, run statistics, closed lineage, idle timers | eleven hooks, two timers | hooks come late, twice, under several names, and in any order |
| OTLP proxy (`agent/otlp/proxy.go`, `agent/client/client.go`) | one queue, one worker | accept, retry for ever | retries of what the server already took; a payload that never succeeds |
| Session watcher (`agent/watcher/watcher.go`) | offsets in memory, state file | scan, follow, save | partial lines, rotation, a kill at any step, blocking sends |
| Gateway, workspace, cron, sessions watchers (`agent/watcher/*.go`) | offsets, or none | re-read and emit with a timeout | offsets saved before the lines are emitted |
| Main loop of the agent (`agent/main.go`) | five channels, a semaphore | receive, send concurrently, exit | reordering; slow server; start-up before the receiver runs |
| Ingestion (`server/api/events.go`, `handlers.go`, `server/main.go`) | seven channels, a batch each, one connection | handlers, processors, shutdown | overflow, failed inserts, shutdown by sleeping |
| OTLP receiver (`server/api/otel.go`) | three channels and batches | Receive* handlers | unique index on span ids against retried batches |
| Live feed (`server/websocket/manager.go`, `api/snapshot.go`, `web/src/hooks/useWebSocket.ts`) | clients, their channels, the page's list | connect, broadcast, snapshot, reconnect | locking, slow clients, the gap between subscription and snapshot |
| Node registry (`server/api/nodes.go`, `agent/client/client.go`, `agent/main.go`) | table of nodes, the agent's attempt | register, look up and then save or create | read-then-write race, requests that were given up and still run |
| Retention (`server/main.go`) | none | delete once a day | nothing another part relies on |
| Dashboards' queries (`server/api/otel_queries.go`, `timeline.go`) | none | pure aggregation | boundaries, percentiles, orphans in trees |
| Sessions page (`web/src/App.tsx`) | list of sessions, selection, timeline | select, fetch a timeline, append live events | late answers, events between renders, three ways to hear of one event |
| Trace and cost pages (`web/src/components/OtelTraceView.tsx`, `OtelCostDashboard.tsx`) | list of runs, selection, tree | select, fetch a tree, relate runs, add up a flame graph | late answers, errors taken for data, sums counted again |
| Logs, metrics and security pages (`web/src/App.tsx`, `components/`) | what was answered last | poll every five seconds, or ask once | overlapping polls, errors taken for data, conditional hooks |
| Other pages (`web/src/App.tsx`) | none | rendering of the newest messages | the workspace page keeps the oldest |

They interact like this:

    OpenClaw hooks -> plugin -> OTLP proxy (agent) --HTTP--> Receive* -> queues -> tables
    OpenClaw files -> watchers -> channels -> main loop --HTTP--> Report* -> queues -> tables
                                                                     |                  |
                                                                     +-> broadcast      +-> snapshot
                                                                            page <-----------+

`PROJECT.json` lists each part with its status, and each hazard at its line
with the properties that would catch it.

## The modules

**`LossyLog`** is the abstract specification: a log per kind of telemetry, to
which a message is admitted or not, whose oldest pending messages are stored in
order or given up, and which never stores one twice.

**`Ingest`** is the pipeline that implements it.  `handler` is the progress of
a request in a `Report*` handler, `queue` the channel of its kind, `worker` the
program counter of `processQueue`, `batch` its local slice, `conn` the only
connection of the pool, `table` the rows, `phase` the progress of `main`
through signal, sleep, `Shutdown` and exit.  `arrival` and `clock` record the
order of acceptance, `dropped` and `failed` what was given up and why.  Every
branch of the select and of the draining loop is an action; the flush on
`ctx.Done()` is part of `Stop`, and the ticker has no action of its own because
`BatchEmptyAtSelect` shows that it never finds anything.

**`SessionTail`** is one `SessionWatcher`; a line is sent when it is in the
channel to the main loop, and what the loop does with it is not part of this
module.  A line is written in two halves, so
that the file can be looked at in between; offsets count halves.  `rd` is a
call of `readNewLines` under way: the file it opened, which follows a rename,
where it is, and the size it saw.  `known` is `knownFiles`, `saved` the state
file, which `os.WriteFile` truncates first.  `started` separates the scan at
start-up, during which nothing receives from the channel, from what follows.
`cut`, `behind` and `shadow` record why lines will never be sent.

**`GatewayTail`** is the `GatewayLogWatcher`, told in the same halves of lines.
It counts what it reads, so there is no `cut` and no `behind`; but `mode` passes
from reading through saving (`save`, `torn`) to handing over the `last` batch,
and `timedOut` and `killed` record what was counted and never handed over.
`events` is the queue of fsnotify, since an event for a new file resets its
offset whenever it is received.  A tail snapshot, which the server is told is
one, takes a place in the channel and is not counted as handing over.

**`AgentDispatch`** follows a file from the disk to the page.  The watchers of
cron jobs, sessions and workspaces read everything again at each notification
and keep no offset; `kind` chooses one of them, `file` is what it looks at,
`todo` what it has still to do: list, read a part, make an event.  The main loop
(`loop`, `hand`) takes events from the channel and from others, waits for a slot
and starts a goroutine (`sending`) that tries, times out and tries again;
`behind` are requests the client gave up and the server still has.  `handled`
is what the server stored and broadcast, `shown` what the page made of it.

**`OtlpDelivery`** goes from the plugin's POST to the row: the proxy's queue and
worker, the client whose timeouts leave a request running in the server
(`stale`), the handlers that offer one item after another to a bounded queue,
the processors, and the unique index that only spans have.  The retry loop of
the worker and the retries inside the HTTP client repeat the same request, so
one `Send` after a fault stands for both.

**`LiveFeed`** puts a page on top of `LossyLog`: handlers queue and then
broadcast under the read lock (`casting`, `left`), connections are upgraded,
registered, broken and removed (`link`, `broken`, `shut`), and the page
reconnects, fetches a snapshot and applies it whenever it arrives.  It uses the
abstract log for queues, processors and tables, which is sound because `Ingest`
is proved to implement it.  A snapshot is six queries whose errors nothing looks
at: one that fails leaves its rows out of an answer that is as good as another
(`QueryFails`, `unread`).  Of workspace events it lists the newest of each agent
only (`PerAgent`).

**`PluginSpans`** is the plugin: one record, `plugin`, whose fields are the
module-level Maps, and one action per hook and timer.  JavaScript runs a hook
to its end, so a hook is one step, written as a composition of functions from
record to record that are named like the functions of the source.  Spans and
runs are numbered as they are made.  A name passed to a hook is a sequence, the
candidates in the order in which `resolveCanonicalSessionKey` tries them.
What is history: the `child` of a subagent span, which is the names of the child
it was started for; `renamed` has the names under which
`subagent_spawning` took a requester that is registered under another key; and
`misnamed`, those of a subagent for which `activeSubagentMetadata` has nothing,
or what it has of another start, because the hooks called the child
differently.

**`NodeRegistry`** is the registration with which an agent begins: the loop in
`main` with the attempts of the HTTP client (`attempt`, `answer`), the requests
the server is at (`requests`, each with the statement its handler has reached)
and the one row of the node (`row`).  A request that was given up runs on in the
server (`abandoned`).  The agents of the model share a hostname, and so the row;
what one registers is told apart by its life.

**`SessionsTab`** is the sessions page.  React runs effects after a render with
the values of that render, so messages arrive (`head`, `list`) and leave a mark
in `changed`, and `Render` is a render with its three effects: take the list
over, select a session if none is, append the newest message to the timeline.
Requests for timelines (`asks`) are answered in any order with the rows there
were at some time since the question.  `Signature` is what
`timelineEventSignature` can tell apart: a broadcast writes the time in seconds,
rows and snapshots to the nanosecond.  `applied` and `due` are history.

**`FlameGraph`** has no state: it is `buildFlameBlocks` over the tree that
`GetTraceTree` makes of the spans of a trace, with the figures the plugin puts
on them and the server reads.  Blocks are measured in what they stand for, not
in per cent of the total.

**`TraceTab`** is the trace page or the cost page: a list of runs, a selected
one, the tree that came last and the requests under way.  `CostThrows` is the
cost page with an answer that it took for what it is not: an error for the
context bloat, which it asks for with the costs, or costs of which a list is
null.  `Related` and
`Offered` are the runs that the trace page relates and links to; the flame
graph is that of `tree`.

**`PolledTabs`** is the logs, the metrics or the security page.  A panel shows a
version of what the server holds.  `face` is what the logs page rendered last:
going between its empty state and its list changes the number of hooks.  Some
panels keep what they show where an answer is no array, which an answer without
metrics is not either (`NoArray`).

**`WebConsole`** composes the three: one of the six pages is open, and a step is
a step of that page.  Choosing another page unmounts the open one with its
state, so a history of one page is a history of the application since that page
was opened, and messages that came before are in the page's first render.

`MC*` modules give the constants their values.  Operators that a comment calls
a mutant are variants of an action as a plausible bug would have it; each
property is known to reject one (`PROJECT.json`, "mutants").

## The runs

| Run | Bounds | Shows |
|---|---|---|
| `Ingest.cfg` | 4 requests of 2 kinds, queues of 1, batches of 2 | full queues, full and partial batches, contention for the connection, a stop at any point |
| `IngestShutdown.cfg` | as above | `ShutdownFlushes` is violated (below) |
| `SessionTail.cfg` | 4 lines, the first too long, channel of 1, 1 crash, 1 rename | skips, repeats, progress |
| `GatewayTail.cfg` | 2 lines, batches of 2, channel of 1, 1 crash, 1 rotation by renaming (and removal) or emptying | skips, repeats, progress |
| `AgentDispatch.cfg` | each kind of watcher; 1 change while the agent runs, channel of 1, 2 slots, 1 other channel, 1 failed request with 1 retry | what the server learns, in which order |
| `AgentWorkspacePage.cfg` | one slot, no failures | `WorkspaceShowsLatest` is violated (below) |
| `OtlpDelivery.cfg` | 3 payloads of 2 signals, one refused; queues of 1, batches of 2, 1 fault | loss, repetition and head-of-line blocking |
| `PluginSpans.cfg` | a session and a subagent of two names each, 4 spans, 3 runs | the Maps agree, losses are explained |
| `LiveFeed.cfg` | 3 workspace events of 2 agents, channel of 1, snapshot of 2 rows of which it lists one per agent, 1 break of the connection or the third event | what the page repeats and misses |
| `WebConsole.cfg` | 2 events and 2 sessions of 2 agents, 2 requests, 2 turns; 3 runs of up to 3 sessions, lists of 2, 2 requests, traces of 5 spans; 2 changes, 3 polls, 1 line | what the six pages show |
| `LogsStream.cfg` | 1 change, 2 polls, 1 line | `LogsStream` is violated (below) |
| `NodeRegistry.cfg` | 2 agents of one hostname, one of which is restarted once; 2 attempts, 2 errors | whose row it is after an answer, and who is refused |

Why these bounds.  A queue of one and a batch of two are the smallest that are
full, partly full and empty, and one item more than they hold is always
offered.  A transcript that begins with a line too long for the scanner has
lines that are passed over behind it and lines that a later read gets; each
order of appending, reading and full channel then occurs among the other three.
Three workspace events of which two rows are read have, in the order in which
they are stored, a row that is not read, one that is read and not listed
because a newer one is of the same agent, and two of different agents.  In the
run of the live feed either the connection breaks or there is a third event
(`BreakOrThird`); neither has to happen, so that no fairness is cut off. For
the gateway log two lines are four units, so that a batch of two can be whole
lines or halves, filled before the end of the file or left over at it; the
safety properties were also explored with three lines, with the same result.
One crash, fault or broken connection separates a life before from a life
after; faults of every kind compete for it at every step.  The plugin needs two
sessions, one the parent of the other, and two names to confuse; three runs let
one of them close and resume.  (More spans, up to six with four runs, and
longer lists of names were explored too, with the same result, but take too
long to repeat; the proofs do not depend on bounds.) On the pages two requests
are the fewest that overtake each other, three polls the fewest of which one is
overtaken and another is not.  The two events differ in the fraction of the
second alone, which one of them does not have, so that all ways of reading
alike occur; a turn is a list, a snapshot or a choice of a view or an agent.
Three runs give every family of a session, a child and a grandchild, and a list
of two hides a run between the other two.  The traces are all trees in which a
run starts a call or a tool and a subagent that has a run with a call, with any
of their spans but the first lost. Two agents are the fewest that race for the
row, two attempts the fewest of which the server runs one that was given up
beside another, and one restart makes an earlier life of which a request is
left; three requests of one agent and one of another are then in the server at
once; two faults fail a statement and restart the server in one history. One
change of a file that is truncated first and then filled makes two
notifications, and with the events of the start up to eight events; two slots
are the fewest in which they overtake each other.  With three messages and two
rows the list of the page never outgrows its limit of five, so cutting it off
is in the model but not exercised.

`CHECK_DEADLOCK FALSE` is set where the system really may stop: the process
exits, all requests were sent, or the watched program writes no more.

### Properties worth knowing

* `Ingest`: `Accounted`, the refinement `RefinesLossyLog`, which says that rows
  are stored once and in order, and `EventuallySettled`: an accepted message is
  stored or given up unless the server is stopped.
* `SessionTail`: `SkipsExcused` names all the reasons for which a complete line
  is never sent: it is longer than the scanner's limit or behind such a line,
  an offset was taken in its middle, or an old offset hides it in a new file.
  Part of it is `StateFileBehind`: a restart of the watcher never skips.  Both
  are about the watcher only: what is in the channel, in memory, dies with the
  agent.  `RepeatsBounded`
  bounds repeats in one life, `EventuallySent` that nothing stays unread, unless the
  scan at start-up fills the channel, which nothing receives from yet.
* `GatewayTail`: `SkipsExcused` says that a unit is missed only if its batch
  waited five seconds in vain or was saved as read before a kill, if an old
  offset hides it in a new file (after a kill at any time, if the file was
  renamed), or if its file is gone; `RepeatsBounded` that
  only a renaming repeats lines within one life; `EventuallyEmitted` that what
  is written does not wait for ever.
* `AgentDispatch`: `NewestTold` says that at rest the server has been told what
  is in the files now, unless that event was lost or the change was in a
  directory that appeared after the start; it holds although a torn file makes
  no event or a wrong one.  `OvertakesInFlightOnly`: what is not yet being sent
  is newer than all that is, so reordering is confined to the slots.
  `EventuallyTold`: neither the semaphore nor the metrics stop the loop.
* `OtlpDelivery`: `OfferedAccounted` follows an item from the proxy to its row;
  `ResendsExplained` says that the unique index costs other spans only after a
  resend, and bounds the copies of what has no index; `EventuallyForwarded` holds for payloads with no refused one in front.
* `LiveFeed`: `ServesItsClients` (no send on a closed channel),
  `ShownTwiceAtMost`, and `MissingExcused`, which names all the reasons why the
  page may lack a message that is stored: the limits of channel, snapshot and
  page, a snapshot that lists only the newest of its agent or whose query for
  the table failed, and the gap between subscribing, fetching and storing.
* `PluginSpans`: `RootsAgree`; `EveryNameFindsRoot`, except where
  `subagent_spawning`, which looks no names up, took the requester by a name of
  its own and so may open a second root; `SpansAccounted` (no span ends twice,
  and none is lost but one displaced by another of its kind for the same session
  or the same child); `LineagesAgree` (each run has a lineage of its own
  and names the parent that spawned it, unless the child is `misnamed`).  Two of
  them depend on how the host names things, which the code does not see to:
  `EveryNameFindsRoot` on `NamesMeet` (two names that stand for one session have
  an alias in common; a session called by its key in one event and by an
  unrelated id in the next is two sessions to the plugin) and `SpansAccounted`
  on `ChildrenApart` (a child is known by one key, or always by the same names;
  when a name moves from one child to another, a span may be ended that a Map
  still holds for the other).  `MCPluginSpans` assumes both, and TLC checks that
  its names are so.
* `NodeRegistry`: `AnswersExplained` says that a 200 means a row with what the
  agent registered last, except that another agent of the hostname, or a request
  of its own that it had given up, may have written after it; and that only the
  race of two first registrations is answered 500 while the database works, so
  an agent whose node has a row is never turned away by one.
* `WebConsole`: `ShownIsSelected` and `LiveEventsShown` say when a page may show
  something else than what is selected and when it misses an event: only while
  it loads, after an answer that was overtaken or failed, or when two messages
  came between renders.  `ShownIsSelected` also says by which answers the trace
  page and the cost page go blank, and that they do by no other.
  `RepeatsExplained`: the rows and the broadcast of an
  event with a fraction of a second are both shown, and nothing else is shown
  twice.  `FamilyRelated`: the runs related are those with a common ancestor, as
  far as the list shows.  `FlameExplained`: the blocks fit into one another, and
  the total is the usage of the calls plus that of subagents, which is counted
  again.  `PollsForward`: a panel goes back only with the answer to an overtaken
  poll or with an error taken for an empty answer.  `PagesSettle`: no page loads
  for ever.

### What the violated properties show

* `ShutdownFlushes`: `server/main.go` sleeps "to allow background batch inserts
  to flush", but the processors return at once and leave their channels full.
* `WorkspaceShowsLatest`: the page means to "keep the latest event per agent",
  but goes through a list that has the newest message first.
* `LogsStream`: the empty logs page says that logs "will stream here", but it
  returns before its last hook; with the first log React throws, and as nothing
  catches it the application goes blank until it is loaded again.

The model of the pages also shows what no line of the repository denies.  A tree
that cannot be fetched leaves the previous one under the name of the selected
run, and an error of the server blanks the trace page.  The cost page goes blank
when the server answers with costs but has an error for the context bloat, and
also when runs are stored but no span of the last seven days names a provider,
or none a model: a query that finds nothing leaves the list nil (gorm's `Scan`),
the answer has null, and the page maps it.  The logs page goes blank as well
when a snapshot empties its list; the run of `LogsStream` does not show that.
A snapshot in which a query failed wipes what the page had of that table, until
the page reconnects.  An agent stays chosen
when its sessions are gone, and with one agent left there is no button to
choose another.  On a small screen the button that leads back to the list
selects the first session again.  The plugin gives the root span of a subagent
a parent, so the list of the trace page never has it, and its links to parents
and children serve other exporters only.

Two more facts that the models keep as exceptions.  `RegisterNode` of the agent
takes an answer 500 for a success, so `main` logs that it registered and never
tries again; `Answer` in `NodeRegistry` does the same.  And `FamiliesAgree` asks
for the root of the parent to be started first, because a late `llm_output`
makes run statistics for a session that has no root: a subagent takes them for
its parent's run, and the parent may then resume as another family.

## Fairness

Goroutines that can run are run: weak fairness on handlers that have begun, on
processors, on the worker of the proxy, on the pumps and on the watchers.
Nothing that comes from outside is fair: requests, signals, writes to the
transcript, reconnections.  An insert ends, but may always fail.
`OtlpDelivery` allows a bounded number of faults, that is, the network is not
down for ever; the retry loop gives no progress otherwise.  In `AgentDispatch`
the select is strongly fair to the watcher's channel, since Go chooses at
random among those that are ready; a request ends by its timeout.  In
`LiveFeed` only the loops of broadcasts, `writePump` and the end of `readPump`
are fair, which is all that `DeadClientsLeave` needs, and a read fails for
certain only on a connection that `writePump` has closed: a half-open one may
stay unnoticed.  `PluginSpans` and `NodeRegistry` have safety properties only,
so a handler may hang and an answer get lost.  In `WebConsole` each request
ends, with an answer, an error or none, since the handlers of the server end
and the browser gives up a broken connection; polls, messages and clicks come
or do not.

## The proofs

`IngestProofs` proves, for any kinds, requests, capacities and batch size,

* `TypeCorrect` and `NothingElseIsLost`: the two invariants of `Ingest.cfg`;
* `FlushHasNothingToDo`, `InsertsExclude`, `RowsInOrderOnce`: the batch is empty
  at the select, no two processors are inside a transaction at the same time,
  and table, batch and channel hold each message once and in order;
* `PipelineIsLossyLog`: `Spec => Log!AbstractSpec`.

The assumptions are those `Ingest` declares: capacities and the batch size are
positive, every request has a kind, and `NoKind` is not one.

The inductive invariant `Inv` has six conjuncts: the five properties and
`ArrivalBounded`.  `TypeOK` needs `BatchEmptyAtSelect`, because `Receive`
appends to the batch without looking at its length.  `OneWriter` is an
equivalence, so that the holder of the connection is known to be the one that
writes.  `InOrderOnce` alone is not inductive: that the rows, the batch and the
channel of a kind (`Line(k)`) are in the order of acceptance says nothing about
the next acceptance.  `ArrivalBounded` adds that nothing in a line arrived
after the clock, and `Accounted` that a request not yet answered is in no line.
Each step then leaves `Line(k)` as it is, appends the newest arrival to it, or
cuts the batch out of its middle (`CutMiddle`, `AppendBehind`).

The refinement maps `pending` to batch and channel together, so receiving and
draining are stutters, `InsertOk` is `Store` and `InsertFails` is `GiveUp` of
the whole batch.  `Stop` writes nothing because of `BatchEmptyAtSelect`, and
`Admit` may take a request because of `Accounted`.

`WebConsoleProofs` proves, for any events, sessions, runs, lists and bounds,
`TypesKept`, `SelectionShown`, `RepeatsOnlyFractions`, `LiveEventsKept` and
`PollsGoForward`: `TypeOK`, `ShownIsSelected`, `RepeatsExplained`,
`LiveEventsShown` and `PollsForward` of `WebConsole.cfg`.  The assumptions are
those the three pages declare: events have sessions and sessions agents, an
event and the one that stands for those that read alike are of one session,
limits are positive, and `NoOne` and `NoKey` are no values.

The invariant is one per page.  `SessionsInv` adds to the properties that the
newest request under way is for the session selected now (`AsksMatch`), so that
its answer shows what is selected if it comes last; that the rows of a session
are its own and differ (`RowsAreOwn`), so that an answer repeats nothing; and
that an event that is due is shown or is the newest message (`DueKept`), which
`Render` then appends, since `ActiveSession` is the selected session or none.
`SignatureSays` is why an event is not appended twice: in one form it reads the
same every time.  `TraceInv` has the same claim about requests for trees
(`QueriesMatch`).  `PolledInv` says that no panel is ahead of a request that was
not overtaken (`NotAhead`) and that requests have different numbers
(`PollsDiffer`): a panel that goes back took the answer to an overtaken one.
A step of one page is a stutter of the others.

`OtlpProofs` proves, for any payloads, signals, capacities and number of
faults, `WithinLimits`, `NothingOvertakes`, `NothingElseIsLost` and
`OnlyResendsSpoil`: `TypeOK`, `ForwardedInOrder`, `OfferedAccounted` and
`ResendsExplained` of `OtlpDelivery.cfg`.  The assumptions are those of
`OtlpDelivery`: an item is in one payload, once, and the limits are positive.
The order in which payloads are done is not inductive, since it says nothing of
those that wait: `FirstInFirstOut` says of any two posted payloads that the
earlier one is dropped, done, or nearer to the worker.  `Handed` follows the
items of the payload at the worker through a request that may be lost, answered
late or repeated: each was offered or is still in the request.  `Kept` says
where an item that was offered is.  `Counted` bounds the rows of an item and its
places in batch and queue by the times it was offered, so that a batch can be
spoilt only by an item offered twice; it speaks of counters below `CountCap`,
the bound at which the model stops counting.

`TailProofs` proves, for transcripts of any length, any set of long lines and
any number of crashes, `WithinFile`, `NothingElseIsSkipped` and
`RepeatsOnlyBehindSize`: `TypeOK`, `SkipsExcused` and `RepeatsBounded` of
`SessionTail.cfg`.  The assumptions are that the channel has a place and that a
torn state file is none of the complete ones.  `SkipsExcused` speaks of the
watcher at rest; the invariant says in every state what leads there.  Each
offset, in memory, in the state file or of the call under way, has only lines
before it that were sent or are excused (`KnownCovered`, `SavedCovered`,
`ReadSound`), and each file was read to its end, is being read to its end, or
an event or the scan will have it read (`WillBeRead`).  At rest only the first
of these is left, so the offsets cover the files.  The offset that is recorded
is the size seen at the opening, not the place the scanner reached:
`RecordedCovered` shows that what lies between the two is the line cut by the
offset or lies behind a long one.  `SentOften` counts the other way round: a
line before the offset was sent twice at most, one after it once, and while a
call reads, only what it passed behind the size counts twice.

`AgentProofs` is about what `main` of the agent does, its registration first
and the dispatch of events after it, and extends both modules.  Of the
registration it proves, for any agents under one hostname and any number of
attempts, lives and errors, `WithinAttempts` (`RegistryTypeOK`) and
`AnswersAreExplained`: `AnswersExplained` of `NodeRegistry.cfg`.  The
assumptions are that there is at least one attempt and that `NoRow` is no
registration.  The property speaks of what an agent was told, and so of the
past; the invariant says when that becomes true.  A request in the server is
the one its agent waits for, or its registration is in `abandoned`
(`AwaitedOrLeft`), and an agent waits for one at most (`OneAwaited`, from
`Numbered`): a later write is therefore another agent's or an abandoned one.
`StepsSound` says that what an answer claims of the row holds while the answer
is under way, `AnswersSound` that it holds after it came, and `RowKnown` that a
row, once there, stays.

Of the dispatch `AgentProofs` proves, for any number of changes and failed
requests, any capacity, number of slots and of retries, `TypeCorrect`,
`ToldOrLost` and `OrderUntilSlot`: `TypeOK`, `NewestTold` and
`OvertakesInFlightOnly` of `AgentDispatch.cfg`. The assumptions are those of
`AgentDispatch`: limits are positive, `None`, `Torn` and the events of other
channels are no numbers and the other channels have no event `None`. `InOrder`
says of numbers that what is in the channel ascends, that the event in the hand
of the main loop comes before it, and that what was sent comes before both.
`Accounted` says where an event is, and `Fresh` why what a file holds is in
one: if it is in none yet, then the file is torn and will make a notification
when it is filled, a notification waits, the watcher has still to list or to
read the file, or it has what it read in its hands (`SeenTo`). The watchers
keep no offset, so this holds only because each reads after it has taken the
notification. At rest all but the last case of `SeenTo` are gone, and
`Accounted` leaves the event handled or lost.

`LiveFeedProofs` proves, for any messages, tables, limits and number of broken
connections, `TypeCorrect`, `ServesOnlyItsClients`, `NeverThrice` and
`MissingIsExcused`: `TypeOK`, `ServesItsClients`, `ShownTwiceAtMost` and
`MissingExcused` of `LiveFeed.cfg`. The assumptions are those of `LiveFeed`:
every message has a kind and an agent, a snapshot reads each kind once, limits
are positive. That a message is shown twice at most speaks of the page alone
and is not inductive.  `LogSound` adds that no table holds a message twice, so
that a snapshot brings it once, and `LinksSound` that on its way through the
socket it is in one place, its handler, the clients still to serve or a
channel.  There is more than one snapshot in the life of a page, but it throws
its list away with each: what `ViewSound` says is that a message still due on
the socket (`Due`) is in the list once at most, so that the one that comes is
the second. `AllBrokenBefore` confines `Due` to the newest connection.
`MissingExcused` speaks of the settled page; the invariant says of every state
where a message is that the page will get: what a request had read is in its
rows, not the newest of its agent, older than the rows reach, or of a table
whose query failed (`FetchSound`); what an applied one had read is shown,
older, or of such a table (`BaseSound`); and a message whose broadcast began
after registration and snapshot is on its way, dropped or shown (`Reached`).
While this was proved the property became stronger: that a request failed is no
excuse of its own.

`GatewayProofs` proves, for logs of any length, any sizes of batches and channel
and any number of crashes, `TypeCorrect`, `NothingSkipped` and `RepeatsAreFew`:
`TypeOK`, `SkipsExcused` and `RepeatsBounded` of `GatewayTail.cfg`.  The
assumptions are that batch and channel have a place, and that `Unknown` is no
offset and `Torn` no table of offsets.  `Covered` and `WillBeRead` play the
parts they play in `TailProofs`, with the batch at hand as one more place where
a unit may be.  Here events wait while a file is read, so the invariant needs to
know which they can be: each of those a rotation causes comes once
(`EventsSound`), a file renamed while it was open is read only as long as they
all wait (`ReadSound`), and the renamed file is not read before its own event
comes (`OldOnce`).  The last was missing at first: TLC found no state that
violated the rest, but the rest is not inductive, since a step that reads the
old file under an event that will have it read again breaks the bound.
`Loads` counts how often a unit was handed over, the batch included, against how
often the watcher has begun the file again (`Begun`): once for each event of
the rotation that does not wait any more, and once again if it passed the unit
since.

`PluginProofs` proves, for any keys, aliases and names, any children, tools and
bounds, `TypesAreRight`, `RootsAreRight` and `LineagesAreRight`: `TypeOK`,
`RootsAgree` and `LineagesAgree` of `PluginSpans.cfg`; `SpansAreAccounted`, which
is `SpansAccounted` where the children are named apart (`ChildrenApart`); and
`EveryNameIsRight`, which is `EveryNameFindsRoot` where names that stand for one
session have an alias in common (`NamesMeet`).  The assumptions on the constants
are those of `PluginSpans`: a key is an alias of itself, a name has the aliases
of its first candidate, and `None` is no key.

A hook is a composition of functions on the Maps, and so is its proof.  For each
function there is a lemma that says what it writes, and one that says that it
preserves the invariant `Sound` where the hooks call it; a lemma per hook chains
them, with the spans and runs that are added (`Reached`), so that `Room` is
enough for the bounds of `TypeOK`.  `MapsSound` says that a Map holds a span of
its own kind and session, and no two tools the same one.  `Numbered` ties a run
to the session it was made for, and the statistics of a session to its newest
run.  `Rooted` is `RootsAgree`, and that a session without root has no parent
run yet: `Decided` may then set it without losing one.  `Families` is about
lineages.  That a run takes over the family of its parent is not inductive,
since the parent is looked up in what a Map remembers: what a Map remembers must
be the lineage of a root (`Remembered`), and of the run that a session counts
for there must be no root but the live one (`CurrentRoots`), or the decision
would be taken twice.  `SubsDescribed` says that the metadata found for a
subagent are of the run that started its span or of a later one of that
session, unless it is misnamed; `RootsSpawned` then says it of the roots.

`SpansAccounted` needs more (`Tidy`), and the hypothesis: when a child ends, the
names it was called by go, with those of their groups, and the span of one of
them is ended; it must be the span of all of them.  `Grouped` says that a group
has names of one child, that its key has the newest span among them, and that
names used together have the same key.  `Tied` says that a span is held only
under names that meet those of the child it was started for; under
`ChildrenApart` to meet is an equivalence (`ChildrenMeet`), so a span that takes
the place of another is for a child with a name in common.  `Accounted` is the
property itself, with the displacing span named.

For `EveryNameFindsRoot` the names that meet are the names of a session
(`NamesMeet` makes that an equivalence), and what is registered of a session
that is not renamed has one primary key, or nothing is (`OneKey`).  It is
inductive with four more parts.  A group has names of one session (`GroupsKin`)
and those registered under its key (`InGroup`), or closing a root would
unregister names of another session; a name is in no group but that of its
primary key (`Fresh`), or a group left over would do the same later; and a
session with a root is registered under all aliases of its key (`Called`), so
that closing the root unregisters all of the session.  `Renames` says that
what is taken out by `renamed` is whole sessions.  The lemmas `RegisterAliased`,
`EndsAliased` and `TakesAliased` are the three ways in which a hook changes
names; the others leave them as they are.  Writing these proofs found an error
in an earlier form of the model, which recorded fewer names in `misnamed` than
the code leaves without metadata.

Only model-checked: liveness everywhere, which under fairness is beyond the
prover (`EventuallySettled`, `EventuallySent`, `EventuallyForwarded`,
`EventuallyEmitted`, `EventuallyTold`, `DeadClientsLeave`, `PagesSettle`); and
`FamilyRelated` and `FlameExplained`, which are about recursively defined data.

## Not modelled

* Retention: one deletion a day, statement by statement, of rows older than the
  histories of the models.
* The aggregating queries of the dashboards (overview, cost, health, context
  bloat, percentiles): arithmetic over one table, without state.
* In the plugin, attribute values other than usage, metrics, security findings
  and the timer that flushes metrics, which only hastens what the reader of the
  SDK exports at its interval.
* In the pages, filters, search, sorting and charts; the overview and cron
  pages, which render the newest messages; the list of the page beyond its
  limit of five thousand messages.
* `MultiSessionWatcher` and the classification of transcript lines; the reading
  of operating-system counters; the health watcher, which nothing starts;
  schemas, installation and CI.
