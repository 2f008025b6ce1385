----------------------------- MODULE AgentDispatch -----------------------------
(***************************************************************************)
(* From a file the agent watches to the page that shows it: the watchers    *)
(* that read everything again at each notification (agent/watcher/cron.go,  *)
(* sessions.go, workspace.go), the main loop with its semaphore             *)
(* (agent/main.go), the HTTP client that retries (agent/client/client.go),  *)
(* and the order in which the server sees the requests.                    *)
(*                                                                         *)
(* One watcher is followed, of any of the three kinds; what the others do   *)
(* to the main loop is in the events `Others' of other channels.  It looks  *)
(* at two parts: "index", the file or directory that is there from the      *)
(* beginning, and "late", one that may appear while the agent runs:         *)
(*   cron       jobs.json            and the directory runs/ next to it     *)
(*   sessions   an agent's sessions  and those of another agent             *)
(*   workspace  a workspace          and another one                        *)
(* Contents are version numbers.  The index is written by truncating and    *)
(* filling it, so that it may be read in between.                           *)
(***************************************************************************)
EXTENDS Integers, SequencesExt, FiniteSets

CONSTANTS
  Kinds,        \* kinds of watchers, of those above
  MaxChanges,   \* bound: changes of the files, per kind
  ChanCap,      \* capacity of the watcher's channel
  Others,       \* events of other channels, offered again and again
  Concurrency,  \* requestConcurrency
  Retries,      \* clientRetryCount
  MaxFaults,    \* bound: failed requests, per kind
  None,         \* not in this event
  Torn          \* contents of a file that is truncated but not filled

ASSUME DispatchAssumption ==
  /\ Kinds \subseteq {"cron", "sessions", "workspace"}
  /\ MaxChanges \in [Kinds -> Nat]
  /\ ChanCap \in Nat \ {0} /\ Concurrency \in Nat \ {0}
  /\ Retries \in Nat /\ MaxFaults \in [Kinds -> Nat]
  /\ None \notin Nat /\ Torn \notin Nat /\ None # Torn
  /\ Others \cap Nat = {} /\ None \notin Others

Parts == {"index", "late"}

VARIABLES
  kind,      \* the watcher followed
  file,      \* contents of the parts, 0 if it is not there
  watched,   \* whether the directory of "late" is watched
  pending,   \* fsnotify events not yet received: the parts that changed
  todo,      \* what the watcher has still to do: empty in the select
  got,       \* what it has read for the next event
  sent,      \* every event made so far; an event is its number here
  channel,   \* the watcher's channel
  loop,      \* the main loop: start (of the watcher), starting (the others),
             \* select, metrics, acquire, exited
  hand,      \* the event for which the main loop wants a slot
  sending,   \* goroutines that hold a slot of requestSem
  behind,    \* requests that the client gave up and the server still has
  handled,   \* events that the server has stored and broadcast
  shown,     \* the events that the page of the workspaces shows, or None
  lost,      \* history: events dropped, refused or given up
  faults

dirVars == <<kind, file, watched>>
watchVars == <<todo, got, sent>>
loopVars == <<loop, hand>>
netVars == <<sending, behind, handled, shown, faults>>
vars == <<kind, file, watched, pending, todo, got, sent, channel, loop, hand,
          sending, behind, handled, shown, lost, faults>>

Nothing == [index |-> None, late |-> None, summary |-> FALSE]
Changes == file.index - 1 + (IF file.torn THEN 1 ELSE 0)
           + file.late - (IF watched THEN 1 ELSE 0)

Init ==
  /\ kind \in Kinds
  /\ file \in {[index |-> 1, late |-> n, torn |-> FALSE] : n \in {0, 1}}
  /\ watched = (file.late = 1)
  /\ pending = <<>>
  /\ todo = <<"list">> /\ got = Nothing /\ sent = <<>>
  /\ channel = <<>>
  /\ loop = "start" /\ hand = None /\ sending = {} /\ behind = {}
  /\ handled = {} /\ shown = [p \in Parts |-> None]
  /\ lost = {} /\ faults = 0

-------------------------------------------------------------------------------
(* OpenClaw changes its files.  The file system merges an event with an      *)
(* equal one that is the last in the queue.                                  *)

Notify(p) ==
  pending' = IF pending # <<>> /\ Last(pending) = p THEN pending
             ELSE Append(pending, p)

Restful ==
  /\ loop # "exited"
  /\ UNCHANGED <<kind, watchVars, channel, loopVars, netVars, lost>>

Truncate ==
  /\ ~file.torn /\ Changes < MaxChanges[kind]
  /\ file' = [file EXCEPT !.torn = TRUE]
  /\ Notify("index")
  /\ UNCHANGED watched /\ Restful

Fill ==
  /\ file.torn
  /\ file' = [file EXCEPT !.torn = FALSE, !.index = @ + 1]
  /\ Notify("index")
  /\ UNCHANGED watched /\ Restful

ChangeLate ==
  /\ file.late > 0 /\ Changes < MaxChanges[kind]
  /\ file' = [file EXCEPT !.late = @ + 1]
  /\ IF watched THEN Notify("late") ELSE UNCHANGED pending
  /\ UNCHANGED watched /\ Restful

\* A directory that appears later is not added to the watcher.  Only the
\* watcher of workspaces has an eye on the directory it appears in.
AppearLate ==
  /\ file.late = 0 /\ Changes < MaxChanges[kind]
  /\ file' = [file EXCEPT !.late = 1]
  /\ IF kind = "workspace" THEN Notify("new") ELSE UNCHANGED pending
  /\ UNCHANGED watched /\ Restful

-------------------------------------------------------------------------------
(* The watcher.                                                              *)

Received ==
  /\ loop \notin {"start", "exited"}
  /\ todo = <<>> /\ pending # <<>>
  /\ pending' = Tail(pending)
  /\ UNCHANGED <<dirVars, got, sent, channel, loopVars, netVars, lost>>

\* watchLoop receives an event, and everything is read again.
NoticeJobs == kind = "cron" /\ Received /\ todo' = <<"list">>
NoticeSessions == kind = "sessions" /\ Received /\ todo' = <<"list">>

\* Here handleChange first sends the file that changed, if its name is one of
\* those it knows.
NoticeWorkspace ==
  /\ kind = "workspace" /\ Received
  /\ \/ todo' = <<"list">>
     \/ Head(pending) \in Parts /\ todo' = <<Head(pending), "changed", "list">>

\* The directories are listed, then each is read in turn.
Plan ==
  CASE kind = "cron" -> <<"index", "late", "emit">>
    [] kind = "sessions" ->
         IF file.late = 0 THEN <<"index", "emit">> ELSE <<"index", "late", "emit">>
    [] kind = "workspace" ->
         <<"index", "emit">> \o IF file.late = 0 THEN <<>> ELSE <<"late", "emit">>

List ==
  /\ loop # "exited" /\ todo # <<>> /\ Head(todo) = "list"
  /\ todo' = Plan
  /\ UNCHANGED <<dirVars, pending, got, sent, channel, loopVars, netVars, lost>>

IsTorn(p) == p = "index" /\ file.torn

\* Mutant: events that come while the files are read are taken for read.
ReadsDebounced(p) ==
  /\ loop # "exited" /\ todo # <<>> /\ Head(todo) = p
  /\ todo' = Tail(todo)
  /\ got' = [got EXCEPT ![p] = IF IsTorn(p) THEN Torn ELSE file[p]]
  /\ pending' = IF todo' = <<"emit">> THEN <<>> ELSE pending
  /\ UNCHANGED <<dirVars, sent, channel, loopVars, netVars, lost>>

Reads(p) ==
  /\ loop # "exited" /\ todo # <<>> /\ Head(todo) = p
  /\ todo' = Tail(todo)
  /\ got' = [got EXCEPT ![p] = IF IsTorn(p) THEN Torn ELSE file[p]]
  /\ UNCHANGED <<dirVars, pending, sent, channel, loopVars, netVars, lost>>

\* Jobs that cannot be parsed make no event.
ReadJobs(p) == kind = "cron" /\ ~IsTorn(p) /\ Reads(p)

AbandonJobs ==
  /\ kind = "cron" /\ IsTorn("index")
  /\ loop # "exited" /\ todo # <<>> /\ Head(todo) = "index"
  /\ todo' = <<>>
  /\ UNCHANGED <<dirVars, pending, got, sent, channel, loopVars, netVars, lost>>

\* An agent whose index cannot be parsed is left out of the event.
ReadSessions(p) == kind = "sessions" /\ Reads(p)

\* The contents of a file are sent as they are.
ReadWorkspace(p) == kind = "workspace" /\ Reads(p)

ReadPart ==
  \/ AbandonJobs
  \/ \E p \in Parts : ReadJobs(p) \/ ReadSessions(p) \/ ReadWorkspace(p)

\* The event is made ...
Made ==
  /\ loop # "exited" /\ todo # <<>> /\ Head(todo) \in {"emit", "changed"}
  /\ sent' = Append(sent, [got EXCEPT !.summary = Head(todo) = "emit"])
  /\ got' = Nothing
  /\ todo' = Tail(todo)

\* Mutant: the channel is thought to have no limit.
EmitAnyway ==
  /\ Made
  /\ channel' = Append(channel, Len(sent'))
  /\ UNCHANGED <<dirVars, pending, loopVars, netVars, lost>>

\* ... and put into the channel,
Emit ==
  /\ Made
  /\ Len(channel) < ChanCap
  /\ channel' = Append(channel, Len(sent'))
  /\ UNCHANGED <<dirVars, pending, loopVars, netVars, lost>>

\* or dropped when there has been no room for five seconds.
GiveUp ==
  /\ Made
  /\ Len(channel) = ChanCap
  /\ lost' = lost \cup {Len(sent')}
  /\ UNCHANGED <<dirVars, pending, channel, loopVars, netVars>>

-------------------------------------------------------------------------------
(* The main loop.                                                            *)

\* Start of the watcher returns after its first events, and watchLoop runs
\* while the other watchers start.
StartReturns ==
  /\ loop = "start" /\ todo = <<>>
  /\ loop' = "starting"
  /\ UNCHANGED <<dirVars, pending, watchVars, channel, hand, netVars, lost>>

StartMain ==
  /\ loop = "starting"
  /\ loop' = "select"
  /\ UNCHANGED <<dirVars, pending, watchVars, channel, hand, netVars, lost>>

\* Metrics are sent by the loop itself, which waits for the answer.
TakeMetrics ==
  /\ loop = "select"
  /\ loop' = "metrics"
  /\ UNCHANGED <<dirVars, pending, watchVars, channel, hand, netVars, lost>>

MetricsDone ==
  /\ loop = "metrics"
  /\ loop' = "select"
  /\ UNCHANGED <<dirVars, pending, watchVars, channel, hand, netVars, lost>>

Take ==
  /\ loop = "select" /\ channel # <<>>
  /\ hand' = Head(channel) /\ channel' = Tail(channel)
  /\ loop' = "acquire"
  /\ UNCHANGED <<dirVars, pending, watchVars, netVars, lost>>

TakeOther ==
  /\ loop = "select"
  /\ hand' \in Others \ {g.event : g \in sending}
  /\ loop' = "acquire"
  /\ UNCHANGED <<dirVars, pending, watchVars, channel, netVars, lost>>

\* requestSem <- struct{}{}, then a goroutine of its own for the event.
Acquire ==
  /\ loop = "acquire" /\ Cardinality(sending) < Concurrency
  /\ sending' = sending \cup {[event |-> hand, try |-> 0]}
  /\ loop' = "select" /\ hand' = None
  /\ UNCHANGED <<dirVars, pending, watchVars, channel, behind, handled, shown, faults,
                 lost>>

\* os.Exit in the select.
Exit ==
  /\ loop = "select"
  /\ loop' = "exited" /\ sending' = {} /\ channel' = <<>>
  /\ UNCHANGED <<dirVars, pending, watchVars, hand, behind, handled, shown, faults,
                 lost>>

-------------------------------------------------------------------------------
(* A goroutine that sends, and the server.                                   *)

\* A page that is open has its messages in a list, newest first, and keeps for
\* each workspace the last summary that it finds there.
Shows(e) ==
  shown' = [p \in Parts |->
              IF kind = "workspace" /\ shown[p] = None
                 /\ sent[e].summary /\ sent[e][p] # None
              THEN e ELSE shown[p]]

Arrives(e) ==
  IF e \in Others THEN UNCHANGED <<handled, shown>>
  ELSE handled' = handled \cup {e} /\ Shows(e)

\* Mutant: the slot is not given back.
AnsweredKeepsSlot(g) ==
  /\ Arrives(g.event)
  /\ g.event \notin handled
  /\ UNCHANGED <<dirVars, pending, watchVars, channel, loopVars, sending, behind,
                 faults, lost>>

\* The server has answered, and the slot is free again.
Answered(g) ==
  /\ Arrives(g.event)
  /\ sending' = sending \ {g}
  /\ UNCHANGED <<dirVars, pending, watchVars, channel, loopVars, behind, faults, lost>>

\* sendJSON logs an answer that is an error and returns none.
Refused(g) ==
  /\ faults < MaxFaults[kind] /\ faults' = faults + 1
  /\ lost' = lost \cup ({g.event} \ Others)
  /\ sending' = sending \ {g}
  /\ UNCHANGED <<dirVars, pending, watchVars, channel, loopVars, behind, handled,
                 shown>>

\* There is no answer in time.  The client tries again, as often as it may.
Again(g) ==
  IF g.try < Retries
  THEN sending' = (sending \ {g}) \cup {[g EXCEPT !.try = @ + 1]} /\ UNCHANGED lost
  ELSE sending' = sending \ {g} /\ lost' = lost \cup ({g.event} \ Others)

\* Mutant: an event that failed goes back into the channel.
TimedOutAgain(g) ==
  /\ faults < MaxFaults[kind] /\ faults' = faults + 1
  /\ g.event \notin Others /\ Len(channel) < ChanCap
  /\ channel' = Append(channel, g.event)
  /\ sending' = sending \ {g}
  /\ UNCHANGED <<dirVars, pending, watchVars, loopVars, handled, shown, behind, lost>>

\* The request has not reached the server, has been handled by it, or is
\* still there.
TimedOut(g) ==
  /\ faults < MaxFaults[kind] /\ faults' = faults + 1
  /\ \/ UNCHANGED <<handled, shown, behind>>
     \/ Arrives(g.event) /\ UNCHANGED behind
     \/ behind' = behind \cup ({g.event} \ Others) /\ UNCHANGED <<handled, shown>>
  /\ Again(g)
  /\ UNCHANGED <<dirVars, pending, watchVars, channel, loopVars>>

ArrivesLate ==
  \E e \in behind :
    /\ Arrives(e)
    /\ behind' = behind \ {e}
    /\ UNCHANGED <<dirVars, pending, watchVars, channel, loopVars, sending, faults,
                   lost>>

Send(g) == Answered(g) \/ Refused(g) \/ TimedOut(g)

Watch ==
  \/ NoticeJobs \/ NoticeSessions \/ NoticeWorkspace
  \/ List \/ ReadPart \/ Emit \/ GiveUp

Next ==
  \/ Truncate \/ Fill \/ ChangeLate \/ AppearLate
  \/ Watch
  \/ StartReturns \/ StartMain \/ TakeMetrics \/ MetricsDone
  \/ Take \/ TakeOther \/ Acquire \/ Exit
  \/ \E g \in sending : Send(g)
  \/ ArrivesLate

\* Goroutines run when they can, a request ends by its timeout at the latest,
\* and a select, which chooses at random, takes from every channel that is
\* ready again and again.  A watcher makes finitely many events, so that each
\* of its goroutines ends if one of them always does.
Fairness ==
  /\ WF_vars(Watch)
  /\ WF_vars(StartReturns \/ StartMain \/ MetricsDone \/ Acquire)
  /\ SF_vars(Take)
  /\ WF_vars(\E g \in sending : g.event \in Others /\ Send(g))
  /\ WF_vars(\E g \in sending : g.event \notin Others /\ Send(g))

Spec == Init /\ [][Next]_vars
FairSpec == Spec /\ Fairness

-------------------------------------------------------------------------------
(* Properties.                                                               *)

\* Types; the channel and the semaphore keep their limits.
TypeOK ==
  /\ kind \in Kinds /\ watched \in BOOLEAN
  /\ file \in [index : Nat, late : Nat, torn : BOOLEAN]
  /\ pending \in Seq(Parts \cup {"new"})
  /\ todo \in Seq(Parts \cup {"list", "emit", "changed"})
  /\ \A n \in DOMAIN sent :
       sent[n] \in [index : Nat \cup {None, Torn}, late : Nat \cup {None},
                    summary : BOOLEAN]
  /\ channel \in Seq(DOMAIN sent) /\ Len(channel) <= ChanCap
  /\ loop \in {"start", "starting", "select", "metrics", "acquire", "exited"}
  /\ (loop = "acquire") = (hand \in DOMAIN sent \cup Others)
  /\ Cardinality(sending) <= Concurrency
  /\ \A g \in sending : g.event \in DOMAIN sent \cup Others /\ g.try \in 0..Retries
  /\ behind \subseteq DOMAIN sent
  /\ handled \subseteq DOMAIN sent /\ lost \subseteq DOMAIN sent
  /\ shown \in [Parts -> handled \cup {None}]

\* Nobody has anything to do before the files change again.
Quiet ==
  /\ loop = "select" /\ pending = <<>> /\ todo = <<>> /\ channel = <<>>
  /\ sending = {} /\ behind = {} /\ ~file.torn

\* At rest the server has been told what is in the files now, unless that
\* event was dropped, refused or given up, or the change was in a directory
\* that appeared after the start.  It matters that the files are read after
\* the notification is received, and that a torn file makes another one.
NewestTold ==
  Quiet => \A p \in Parts :
             \/ p = "late" /\ ~watched
             \/ \E n \in handled \cup lost : sent[n][p] = file[p]

\* An event that has no slot yet is newer than all that the server has
\* handled or the client has in hand: only events that are being sent at the
\* same time, a request left behind included, can overtake each other.
\* Readers take the last event they find for the state of the files.
OvertakesInFlightOnly ==
  \A m \in (Range(channel) \cup {hand}) \cap DOMAIN sent :
    \A n \in handled \cup behind \cup {g.event : g \in sending} :
      n \notin Others => n < m

\* What is written to the index is told some day, or its event is lost, unless
\* it changes again or the agent exits.
EventuallyTold ==
  \A v \in 1..(1 + Max({MaxChanges[k] : k \in Kinds})) :
    (file.index = v) ~>
      \/ \E n \in handled \cup lost : sent[n].index = v
      \/ file.index # v \/ file.torn \/ loop = "exited"
\* "We can use a map to keep the latest event per agent" (App.tsx): at rest the
\* page of the workspaces shows their files as they are.
WorkspaceShowsLatest ==
  Quiet /\ kind = "workspace" /\ lost = {} =>
    \A p \in Parts : shown[p] # None => sent[shown[p]][p] = file[p]
===============================================================================
