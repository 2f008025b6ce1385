------------------------------ MODULE SessionsTab ------------------------------
(***************************************************************************)
(* The sessions page (SessionsTab of web/src/App.tsx): the list of         *)
(* sessions, the timeline of the selected one, which is asked of the       *)
(* server (api/timeline.go), and the events that come over the socket      *)
(* meanwhile and are appended to it (api/events.go).                       *)
(*                                                                         *)
(* React runs the effects of the page after a render, with the values of   *)
(* that render: several messages may have come since the last one.  An     *)
(* answer of the server lists the rows there were at some time between the *)
(* question and the answer, so reading them is no step of its own.         *)
(*                                                                         *)
(* The messages are kept by the application, not by the page: a page that  *)
(* is opened late is one that renders for the first time late.             *)
(***************************************************************************)
EXTENDS Integers, Sequences, FiniteSets

CONSTANTS
  Events,        \* agent events
  Sessions,
  AgentOf,       \* the agent of a session
  SessionOf,     \* the session of an event
  LookOf,        \* an event that reads the same but for the fraction of the
                 \* second: one for all that do
  WholeSecond,   \* events whose timestamp has no such fraction
  Lists,         \* the lists of sessions it may hear: where each is listed
  NoOne,         \* no session, no event, no list
  MaxAsks,       \* bound: how many timelines the page asks for
  MaxTurns       \* bound: how many lists and snapshots it hears, and how often
                 \* it is asked for another view or agent

ASSUME SessionsAssumption ==
  /\ SessionOf \in [Events -> Sessions] /\ LookOf \in [Events -> Events]
  /\ \A e \in Events : SessionOf[LookOf[e]] = SessionOf[e]
  /\ WholeSecond \subseteq Events
  /\ Lists \subseteq [Sessions -> {"active", "history", "absent"}]
  /\ DOMAIN AgentOf = Sessions
  /\ NoOne \notin Events \cup Sessions \cup Lists \cup {AgentOf[s] : s \in Sessions}
  /\ MaxAsks \in Nat /\ MaxTurns \in Nat

VARIABLES
  table,     \* the rows of agent_events of each session, in the order of
             \* their ids
  heard,     \* the events whose broadcast has reached the page
  head,      \* messages[0], if it is an agent event: the event and its form
  list,      \* the newest sessions_event among the messages
  changed,   \* what differs from the last render: messages, map, state
  map,       \* sessionsMap
  view,      \* activeView
  agent,     \* activeAgent, NoOne for all
  activeId,
  was,       \* activeSession of the last render
  timeline, loading,
  asks,      \* requests for timelines under way
  asked,     \* how many there were
  applied,   \* history: the number of the request answered last
  due,       \* history: events of activeId that came since that answer and
             \* that no later message hid before they were rendered
  turns      \* how many lists, snapshots and choices there were

sessionsVars == <<table, heard, head, list, changed, map, view, agent, activeId,
                  was, timeline, loading, asks, asked, applied, due, turns>>

Views == {"active", "history"}
Agents == {AgentOf[s] : s \in Sessions}
\* A broadcast gives the time in seconds, a row or a snapshot to the
\* nanosecond.
Entry == [ev : Events, form : {"cast", "row"}]

SessionsInit ==
  /\ table = [s \in Sessions |-> <<>>] /\ heard = {} /\ head = NoOne /\ list = NoOne
  /\ changed = {}
  /\ map = [s \in Sessions |-> "absent"] /\ view = "active" /\ agent = NoOne
  /\ activeId = NoOne /\ was = NoOne
  /\ timeline = <<>> /\ loading = FALSE
  /\ asks = {} /\ asked = 0 /\ applied = 0 /\ due = {}
  /\ turns = 0

-------------------------------------------------------------------------------
(* The messages.                                                             *)

Turn == turns < MaxTurns /\ turns' = turns + 1

\* The newest message, when its effects have not run yet.
Unrendered == IF "messages" \in changed /\ head # NoOne THEN {head.ev} ELSE {}

\* messages[0] becomes m.
NewHead(m) ==
  /\ head' = m
  /\ changed' = changed \cup {"messages"}
  /\ due' = (due \ Unrendered) \cup
              (IF m # NoOne /\ m.form = "cast" /\ SessionOf[m.ev] = activeId
               THEN {m.ev} ELSE {})

pageKeeps == <<map, view, agent, activeId, was, timeline, loading, asks, asked, applied>>

\* The processor stores an event, before or after it is broadcast.
StoreEvent(e) ==
  /\ \A i \in DOMAIN table[SessionOf[e]] : table[SessionOf[e]][i] # e
  /\ table' = [table EXCEPT ![SessionOf[e]] = Append(@, e)]
  /\ UNCHANGED <<heard, head, list, changed, due, turns, pageKeeps>>

\* An agent event arrives.
HearEvent(e) ==
  /\ e \notin heard
  /\ heard' = heard \cup {e}
  /\ NewHead([ev |-> e, form |-> "cast"])
  /\ UNCHANGED <<table, list, turns, pageKeeps>>

\* A sessions_event arrives.
HearList(l) ==
  /\ Turn
  /\ list' = l
  /\ NewHead(NoOne)
  /\ UNCHANGED <<table, heard, pageKeeps>>

\* A message of another kind arrives.
HearOther ==
  /\ head # NoOne
  /\ NewHead(NoOne)
  /\ UNCHANGED <<table, heard, list, turns, pageKeeps>>

\* The page has reconnected, and a snapshot takes the place of the messages:
\* agent events are its newest ones, and read like rows.
HearSnapshot ==
  /\ Turn
  /\ \E s \in Sessions : \E i \in DOMAIN table[s] :
       NewHead([ev |-> table[s][i], form |-> "row"])
  /\ UNCHANGED <<table, heard, list, pageKeeps>>

-------------------------------------------------------------------------------
(* The page.                                                                 *)

\* displaySessions, and the one of them that is selected.
Displayed == {s \in Sessions : map[s] = view /\ agent \in {NoOne, AgentOf[s]}}
ActiveSession == IF activeId \in Displayed THEN activeId ELSE NoOne

\* loadTimeline.
LoadTimeline(s) ==
  /\ asked < MaxAsks
  /\ activeId' = s /\ loading' = TRUE
  /\ asked' = asked + 1
  /\ asks' = asks \cup {[n |-> asked + 1, of |-> s, from |-> Len(table[s])]}

\* Mutant: a row and a broadcast never read alike.
SignatureOfForm(x) == <<LookOf[x.ev], x.form>>

\* timelineEventSignature: all that an event says, and its time as written (a
\* snapshot also leaves the duration out, which the agent never gives).
Signature(x) ==
  IF x.form = "row" /\ x.ev \notin WholeSecond THEN <<x.ev, "row">>
  ELSE <<LookOf[x.ev], "cast">>

Shows(x) == \E i \in DOMAIN timeline : Signature(timeline[i]) = Signature(x)

\* The newest message is an event of the selected session.
Concerns(s) == head # NoOne /\ s # NoOne /\ SessionOf[head.ev] = s

\* Mutant: the third effect forgets that the selected session has changed.
RenderStale ==
  /\ changed # {}
  /\ map' = IF "messages" \in changed /\ list # NoOne THEN list ELSE map
  /\ IF activeId = NoOne /\ Displayed # {}
     THEN \E s \in Displayed : LoadTimeline(s)
     ELSE UNCHANGED <<activeId, loading, asked, asks>>
  /\ timeline' =
       IF Concerns(was) /\ ~Shows(head) THEN Append(timeline, head) ELSE timeline
  /\ was' = ActiveSession
  /\ due' = {e \in due : SessionOf[e] = ActiveSession}
  /\ changed' = (IF "messages" \in changed /\ list # NoOne THEN {"map"} ELSE {})
                  \cup (IF activeId' # activeId THEN {"state"} ELSE {})
  /\ UNCHANGED <<table, heard, head, list, view, agent, applied, turns>>

\* A render and its three effects: the list is taken over, the first session
\* displayed is selected if none is (times, by which they are sorted, are not
\* modelled), and messages[0] is appended if the timeline does not show it.
\* The last one runs when messages or activeSession, an object of the map, is
\* not what it was.
Render ==
  /\ changed # {}
  /\ map' = IF "messages" \in changed /\ list # NoOne THEN list ELSE map
  /\ IF activeId = NoOne /\ Displayed # {}
     THEN \E s \in Displayed : LoadTimeline(s)
     ELSE UNCHANGED <<activeId, loading, asked, asks>>
  /\ timeline' =
       IF /\ changed \cap {"messages", "map"} # {} \/ ActiveSession # was
          /\ Concerns(ActiveSession) /\ ~Shows(head)
       THEN Append(timeline, head) ELSE timeline
  /\ was' = ActiveSession
  /\ due' = {e \in due : SessionOf[e] = ActiveSession}
  /\ changed' = (IF "messages" \in changed /\ list # NoOne THEN {"map"} ELSE {})
                  \cup (IF activeId' # activeId THEN {"state"} ELSE {})
  /\ UNCHANGED <<table, heard, head, list, view, agent, applied, turns>>

feedKeeps == <<table, heard, head, list, map, was, timeline, applied, due>>

\* A session of the list is clicked.
SelectSession(s) ==
  /\ s \in Displayed
  /\ LoadTimeline(s)
  /\ changed' = changed \cup {"state"}
  /\ UNCHANGED <<view, agent, turns, feedKeeps>>

\* The active or the archived sessions are asked for, or, on a small screen,
\* the list (view stays then).
SelectView(v) ==
  /\ asked < MaxAsks /\ Turn
  /\ view' = v /\ activeId' = NoOne
  /\ v = view => activeId # NoOne
  /\ changed' = changed \cup {"state"}
  /\ UNCHANGED <<agent, loading, asks, asked, feedKeeps>>

\* The sessions of one agent, or of all, are asked for: there is a button for
\* each agent when there are several.  The selected session stays.
SelectAgent(x) ==
  /\ Turn
  /\ Cardinality({AgentOf[s] : s \in {s \in Sessions : map[s] # "absent"}}) > 1
  /\ x # agent /\ \E s \in Sessions : map[s] # "absent" /\ x \in {NoOne, AgentOf[s]}
  /\ agent' = x
  /\ changed' = changed \cup {"state"}
  /\ UNCHANGED <<view, activeId, loading, asks, asked, feedKeeps>>

\* GetSessionTimeline: the first n rows of a session.
RowsOf(s, n) == [i \in 1..n |-> [ev |-> table[s][i], form |-> "row"]]

\* The rows replace the timeline, whatever was asked or appended since.
TimelineAnswered(r) ==
  /\ asks' = asks \ {r}
  /\ \E n \in r.from..Len(table[r.of]) : timeline' = RowsOf(r.of, n)
  /\ loading' = FALSE /\ applied' = r.n
  /\ due' = due \cap Unrendered
  /\ UNCHANGED <<table, heard, head, list, changed, map, view, agent, activeId, was,
                 asked, turns>>

\* The server answers an error, or nothing.
TimelineFails(r) ==
  /\ asks' = asks \ {r}
  /\ timeline' = <<>> /\ loading' = FALSE /\ applied' = r.n
  /\ due' = due \cap Unrendered
  /\ UNCHANGED <<table, heard, head, list, changed, map, view, agent, activeId, was,
                 asked, turns>>

SessionsNext ==
  \/ \E e \in Events : StoreEvent(e) \/ HearEvent(e)
  \/ \E l \in Lists : HearList(l)
  \/ HearOther \/ HearSnapshot \/ Render
  \/ \E s \in Sessions : SelectSession(s)
  \/ \E v \in Views : SelectView(v)
  \/ \E x \in Agents \cup {NoOne} : SelectAgent(x)
  \/ \E r \in asks : TimelineAnswered(r) \/ TimelineFails(r)

SessionsSpec == SessionsInit /\ [][SessionsNext]_sessionsVars

-------------------------------------------------------------------------------
(* Properties.                                                               *)

\* Types of the variables; the page selects again as long as it may.
SessionsTypeOK ==
  /\ table \in [Sessions -> Seq(Events)] /\ heard \subseteq Events
  /\ head \in Entry \cup {NoOne}
  /\ list \in Lists \cup {NoOne}
  /\ changed \subseteq {"messages", "map", "state"}
  /\ map \in [Sessions -> Views \cup {"absent"}]
  /\ view \in Views /\ agent \in Agents \cup {NoOne}
  /\ activeId \in Sessions \cup {NoOne} /\ was \in Sessions \cup {NoOne}
  /\ timeline \in Seq(Entry) /\ loading \in BOOLEAN
  /\ asks \subseteq [n : 1..asked, of : Sessions, from : Nat]
  /\ \A r \in asks : r.from <= Len(table[r.of])
  /\ asked \in 0..MaxAsks /\ applied \in 0..asked
  /\ due \subseteq heard
  /\ turns \in 0..MaxTurns

\* An event is shown twice at most, however the page reconnects and reloads:
\* once as the server stored it and once as it was broadcast, and twice only
\* if its time has a fraction of a second, which the broadcast leaves out.
RepeatsExplained ==
  \A i, j \in DOMAIN timeline :
    i < j /\ timeline[i].ev = timeline[j].ev =>
      /\ timeline[i].form # timeline[j].form
      /\ timeline[i].ev \notin WholeSecond

\* An event of the selected session that arrives after the answer with its
\* timeline is shown, or another that reads the same, unless a further message
\* arrives before the page has rendered.
LiveEventsShown ==
  changed = {} => \A e \in due : \E i \in DOMAIN timeline :
                     LookOf[timeline[i].ev] = LookOf[e]

\* A page that is not loading shows the events of the selected session, unless
\* the answer to an earlier question came last.
TimelineOfSelected ==
  ~loading /\ activeId # NoOne /\ applied = asked =>
    \A i \in DOMAIN timeline : SessionOf[timeline[i].ev] = activeId
===============================================================================
