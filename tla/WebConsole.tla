------------------------------ MODULE WebConsole ------------------------------
(***************************************************************************)
(* The web application (App of web/src/App.tsx) with one of its tabs open: *)
(* sessions, trace, cost, logs, metrics or security.  It mounts a tab when *)
(* the tab is chosen and unmounts the one before, which loses its state    *)
(* and ignores late answers, so the tabs share nothing but the messages of *)
(* the socket, which each module takes as they come; the variables of the  *)
(* tabs that are not open rest.                                            *)
(***************************************************************************)
EXTENDS SessionsTab, TraceTab, PolledTabs

VARIABLE tab

vars == <<tab, sessionsVars, traceVars, polledVars>>

Tabs == {"sessions", "trace", "cost", "logs", "metrics", "security"}

\* The pages with a tree, and those that poll, when they are not open.
TraceRests ==
  /\ page = "trace"
  /\ LET first == CHOOSE d \in Data[page] : TRUE IN kin = first.kin /\ spans = first.spans
  /\ listing = "answered" /\ listed = {}
  /\ selected = 0 /\ tree = NoTree /\ loadingTree = FALSE
  /\ queries = {} /\ queried = 0 /\ answered = 0
  /\ crashed = FALSE /\ errors = {}

PolledRests ==
  /\ pane = "security" /\ version = 0
  /\ shown = [p \in Panels["security"] |-> 0]
  /\ polls = {} /\ polled = 1 /\ waiting = FALSE
  /\ gateway = 0 /\ face = "other"

Init ==
  /\ tab \in Tabs
  /\ SessionsInit
  /\ IF tab \in Pages THEN TraceInit /\ page = tab ELSE TraceRests
  /\ IF tab \in Panes THEN PolledInit /\ pane = tab ELSE PolledRests

SessionsStep == tab = "sessions" /\ SessionsNext /\ UNCHANGED <<tab, traceVars, polledVars>>
TraceStep == tab \in Pages /\ TraceNext /\ UNCHANGED <<tab, sessionsVars, polledVars>>
PolledStep == tab \in Panes /\ PolledNext /\ UNCHANGED <<tab, sessionsVars, traceVars>>

Next == SessionsStep \/ TraceStep \/ PolledStep

Spec == Init /\ [][Next]_vars

\* A request is answered or fails at last, in whatever order, for the server
\* answers each and the browser does not wait for ever.
TimelineEnds(n) ==
  tab = "sessions" /\ \E r \in asks :
    r.n = n /\ (TimelineAnswered(r) \/ TimelineFails(r))
TreeEnds(n) ==
  tab \in Pages /\ \E q \in queries :
    q.n = n /\ (TreeArrives(q) \/ TreeError(q) \/ TreeFails(q))
PollEnds(n) ==
  tab \in Panes /\ \E r \in polls : r.n = n /\ (PollAnswered(r) \/ PollFails(r))

Fairness ==
  /\ \A n \in 1..MaxAsks :
       WF_vars(TimelineEnds(n) /\ UNCHANGED <<tab, traceVars, polledVars>>)
  /\ \A n \in 1..MaxSelects :
       WF_vars(TreeEnds(n) /\ UNCHANGED <<tab, sessionsVars, polledVars>>)
  /\ \A n \in 1..MaxPolls :
       WF_vars(PollEnds(n) /\ UNCHANGED <<tab, sessionsVars, traceVars>>)

FairSpec == Spec /\ Fairness

-------------------------------------------------------------------------------
(* Properties.                                                               *)

\* Types of the variables of the open tab and of the others.
TypeOK == tab \in Tabs /\ SessionsTypeOK /\ TraceTypeOK /\ PolledTypeOK

\* A page that is not loading shows what belongs to the selection, a session
\* or a run, or nothing, unless the answer to an earlier question came last.
ShownIsSelected == TimelineOfSelected /\ TreeOfSelected

\* What a panel of the polling pages shows goes back only for the reasons that
\* GoesForward gives.
PollsForward == [][GoesForward]_vars

\* No page goes on loading for ever, however its questions are answered or
\* fail and whatever is selected meanwhile, unless it has gone blank.
Busy == loading \/ (loadingTree /\ ~crashed) \/ waiting
PagesSettle == Busy ~> ~Busy
===============================================================================
