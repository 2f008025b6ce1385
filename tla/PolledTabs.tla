------------------------------ MODULE PolledTabs ------------------------------
(***************************************************************************)
(* The pages that show what the server last answered: the logs page        *)
(* (LogsTab of web/src/App.tsx) and the metrics page                       *)
(* (components/OtelMetricsDashboard.tsx), which ask every five seconds,    *)
(* and the security page (OtelSecurityDashboard.tsx), which asks once.     *)
(*                                                                         *)
(* What a panel shows is a version of what the server holds; 0 is nothing  *)
(* at all.  An answer is read at some time between question and answer.    *)
(***************************************************************************)
EXTENDS Integers, FiniteSets

CONSTANTS
  MaxVersion, \* bound: how often what the server holds changes
  MaxPolls,   \* bound: how often a page asks
  MaxLines    \* bound: how many gateway messages the page holds

ASSUME PolledAssumption ==
  MaxVersion \in Nat /\ MaxPolls \in Nat \ {0} /\ MaxLines \in Nat

VARIABLES
  pane,     \* logs, metrics or security
  version,  \* of what the server holds
  shown,    \* the version that each panel shows
  polls,    \* requests under way
  polled,   \* how many there were
  waiting,  \* the page says that it is loading
  gateway,  \* logs: how many gateway messages the page has
  face      \* logs: what it rendered last, the empty state or the list;
            \* blank when rendering has thrown; other on the other pages

polledVars == <<pane, version, shown, polls, polled, waiting, gateway, face>>

Panes == {"logs", "metrics", "security"}
Panels == [logs |-> {"otelLogs"}, metrics |-> {"series", "overview", "health"},
           security |-> {"timeline"}]
AllPanels == UNION {Panels[p] : p \in Panes}

\* These panels ignore an answer that is not an array.  The others take the
\* error of a server for an object without contents.
ChecksArray == {"otelLogs", "series"}

Face(lines, sh) ==
  IF lines = 0 /\ sh["otelLogs"] = 0 THEN "empty" ELSE "list"

PolledInit ==
  /\ pane \in Panes
  /\ version \in 0..MaxVersion
  /\ shown = [p \in Panels[pane] |-> 0]
  /\ polls = {[n |-> 1, from |-> version, overtaken |-> FALSE]} /\ polled = 1
  /\ waiting = (pane # "logs")
  /\ gateway \in (IF pane = "logs" THEN 0..MaxLines ELSE {0})
  /\ face = (IF pane = "logs" THEN Face(gateway, shown) ELSE "other")

-------------------------------------------------------------------------------

\* Rendering.  The empty state returns before the last hook of the page: going
\* from it to the list, or back, changes how many hooks there are, and React
\* throws.  Nothing catches it: the whole application is gone.
Rerender ==
  face' = IF pane # "logs" \/ face = Face(gateway', shown') THEN face ELSE "blank"

\* The server stores something.
ServerChanges ==
  /\ version < MaxVersion
  /\ version' = version + 1
  /\ UNCHANGED <<pane, shown, polls, polled, waiting, gateway, face>>

\* A gateway_log_event arrives, with lines or without, or a snapshot takes the
\* place of the messages.
GatewayMessages(lines) ==
  /\ pane = "logs" /\ face # "blank"
  /\ gateway' = lines
  /\ UNCHANGED <<pane, version, shown, polls, polled, waiting>>
  /\ Rerender

\* The interval: another request, whether or not the last one is answered.
Poll ==
  /\ pane # "security" /\ face # "blank"
  /\ polled < MaxPolls /\ polled' = polled + 1
  /\ polls' = polls \cup {[n |-> polled + 1, from |-> version, overtaken |-> FALSE]}
  /\ UNCHANGED <<pane, version, shown, waiting, gateway, face>>

\* The other requests under way are answered after this one.
Done(r) == {[q EXCEPT !.overtaken = TRUE] : q \in polls \ {r}}

\* Not an array: an error of the server (-1), and the answer that there are no
\* metrics at all, which is null.
NoArray(p, v) == v = -1 \/ (p = "series" /\ v = 0)

\* What a panel shows after an answer: the version that was read, if any.
Taken(p, v) ==
  IF p \in ChecksArray /\ NoArray(p, v) THEN shown[p] ELSE IF v = -1 THEN 0 ELSE v

\* Mutant: an answer may come from a cache.
PollAnsweredCached(r) ==
  /\ face # "blank"
  /\ polls' = Done(r)
  /\ \E v \in [Panels[pane] -> {-1} \cup 0..version] :
       shown' = [p \in Panels[pane] |-> Taken(p, v[p])]
  /\ waiting' = FALSE
  /\ UNCHANGED <<pane, version, polled, gateway>>
  /\ Rerender

\* All requests of a poll are answered, each read at a time of its own.
PollAnswered(r) ==
  /\ face # "blank"
  /\ polls' = Done(r)
  /\ \E v \in [Panels[pane] -> {-1} \cup r.from..version] :
       shown' = [p \in Panels[pane] |-> Taken(p, v[p])]
  /\ waiting' = FALSE
  /\ UNCHANGED <<pane, version, polled, gateway>>
  /\ Rerender

\* Mutant: a failure leaves the page loading.
PollFailsWaiting(r) ==
  /\ face # "blank"
  /\ polls' = Done(r)
  /\ UNCHANGED <<pane, version, shown, polled, waiting, gateway, face>>

\* One of the requests of a poll fails: nothing of it is taken.
PollFails(r) ==
  /\ face # "blank"
  /\ polls' = Done(r)
  /\ waiting' = FALSE
  /\ UNCHANGED <<pane, version, shown, polled, gateway, face>>

PolledNext ==
  \/ ServerChanges \/ Poll
  \/ \E n \in 0..MaxLines : GatewayMessages(n)
  \/ \E r \in polls : PollAnswered(r) \/ PollFails(r)

PolledSpec == PolledInit /\ [][PolledNext]_polledVars

-------------------------------------------------------------------------------
(* Properties.                                                               *)

\* Types of the variables.
PolledTypeOK ==
  /\ pane \in Panes /\ version \in 0..MaxVersion
  /\ shown \in [Panels[pane] -> 0..version]
  /\ polled \in 1..MaxPolls
  /\ polls \subseteq [n : 1..polled, from : 0..version, overtaken : BOOLEAN]
  /\ waiting \in BOOLEAN /\ gateway \in 0..MaxLines
  /\ face \in {"empty", "list", "blank", "other"}

\* What a panel shows never goes back, unless it takes the answer to a request
\* that was under way when another one was answered, or takes an error of the
\* server for an empty answer.
GoesForward ==
  \A p \in DOMAIN shown :
    shown'[p] < shown[p] =>
      \/ p \notin ChecksArray /\ shown'[p] = 0
      \/ \E r \in polls : r.overtaken /\ \A q \in polls' : q.n # r.n

\* The empty state promises that logs will stream there: when there are logs,
\* the page lists them.
LogsStream == pane = "logs" /\ Face(gateway, shown) = "list" => face = "list"
===============================================================================
