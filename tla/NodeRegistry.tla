------------------------------ MODULE NodeRegistry ------------------------------
(***************************************************************************)
(* The registration of agents: main of the agent calls RegisterNode before *)
(* it starts anything else (services/agent/main.go, client/client.go), and *)
(* the server looks the node up and then updates or creates its row        *)
(* (services/server/api/nodes.go).                                         *)
(*                                                                         *)
(* The agents of the model run under one hostname, which is the node id;   *)
(* the unique index leaves them one row.  What an agent registers (its     *)
(* address, say) may change with each life, so <<agent, life>> stands for  *)
(* it.  The handlers interleave between their statements, since the one    *)
(* connection of the database is free there.                               *)
(***************************************************************************)
EXTENDS Naturals

CONSTANTS
  Agents,    \* processes under one hostname
  Attempts,  \* 5 calls of RegisterNode, each with the retries of resty
  MaxLives,  \* bound: lives of each agent
  MaxErrors, \* bound: errors of the database and restarts of the server
  NoRow      \* the table holds no row for the node

ASSUME RegistryAssumption ==
  /\ Attempts \in Nat \ {0}
  /\ MaxLives \in [Agents -> Nat] /\ MaxErrors \in Nat
  /\ NoRow \notin Agents \X Nat

VARIABLES
  phase,     \* of each agent: down, idle (about to ask), waiting, running
  life,      \* of each agent: how often it was started
  attempt,   \* of each agent: requests made in this life
  answer,    \* of each agent: none, ok, refused (HTTP 500), nothing
  requests,  \* requests the server is at, and answers under way
  row,       \* the row of the node, by what was registered
  errors,    \* errors of the database and restarts of the server so far
  hadRow,    \* history: agents that were started when there was a row
  abandoned, \* history: infos of requests given up while the server ran them
  dbFailed   \* history: agents whose request met an error of the database

agentVars == <<phase, life, attempt, answer>>
history == <<hadRow, abandoned, dbFailed>>
registryVars == <<phase, life, attempt, answer, requests, row, errors, hadRow, abandoned,
          dbFailed>>

Infos == Agents \X Nat
Running == {"asked", "update", "create"}
Requests == [agent : Agents, life : Nat, no : 1..Attempts,
             step : Running \cup {"ok", "refused"}]

Info(r) == <<r.agent, r.life>>
\* The request whose answer the agent waits for.
Awaited(r) ==
  /\ phase[r.agent] = "waiting"
  /\ r.life = life[r.agent] /\ r.no = attempt[r.agent]

RegistryInit ==
  /\ phase = [a \in Agents |-> "down"]
  /\ life = [a \in Agents |-> 0]
  /\ attempt = [a \in Agents |-> 0]
  /\ answer = [a \in Agents |-> "none"]
  /\ requests = {} /\ row = NoRow /\ errors = 0
  /\ hadRow = {} /\ abandoned = {} /\ dbFailed = {}

-------------------------------------------------------------------------------
(* The agent.                                                                *)

Launch(a) ==
  /\ phase[a] = "down" /\ life[a] < MaxLives[a]
  /\ phase' = [phase EXCEPT ![a] = "idle"]
  /\ life' = [life EXCEPT ![a] = @ + 1]
  /\ attempt' = [attempt EXCEPT ![a] = 0]
  /\ answer' = [answer EXCEPT ![a] = "none"]
  /\ hadRow' = IF row # NoRow THEN hadRow \cup {a} ELSE hadRow \ {a}
  /\ dbFailed' = dbFailed \ {a}
  /\ UNCHANGED <<requests, row, errors, abandoned>>

Ask(a) ==
  /\ phase[a] = "idle"
  /\ attempt' = [attempt EXCEPT ![a] = @ + 1]
  /\ phase' = [phase EXCEPT ![a] = "waiting"]
  /\ requests' = requests \cup {[agent |-> a, life |-> life[a], no |-> attempt[a] + 1,
                                 step |-> "asked"]}
  /\ UNCHANGED <<life, answer, row, errors, history>>

\* What follows an attempt that got no answer: the next one, or main goes on.
NextAttempt(a, made) ==
  /\ phase' = [phase EXCEPT ![a] = IF made = Attempts THEN "running" ELSE "idle"]
  /\ answer' = [answer EXCEPT ![a] = IF made = Attempts THEN "nothing" ELSE "none"]

\* The request does not reach the server.
Unreachable(a) ==
  /\ phase[a] = "idle"
  /\ attempt' = [attempt EXCEPT ![a] = @ + 1]
  /\ NextAttempt(a, attempt[a] + 1)
  /\ UNCHANGED <<life, requests, row, errors, history>>

\* A handler runs on when its client is gone; an answer gets lost.
Leave(a) ==
  /\ requests' = {r \in requests : r.agent = a => r.step \in Running}
  /\ abandoned' = abandoned \cup {Info(r) : r \in {q \in requests' : q.agent = a}}

\* The time limit of the client, or a broken connection.
NoAnswer(a) ==
  /\ phase[a] = "waiting"
  /\ NextAttempt(a, attempt[a])
  /\ Leave(a)
  /\ UNCHANGED <<life, attempt, row, errors, hadRow, dbFailed>>

\* An answer of any status is a success to RegisterNode, and ends the loop of
\* main.
Answer(r) ==
  /\ r \in requests /\ r.step \in {"ok", "refused"}
  /\ requests' = requests \ {r}
  /\ phase' = [phase EXCEPT ![r.agent] = "running"]
  /\ answer' = [answer EXCEPT ![r.agent] = r.step]
  /\ UNCHANGED <<life, attempt, row, errors, history>>

\* The last life of the bound is not ended.
Crash(a) ==
  /\ phase[a] # "down" /\ life[a] < MaxLives[a]
  /\ phase' = [phase EXCEPT ![a] = "down"]
  /\ answer' = [answer EXCEPT ![a] = "none"]
  /\ Leave(a)
  /\ UNCHANGED <<life, attempt, row, errors, hadRow, dbFailed>>

-------------------------------------------------------------------------------
(* The handler, between whose two statements others may run.                 *)

Become(r, step) == requests' = (requests \ {r}) \cup {[r EXCEPT !.step = step]}

\* Nobody waits for the answer to a request that was given up.
Reply(r, step) == IF Awaited(r) THEN Become(r, step) ELSE requests' = requests \ {r}

Lookup(r) ==
  /\ r \in requests /\ r.step = "asked"
  /\ Become(r, IF row = NoRow THEN "create" ELSE "update")
  /\ UNCHANGED <<agentVars, row, errors, history>>

\* Any error of the query is taken for a missing row.
LookupFails(r) ==
  /\ r \in requests /\ r.step = "asked"
  /\ errors < MaxErrors /\ errors' = errors + 1
  /\ dbFailed' = dbFailed \cup {r.agent}
  /\ Become(r, "create")
  /\ UNCHANGED <<agentVars, row, hadRow, abandoned>>

\* Mutant: the first row is kept.
SaveNothing(r) ==
  /\ r \in requests /\ r.step = "update"
  /\ Reply(r, "ok")
  /\ UNCHANGED <<agentVars, row, errors, history>>

\* Save writes all columns.
Save(r) ==
  /\ r \in requests /\ r.step = "update"
  /\ row' = Info(r)
  /\ Reply(r, "ok")
  /\ UNCHANGED <<agentVars, errors, history>>

\* The unique index refuses a second row.
Create(r) ==
  /\ r \in requests /\ r.step = "create"
  /\ IF row = NoRow THEN row' = Info(r) /\ Reply(r, "ok")
                    ELSE UNCHANGED row /\ Reply(r, "refused")
  /\ UNCHANGED <<agentVars, errors, history>>

WriteFails(r) ==
  /\ r \in requests /\ r.step \in {"update", "create"}
  /\ errors < MaxErrors /\ errors' = errors + 1
  /\ dbFailed' = dbFailed \cup {r.agent}
  /\ Reply(r, "refused")
  /\ UNCHANGED <<agentVars, row, hadRow, abandoned>>

\* Requests and answers under way are lost, the table is not.
ServerRestarts ==
  /\ errors < MaxErrors /\ errors' = errors + 1
  /\ requests # {} /\ requests' = {}
  /\ UNCHANGED <<agentVars, row, history>>

Handle(r) ==
  Lookup(r) \/ LookupFails(r) \/ Save(r) \/ Create(r) \/ WriteFails(r)

RegistryNext ==
  \/ \E a \in Agents :
       Launch(a) \/ Ask(a) \/ Unreachable(a) \/ NoAnswer(a) \/ Crash(a)
  \/ \E r \in requests : Handle(r) \/ Answer(r)
  \/ ServerRestarts

RegistrySpec == RegistryInit /\ [][RegistryNext]_registryVars

-------------------------------------------------------------------------------
(* Properties.                                                               *)

\* Types; an agent makes no more attempts than main and resty allow.
RegistryTypeOK ==
  /\ phase \in [Agents -> {"down", "idle", "waiting", "running"}]
  /\ life \in [Agents -> Nat] /\ (\A a \in Agents : life[a] <= MaxLives[a])
  /\ attempt \in [Agents -> 0..Attempts]
  /\ answer \in [Agents -> {"none", "ok", "refused", "nothing"}]
  /\ requests \subseteq Requests
  /\ row \in Infos \cup {NoRow}
  /\ errors \in 0..MaxErrors
  /\ hadRow \subseteq Agents /\ abandoned \subseteq Infos /\ dbFailed \subseteq Agents

\* An agent that was answered 200 by RegisterNode finds in its row what it
\* registered last, unless another agent of that hostname overwrote it, or an
\* earlier request of its own that it had given up while the server ran it.
RowIsNewest ==
  \A a \in Agents : answer[a] = "ok" =>
    /\ row # NoRow
    /\ row[1] = a => row[2] = life[a] \/ row \in abandoned

\* Without an error of the database only a race of first registrations makes
\* the server refuse an agent: it found no row when it was started, and there
\* is one now.
RefusedOnlyAtFirst ==
  \A a \in Agents : answer[a] = "refused" =>
    a \in dbFailed \/ (a \notin hadRow /\ row # NoRow)

\* What the answer to an agent says of the row stays true.
AnswersExplained == RowIsNewest /\ RefusedOnlyAtFirst
===============================================================================
