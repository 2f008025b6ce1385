---------------------------- MODULE MCAgentDispatch ----------------------------
EXTENDS AgentDispatch

\* The files change once while the agent runs.  What becomes of a request does
\* not depend on the kind of the watcher, so that it is enough to let those of
\* the first two fail; a workspace alone makes up to eight events.
MCMaxChanges == [k \in Kinds |-> 1]
MCMaxFaults == [k \in Kinds |-> IF k = "workspace" THEN 0 ELSE 1]
NoFaults == [k \in Kinds |-> 0]
===============================================================================
