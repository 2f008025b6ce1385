---------------------------- MODULE MCNodeRegistry ----------------------------
EXTENDS NodeRegistry

CONSTANTS a1, a2

\* One agent that is restarted, and one that is not.
MCAgents == {a1, a2}
MCMaxLives == [a \in MCAgents |-> IF a = a1 THEN 2 ELSE 1]
===============================================================================
