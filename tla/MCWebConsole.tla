----------------------------- MODULE MCWebConsole -----------------------------
(* WebConsole on small instances, for TLC.                                   *)
EXTENDS WebConsole

(* Two events of one session that differ only in the fraction of the second, *)
(* which the first of them does not have, and a session without events that  *)
(* is of another agent.                                                      *)
CONSTANTS a, b, e1, e2
MCSessionOf == [e \in {e1, e2} |-> a]
MCAgentOf == [s \in {a, b} |-> s]
MCLookOf == [e \in {e1, e2} |-> e1]
MCLists == {[s \in {a, b} |-> IF s = x THEN "history" ELSE "active"] : x \in {a, NoOne}}

(* Three runs of a session, a child of it and a grandchild, each of which    *)
(* may or may not name its parent; and traces of five spans.                 *)
CONSTANTS main, child, grandchild
MCRuns == 1..3
ParentOf == [s \in {main, child, grandchild} |-> IF s = grandchild THEN child ELSE IF s = child THEN main ELSE NoKey]
Families ==
  {[session |-> f, parentSession |-> [r \in MCRuns |-> IF r \in L THEN ParentOf[f[r]] ELSE NoKey]] :
     f \in [MCRuns -> {main, child, grandchild}], L \in SUBSET MCRuns}
Alone == [parent |-> <<0>>, kind |-> <<"run">>, usage |-> <<0>>]
OneFamily == [session |-> <<main, main, main>>, parentSession |-> <<NoKey, NoKey, NoKey>>]

(* A run with four spans, a subagent with a run and a call among them.       *)
Traces ==
  {[parent |-> <<0, p[1], p[2], p[3], p[4]>>,
    kind |-> <<"run", k[1], k[2], k[3], k[4]>>,
    usage |-> [s \in 1..5 |-> IF s > 1 /\ k[s - 1] = "llm" THEN s ELSE 0]] :
     p \in {q \in [1..4 -> 0..4] : \A i \in 1..4 : q[i] <= i /\ (i < 4 => q[i] >= 1)},
     k \in {<<"llm", "fallback", "run", "llm">>, <<"tool", "subagent", "run", "llm">>}}

MCData == [trace |-> {[kin |-> f, spans |-> Alone] : f \in Families},
           cost |-> {[kin |-> OneFamily, spans |-> t] : t \in Traces}]
===============================================================================
