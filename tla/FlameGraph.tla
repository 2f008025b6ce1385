------------------------------ MODULE FlameGraph ------------------------------
(***************************************************************************)
(* The flame graph of the cost page (buildFlameBlocks of                   *)
(* web/src/components/OtelCostDashboard.tsx) over the tree the server      *)
(* makes of the spans of a trace (GetTraceTree of api/otel_queries.go),    *)
(* with the figures the plugin puts on them.                               *)
(*                                                                         *)
(* A trace is a record: parent[s] is the span s was started under, 0 for   *)
(* none; kind[s] is run, llm, tool, subagent or fallback (a subagent span  *)
(* made from the result of sessions_spawn); usage[s] is what an LLM call   *)
(* used, taken to be the same in cost and in tokens.  Spans are numbered   *)
(* in the order of their start times, so a span comes after its parent.    *)
(***************************************************************************)
EXTENDS Integers, FiniteSets, FiniteSetsExt

Modes == {"cost", "tokens"}
SpansOf(t) == DOMAIN t.parent
IsTrace(t) ==
  /\ SpansOf(t) = 1..Cardinality(SpansOf(t))
  /\ \A s \in SpansOf(t) :
       /\ t.parent[s] \in 0..(s - 1)
       /\ t.kind[s] \in {"run", "llm", "tool", "subagent", "fallback"}
       /\ t.usage[s] \in Nat

SumOf(f(_), S) == MapThenSumSet(f, S)

\* The run a span belongs to: the nearest above it.
RunOf(t, s) ==
  LET run[i \in SpansOf(t)] ==
        IF t.kind[i] = "run" \/ t.parent[i] = 0 THEN i ELSE run[t.parent[i]]
  IN  run[s]

\* totalCostUsd and totalTokens of the statistics of a run.
UsageOfRun(t, r) ==
  SumOf(LAMBDA s : t.usage[s],
        {s \in SpansOf(t) : t.kind[s] = "llm" /\ RunOf(t, s) = r})

\* What the plugin puts on a span when it ends it: the usage of a call on the
\* call; the sum of a run in total_tokens on the run, but in total_cost_usd,
\* which the server does not read; and the sums of the child's run on a
\* subagent span it closes together with that run.
Materialized(t, mode, s) ==
  CASE t.kind[s] = "llm" -> t.usage[s]
    [] t.kind[s] = "run" /\ mode = "tokens" -> UsageOfRun(t, s)
    [] t.kind[s] = "fallback" ->
         SumOf(LAMBDA r : UsageOfRun(t, r),
               {r \in SpansOf(t) : t.parent[r] = s /\ t.kind[r] = "run"})
    [] OTHER -> 0

-------------------------------------------------------------------------------
(* The tree of the spans that are stored.                                    *)

\* Spans without a parent, or whose parent is not stored, are roots.
RootsIn(t, has) == {s \in has : t.parent[s] \notin has}
ChildrenIn(t, has, s) == {c \in has : t.parent[c] = s}

\* Mutant: the sums of the run itself are counted as well.
OwnOfEvery(t, mode, s) == Materialized(t, mode, s)

\* ownCost and ownTokens: a span that has a parent counts for what it says.
Own(t, mode, s) == IF t.parent[s] # 0 THEN Materialized(t, mode, s) ELSE 0

\* aggregate: what a span and the spans below it say.
Aggregate(t, has, mode) ==
  LET agg[s \in SpansOf(t)] ==
        Own(t, mode, s) + SumOf(LAMBDA c : agg[c], ChildrenIn(t, has, s))
  IN  agg

TotalMetric(t, has, mode) ==
  SumOf(LAMBDA s : Aggregate(t, has, mode)[s], RootsIn(t, has))

\* walk: a span is as wide as its aggregate, and begins where the span before
\* it under the same parent ends, the first where the parent begins.
Lefts(t, has, mode) ==
  LET agg == Aggregate(t, has, mode)
      left[s \in SpansOf(t)] ==
        LET root == s \in RootsIn(t, has)
            peers == IF root THEN RootsIn(t, has)
                     ELSE ChildrenIn(t, has, t.parent[s])
        IN  (IF root THEN 0 ELSE left[t.parent[s]])
              + SumOf(LAMBDA c : agg[c], {c \in peers : c < s})
  IN  left

-------------------------------------------------------------------------------
(* What the graph shows.                                                     *)

\* No block overlaps another that is not above it, and none leaves the graph.
BlocksFit(t, has, mode) ==
  LET agg == Aggregate(t, has, mode)
      left == Lefts(t, has, mode)
      end(s) == left[s] + agg[s]
      above[s \in SpansOf(t)] ==
        IF t.parent[s] \in has THEN above[t.parent[s]] \cup {t.parent[s]} ELSE {}
  IN  \A s \in has :
        /\ 0 <= left[s] /\ end(s) <= TotalMetric(t, has, mode)
        /\ \A p \in above[s] : left[p] <= left[s] /\ end(s) <= end(p)
        /\ \A o \in has \ above[s] :
             s \notin above[o] /\ o < s => end(o) <= left[s] \/ end(s) <= left[o]

\* The total in view is the usage of the LLM calls in view, and what a
\* subagent used again: once more in tokens, with its run, and once more in
\* either mode with a span made by the fallback.
TotalExplained(t, has, mode) ==
  TotalMetric(t, has, mode) =
    SumOf(LAMBDA s : t.usage[s], {s \in has : t.kind[s] = "llm" /\ t.parent[s] # 0})
    + (IF mode = "cost" THEN 0 ELSE
         SumOf(LAMBDA r : UsageOfRun(t, r),
               {s \in has : t.kind[s] = "run" /\ t.parent[s] # 0}))
    + SumOf(LAMBDA r : UsageOfRun(t, r),
            {r \in SpansOf(t) : /\ t.kind[r] = "run" /\ t.parent[r] \in has
                                /\ t.kind[t.parent[r]] = "fallback"
                                /\ t.parent[t.parent[r]] # 0})
===============================================================================
