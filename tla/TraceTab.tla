------------------------------- MODULE TraceTab -------------------------------
(***************************************************************************)
(* The two pages that show the tree of a selected run: the trace page      *)
(* (web/src/components/OtelTraceView.tsx) and the cost page with its flame  *)
(* graph (OtelCostDashboard.tsx).  Both list runs once, when they are       *)
(* opened, and ask the server for a tree whenever a run is selected        *)
(* (GetRecentTraces and GetTraceTree of api/otel_queries.go).              *)
(*                                                                         *)
(* Runs are numbered in the order in which their root spans were stored.   *)
(* They belong to sessions; kin says to which, and which session the root  *)
(* of a run names as that of its parent.  The plugin of this repository    *)
(* gives such a root a parent span, so that the list leaves it out; other  *)
(* exporters, like the tests of the page, need not.                        *)
(***************************************************************************)
EXTENDS FlameGraph

CONSTANTS
  MaxRun,     \* runs are 1..MaxRun
  ListLimit,  \* how many of them a list holds
  Data,       \* what the server may hold when a page is open: the sessions of
              \* the runs and those they name as parents (kin), which one page
              \* looks at, and the spans of each run, which the other does
  NoKey,      \* no session key
  MaxSelects  \* bound: how many trees a page asks for

Runs == 1..MaxRun
Pages == {"trace", "cost"}

ASSUME TraceAssumption ==
  /\ MaxRun \in Nat \ {0} /\ ListLimit \in Nat \ {0} /\ MaxSelects \in Nat
  /\ \A d \in UNION {Data[p] : p \in Pages} :
       /\ DOMAIN d.kin.session = Runs /\ DOMAIN d.kin.parentSession = Runs
       /\ \A r \in Runs : d.kin.session[r] # NoKey
       /\ IsTrace(d.spans)

VARIABLES
  page,        \* which of the two pages it is
  kin, spans,  \* the family of the runs, and the trace of each
  listing,     \* the list of runs: asked, or answered
  listed,      \* the runs that it holds
  selected,    \* selectedTraceId; 0 for null
  tree,        \* traceTree: of which run, and its spans; of = 0 for none
  loadingTree,
  queries,     \* requests for trees under way
  queried,     \* how many there were
  answered,    \* history: the number of the one that ended last, if it gave
               \* a tree or an error; 0 if it failed
  crashed,     \* rendering has thrown, and the page is blank
  errors       \* history: which answers were not what the page took them for:
               \* a tree, or, of the cost page, the costs or the context bloat

traceVars == <<page, kin, spans, listing, listed, selected, tree, loadingTree,
               queries, queried, answered, crashed, errors>>

NoTree == [of |-> 0, has |-> {}]

TraceInit ==
  /\ page \in Pages
  /\ \E d \in Data[page] : kin = d.kin /\ spans = d.spans
  /\ listing = "asked" /\ listed = {}
  /\ selected = 0 /\ tree = NoTree /\ loadingTree = FALSE
  /\ queries = {} /\ queried = 0 /\ answered = 0
  /\ crashed = FALSE /\ errors = {}

-------------------------------------------------------------------------------
(* The runs that the trace page relates to the one whose tree it shows.      *)

\* entriesBySession: the newest run listed of each session.
NewestOf(s) == Max({r \in listed : kin.session[r] = s})
Known(s) == \E r \in listed : kin.session[r] = s
\* The session that it names as its parent.
ParentKey(s) == IF Known(s) THEN kin.parentSession[NewestOf(s)] ELSE NoKey

\* Mutant: only the parent is looked at.
TopLevelOnce(s) == IF ParentKey(s) = NoKey THEN s ELSE ParentKey(s)

\* resolveTopLevelSessionKey: up to a session without a known parent; a
\* session that is its own ancestor stands for itself.
TopLevel(s) ==
  LET up[n \in 0..MaxRun] ==
        IF n = 0 THEN s
        ELSE IF ParentKey(up[n - 1]) = NoKey THEN up[n - 1]
        ELSE ParentKey(up[n - 1])
  IN  IF ParentKey(up[MaxRun]) = NoKey THEN up[MaxRun] ELSE s

\* relatedRuns.
Related ==
  IF tree.of = 0 THEN {}
  ELSE {r \in listed : TopLevel(kin.session[r]) = TopLevel(kin.session[tree.of])}

MaxIn(S) == IF S = {} THEN {} ELSE {Max(S)}
MinIn(S) == IF S = {} THEN {} ELSE {Min(S)}

\* relatedRunsNavigation: the runs the page offers beside the selected one.
\* The parent is the newest run of the parent session that was stored before.
Siblings ==
  LET key == kin.parentSession[selected] IN
  {r \in Related : kin.parentSession[r] =
                     (IF key # NoKey THEN key ELSE kin.session[selected])}

Offered ==
  IF selected \notin Related THEN {}
  ELSE IF kin.parentSession[selected] = NoKey THEN MinIn(Siblings)
  ELSE MaxIn({r \in Related : /\ kin.session[r] = kin.parentSession[selected]
                              /\ r <= selected})
         \cup MaxIn({r \in Siblings : r < selected})
         \cup MinIn({r \in Siblings : r > selected})

-------------------------------------------------------------------------------
(* The pages.                                                                *)

\* The request for the tree of r is sent.
QueryTree(r) ==
  /\ queried < MaxSelects
  /\ selected' = r /\ loadingTree' = TRUE
  /\ queried' = queried + 1
  /\ queries' = queries \cup {[n |-> queried + 1, of |-> r]}

\* Mutant: while a tree is loading no other is asked for.
SelectRunOnce(r) ==
  /\ listing = "answered" /\ ~crashed /\ r \in listed
  /\ page = "cost" => r # selected
  /\ IF loadingTree THEN selected' = r /\ UNCHANGED <<loadingTree, queried, queries>>
     ELSE QueryTree(r)
  /\ UNCHANGED <<page, kin, spans, listing, listed, tree, answered, crashed, errors>>

\* A run of the list is clicked.  The cost page asks in an effect, which runs
\* when the selected run is another.
SelectRun(r) ==
  /\ listing = "answered" /\ ~crashed /\ r \in listed
  /\ page = "cost" => r # selected
  /\ QueryTree(r)
  /\ UNCHANGED <<page, kin, spans, listing, listed, tree, answered, crashed, errors>>

\* A run that the page offers beside a tree is clicked.
FollowLink(r) == page = "trace" /\ ~loadingTree /\ r \in Offered /\ SelectRun(r)

\* Mutant: one run more than the limit is listed.
ListArrivesOneMore(last) ==
  /\ listing = "asked" /\ listing' = "answered"
  /\ listed' = {r \in 1..last : last - r <= ListLimit}
  /\ IF last = 0 THEN UNCHANGED <<selected, loadingTree, queried, queries>>
     ELSE \E r \in listed' : (page = "trace" => r = last) /\ QueryTree(r)
  /\ UNCHANGED <<page, kin, spans, tree, answered, crashed, errors>>

\* The list arrives: the newest root spans.  The first of them is selected.
\* The cost page lists the dearest runs, and they all have one trace here, so
\* which of them it selects stands for their cost.
ListArrives(last) ==
  /\ listing = "asked" /\ listing' = "answered"
  /\ listed' = {r \in 1..last : last - r < ListLimit}
  /\ IF last = 0 THEN UNCHANGED <<selected, loadingTree, queried, queries>>
     ELSE \E r \in listed' : (page = "trace" => r = last) /\ QueryTree(r)
  /\ UNCHANGED <<page, kin, spans, tree, answered, crashed, errors>>

\* Rendering the cost page throws, before the effect that asks for a tree has
\* run: it takes for the context bloat, which is awaited with the dearest runs,
\* an error of the server; or for lists of providers and models the null that
\* the server answers where no stored span names one.  Only where there is no
\* cost at all does the empty state come first.
CostThrows(last, why) ==
  /\ page = "cost"
  /\ listing = "asked" /\ listing' = "answered"
  /\ listed' = {r \in 1..last : last - r < ListLimit}
  /\ crashed' \in (IF last = 0 THEN BOOLEAN ELSE {TRUE})
  /\ errors' = errors \cup {why}
  /\ UNCHANGED <<page, kin, spans, selected, tree, loadingTree, queries, queried,
                 answered>>

\* The list cannot be had, or a request that is awaited with it ends without
\* an answer: there is nothing to select.
ListFails ==
  /\ listing = "asked" /\ listing' = "answered"
  /\ UNCHANGED <<page, kin, spans, listed, selected, tree, loadingTree, queries,
                 queried, answered, crashed, errors>>

\* The spans of a run that is listed: its root, and others that may be lost
\* or come later.
Stored == {has \in SUBSET SpansOf(spans) : 1 \in has}

\* A tree arrives, of the spans stored so far, whichever run is selected now.
TreeArrives(q) ==
  /\ ~crashed
  /\ queries' = queries \ {q} /\ answered' = q.n
  /\ \E has \in Stored : tree' = [of |-> q.of, has |-> has]
  /\ loadingTree' = FALSE
  /\ UNCHANGED <<page, kin, spans, listing, listed, selected, queried, crashed, errors>>

\* The answer is an error of the server, an object: the cost page takes it
\* for an empty tree; the trace page looks for its first span and throws.
TreeError(q) ==
  /\ ~crashed
  /\ queries' = queries \ {q} /\ answered' = q.n
  /\ errors' = errors \cup {"tree"}
  /\ tree' = NoTree /\ loadingTree' = FALSE
  /\ crashed' = (page = "trace")
  /\ UNCHANGED <<page, kin, spans, listing, listed, selected, queried>>

\* There is no answer: the page keeps the tree it has.
TreeFails(q) ==
  /\ ~crashed
  /\ queries' = queries \ {q} /\ answered' = 0
  /\ loadingTree' = FALSE
  /\ UNCHANGED <<page, kin, spans, listing, listed, selected, tree, queried, crashed,
                 errors>>

TraceNext ==
  \/ \E last \in 0..MaxRun :
       ListArrives(last) \/ \E why \in {"bloat", "costs"} : CostThrows(last, why)
  \/ ListFails
  \/ \E r \in Runs : SelectRun(r) \/ FollowLink(r)
  \/ \E q \in queries : TreeArrives(q) \/ TreeError(q) \/ TreeFails(q)

TraceSpec == TraceInit /\ [][TraceNext]_traceVars

-------------------------------------------------------------------------------
(* Properties.                                                               *)

\* Types of the variables.
TraceTypeOK ==
  /\ page \in Pages
  /\ listing \in {"asked", "answered"}
  /\ listed \subseteq Runs /\ Cardinality(listed) <= ListLimit
  /\ selected \in Runs \cup {0} /\ tree.of \in Runs \cup {0}
  /\ tree.has \subseteq SpansOf(spans)
  /\ loadingTree \in BOOLEAN /\ crashed \in BOOLEAN
  /\ queried \in 0..MaxSelects /\ answered \in 0..queried
  /\ errors \subseteq {"tree", "bloat", "costs"}
  /\ queries \subseteq [n : 1..queried, of : Runs]

\* The tree under the name of the selected run is the tree of that run or
\* empty, unless the answer to an earlier request came last, or the last
\* request failed.  A page goes blank only by an answer that it took for what
\* it is not: the trace page by an error for a tree, which the cost page takes
\* for an empty one, and the cost page by an error for the context bloat or by
\* costs without providers or models.
TreeOfSelected ==
  /\ ~loadingTree /\ answered = queried => tree.of \in {selected, 0}
  /\ crashed => IF page = "trace" THEN "tree" \in errors
                ELSE "bloat" \in errors \/ "costs" \in errors

\* The sessions that s descends from, s included: they are in every set that
\* holds s and, with a session, its parent.
Keys == {kin.session[r] : r \in Runs} \cup
          ({kin.parentSession[r] : r \in Runs} \ {NoKey})
Ancestors(s) ==
  {t \in Keys : \A S \in SUBSET Keys :
     s \in S /\ (\A u \in S : ParentKey(u) # NoKey => ParentKey(u) \in S) => t \in S}

\* The runs related to a run are those listed whose sessions have an ancestor
\* in common with its session, also when runs between them are not listed or
\* name no parent themselves; and no run is offered beside itself.
FamilyRelated ==
  tree.of \in listed =>
    /\ Related = {r \in listed : Ancestors(kin.session[r])
                                   \cap Ancestors(kin.session[tree.of]) # {}}
    /\ selected \notin Offered /\ Offered \subseteq Related

\* The flame graph of any tree that arrives: its blocks fit, and its total is
\* the usage of the calls, with that of subagents counted again.
FlameExplained ==
  page = "cost" /\ tree.of # 0 => \A mode \in Modes :
    BlocksFit(spans, tree.has, mode) /\ TotalExplained(spans, tree.has, mode)
===============================================================================
