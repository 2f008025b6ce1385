----------------------------- MODULE PluginSpans -----------------------------
(***************************************************************************)
(* The span lifecycle of the OpenClaw plugin                               *)
(* (openclaw-otel-plugin/src/index.ts): the hooks of the host start and    *)
(* end the spans of a run (one root per session, LLM calls, tool calls,    *)
(* subagents), find the session of an event under any of its aliases, and  *)
(* link the run of a subagent, or a run that is resumed, to an earlier     *)
(* run through run lineage identifiers.                                    *)
(*                                                                         *)
(* The host is JavaScript: a hook runs to its end before the next one, or  *)
(* before a timer fires, so each hook is one step; what is hard is that    *)
(* the hooks may come in any order, late, twice, or not at all.            *)
(*                                                                         *)
(* An event names its session by the list of aliases that                  *)
(* resolveSessionAliases makes of its fields; the first is the field       *)
(* itself.  Counters, labels, prices and durations are left out.  The idle *)
(* timeout is taken to be enabled, as it is by default.                    *)
(***************************************************************************)
EXTENDS Naturals, Sequences, FiniteSets

CONSTANTS
  Keys,       \* the strings that may stand for a session
  AliasesOf,  \* resolveSessionAliases of a single key
  Names,      \* the ways in which events name a session
  Children,   \* the ways in which events name the session of a subagent
  Tools,      \* tool call identifiers
  MaxSpans,   \* bound: spans ever started
  MaxRuns,    \* bound: run lineage identifiers ever made
  None        \* no key

Elems(s) == {s[i] : i \in DOMAIN s}

ASSUME SpansAssumption ==
  /\ AliasesOf \in [Keys -> SUBSET Keys]
  /\ \A k \in Keys : k \in AliasesOf[k]
  /\ Names \cup Children \subseteq Seq(Keys) \ {<<>>}
  /\ \A n \in Names \cup Children : AliasesOf[Head(n)] \subseteq Elems(n)
  /\ MaxSpans \in Nat /\ MaxRuns \in Nat
  /\ None \notin Keys

VARIABLE
  plugin     \* the module-level Maps of the plugin, and the spans it started

vars == plugin

(* Spans and lineage identifiers are numbered as they are made; 0 is none.   *)
NoStats == [run |-> 0, rootRun |-> 0, parentRun |-> 0]
NoLineage == [run |-> 0, rootRun |-> 0]
NoMeta == [run |-> 0, rootRun |-> 0]

\* What the Maps hold for one session key: activeSpans (root_, llm_, tool_),
\* rootIdleTimers, sessionRunStats, pendingSessionAttributes and
\* closedSessionLineage, of which an entry without hadActiveSubagentsOnClose
\* is as good as none.
NoSession ==
  [root |-> 0, llm |-> 0, tool |-> [t \in Tools |-> 0], timer |-> FALSE,
   stats |-> NoStats, pending |-> FALSE, closed |-> NoLineage]

\* ... and for one name of a subagent: activeSubagentSpans, ...Parents,
\* ...PrimaryKeys, ...AliasGroups, ...Sources and ...Metadata.
NoSubagent ==
  [span |-> 0, parent |-> None, primary |-> None, group |-> {},
   source |-> "none", meta |-> NoMeta]

Init ==
  plugin = [primary  |-> [k \in Keys |-> None],   \* activeSessionPrimaryKeys
            group    |-> [k \in Keys |-> {}],     \* activeSessionAliasGroups
            session  |-> [k \in Keys |-> NoSession],
            sub      |-> [k \in Keys |-> NoSubagent],
            spans    |-> <<>>,  \* every span started so far
            lineages |-> <<>>,  \* the key each lineage was made for
            renamed  |-> {},    \* history: sessions a hook called by a new name
            misnamed |-> {}]    \* history: subagents without metadata of their own

\* Every hook that may start a span or a run asks for room.
Room ==
  /\ Len(plugin.spans) + 1 < MaxSpans
  /\ Len(plugin.lineages) < MaxRuns

-------------------------------------------------------------------------------
(* Sessions and their aliases.                                               *)

\* Mutant: only the first name is looked up.
CanonicalFirstOnly(p, n) ==
  IF p.primary[Head(n)] = None THEN Head(n) ELSE p.primary[Head(n)]

\* resolveCanonicalSessionKey: the primary key of the first alias that has
\* one, else the name as it stands.
Canonical(p, n) ==
  IF \A i \in DOMAIN n : p.primary[n[i]] = None
  THEN Head(n)
  ELSE LET i == CHOOSE i \in DOMAIN n :
                  /\ p.primary[n[i]] # None
                  /\ \A j \in 1..(i - 1) : p.primary[n[j]] = None
       IN  p.primary[n[i]]

\* registerSessionAliases
Register(p, k, n) ==
  LET as == AliasesOf[k] \cup Elems(n)
  IN  [p EXCEPT !.primary = [a \in Keys |-> IF a \in as THEN k ELSE @[a]],
                !.group[k] = @ \cup as]

\* unregisterSessionAliases
Unregister(p, k) ==
  LET ks == {IF p.primary[a] = None THEN a ELSE p.primary[a] : a \in AliasesOf[k]}
      as == UNION {IF p.group[q] = {} THEN AliasesOf[q] ELSE p.group[q] : q \in ks}
  IN  [p EXCEPT !.primary = [a \in Keys |-> IF a \in as THEN None ELSE @[a]],
                !.group = [q \in Keys |-> IF q \in ks THEN {} ELSE @[q]]]

\* registerSubagentAliases
RegisterSubagent(p, k, parent, span, source, n) ==
  LET as == AliasesOf[k] \cup Elems(n)
  IN  [p EXCEPT !.sub =
        [a \in Keys |->
           LET named == IF a \in as
                        THEN [@[a] EXCEPT !.span = span, !.parent = parent,
                                          !.primary = k]
                        ELSE @[a]
           IN  IF a = k
               THEN [named EXCEPT !.group = @ \cup as, !.source = source]
               ELSE named]]

\* Mutant: activeSubagentParents is not cleared.
UnregisterSubagentKeepsParents(p, as) ==
  LET ks == {IF p.sub[a].primary = None THEN a ELSE p.sub[a].primary : a \in as}
      gone == UNION {IF p.sub[q].group = {} THEN AliasesOf[q] ELSE p.sub[q].group
                       : q \in ks}
  IN  [p EXCEPT !.sub =
        [a \in Keys |-> IF a \in gone
                        THEN [NoSubagent EXCEPT !.parent = p.sub[a].parent]
                        ELSE p.sub[a]]]

\* unregisterSubagentAliases
UnregisterSubagent(p, as) ==
  LET ks == {IF p.sub[a].primary = None THEN a ELSE p.sub[a].primary : a \in as}
      gone == UNION {IF p.sub[q].group = {} THEN AliasesOf[q] ELSE p.sub[q].group
                       : q \in ks}
  IN  [p EXCEPT !.sub =
        [a \in Keys |->
           LET unnamed == IF a \in gone
                          THEN [@[a] EXCEPT !.span = 0, !.parent = None,
                                            !.primary = None]
                          ELSE @[a]
           IN  IF a \in ks
               THEN [unnamed EXCEPT !.group = {}, !.source = "none",
                                    !.meta = NoMeta]
               ELSE unnamed]]

-------------------------------------------------------------------------------
(* Runs and their roots.                                                     *)

\* getOrCreateSessionStats, and updateSessionStats.
WithStats(p, k) ==
  LET new == Len(p.lineages) + 1
  IN  IF p.session[k].stats # NoStats THEN p
      ELSE [p EXCEPT
             !.session[k].stats = [run |-> new, rootRun |-> new, parentRun |-> 0],
             !.lineages = Append(@, k)]

\* attachSessionAttributes: set them on the root, or keep them for it.
Attach(p, k) ==
  IF p.session[k].root # 0 THEN p ELSE [p EXCEPT !.session[k].pending = TRUE]

\* touchRootSpan
Touch(p, k) ==
  IF k = None THEN p
  ELSE IF p.session[k].root = 0 THEN p
  ELSE [p EXCEPT !.session[k].timer = TRUE]

\* tracer.startSpan; the new span is the last of p.spans.  History: the names of
\* the child that a subagent span is for, {} for any other span.
StartSpan(p, kind, k, parent, child) ==
  [p EXCEPT !.spans =
     Append(@, [kind |-> kind, key |-> k, parent |-> parent, child |-> child,
                open |-> TRUE,
                run |-> p.session[k].stats.run,
                rootRun |-> p.session[k].stats.rootRun,
                parentRun |-> p.session[k].stats.parentRun])]

EndSpan(p, i) == [p EXCEPT !.spans[i].open = FALSE]

\* Mutant: a resumed run does not take over the family of the one before.
DecidedAsNewFamily(p, k, why) ==
  LET stats == p.session[k].stats
      prior == p.session[k].closed
  IN  IF why # "inbound_claim" /\ prior # NoLineage
      THEN [stats EXCEPT !.parentRun = prior.run]
      ELSE [stats EXCEPT !.rootRun = stats.run]

\* The lineage decision of getTraceContext for the root it is about to start.
Decided(p, k, why) ==
  LET stats == p.session[k].stats
      parent == p.sub[k].parent
      primary == IF p.sub[k].primary = None THEN k ELSE p.sub[k].primary
      meta == p.sub[primary].meta
      ofParent == IF parent = None THEN NoStats ELSE p.session[parent].stats
      prior == p.session[k].closed
  IN  IF ofParent # NoStats
      THEN [stats EXCEPT !.parentRun = ofParent.run, !.rootRun = ofParent.rootRun]
      ELSE IF parent # None /\ meta # NoMeta
      THEN [stats EXCEPT !.parentRun = meta.run, !.rootRun = meta.rootRun]
      ELSE IF why # "inbound_claim" /\ prior # NoLineage
      THEN [stats EXCEPT !.parentRun = prior.run, !.rootRun = prior.rootRun]
      ELSE [stats EXCEPT !.rootRun = stats.run]

\* Mutant: the attributes that wait are not taken.
WithRootForgetsPending(p, k, why) ==
  LET decided == [p EXCEPT !.session[k].stats = Decided(p, k, why)]
      started == StartSpan(decided, "root", k, p.sub[k].span, {})
  IN  IF p.session[k].root # 0 THEN p
      ELSE [started EXCEPT !.session[k].root = Len(started.spans)]

\* The part of getTraceContext that starts a missing root.
WithRoot(p, k, why) ==
  LET decided == [p EXCEPT !.session[k].stats = Decided(p, k, why)]
      started == StartSpan(decided, "root", k, p.sub[k].span, {})
  IN  IF p.session[k].root # 0 THEN p
      ELSE [started EXCEPT !.session[k].root = Len(started.spans),
                           !.session[k].pending = FALSE]

\* getTraceContext: afterwards the session has stats, a root and a timer.
Traced(p, k, why) == Touch(WithRoot(WithStats(p, k), k, why), k)

\* maybeFinalizeFallbackSubagent
FinalizeFallback(p, k) ==
  LET primary == IF p.sub[k].primary = None THEN k ELSE p.sub[k].primary
  IN  IF p.sub[primary].source = "fallback" /\ p.sub[k].span # 0
      THEN UnregisterSubagent(EndSpan(p, p.sub[k].span), AliasesOf[k])
      ELSE p

\* closeRootSpan; the spans under the root are left as they are.
Close(p, k) ==
  LET s == p.session[k]
      hadSubagents == \E a \in Keys : p.sub[a].parent = k
      emptied == [s EXCEPT !.timer = FALSE, !.pending = FALSE, !.stats = NoStats]
  IN  IF s.root = 0 THEN [p EXCEPT !.session[k] = emptied]
      ELSE LET ended == EndSpan(FinalizeFallback(p, k), s.root)
               closed == IF s.stats = NoStats THEN s.closed
                         ELSE IF ~hadSubagents THEN NoLineage
                         ELSE [run |-> s.stats.run, rootRun |-> s.stats.rootRun]
           IN  Unregister([ended EXCEPT !.session[k] =
                             [emptied EXCEPT !.root = 0, !.closed = closed]], k)

-------------------------------------------------------------------------------
(* The hooks.                                                                *)

InboundClaim(n) ==
  LET k == Canonical(plugin, n)
  IN  /\ Room
      /\ plugin' = Traced(Register(plugin, k, n), k, "inbound_claim")

AgentEnd(n) == plugin' = Close(plugin, Canonical(plugin, n))

\* An LLM span that is still active is displaced.
LlmInput(n) ==
  LET k == Canonical(plugin, n)
      named == Attach(WithStats(Register(plugin, k, n), k), k)
      traced == Traced(named, k, "llm_input")
      started == StartSpan(traced, "llm", k, traced.session[k].root, {})
  IN  /\ Room
      /\ plugin' = [started EXCEPT !.session[k].llm = Len(started.spans)]

\* Mutant: the span is forgotten without being ended.
LlmOutputDropsSpan(n) ==
  LET k == Canonical(plugin, n)
      touched == Touch(Register(plugin, k, n), k)
      noted == Attach(WithStats(touched, k), k)
  IN  /\ Room
      /\ plugin' = [noted EXCEPT !.session[k].llm = 0]

\* An output without an active span leaves statistics behind all the same.
LlmOutput(n) ==
  LET k == Canonical(plugin, n)
      touched == Touch(Register(plugin, k, n), k)
      noted == Attach(WithStats(touched, k), k)
      span == noted.session[k].llm
  IN  /\ Room
      /\ plugin' = IF span = 0 THEN noted
                   ELSE [EndSpan(noted, span) EXCEPT !.session[k].llm = 0]

\* Under the active LLM span if there is one; only else is a root needed.
BeforeToolCall(n, t) ==
  LET k == Canonical(plugin, n)
      noted == Touch(WithStats(Register(plugin, k, n), k), k)
      llm == noted.session[k].llm
      traced == IF llm # 0 THEN noted ELSE Traced(noted, k, "before_tool_call")
      started == StartSpan(traced, "tool", k,
                           IF llm # 0 THEN llm ELSE traced.session[k].root, {})
  IN  /\ Room
      /\ plugin' = [started EXCEPT !.session[k].tool[t] = Len(started.spans)]

\* activeSubagentMetadata.set: other names under which the child is registered
\* from an earlier start have the metadata of this one from now on.
Describe(p, child, stats, c) ==
  [p EXCEPT !.sub[child].meta = [run |-> stats.run, rootRun |-> stats.rootRun],
            !.misnamed = @ \cup {a \in Keys \ Elems(c) : p.sub[a].primary = child}]

\* The fallback span of sessions_spawn, unless the child is known already.
WithFallback(p, k, c) ==
  LET child == Head(c)
      traced == Traced(p, k, "sessions_spawn_fallback")
      stats == traced.session[k].stats
      started == StartSpan(traced, "subagent", k, traced.session[k].root, Elems(c))
  IN  IF p.sub[child].span # 0 THEN p
      ELSE RegisterSubagent(Describe(started, child, stats, c), child, k,
                            Len(started.spans), "fallback", c)

\* c is what a successful sessions_spawn answers, <<>> for any other answer.
AfterToolCall(n, t, c) ==
  LET k == Canonical(plugin, n)
      noted == Touch(WithStats(Register(plugin, k, n), k), k)
      span == noted.session[k].tool[t]
      linked == IF c = <<>> THEN noted ELSE WithFallback(noted, k, c)
  IN  /\ Room
      /\ plugin' = IF span = 0 THEN noted
                   ELSE [EndSpan(linked, span) EXCEPT !.session[k].tool[t] = 0]

\* The requester is taken by the name it has in the event: resolveSessionKey,
\* not resolveCanonicalSessionKey, and no alias is registered.
SubagentSpawning(n, c) ==
  LET k == Head(n)
      child == Head(c)
      traced == Traced(plugin, k, "subagent_spawning")
      stats == traced.session[k].stats
      started == StartSpan(traced, "subagent", k, traced.session[k].root, Elems(c))
      called == [started EXCEPT !.renamed = IF plugin.primary[k] = k THEN @
                                            ELSE @ \cup Elems(n)]
  IN  /\ Room
      /\ plugin' = RegisterSubagent(Describe(called, child, stats, c), child, k,
                                    Len(started.spans), "hook", c)

\* Registers the names again, now with the source "hook".  The metadata stays
\* where it is, under the name the child had before.
SubagentSpawned(c) ==
  LET child == Head(c)
      parent == plugin.sub[child].parent
      span == plugin.sub[child].span
      touched == Touch(plugin, parent)
      described == plugin.sub[child].primary = child /\ child \notin plugin.misnamed
      again == [touched EXCEPT !.misnamed = IF described THEN @ ELSE @ \cup Elems(c)]
  IN  plugin' = IF span = 0 THEN touched
                ELSE RegisterSubagent(again, child, parent, span, "hook", c)

\* An error marks the statistics of the parent: it has them afterwards.
SubagentEnded(c, failed) ==
  LET child == Head(c)
      parent == plugin.sub[child].parent
      span == plugin.sub[child].span
      touched == Touch(plugin, parent)
      marked == IF failed THEN WithStats(touched, parent) ELSE touched
  IN  /\ failed => Room
      /\ plugin' = IF span = 0 THEN touched
                   ELSE UnregisterSubagent(EndSpan(marked, span),
                                           AliasesOf[child] \cup Elems(c))

MessageReceived(n) ==
  LET k == Canonical(plugin, n)
      named == Register(plugin, k, n)
  IN  plugin' = Attach(Touch(named, k), k)

\* The timer of touchRootSpan.
IdleTimeout(k) ==
  /\ plugin.session[k].timer
  /\ plugin' = Close(plugin, k)

\* A closed lineage is forgotten after half an hour.
LineageExpires(k) ==
  /\ plugin.session[k].closed # NoLineage
  /\ plugin' = [plugin EXCEPT !.session[k].closed = NoLineage]

\* No session is its own subagent.
ChildrenOf(n) == {c \in Children : Elems(c) \cap Elems(n) = {}}

Next ==
  \/ \E n \in Names :
       \/ InboundClaim(n) \/ AgentEnd(n) \/ MessageReceived(n)
       \/ LlmInput(n) \/ LlmOutput(n)
       \/ \E t \in Tools :
            \/ BeforeToolCall(n, t)
            \/ \E c \in ChildrenOf(n) \cup {<<>>} : AfterToolCall(n, t, c)
       \/ \E c \in ChildrenOf(n) : SubagentSpawning(n, c)
  \/ \E c \in Children :
       \/ SubagentSpawned(c)
       \/ \E failed \in BOOLEAN : SubagentEnded(c, failed)
  \/ \E k \in Keys : IdleTimeout(k) \/ LineageExpires(k)

Spec == Init /\ [][Next]_vars

-------------------------------------------------------------------------------
(* How the host names things, where it does so consistently.  The code makes *)
(* no use of this, but where it does not hold two of the properties fail.    *)

Meets(m, n) == Elems(m) \cap Elems(n) # {}

\* Two names of one session have an alias in common, so that the session is
\* found under either: none is called by its key in one event, and in another
\* by an id that is not the tail of that key.
NamesMeet ==
  /\ \A l, m, n \in Names : Meets(l, m) /\ Meets(m, n) => Meets(l, n)
  /\ \A k \in Keys : \A m, n \in Names :
       AliasesOf[k] \cap Elems(m) # {} /\ AliasesOf[k] \cap Elems(n) # {} => Meets(m, n)

\* The hooks name a child by one key with any identifiers, or by any key with
\* the same identifiers; none names it by an alias alone.
ChildrenApart ==
  /\ \A c \in Children :
       \/ \A d \in Children : Meets(c, d) => Head(d) = Head(c)
       \/ \A d \in Children : Meets(c, d) => Elems(d) = Elems(c)
  /\ \A k \in Keys : \A c \in Children :
       AliasesOf[k] \cap Elems(c) # {} => AliasesOf[k] \subseteq Elems(c)

-------------------------------------------------------------------------------
(* Properties.                                                               *)

SpanIds == 1..Len(plugin.spans)
Spans(kind) == {i \in SpanIds : plugin.spans[i].kind = kind}
LiveRoots == {k \in Keys : plugin.session[k].root # 0}
\* The spans that some Map still holds: a later hook can end them.
Held ==
  {plugin.session[k].root : k \in Keys} \cup {plugin.session[k].llm : k \in Keys}
    \cup {plugin.session[k].tool[t] : k \in Keys, t \in Tools}
    \cup {plugin.sub[k].span : k \in Keys}

\* The Maps hold spans of their own kind, keys and lineages that exist.
TypeOK ==
  /\ plugin.primary \in [Keys -> Keys \cup {None}]
  /\ plugin.group \in [Keys -> SUBSET Keys]
  /\ \A k \in Keys :
       LET s == plugin.session[k] IN
       /\ s.root \in Spans("root") \cup {0}
       /\ s.llm \in Spans("llm") \cup {0}
       /\ \A t \in Tools : s.tool[t] \in Spans("tool") \cup {0}
       /\ s.timer \in BOOLEAN /\ s.pending \in BOOLEAN
       /\ s.stats.run \in 0..Len(plugin.lineages)
       /\ s.closed.run \in 0..Len(plugin.lineages)
  /\ \A k \in Keys :
       LET b == plugin.sub[k] IN
       /\ b.span \in Spans("subagent") \cup {0}
       /\ b.parent \in Keys \cup {None} /\ b.primary \in Keys \cup {None}
       /\ b.source \in {"none", "hook", "fallback"}
       /\ b.span # 0 <=> b.parent # None
  /\ Len(plugin.spans) <= MaxSpans /\ Len(plugin.lineages) <= MaxRuns + 1

\* The idle timer of a session is armed exactly while it has a root, so that a
\* root nobody ends is closed in the end and no timer closes a missing one.  A
\* live root belongs to the run its session counts for, and no message waits to
\* be attached to a root that is there.
RootsAgree ==
  /\ \A k \in Keys : plugin.session[k].timer <=> k \in LiveRoots
  /\ \A k \in LiveRoots :
       LET s == plugin.session[k] IN
       /\ plugin.spans[s.root].run = s.stats.run
       /\ plugin.spans[s.root].rootRun = s.stats.rootRun
       /\ ~s.pending

\* Whatever name an event uses for a session that has a root, it finds that
\* root; so there is one root per session, and agent_end closes it.  Except
\* where subagent_spawning took a requester by a name of its own.
Renamed(n, k) == (Elems(n) \cup AliasesOf[k]) \cap plugin.renamed # {}
EveryNameFindsRoot ==
  \A k \in LiveRoots : \A n \in Names :
    AliasesOf[k] \cap Elems(n) # {} =>
      Canonical(plugin, n) = k \/ Renamed(n, k)

\* No Map holds a span that has ended: none ends twice, and none is started
\* under a parent that is over.  And an open span that no Map holds can never be
\* ended, so never exported: that happens only to a span displaced by another
\* start of the same kind for the same session, or for the same child; closing
\* a root loses none.  Of two starts for one child each may have names that the
\* other has not, but some name is in both.
LostSpans == {i \in SpanIds : plugin.spans[i].open} \ Held
SpansAccounted ==
  /\ \A i \in Held \ {0} : plugin.spans[i].open
  /\ \A i \in LostSpans : \E j \in SpanIds :
       /\ i < j
       /\ plugin.spans[j].kind = plugin.spans[i].kind
       /\ plugin.spans[i].kind \in {"llm", "tool"} =>
            plugin.spans[j].key = plugin.spans[i].key
       /\ plugin.spans[i].kind = "subagent" =>
            plugin.spans[j].child \cap plugin.spans[i].child # {}
       /\ plugin.spans[i].kind # "root"

\* A run that names an earlier run as its parent belongs to the same family
\* of runs, as far as the root of the parent was started first.
FamiliesAgree ==
  \A i, j \in Spans("root") :
    i < j /\ plugin.spans[j].parentRun = plugin.spans[i].run =>
      plugin.spans[j].rootRun = plugin.spans[i].rootRun

\* The root of a subagent hangs from the span its parent started for it, and
\* names as its parent the run that span was started in, or a later run of
\* the same parent session.  Except for a name that has no metadata of its own,
\* or that of another start, because the hooks called the child differently.
SpawnedByParent ==
  \A i \in Spans("root") :
    LET parent == plugin.spans[i].parent
        spawner == plugin.spans[parent].run
        named == plugin.spans[i].parentRun
    IN  parent # 0 =>
          /\ plugin.spans[parent].kind = "subagent"
          /\ \/ plugin.spans[i].key \in plugin.misnamed
             \/ /\ named >= spawner
                /\ plugin.lineages[named] = plugin.lineages[spawner]

\* Two roots never share a run lineage: a run is counted once.
RunsDistinct ==
  \A i, j \in Spans("root") :
    plugin.spans[i].run = plugin.spans[j].run => i = j

\* The lineages by which the server groups runs: however runs close, resume and
\* spawn, each run has one of its own, and names a parent that spawned it and
\* that is of its family.
LineagesAgree == RunsDistinct /\ FamiliesAgree /\ SpawnedByParent
===============================================================================
