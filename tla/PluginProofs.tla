------------------------------ MODULE PluginProofs -----------------------------
(***************************************************************************)
(* Theorems about the span lifecycle of the plugin (PluginSpans), for any  *)
(* keys, aliases, names, children, tools and bounds.                       *)
(*                                                                         *)
(* A hook is a composition of the plugin's functions on its Maps, and so   *)
(* are the proofs: first what each function does to the Maps (...Fields),  *)
(* then the invariant Sound, then that each function preserves it where    *)
(* the hooks call it (...Sound, ...Reached), then one lemma per hook.      *)
(* Reached(p, q, s, r) says that q is sound and has no more than s spans   *)
(* and r runs more than p, and, where the children are named apart, that   *)
(* q accounts for its spans (Tidy) if p does.  The names of the sessions   *)
(* are treated last, by an invariant of their own (Aliased), and again by  *)
(* what each hook does to them (...Names).                                 *)
(***************************************************************************)
EXTENDS PluginSpans, FiniteSetTheorems, SequenceTheorems, WellFoundedInduction, TLAPS

-------------------------------------------------------------------------------
(* Types.                                                                    *)

SpanKinds == {"root", "llm", "tool", "subagent"}
SpanT == [kind : SpanKinds, key : Keys, parent : Nat, child : SUBSET Keys,
          open : BOOLEAN, run : Nat, rootRun : Nat, parentRun : Nat]
StatsT == [run : Nat, rootRun : Nat, parentRun : Nat]
LineageT == [run : Nat, rootRun : Nat]
SessionT == [root : Nat, llm : Nat, tool : [Tools -> Nat], timer : BOOLEAN,
             stats : StatsT, pending : BOOLEAN, closed : LineageT]
SubagentT == [span : Nat, parent : Keys \cup {None}, primary : Keys \cup {None},
              group : SUBSET Keys, source : {"none", "hook", "fallback"},
              meta : LineageT]
Plugins ==
  [primary : [Keys -> Keys \cup {None}], group : [Keys -> SUBSET Keys],
   session : [Keys -> SessionT], sub : [Keys -> SubagentT],
   spans : Seq(SpanT), lineages : Seq(Keys),
   renamed : SUBSET Keys, misnamed : SUBSET Keys]

-------------------------------------------------------------------------------
(* What each function does to the Maps.                                      *)

NamesKept(p, q) == q.primary = p.primary /\ q.group = p.group /\ q.renamed = p.renamed
SubagentsKept(p, q) == q.sub = p.sub /\ q.misnamed = p.misnamed
SpansKept(p, q) == q.spans = p.spans /\ q.lineages = p.lineages
OthersKept(p, q, k) == \A j \in Keys : j # k => q.session[j] = p.session[j]

LEMMA PluginFields ==
  ASSUME NEW p \in Plugins
  PROVE  /\ p.primary \in [Keys -> Keys \cup {None}] /\ p.group \in [Keys -> SUBSET Keys]
         /\ p.session \in [Keys -> SessionT] /\ p.sub \in [Keys -> SubagentT]
         /\ p.spans \in Seq(SpanT) /\ p.lineages \in Seq(Keys)
         /\ p.renamed \in SUBSET Keys /\ p.misnamed \in SUBSET Keys
BY DEF Plugins

LEMMA NameElems ==
  ASSUME NEW n \in Names \cup Children
  PROVE  /\ Elems(n) \subseteq Keys /\ Head(n) \in Elems(n) /\ Head(n) \in Keys
         /\ n \in Seq(Keys) /\ n # <<>> /\ 1 \in DOMAIN n /\ n[1] = Head(n)
         /\ AliasesOf[Head(n)] \subseteq Elems(n)
<1>1. n \in Seq(Keys) /\ n # <<>> /\ AliasesOf[Head(n)] \subseteq Elems(n)
  BY SpansAssumption
<1>2. Len(n) \in Nat /\ Len(n) # 0 /\ DOMAIN n = 1..Len(n)
  BY <1>1, EmptySeq
<1>3. 1 \in DOMAIN n /\ n[1] = Head(n) /\ \A i \in DOMAIN n : n[i] \in Keys
  BY <1>1, <1>2
<1> QED BY <1>1, <1>3 DEF Elems

LEMMA RegisterFields ==
  ASSUME NEW p \in Plugins, NEW k \in Keys, NEW n, Elems(n) \subseteq Keys,
         NEW q, q = Register(p, k, n)
  PROVE  /\ q \in Plugins
         /\ q.primary = [a \in Keys |-> IF a \in AliasesOf[k] \cup Elems(n) THEN k
                                        ELSE p.primary[a]]
         /\ q.group = [p.group EXCEPT ![k] = @ \cup AliasesOf[k] \cup Elems(n)]
         /\ q.renamed = p.renamed /\ q.session = p.session
         /\ SubagentsKept(p, q) /\ SpansKept(p, q)
<1>1. AliasesOf[k] \subseteq Keys
  BY SpansAssumption
<1> QED BY <1>1, PluginFields DEF Register, Plugins, SubagentsKept, SpansKept

LEMMA UnregisterFields ==
  ASSUME NEW p \in Plugins, NEW k \in Keys, NEW q, q = Unregister(p, k),
         NEW ks, ks = {IF p.primary[a] = None THEN a ELSE p.primary[a] : a \in AliasesOf[k]},
         NEW as, as = UNION {IF p.group[x] = {} THEN AliasesOf[x] ELSE p.group[x] : x \in ks}
  PROVE  /\ q \in Plugins
         /\ q.primary = [a \in Keys |-> IF a \in as THEN None ELSE p.primary[a]]
         /\ q.group = [x \in Keys |-> IF x \in ks THEN {} ELSE p.group[x]]
         /\ q.renamed = p.renamed /\ q.session = p.session
         /\ SubagentsKept(p, q) /\ SpansKept(p, q)
BY PluginFields DEF Unregister, Plugins, SubagentsKept, SpansKept

LEMMA SessionFields ==
  ASSUME NEW s \in SessionT
  PROVE  /\ s.root \in Nat /\ s.llm \in Nat /\ s.tool \in [Tools -> Nat]
         /\ s.timer \in BOOLEAN /\ s.pending \in BOOLEAN
         /\ s.stats \in StatsT /\ s.closed \in LineageT
BY DEF SessionT

\* One field of a session is written.
LEMMA SessionWritten ==
  ASSUME NEW s \in SessionT
  PROVE  /\ \A st \in StatsT : [s EXCEPT !.stats = st] \in SessionT
         /\ \A i \in Nat : [s EXCEPT !.root = i] \in SessionT
         /\ \A i \in Nat : [s EXCEPT !.llm = i] \in SessionT
         /\ \A b \in BOOLEAN : [s EXCEPT !.timer = b] \in SessionT
         /\ \A b \in BOOLEAN : [s EXCEPT !.pending = b] \in SessionT
         /\ \A l \in LineageT : [s EXCEPT !.closed = l] \in SessionT
         /\ \A tl \in [Tools -> Nat] : [s EXCEPT !.tool = tl] \in SessionT
BY DEF SessionT

LEMMA SessionsWritten ==
  ASSUME NEW p \in Plugins, NEW k \in Keys, NEW s \in SessionT,
         NEW q, q = [p EXCEPT !.session = [p.session EXCEPT ![k] = s]]
  PROVE  /\ q \in Plugins /\ q.session[k] = s /\ OthersKept(p, q, k)
         /\ NamesKept(p, q) /\ SubagentsKept(p, q) /\ SpansKept(p, q)
BY PluginFields DEF Plugins, OthersKept, NamesKept, SubagentsKept, SpansKept

PutSession(p, k, s) == [p EXCEPT !.session = [p.session EXCEPT ![k] = s]]
SessionPut(p, q, k, s) ==
  /\ q \in Plugins /\ q.session[k] = s /\ OthersKept(p, q, k)
  /\ NamesKept(p, q) /\ SubagentsKept(p, q) /\ SpansKept(p, q)

LEMMA SessionPutFields ==
  ASSUME NEW p \in Plugins, NEW k \in Keys, NEW s \in SessionT
  PROVE  SessionPut(p, PutSession(p, k, s), k, s)
BY SessionsWritten DEF SessionPut, PutSession

LEMMA WithStatsFields ==
  ASSUME NEW p \in Plugins, NEW k \in Keys, NEW q, q = WithStats(p, k)
  PROVE  /\ p.session[k].stats # NoStats => q = p
         /\ q \in Plugins
         /\ NamesKept(p, q) /\ SubagentsKept(p, q) /\ q.spans = p.spans
         /\ OthersKept(p, q, k)
         /\ p.session[k].stats = NoStats =>
              /\ q.lineages = Append(p.lineages, k)
              /\ q.session[k] = [p.session[k] EXCEPT !.stats =
                   [run |-> Len(p.lineages) + 1, rootRun |-> Len(p.lineages) + 1,
                    parentRun |-> 0]]
<1>1. CASE p.session[k].stats # NoStats
  BY <1>1 DEF WithStats, NamesKept, SubagentsKept, OthersKept
<1>2. CASE p.session[k].stats = NoStats
  <2> DEFINE st == [run |-> Len(p.lineages) + 1, rootRun |-> Len(p.lineages) + 1,
                    parentRun |-> 0]
             s == [p.session[k] EXCEPT !.stats = st]
             r == [p EXCEPT !.session = [p.session EXCEPT ![k] = s]]
  <2>1. st \in StatsT /\ Append(p.lineages, k) \in Seq(Keys)
    BY PluginFields DEF StatsT
  <2>2. p.session[k] \in SessionT
    BY PluginFields
  <2>3. s \in SessionT
    <3> HIDE DEF st
    <3> QED BY <2>1, <2>2, SessionWritten
  <2>4. q = [r EXCEPT !.lineages = Append(p.lineages, k)]
    BY <1>2 DEF WithStats, Plugins
  <2> HIDE DEF s
  <2>5. /\ r \in Plugins /\ r.session[k] = s /\ OthersKept(p, r, k)
        /\ NamesKept(p, r) /\ SubagentsKept(p, r) /\ SpansKept(p, r)
    BY <2>3, SessionsWritten
  <2> HIDE DEF r
  <2>6. /\ q \in Plugins /\ q.lineages = Append(p.lineages, k) /\ q.session = r.session
        /\ NamesKept(r, q) /\ SubagentsKept(r, q) /\ q.spans = r.spans
    BY <2>1, <2>4, <2>5, PluginFields DEF Plugins, NamesKept, SubagentsKept
  <2> QED BY <1>2, <2>5, <2>6 DEF NamesKept, SubagentsKept, SpansKept, OthersKept, s
<1> QED BY <1>1, <1>2

LEMMA AttachFields ==
  ASSUME NEW p \in Plugins, NEW k \in Keys, NEW q, q = Attach(p, k)
  PROVE  /\ p.session[k].root # 0 => q = p
         /\ p.session[k].root = 0 => q.session[k] = [p.session[k] EXCEPT !.pending = TRUE]
         /\ q \in Plugins /\ OthersKept(p, q, k)
         /\ NamesKept(p, q) /\ SubagentsKept(p, q) /\ SpansKept(p, q)
<1>1. CASE p.session[k].root # 0
  BY <1>1 DEF Attach, NamesKept, SubagentsKept, OthersKept, SpansKept
<1>2. CASE p.session[k].root = 0
  <2> DEFINE s == [p.session[k] EXCEPT !.pending = TRUE]
  <2>1. s \in SessionT
    BY PluginFields, SessionWritten
  <2>2. q = [p EXCEPT !.session = [p.session EXCEPT ![k] = s]]
    BY <1>2 DEF Attach
  <2> HIDE DEF s
  <2>3. /\ q \in Plugins /\ q.session[k] = s /\ OthersKept(p, q, k)
        /\ NamesKept(p, q) /\ SubagentsKept(p, q) /\ SpansKept(p, q)
    BY <2>1, <2>2, SessionsWritten
  <2> QED BY <1>2, <2>3 DEF s
<1> QED BY <1>1, <1>2

LEMMA TouchFields ==
  ASSUME NEW p \in Plugins, NEW k \in Keys \cup {None}, NEW q, q = Touch(p, k),
         \A j \in Keys : p.session[j].root # 0 => p.session[j].timer
  PROVE  q = p
<1>1. CASE k = None
  BY <1>1 DEF Touch
<1>2. CASE k # None /\ p.session[k].root = 0
  BY <1>2 DEF Touch
<1>3. CASE k # None /\ p.session[k].root # 0
  <2>1. p.session[k] \in SessionT /\ p.session[k].timer = TRUE /\ k \in Keys
    BY <1>3, PluginFields DEF SessionT
  <2>2. [p.session[k] EXCEPT !.timer = TRUE] = p.session[k]
    BY <2>1 DEF SessionT
  <2>3. q = [p EXCEPT !.session = [p.session EXCEPT ![k] = [p.session[k] EXCEPT !.timer = TRUE]]]
    BY <1>3, SpansAssumption DEF Touch
  <2>4. [p.session EXCEPT ![k] = p.session[k]] = p.session
    BY <2>1, PluginFields
  <2>5. q = [p EXCEPT !.session = p.session]
    BY <2>2, <2>3, <2>4
  <2> QED BY <2>5 DEF Plugins
<1> QED BY <1>1, <1>2, <1>3

NewSpan(p, kind, k, parent, child) ==
  [kind |-> kind, key |-> k, parent |-> parent, child |-> child, open |-> TRUE,
   run |-> p.session[k].stats.run, rootRun |-> p.session[k].stats.rootRun,
   parentRun |-> p.session[k].stats.parentRun]

SpanStarted(p, q, x) ==
  /\ q \in Plugins /\ x \in SpanT /\ q.spans = Append(p.spans, x)
  /\ q.lineages = p.lineages /\ q.session = p.session
  /\ NamesKept(p, q) /\ SubagentsKept(p, q)

LEMMA StartSpanFields ==
  ASSUME NEW p \in Plugins, NEW kind \in SpanKinds, NEW k \in Keys, NEW parent \in Nat,
         NEW child \in SUBSET Keys
  PROVE  SpanStarted(p, StartSpan(p, kind, k, parent, child),
                     NewSpan(p, kind, k, parent, child))
<1> DEFINE q == StartSpan(p, kind, k, parent, child)
<1>1. p.session[k].stats \in StatsT
  BY PluginFields, SessionFields
<1>2. NewSpan(p, kind, k, parent, child) \in SpanT
  BY <1>1 DEF SpanT, StatsT, NewSpan
<1>3. q = [p EXCEPT !.spans = Append(p.spans, NewSpan(p, kind, k, parent, child))]
  BY DEF StartSpan, NewSpan
<1>4. Append(p.spans, NewSpan(p, kind, k, parent, child)) \in Seq(SpanT)
  BY <1>2, PluginFields
<1> HIDE DEF q
<1>5. /\ q \in Plugins /\ q.spans = Append(p.spans, NewSpan(p, kind, k, parent, child))
      /\ q.lineages = p.lineages /\ q.session = p.session
      /\ NamesKept(p, q) /\ SubagentsKept(p, q)
  BY <1>2, <1>3, <1>4, PluginFields DEF Plugins, NamesKept, SubagentsKept
<1> QED BY <1>2, <1>5 DEF SpanStarted, q

\* Only the flag `open' of a span ever changes.
SpansAs(p, q) ==
  /\ q.spans \in Seq(SpanT) /\ Len(q.spans) = Len(p.spans)
  /\ \A i \in 1..Len(p.spans) :
       /\ q.spans[i].kind = p.spans[i].kind /\ q.spans[i].key = p.spans[i].key
       /\ q.spans[i].parent = p.spans[i].parent /\ q.spans[i].run = p.spans[i].run
       /\ q.spans[i].rootRun = p.spans[i].rootRun
       /\ q.spans[i].parentRun = p.spans[i].parentRun
       /\ q.spans[i].child = p.spans[i].child

LEMMA EndSpanFields ==
  ASSUME NEW p \in Plugins, NEW i \in 1..Len(p.spans), NEW q, q = EndSpan(p, i)
  PROVE  /\ q \in Plugins /\ SpansAs(p, q)
         /\ \A j \in 1..Len(p.spans) : q.spans[j].open <=> j # i /\ p.spans[j].open
         /\ q.lineages = p.lineages /\ q.session = p.session
         /\ NamesKept(p, q) /\ SubagentsKept(p, q)
<1> DEFINE x == [p.spans[i] EXCEPT !.open = FALSE]
           t == [p.spans EXCEPT ![i] = x]
<1>1. p.spans \in Seq(SpanT) /\ p.spans[i] \in SpanT
  BY PluginFields
<1>2. /\ x \in SpanT /\ x.open = FALSE
      /\ x.kind = p.spans[i].kind /\ x.key = p.spans[i].key
      /\ x.parent = p.spans[i].parent /\ x.run = p.spans[i].run
      /\ x.rootRun = p.spans[i].rootRun /\ x.parentRun = p.spans[i].parentRun
      /\ x.child = p.spans[i].child
  BY <1>1 DEF SpanT
<1>3. q = [p EXCEPT !.spans = t]
  BY DEF EndSpan
<1> HIDE DEF x
<1>4. t \in Seq(SpanT) /\ Len(t) = Len(p.spans)
  BY <1>1, <1>2
<1>5. \A j \in 1..Len(p.spans) : t[j] = IF j = i THEN x ELSE p.spans[j]
  BY <1>1
<1>6. \A j \in 1..Len(p.spans) : p.spans[j].open \in BOOLEAN
  <2>1. \A j \in 1..Len(p.spans) : p.spans[j] \in SpanT
    BY <1>1
  <2> QED BY <2>1 DEF SpanT
<1> HIDE DEF t
<1>7. /\ q \in Plugins /\ q.spans = t /\ q.lineages = p.lineages /\ q.session = p.session
      /\ NamesKept(p, q) /\ SubagentsKept(p, q)
  BY <1>3, <1>4, PluginFields DEF Plugins, NamesKept, SubagentsKept
<1> QED BY <1>2, <1>4, <1>5, <1>6, <1>7 DEF SpansAs

LEMMA DecidedFields ==
  ASSUME NEW p \in Plugins, NEW k \in Keys, NEW why
  PROVE  /\ Decided(p, k, why) \in StatsT
         /\ Decided(p, k, why).run = p.session[k].stats.run
<1>1. /\ p.session[k] \in SessionT /\ p.session[k].stats \in StatsT
      /\ p.session[k].closed \in LineageT
  BY PluginFields, SessionFields
<1>2. /\ p.sub[k] \in SubagentT /\ p.sub[k].parent \in Keys \cup {None}
      /\ p.sub[k].primary \in Keys \cup {None}
  BY PluginFields DEF SubagentT
<1> DEFINE primary == IF p.sub[k].primary = None THEN k ELSE p.sub[k].primary
           ofParent == IF p.sub[k].parent = None THEN NoStats
                       ELSE p.session[p.sub[k].parent].stats
<1>3. p.sub[primary].meta \in LineageT
  BY <1>2, PluginFields DEF SubagentT
<1>4. ofParent \in StatsT
  BY <1>2, PluginFields, SessionFields DEF StatsT, NoStats
<1> HIDE DEF primary, ofParent
<1> SUFFICES ASSUME NEW stats \in StatsT, NEW of \in StatsT, NEW meta \in LineageT,
                    NEW prior \in LineageT, stats = p.session[k].stats, of = ofParent,
                    meta = p.sub[primary].meta, prior = p.session[k].closed
             PROVE  /\ Decided(p, k, why) \in StatsT
                    /\ Decided(p, k, why).run = stats.run
  BY <1>1, <1>3, <1>4
<1>5. Decided(p, k, why) \in
        {[stats EXCEPT !.parentRun = of.run, !.rootRun = of.rootRun],
         [stats EXCEPT !.parentRun = meta.run, !.rootRun = meta.rootRun],
         [stats EXCEPT !.parentRun = prior.run, !.rootRun = prior.rootRun],
         [stats EXCEPT !.rootRun = stats.run]}
  BY DEF Decided, primary, ofParent
<1> QED BY <1>5 DEF StatsT, LineageT

NewRoot(p, k, d) ==
  [kind |-> "root", key |-> k, parent |-> p.sub[k].span, child |-> {}, open |-> TRUE,
   run |-> d.run, rootRun |-> d.rootRun, parentRun |-> d.parentRun]

\* What a new root is, and the session it belongs to.
RootStarted(p, q, k, d) ==
  /\ q \in Plugins /\ NewRoot(p, k, d) \in SpanT
  /\ q.spans = Append(p.spans, NewRoot(p, k, d))
  /\ q.session[k] = [p.session[k] EXCEPT !.stats = d, !.root = Len(p.spans) + 1,
                                         !.pending = FALSE]
  /\ OthersKept(p, q, k)
  /\ q.lineages = p.lineages /\ NamesKept(p, q) /\ SubagentsKept(p, q)

LEMMA WithRootFields ==
  ASSUME NEW p \in Plugins, NEW k \in Keys, NEW why, p.session[k].root = 0
  PROVE  RootStarted(p, WithRoot(p, k, why), k, Decided(p, k, why))
<1> DEFINE q == WithRoot(p, k, why)
           d == Decided(p, k, why)
<1>1. d \in StatsT /\ p.session[k] \in SessionT /\ p.sub[k].span \in Nat
  BY PluginFields, DecidedFields DEF SubagentT
<1> DEFINE x == NewRoot(p, k, d)
           s == [p.session[k] EXCEPT !.stats = d]
           decided == [p EXCEPT !.session = [p.session EXCEPT ![k] = s]]
           started == StartSpan(decided, "root", k, p.sub[k].span, {})
           u == [s EXCEPT !.root = Len(started.spans), !.pending = FALSE]
<1>2. s \in SessionT /\ s.stats = d
  BY <1>1, SessionWritten DEF SessionT
<1>3. q = [started EXCEPT !.session[k].root = Len(started.spans), !.session[k].pending = FALSE]
  BY DEF WithRoot
<1> HIDE DEF s
<1>4. /\ decided \in Plugins /\ decided.session[k] = s /\ OthersKept(p, decided, k)
      /\ NamesKept(p, decided) /\ SubagentsKept(p, decided) /\ SpansKept(p, decided)
  BY <1>2, SessionsWritten
<1> HIDE DEF decided
<1>5. /\ started \in Plugins /\ x \in SpanT /\ started.spans = Append(decided.spans, x)
      /\ started.lineages = decided.lineages /\ started.session = decided.session
      /\ NamesKept(decided, started) /\ SubagentsKept(decided, started)
  <2>1. x = NewSpan(decided, "root", k, p.sub[k].span, {})
    BY <1>2, <1>4 DEF NewSpan, NewRoot
  <2>2. started = StartSpan(decided, "root", k, p.sub[k].span, {})
    OBVIOUS
  <2>a. "root" \in SpanKinds
    BY DEF SpanKinds
  <2> HIDE DEF started
  <2>3. SpanStarted(decided, started, NewSpan(decided, "root", k, p.sub[k].span, {}))
    BY <1>1, <1>4, <2>a, <2>2, StartSpanFields
  <2> QED BY <2>1, <2>3 DEF SpanStarted
<1> HIDE DEF started
<1>6. Len(started.spans) = Len(p.spans) + 1 /\ Len(started.spans) \in Nat
  BY <1>4, <1>5, PluginFields DEF SpansKept
<1>7. u \in SessionT
  BY <1>2, <1>6 DEF SessionT
<1>8. q = [started EXCEPT !.session = [started.session EXCEPT ![k] = u]]
  BY <1>3, <1>4, <1>5, PluginFields DEF Plugins
<1>9. u = [p.session[k] EXCEPT !.stats = d, !.root = Len(p.spans) + 1, !.pending = FALSE]
  BY <1>6 DEF s
<1> HIDE DEF u
<1>10. /\ q \in Plugins /\ q.session[k] = u /\ OthersKept(started, q, k)
       /\ NamesKept(started, q) /\ SubagentsKept(started, q) /\ SpansKept(started, q)
  <2>1. started \in Plugins
    BY <1>5
  <2>2. q = PutSession(started, k, u)
    BY <1>8 DEF PutSession
  <2> HIDE DEF q
  <2>3. SessionPut(started, q, k, u)
    BY <2>1, <2>2, <1>7, SessionPutFields
  <2> QED BY <2>3 DEF SessionPut
<1> HIDE DEF q, d, x
<1>11. /\ q \in Plugins /\ x \in SpanT /\ q.spans = Append(p.spans, x)
       /\ OthersKept(p, q, k) /\ q.lineages = p.lineages
       /\ NamesKept(p, q) /\ SubagentsKept(p, q)
  BY <1>4, <1>5, <1>10 DEF NamesKept, SubagentsKept, SpansKept, OthersKept
<1>12. q.session[k] = [p.session[k] EXCEPT !.stats = d, !.root = Len(p.spans) + 1,
                                          !.pending = FALSE]
  BY <1>9, <1>10
<1> QED BY <1>11, <1>12 DEF RootStarted, q, d, x

LEMMA SubagentFields ==
  ASSUME NEW b \in SubagentT
  PROVE  /\ b.span \in Nat /\ b.parent \in Keys \cup {None} /\ b.primary \in Keys \cup {None}
         /\ b.group \subseteq Keys /\ b.source \in {"none", "hook", "fallback"}
         /\ b.meta \in LineageT
BY DEF SubagentT

LEMMA SubsWritten ==
  ASSUME NEW p \in Plugins, NEW f \in [Keys -> SubagentT],
         NEW q, q = [p EXCEPT !.sub = f]
  PROVE  /\ q \in Plugins /\ q.sub = f /\ q.misnamed = p.misnamed /\ q.session = p.session
         /\ NamesKept(p, q) /\ SpansKept(p, q)
BY PluginFields DEF Plugins, NamesKept, SpansKept

SubNamed(p, q, c, parent, span, source) ==
  /\ q \in Plugins /\ NamesKept(p, q) /\ SpansKept(p, q)
  /\ q.misnamed = p.misnamed /\ q.session = p.session
  /\ \A a \in Keys :
       /\ a \in Elems(c) => /\ q.sub[a].span = span /\ q.sub[a].parent = parent
                            /\ q.sub[a].primary = Head(c)
       /\ a \notin Elems(c) => /\ q.sub[a].span = p.sub[a].span
                               /\ q.sub[a].parent = p.sub[a].parent
                               /\ q.sub[a].primary = p.sub[a].primary
       /\ a = Head(c) => /\ q.sub[a].group = p.sub[a].group \cup Elems(c)
                         /\ q.sub[a].source = source
       /\ a # Head(c) => /\ q.sub[a].group = p.sub[a].group
                         /\ q.sub[a].source = p.sub[a].source
       /\ q.sub[a].meta = p.sub[a].meta

\* The names of the child have the new span, and its key the group.
LEMMA RegisterSubagentFields ==
  ASSUME NEW p \in Plugins, NEW c \in Children, NEW parent \in Keys \cup {None},
         NEW span \in Nat, NEW source \in {"hook", "fallback"}
  PROVE  SubNamed(p, RegisterSubagent(p, Head(c), parent, span, source, c), c, parent, span, source)
<1> DEFINE q == RegisterSubagent(p, Head(c), parent, span, source, c)
<1>q. q = RegisterSubagent(p, Head(c), parent, span, source, c)
  OBVIOUS
<1> HIDE DEF q
<1> DEFINE k == Head(c)
           named(a) == IF a \in Elems(c)
                       THEN [p.sub[a] EXCEPT !.span = span, !.parent = parent,
                                             !.primary = k]
                       ELSE p.sub[a]
           new(a) == IF a = k
                     THEN [named(a) EXCEPT !.group = p.sub[a].group \cup Elems(c),
                                           !.source = source]
                     ELSE named(a)
           f == [a \in Keys |-> new(a)]
<1>1. /\ k \in Keys /\ k \in Elems(c) /\ Elems(c) \subseteq Keys
      /\ AliasesOf[k] \cup Elems(c) = Elems(c)
  BY NameElems
<1>2. \A a \in Keys :
        /\ new(a) \in SubagentT
        /\ a \in Elems(c) => /\ new(a).span = span /\ new(a).parent = parent
                             /\ new(a).primary = k
        /\ a \notin Elems(c) => /\ new(a).span = p.sub[a].span
                                /\ new(a).parent = p.sub[a].parent
                                /\ new(a).primary = p.sub[a].primary
        /\ a = k => /\ new(a).group = p.sub[a].group \cup Elems(c)
                    /\ new(a).source = source
        /\ a # k => /\ new(a).group = p.sub[a].group /\ new(a).source = p.sub[a].source
        /\ new(a).meta = p.sub[a].meta
  <2> SUFFICES ASSUME NEW a \in Keys
               PROVE  /\ new(a) \in SubagentT
                      /\ a \in Elems(c) => /\ new(a).span = span /\ new(a).parent = parent
                                           /\ new(a).primary = k
                      /\ a \notin Elems(c) => /\ new(a).span = p.sub[a].span
                                              /\ new(a).parent = p.sub[a].parent
                                              /\ new(a).primary = p.sub[a].primary
                      /\ a = k => /\ new(a).group = p.sub[a].group \cup Elems(c)
                                  /\ new(a).source = source
                      /\ a # k => /\ new(a).group = p.sub[a].group /\ new(a).source = p.sub[a].source
                      /\ new(a).meta = p.sub[a].meta
    OBVIOUS
  <2>b. p.sub[a] \in SubagentT
    BY PluginFields
  <2>0. p.sub[a].group \cup Elems(c) \subseteq Keys
    BY <1>1, <2>b, SubagentFields
  <2>1. CASE a = k
    BY <1>1, <2>b, <2>0, <2>1 DEF SubagentT
  <2>2. CASE a # k /\ a \in Elems(c)
    BY <1>1, <2>b, <2>2 DEF SubagentT
  <2>3. CASE a # k /\ a \notin Elems(c)
    BY <1>1, <2>b, <2>3 DEF SubagentT
  <2> QED BY <2>1, <2>2, <2>3
<1>3. \A a \in Keys : f[a] = new(a)
  OBVIOUS
<1>4. q = [p EXCEPT !.sub = f]
  <2>1. \A a \in Keys : p.sub[a].group \cup (AliasesOf[k] \cup Elems(c)) = p.sub[a].group \cup Elems(c)
    BY <1>1
  <2> QED BY <1>1, <1>q, <2>1 DEF RegisterSubagent
<1> HIDE DEF new
<1>5. f \in [Keys -> SubagentT]
  BY <1>2
<1> HIDE DEF f
<1>6. /\ q \in Plugins /\ q.sub = f /\ q.misnamed = p.misnamed /\ q.session = p.session
      /\ NamesKept(p, q) /\ SpansKept(p, q)
  BY <1>4, <1>5, SubsWritten
<1>p. SubNamed(p, q, c, parent, span, source)
  BY <1>2, <1>3, <1>6 DEF SubNamed
<1> QED BY <1>p DEF q

SubPrimaries(p, as) == {IF p.sub[a].primary = None THEN a ELSE p.sub[a].primary : a \in as}
SubGone(p, as) ==
  UNION {IF p.sub[x].group = {} THEN AliasesOf[x] ELSE p.sub[x].group
           : x \in SubPrimaries(p, as)}

SubsGone(p, q, as) ==
  /\ q \in Plugins /\ NamesKept(p, q) /\ SpansKept(p, q)
  /\ q.misnamed = p.misnamed /\ q.session = p.session
  /\ \A a \in Keys :
       /\ a \in SubGone(p, as) => /\ q.sub[a].span = 0 /\ q.sub[a].parent = None
                                  /\ q.sub[a].primary = None
       /\ a \notin SubGone(p, as) => /\ q.sub[a].span = p.sub[a].span
                                     /\ q.sub[a].parent = p.sub[a].parent
                                     /\ q.sub[a].primary = p.sub[a].primary
       /\ a \in SubPrimaries(p, as) =>
            q.sub[a].group = {} /\ q.sub[a].source = "none" /\ q.sub[a].meta = NoMeta
       /\ a \notin SubPrimaries(p, as) =>
            /\ q.sub[a].group = p.sub[a].group /\ q.sub[a].source = p.sub[a].source
            /\ q.sub[a].meta = p.sub[a].meta

\* The names that are gone have no span; the keys they had no group.
LEMMA UnregisterSubagentFields ==
  ASSUME NEW p \in Plugins, NEW as \in SUBSET Keys
  PROVE  SubsGone(p, UnregisterSubagent(p, as), as)
<1> DEFINE q == UnregisterSubagent(p, as)
<1>q. q = UnregisterSubagent(p, as)
  OBVIOUS
<1> HIDE DEF q
<1> DEFINE gone == SubGone(p, as)
           ks == SubPrimaries(p, as)
           un(a) == IF a \in gone
                    THEN [p.sub[a] EXCEPT !.span = 0, !.parent = None, !.primary = None]
                    ELSE p.sub[a]
           new(a) == IF a \in ks
                     THEN [un(a) EXCEPT !.group = {}, !.source = "none", !.meta = NoMeta]
                     ELSE un(a)
           f == [a \in Keys |-> new(a)]
<1>4. q = [p EXCEPT !.sub = f]
  BY <1>q DEF UnregisterSubagent, SubGone, SubPrimaries
<1> HIDE DEF gone, ks
<1>2. \A a \in Keys :
        /\ new(a) \in SubagentT
        /\ a \in gone => /\ new(a).span = 0 /\ new(a).parent = None
                         /\ new(a).primary = None
        /\ a \notin gone => /\ new(a).span = p.sub[a].span
                            /\ new(a).parent = p.sub[a].parent
                            /\ new(a).primary = p.sub[a].primary
        /\ a \in ks => /\ new(a).group = {} /\ new(a).source = "none"
                       /\ new(a).meta = NoMeta
        /\ a \notin ks => /\ new(a).group = p.sub[a].group
                          /\ new(a).source = p.sub[a].source
                          /\ new(a).meta = p.sub[a].meta
  <2> SUFFICES ASSUME NEW a \in Keys
               PROVE  /\ new(a) \in SubagentT
                      /\ a \in gone => /\ new(a).span = 0 /\ new(a).parent = None
                                       /\ new(a).primary = None
                      /\ a \notin gone => /\ new(a).span = p.sub[a].span
                                          /\ new(a).parent = p.sub[a].parent
                                          /\ new(a).primary = p.sub[a].primary
                      /\ a \in ks => /\ new(a).group = {} /\ new(a).source = "none"
                                     /\ new(a).meta = NoMeta
                      /\ a \notin ks => /\ new(a).group = p.sub[a].group
                                        /\ new(a).source = p.sub[a].source
                                        /\ new(a).meta = p.sub[a].meta
    OBVIOUS
  <2>b. p.sub[a] \in SubagentT
    BY PluginFields
  <2>0. NoMeta \in LineageT
    BY DEF NoMeta, LineageT
  <2>1. CASE a \in ks /\ a \in gone
    BY <2>b, <2>0, <2>1 DEF SubagentT
  <2>2. CASE a \in ks /\ a \notin gone
    BY <2>b, <2>0, <2>2 DEF SubagentT
  <2>3. CASE a \notin ks
    BY <2>b, <2>3 DEF SubagentT
  <2> QED BY <2>1, <2>2, <2>3
<1>3. \A a \in Keys : f[a] = new(a)
  OBVIOUS
<1> HIDE DEF new
<1>5. f \in [Keys -> SubagentT]
  BY <1>2
<1> HIDE DEF f
<1>6. /\ q \in Plugins /\ q.sub = f /\ q.misnamed = p.misnamed /\ q.session = p.session
      /\ NamesKept(p, q) /\ SpansKept(p, q)
  BY <1>4, <1>5, SubsWritten
<1>p. SubsGone(p, q, as)
  BY <1>2, <1>3, <1>6 DEF gone, ks, SubsGone
<1> QED BY <1>p DEF q

SubDescribed(p, q, c, stats) ==
  /\ q \in Plugins /\ NamesKept(p, q) /\ SpansKept(p, q) /\ q.session = p.session
  /\ q.misnamed = p.misnamed \cup {a \in Keys \ Elems(c) : p.sub[a].primary = Head(c)}
  /\ \A a \in Keys :
       /\ q.sub[a].span = p.sub[a].span /\ q.sub[a].parent = p.sub[a].parent
       /\ q.sub[a].primary = p.sub[a].primary /\ q.sub[a].group = p.sub[a].group
       /\ q.sub[a].source = p.sub[a].source
       /\ q.sub[a].meta = IF a = Head(c)
                          THEN [run |-> stats.run, rootRun |-> stats.rootRun]
                          ELSE p.sub[a].meta

\* The metadata of the child is that of its parent's run.
LEMMA DescribeFields ==
  ASSUME NEW p \in Plugins, NEW c \in Children, NEW stats \in StatsT
  PROVE  SubDescribed(p, Describe(p, Head(c), stats, c), c, stats)
<1> DEFINE q == Describe(p, Head(c), stats, c)
<1>q. q = Describe(p, Head(c), stats, c)
  OBVIOUS
<1> HIDE DEF q
<1> DEFINE k == Head(c)
           m == [run |-> stats.run, rootRun |-> stats.rootRun]
           b == [p.sub[k] EXCEPT !.meta = m]
           f == [p.sub EXCEPT ![k] = b]
           r == [p EXCEPT !.sub = f]
           mis == p.misnamed \cup {a \in Keys \ Elems(c) : p.sub[a].primary = k}
<1>1. k \in Keys /\ p.sub[k] \in SubagentT /\ m \in LineageT
  BY NameElems, PluginFields DEF StatsT, LineageT
<1>2. q = [r EXCEPT !.misnamed = mis]
  BY <1>q DEF Describe, Plugins
<1> HIDE DEF m
<1>3. /\ b \in SubagentT /\ b.span = p.sub[k].span /\ b.parent = p.sub[k].parent
      /\ b.primary = p.sub[k].primary /\ b.group = p.sub[k].group
      /\ b.source = p.sub[k].source /\ b.meta = m
  BY <1>1 DEF SubagentT
<1> HIDE DEF b
<1>4. f \in [Keys -> SubagentT] /\ \A a \in Keys : f[a] = IF a = k THEN b ELSE p.sub[a]
  BY <1>1, <1>3, PluginFields
<1> HIDE DEF f
<1>5. /\ r \in Plugins /\ r.sub = f /\ r.misnamed = p.misnamed /\ r.session = p.session
      /\ NamesKept(p, r) /\ SpansKept(p, r)
  BY <1>4, SubsWritten
<1> HIDE DEF r
<1>6. mis \in SUBSET Keys
  BY PluginFields
<1> HIDE DEF mis
<1>7. /\ q \in Plugins /\ q.sub = f /\ q.misnamed = mis /\ q.session = r.session
      /\ NamesKept(r, q) /\ SpansKept(r, q)
  BY <1>2, <1>5, <1>6 DEF Plugins, NamesKept, SpansKept
<1>8. NamesKept(p, q) /\ SpansKept(p, q)
  BY <1>5, <1>7 DEF NamesKept, SpansKept
<1>p. SubDescribed(p, q, c, stats)
  BY <1>3, <1>4, <1>5, <1>7, <1>8 DEF m, mis, SubDescribed
<1> QED BY <1>p DEF q

-------------------------------------------------------------------------------
(* The invariant: Maps, runs, roots, families and subagents.                 *)

Ids(p) == 1..Len(p.spans)
NewId(p) == Len(p.spans) + 1
Holds(p, i, kind, k) ==
  i # 0 => i \in Ids(p) /\ p.spans[i].kind = kind /\ p.spans[i].key = k

\* A Map holds spans of its kind and of the session it holds them for.
SessionSound(p, k) ==
  LET s == p.session[k]
  IN  /\ Holds(p, s.root, "root", k) /\ Holds(p, s.llm, "llm", k)
      /\ \A t \in Tools : Holds(p, s.tool[t], "tool", k)
      /\ \A t, u \in Tools : s.tool[t] # 0 /\ s.tool[t] = s.tool[u] => t = u
SubSound(p, a) ==
  LET b == p.sub[a]
  IN  /\ Holds(p, b.span, "subagent", b.parent)
      /\ (b.span = 0 <=> b.parent = None)
      /\ (b.span = 0 <=> b.primary = None)
MapsSound(p) == \A k \in Keys : SessionSound(p, k) /\ SubSound(p, k)

\* A span is of a run of its session, and the statistics of a session are those
\* of its newest run.
RunsOf(p) == 1..Len(p.lineages)
Numbered(p) ==
  /\ \A i \in Ids(p) : /\ p.spans[i].run \in RunsOf(p)
                       /\ p.lineages[p.spans[i].run] = p.spans[i].key
  /\ \A k \in Keys :
       p.session[k].stats # NoStats =>
         /\ p.session[k].stats.run \in RunsOf(p)
         /\ p.lineages[p.session[k].stats.run] = k
         /\ \A r \in RunsOf(p) : p.lineages[r] = k => r <= p.session[k].stats.run

RootedAt(p, k) ==
  LET s == p.session[k]
  IN  /\ s.timer = (s.root # 0)
      /\ s.root = 0 => s.stats.parentRun = 0
      /\ s.root # 0 =>
           /\ s.stats # NoStats /\ s.pending = FALSE
           /\ p.spans[s.root].run = s.stats.run
           /\ p.spans[s.root].rootRun = s.stats.rootRun
Rooted(p) == \A k \in Keys : RootedAt(p, k)

IsRoot(p, i) == i \in Ids(p) /\ p.spans[i].kind = "root"
\* A lineage that a Map remembers is that of a root.
Known(p, m) == \E i \in Ids(p) : /\ IsRoot(p, i) /\ p.spans[i].run = m.run
                                 /\ p.spans[i].rootRun = m.rootRun

RootRuns(p) ==
  \A i, j \in Ids(p) : IsRoot(p, i) /\ IsRoot(p, j) =>
    /\ p.spans[i].run = p.spans[j].run => i = j
    /\ i < j /\ p.spans[j].parentRun = p.spans[i].run =>
         p.spans[j].rootRun = p.spans[i].rootRun
\* Of the run that a session counts for there is no root but its live one.
CurrentRoots(p) ==
  \A i \in Ids(p) : IsRoot(p, i) /\ p.spans[i].run = p.session[p.spans[i].key].stats.run =>
    i = p.session[p.spans[i].key].root
Remembered(p) ==
  \A k \in Keys : /\ p.session[k].closed # NoLineage => Known(p, p.session[k].closed)
                  /\ p.sub[k].meta # NoMeta => Known(p, p.sub[k].meta)
Families(p) == RootRuns(p) /\ CurrentRoots(p) /\ Remembered(p)

\* The metadata that Decided finds for the name are of the run that started its
\* span, or of a later run of that session.
Described(p, a) ==
  LET meta == p.sub[p.sub[a].primary].meta
  IN  /\ meta.run \in RunsOf(p) /\ p.lineages[meta.run] = p.sub[a].parent
      /\ meta.run >= p.spans[p.sub[a].span].run

SubsDescribed(p) ==
  \A a \in Keys : p.sub[a].span # 0 =>
    /\ a \in p.sub[p.sub[a].primary].group
    /\ a \in p.misnamed \/ Described(p, a)

RootSpawned(p, i) ==
  LET parent == p.spans[i].parent
      named == p.spans[i].parentRun
  IN  /\ parent \in Ids(p) /\ p.spans[parent].kind = "subagent"
      /\ \/ p.spans[i].key \in p.misnamed
         \/ /\ named \in RunsOf(p) /\ named >= p.spans[parent].run
            /\ p.lineages[named] = p.spans[parent].key
RootsSpawned(p) ==
  \A i \in Ids(p) : IsRoot(p, i) /\ p.spans[i].parent # 0 => RootSpawned(p, i)

Sound(p) ==
  /\ p \in Plugins /\ MapsSound(p) /\ Numbered(p) /\ Rooted(p) /\ Families(p)
  /\ SubsDescribed(p) /\ RootsSpawned(p)

LEMMA SpanFields ==
  ASSUME NEW p \in Plugins, NEW i \in Ids(p)
  PROVE  /\ p.spans[i] \in SpanT /\ p.spans[i].kind \in SpanKinds /\ p.spans[i].key \in Keys
         /\ p.spans[i].parent \in Nat /\ p.spans[i].open \in BOOLEAN
         /\ p.spans[i].run \in Nat /\ p.spans[i].rootRun \in Nat
         /\ p.spans[i].parentRun \in Nat /\ i \in Nat
<1>1. p.spans[i] \in SpanT /\ i \in Nat
  BY PluginFields DEF Ids
<1> QED BY <1>1 DEF SpanT

\* What the hooks do to names, to what waits and to llm and tool spans that end,
\* is nothing to this invariant.
Harmless(p, q) ==
  /\ SpansAs(p, q) /\ q.lineages = p.lineages /\ SubagentsKept(p, q)
  /\ \A k \in Keys :
       /\ q.session[k].root = p.session[k].root /\ q.session[k].stats = p.session[k].stats
       /\ q.session[k].timer = p.session[k].timer
       /\ q.session[k].root # 0 => q.session[k].pending = p.session[k].pending
       /\ q.session[k].llm \in {0, p.session[k].llm}
       /\ \A t \in Tools : q.session[k].tool[t] \in {0, p.session[k].tool[t]}
       /\ q.session[k].closed \in {NoLineage, p.session[k].closed}

LEMMA SoundKept ==
  ASSUME NEW p, Sound(p), NEW q \in Plugins, Harmless(p, q)
  PROVE  Sound(q)
<1> USE DEF Harmless
<1>1. p \in Plugins /\ Ids(q) = Ids(p) /\ RunsOf(q) = RunsOf(p) /\ q.sub = p.sub
  BY DEF Sound, SpansAs, Ids, RunsOf, SubagentsKept
<1>2. \A i \in Ids(p) :
        /\ q.spans[i].kind = p.spans[i].kind /\ q.spans[i].key = p.spans[i].key
        /\ q.spans[i].parent = p.spans[i].parent /\ q.spans[i].run = p.spans[i].run
        /\ q.spans[i].rootRun = p.spans[i].rootRun
        /\ q.spans[i].parentRun = p.spans[i].parentRun
        /\ (IsRoot(q, i) <=> IsRoot(p, i))
  BY <1>1 DEF SpansAs, Ids, IsRoot
<1>a. \A i, kind, k : Holds(p, i, kind, k) => Holds(q, i, kind, k) /\ Holds(q, 0, kind, k)
  BY <1>1, <1>2 DEF Holds
<1>3. MapsSound(q)
  <2> SUFFICES ASSUME NEW k \in Keys PROVE SessionSound(q, k) /\ SubSound(q, k)
    BY DEF MapsSound
  <2>1. SessionSound(p, k) /\ SubSound(p, k)
    BY DEF Sound, MapsSound
  <2>2. SubSound(q, k)
    BY <1>1, <1>a, <2>1 DEF SubSound
  <2>3. Holds(q, q.session[k].root, "root", k) /\ Holds(q, q.session[k].llm, "llm", k)
    BY <1>a, <2>1 DEF SessionSound
  <2>4. \A t \in Tools : Holds(q, q.session[k].tool[t], "tool", k)
    BY <1>a, <2>1 DEF SessionSound
  <2>5. \A t, u \in Tools :
          q.session[k].tool[t] # 0 /\ q.session[k].tool[t] = q.session[k].tool[u] => t = u
    BY <2>1 DEF SessionSound
  <2> QED BY <2>2, <2>3, <2>4, <2>5 DEF SessionSound
<1>4. Numbered(q)
  BY <1>1, <1>2 DEF Sound, Numbered
<1>5. Rooted(q)
  <2> SUFFICES ASSUME NEW k \in Keys PROVE RootedAt(q, k)
    BY DEF Rooted
  <2>1. Holds(p, p.session[k].root, "root", k) /\ RootedAt(p, k)
    BY DEF Sound, MapsSound, SessionSound, Rooted
  <2>2. /\ p.session[k].root # 0 => p.session[k].root \in Ids(p)
        /\ q.session[k].root = p.session[k].root /\ q.session[k].stats = p.session[k].stats
        /\ q.session[k].timer = p.session[k].timer
    BY <2>1 DEF Holds
  <2>3. q.session[k].root # 0 => q.session[k].pending = FALSE
    BY <2>1, <2>2 DEF RootedAt
  <2> QED BY <1>2, <2>1, <2>2, <2>3 DEF RootedAt
<1>6. \A m : Known(p, m) => Known(q, m)
  BY <1>1, <1>2 DEF Known
<1>7. Families(q)
  <2>1. RootRuns(q)
    BY <1>1, <1>2 DEF Sound, Families, RootRuns
  <2>2. CurrentRoots(q)
    BY <1>1, <1>2, SpanFields DEF Sound, Families, CurrentRoots
  <2>3. Remembered(q)
    BY <1>1, <1>6 DEF Sound, Families, Remembered
  <2> QED BY <2>1, <2>2, <2>3 DEF Families
<1>8. SubsDescribed(q)
  BY <1>1, <1>2 DEF Sound, SubsDescribed, Described, MapsSound, SubSound, Holds, SubagentsKept
<1>9. RootsSpawned(q)
  <2> SUFFICES ASSUME NEW i \in Ids(q), IsRoot(q, i), q.spans[i].parent # 0
               PROVE  RootSpawned(q, i)
    BY DEF RootsSpawned
  <2>1. RootSpawned(p, i)
    BY <1>1, <1>2 DEF Sound, RootsSpawned
  <2> QED BY <1>1, <1>2, <2>1 DEF RootSpawned, SubagentsKept
<1> QED BY <1>3, <1>4, <1>5, <1>7, <1>8, <1>9 DEF Sound

SpanAdded(p, q, x) == q.spans = Append(p.spans, x) /\ q.lineages = p.lineages

LEMMA Appended ==
  ASSUME NEW p \in Plugins, NEW q, NEW x \in SpanT, SpanAdded(p, q, x)
  PROVE  /\ NewId(p) \in Ids(q) /\ NewId(p) \notin Ids(p) /\ NewId(p) \in Nat /\ NewId(p) # 0
         /\ Ids(q) = Ids(p) \cup {NewId(p)} /\ q.spans[NewId(p)] = x
         /\ \A i \in Ids(p) : q.spans[i] = p.spans[i] /\ i < NewId(p) /\ i \in Nat
BY PluginFields DEF Ids, NewId, SpanAdded

LEMMA SessionKept ==
  ASSUME NEW p, NEW q, NEW k, SessionSound(p, k),
         \A i, kind, j : Holds(p, i, kind, j) => Holds(q, i, kind, j),
         q.session[k] = p.session[k]
  PROVE  SessionSound(q, k)
BY DEF SessionSound

MetaKnown(p, q) == \A k \in Keys : q.sub[k].meta # NoMeta => Known(p, q.sub[k].meta)
RunsKept(p, q) ==
  \A k \in Keys :
    /\ q.session[k].root = p.session[k].root /\ q.session[k].stats = p.session[k].stats
    /\ q.session[k].timer = p.session[k].timer
    /\ q.session[k].pending = p.session[k].pending
    /\ q.session[k].closed = p.session[k].closed
\* A span of the current run of its session that is no root.
Current(p, x) ==
  /\ x.kind # "root"
  /\ x.run = p.session[x.key].stats.run /\ p.session[x.key].stats # NoStats
Begun(p, q, k, x) ==
  /\ x.key = k
  /\ \/ x.kind = "llm" /\ q.session[k] = [p.session[k] EXCEPT !.llm = NewId(p)]
     \/ /\ x.kind = "tool"
        /\ \E t \in Tools : q.session[k] =
             [p.session[k] EXCEPT !.tool = [@ EXCEPT ![t] = NewId(p)]]

\* A span of the current run of its session is started that is no root.  A Map of
\* the session, or names of a subagent, may hold it.
LEMMA SoundAppended ==
  ASSUME NEW p, Sound(p), NEW q \in Plugins, NEW x \in SpanT, SpanAdded(p, q, x),
         Current(p, x), RunsKept(p, q), MapsSound(q), MetaKnown(p, q), SubsDescribed(q), p.misnamed \subseteq q.misnamed
  PROVE  Sound(q)
<1> DEFINE new == NewId(p)
<1>1. /\ new \in Ids(q) /\ new \notin Ids(p) /\ new \in Nat /\ new # 0
      /\ Ids(q) = Ids(p) \cup {new} /\ q.spans[new] = x
      /\ \A i \in Ids(p) : q.spans[i] = p.spans[i] /\ i < new /\ i \in Nat
  <2>1. p \in Plugins
    BY DEF Sound
  <2> QED BY <2>1, Appended
<1> HIDE DEF new
<1>2. RunsOf(q) = RunsOf(p) /\ x.key \in Keys /\ p \in Plugins
  BY DEF RunsOf, SpanT, Sound, SpanAdded
<1>3. \A i \in Ids(q) : IsRoot(q, i) <=> i \in Ids(p) /\ IsRoot(p, i)
  BY <1>1 DEF IsRoot, Current
<1>4. Numbered(q)
  <2>1. x.run \in RunsOf(p) /\ p.lineages[x.run] = x.key
    BY <1>2 DEF Sound, Numbered, Current
  <2>2. \A i \in Ids(q) : /\ q.spans[i].run \in RunsOf(q)
                          /\ q.lineages[q.spans[i].run] = q.spans[i].key
    <3> SUFFICES ASSUME NEW i \in Ids(q)
                 PROVE  /\ q.spans[i].run \in RunsOf(p)
                        /\ p.lineages[q.spans[i].run] = q.spans[i].key
      BY <1>2 DEF SpanAdded
    <3>1. CASE i = new
      BY <1>1, <2>1, <3>1
    <3>2. CASE i \in Ids(p)
      BY <1>1, <3>2 DEF Sound, Numbered
    <3> QED BY <1>1, <3>1, <3>2
  <2> QED BY <1>2, <2>2 DEF Sound, Numbered, RunsKept, SpanAdded
<1>5. Rooted(q)
  <2> SUFFICES ASSUME NEW k \in Keys PROVE RootedAt(q, k)
    BY DEF Rooted
  <2>1. Holds(p, p.session[k].root, "root", k) /\ RootedAt(p, k)
    BY DEF Sound, MapsSound, SessionSound, Rooted
  <2>2. p.session[k].root # 0 => q.spans[p.session[k].root] = p.spans[p.session[k].root]
    BY <1>1, <2>1 DEF Holds
  <2>3. /\ q.session[k].root = p.session[k].root /\ q.session[k].stats = p.session[k].stats
        /\ q.session[k].timer = p.session[k].timer
        /\ q.session[k].pending = p.session[k].pending
    BY DEF RunsKept
  <2> QED BY <2>1, <2>2, <2>3 DEF RootedAt
<1>6. \A m : Known(p, m) => Known(q, m)
  BY <1>1, <1>3 DEF Known
<1>7. Families(q)
  <2>1. RootRuns(q)
    <3> SUFFICES ASSUME NEW i \in Ids(q), NEW j \in Ids(q), IsRoot(q, i), IsRoot(q, j)
                 PROVE  /\ q.spans[i].run = q.spans[j].run => i = j
                        /\ i < j /\ q.spans[j].parentRun = q.spans[i].run =>
                             q.spans[j].rootRun = q.spans[i].rootRun
      BY DEF RootRuns
    <3>1. /\ i \in Ids(p) /\ j \in Ids(p) /\ IsRoot(p, i) /\ IsRoot(p, j)
          /\ q.spans[i] = p.spans[i] /\ q.spans[j] = p.spans[j]
      BY <1>1, <1>3
    <3> QED BY <3>1 DEF Sound, Families, RootRuns
  <2>2. CurrentRoots(q)
    <3> SUFFICES ASSUME NEW i \in Ids(p), IsRoot(p, i),
                        q.spans[i].run = q.session[q.spans[i].key].stats.run
                 PROVE  i = q.session[q.spans[i].key].root
      BY <1>3 DEF CurrentRoots
    <3>1. q.spans[i] = p.spans[i] /\ p.spans[i].key \in Keys
      BY <1>1, <1>2, SpanFields
    <3>2. p.spans[i].run = p.session[p.spans[i].key].stats.run
      BY <3>1 DEF RunsKept
    <3>3. i = p.session[p.spans[i].key].root
      BY <3>2 DEF Sound, Families, CurrentRoots
    <3> QED BY <3>1, <3>3 DEF RunsKept
  <2>3. Remembered(q)
    BY <1>6 DEF Sound, Families, Remembered, RunsKept, MetaKnown
  <2> QED BY <2>1, <2>2, <2>3 DEF Families
<1>8. RootsSpawned(q)
  <2> SUFFICES ASSUME NEW i \in Ids(q), IsRoot(q, i), q.spans[i].parent # 0
               PROVE  RootSpawned(q, i)
    BY DEF RootsSpawned
  <2>1. i \in Ids(p) /\ q.spans[i] = p.spans[i] /\ RootSpawned(p, i)
    BY <1>1, <1>3 DEF Sound, RootsSpawned
  <2>2. \A j \in Ids(p) : q.spans[j] = p.spans[j] /\ j \in Ids(q)
    BY <1>1
  <2>3. /\ p.spans[i].parent \in Ids(p)
        /\ q.spans[p.spans[i].parent] = p.spans[p.spans[i].parent]
        /\ p.spans[i].parent \in Ids(q)
    BY <2>1, <2>2 DEF RootSpawned
  <2> QED BY <1>2, <2>1, <2>3 DEF RootSpawned, SpanAdded
<1> QED BY <1>4, <1>5, <1>7, <1>8 DEF Sound

LEMMA HoldsAppended ==
  ASSUME NEW p \in Plugins, NEW q, NEW x \in SpanT, SpanAdded(p, q, x)
  PROVE  /\ \A i, kind, k : Holds(p, i, kind, k) => Holds(q, i, kind, k)
         /\ Holds(q, NewId(p), x.kind, x.key)
<1> DEFINE new == NewId(p)
<1>1. /\ new \in Ids(q) /\ new \notin Ids(p) /\ new \in Nat /\ new # 0
      /\ Ids(q) = Ids(p) \cup {new} /\ q.spans[new] = x
      /\ \A i \in Ids(p) : q.spans[i] = p.spans[i] /\ i < new /\ i \in Nat
  BY Appended
<1> HIDE DEF new
<1>2. Holds(q, new, x.kind, x.key)
  BY <1>1 DEF Holds
<1>3. \A i, kind, k : Holds(p, i, kind, k) => Holds(q, i, kind, k)
  BY <1>1 DEF Holds
<1> QED BY <1>2, <1>3 DEF new

\* An llm or a tool span is started and held.
LEMMA SoundBegun ==
  ASSUME NEW p, Sound(p), NEW k \in Keys, NEW q \in Plugins, NEW x \in SpanT,
         SpanAdded(p, q, x), SubagentsKept(p, q),
         Current(p, x), OthersKept(p, q, k), Begun(p, q, k, x)
  PROVE  Sound(q)
<1>1. p \in Plugins /\ p.session[k] \in SessionT
  BY PluginFields DEF Sound
<1>a. /\ NewId(p) \notin Ids(p) /\ NewId(p) # 0
      /\ \A i \in Ids(p) : q.spans[i] = p.spans[i]
  <2>1. p \in Plugins
    BY <1>1
  <2> QED BY <2>1, Appended
<1>k. x.key = k
  BY DEF Begun
<1>2. /\ \A i, kind, j : Holds(p, i, kind, j) => Holds(q, i, kind, j)
      /\ Holds(q, NewId(p), x.kind, x.key)
  BY <1>1, HoldsAppended
<1>3. /\ q.session[k].root = p.session[k].root /\ q.session[k].stats = p.session[k].stats
      /\ q.session[k].timer = p.session[k].timer
      /\ q.session[k].pending = p.session[k].pending
      /\ q.session[k].closed = p.session[k].closed
  BY <1>1 DEF SessionT, Begun
<1>4. \A j \in Keys : SessionSound(p, j) /\ SubSound(p, j)
  BY DEF Sound, MapsSound
<1>5. SessionSound(q, k)
  <2>1. CASE x.kind = "llm" /\ q.session[k] = [p.session[k] EXCEPT !.llm = NewId(p)]
    <3>1. q.session[k].llm = NewId(p) /\ q.session[k].tool = p.session[k].tool
      BY <1>1, <2>1 DEF SessionT
    <3> QED BY <1>2, <1>3, <1>4, <1>k, <2>1, <3>1 DEF SessionSound
  <2>2. CASE /\ x.kind = "tool"
             /\ \E t \in Tools : q.session[k] =
                  [p.session[k] EXCEPT !.tool = [@ EXCEPT ![t] = NewId(p)]]
    <3>1. PICK t \in Tools : q.session[k] =
                  [p.session[k] EXCEPT !.tool = [@ EXCEPT ![t] = NewId(p)]]
      BY <2>2
    <3>2. /\ q.session[k].llm = p.session[k].llm
          /\ q.session[k].tool = [p.session[k].tool EXCEPT ![t] = NewId(p)]
      BY <1>1, <3>1 DEF SessionT
    <3>3. p.session[k].tool \in [Tools -> Nat]
      BY <1>1, SessionFields
    <3>4. \A u \in Tools : q.session[k].tool[u] = IF u = t THEN NewId(p)
                                                  ELSE p.session[k].tool[u]
      BY <3>2, <3>3
    <3>5. \A u \in Tools : Holds(q, q.session[k].tool[u], "tool", k)
      BY <1>2, <1>4, <1>k, <2>2, <3>4 DEF SessionSound
    <3>6. NewId(p) \notin Ids(p) /\ NewId(p) # 0
      BY <1>a
    <3>7. \A u \in Tools : p.session[k].tool[u] # NewId(p)
      BY <1>4, <3>6 DEF SessionSound, Holds
    <3>8. \A u, v \in Tools :
            q.session[k].tool[u] # 0 /\ q.session[k].tool[u] = q.session[k].tool[v] => u = v
      BY <1>4, <3>4, <3>7 DEF SessionSound
    <3> QED BY <1>2, <1>3, <1>4, <3>2, <3>5, <3>8 DEF SessionSound
  <2> QED BY <2>1, <2>2 DEF Begun
<1>6. \A j \in Keys : SessionSound(q, j)
  BY <1>2, <1>4, <1>5, SessionKept DEF OthersKept
<1>7. \A j \in Keys : SubSound(q, j)
  BY <1>2, <1>4 DEF SubSound, SubagentsKept
<1>8. SubsDescribed(q)
  <2> SUFFICES ASSUME NEW a \in Keys, q.sub[a].span # 0
               PROVE  /\ a \in q.sub[q.sub[a].primary].group
                      /\ a \in q.misnamed \/ Described(q, a)
    BY DEF SubsDescribed
  <2>1. /\ a \in p.sub[p.sub[a].primary].group
        /\ a \in p.misnamed \/ Described(p, a)
        /\ p.sub[a].span \in Ids(p)
    BY <1>4 DEF Sound, SubsDescribed, SubagentsKept, SubSound, Holds
  <2>2. q.spans[p.sub[a].span] = p.spans[p.sub[a].span] /\ RunsOf(q) = RunsOf(p)
    BY <1>a, <2>1 DEF RunsOf, SpanAdded
  <2> QED BY <2>1, <2>2 DEF Described, SubagentsKept, SpanAdded
<1>9. MetaKnown(p, q) /\ p.misnamed \subseteq q.misnamed
  BY DEF Sound, Families, Remembered, SubagentsKept, MetaKnown
<1>10. RunsKept(p, q)
  BY <1>3 DEF OthersKept, RunsKept
<1>11. MapsSound(q)
  BY <1>6, <1>7 DEF MapsSound
<1> QED BY <1>1, <1>8, <1>9, <1>10, <1>11, SoundAppended

\* The names of subagents, or their metadata, change.
SubsFine(p, q) ==
  /\ \A a \in Keys : SubSound(q, a)
  /\ MetaKnown(p, q) /\ SubsDescribed(q) /\ p.misnamed \subseteq q.misnamed

LEMMA SoundSubs ==
  ASSUME NEW p, Sound(p), NEW q \in Plugins, SpansKept(p, q), q.session = p.session,
         SubsFine(p, q)
  PROVE  Sound(q)
<1>1. p \in Plugins /\ Ids(q) = Ids(p) /\ RunsOf(q) = RunsOf(p)
  BY DEF Sound, SpansKept, Ids, RunsOf
<1>2. \A m : Known(p, m) => Known(q, m)
  BY <1>1 DEF Known, IsRoot, SpansKept
<1>3. MapsSound(q)
  BY <1>1 DEF Sound, MapsSound, SessionSound, Holds, SpansKept, SubsFine
<1>4. Numbered(q) /\ Rooted(q)
  BY <1>1 DEF Sound, Numbered, Rooted, RootedAt, SpansKept
<1>5. RootRuns(q) /\ CurrentRoots(q)
  BY <1>1 DEF Sound, Families, RootRuns, CurrentRoots, IsRoot, SpansKept
<1>6. Remembered(q)
  BY <1>2 DEF Sound, Families, Remembered, SubsFine, MetaKnown
<1>7. RootsSpawned(q)
  BY <1>1 DEF Sound, RootsSpawned, RootSpawned, IsRoot, SpansKept, SubsFine
<1> QED BY <1>3, <1>4, <1>5, <1>6, <1>7 DEF Sound, Families, SubsFine

\* A session gets statistics: its newest run is a new one.
LEMMA SoundStats ==
  ASSUME NEW p, Sound(p), NEW k \in Keys
  PROVE  /\ Sound(WithStats(p, k)) /\ WithStats(p, k).session[k].stats # NoStats
         /\ \A j \in Keys : WithStats(p, k).session[j].root = p.session[j].root
<1> DEFINE q == WithStats(p, k)
           new == Len(p.lineages) + 1
<1>1. p \in Plugins
  BY DEF Sound
<1>2. CASE p.session[k].stats # NoStats
  BY <1>1, <1>2, WithStatsFields
<1>3. CASE p.session[k].stats = NoStats
  <2>1. /\ q \in Plugins /\ NamesKept(p, q) /\ SubagentsKept(p, q) /\ q.spans = p.spans
        /\ OthersKept(p, q, k) /\ q.lineages = Append(p.lineages, k)
        /\ q.session[k] = [p.session[k] EXCEPT !.stats =
             [run |-> new, rootRun |-> new, parentRun |-> 0]]
    BY <1>1, <1>3, WithStatsFields
  <2> HIDE DEF q
  <2>2. p.session[k] \in SessionT /\ p.lineages \in Seq(Keys)
    BY <1>1, PluginFields
  <2>3. /\ q.session[k].stats = [run |-> new, rootRun |-> new, parentRun |-> 0]
        /\ q.session[k].root = p.session[k].root /\ q.session[k].llm = p.session[k].llm
        /\ q.session[k].tool = p.session[k].tool
        /\ q.session[k].timer = p.session[k].timer
        /\ q.session[k].pending = p.session[k].pending
        /\ q.session[k].closed = p.session[k].closed
    BY <2>1, <2>2 DEF SessionT
  <2>4. /\ new \in Nat /\ new # 0 /\ new \notin RunsOf(p) /\ RunsOf(q) = RunsOf(p) \cup {new}
        /\ q.lineages[new] = k
        /\ \A r \in RunsOf(p) : q.lineages[r] = p.lineages[r] /\ r < new /\ r \in Nat
    BY <2>1, <2>2 DEF RunsOf
  <2> HIDE DEF new
  <2>5. q.session[k].stats.run = new /\ q.session[k].stats.parentRun = 0
        /\ q.session[k].stats # NoStats
    BY <2>3, <2>4 DEF NoStats
  <2>6. \A j \in Keys : q.session[j].root = p.session[j].root
    BY <2>1, <2>3 DEF OthersKept
  <2>7. p.session[k].root = 0
    BY <1>3 DEF Sound, Rooted, RootedAt
  <2>8. Ids(q) = Ids(p) /\ \A i \in Ids(p) : p.spans[i].key \in Keys /\ p.spans[i].run \in RunsOf(p)
    BY <1>1, <2>1, SpanFields DEF Ids, Sound, Numbered
  <2>9. MapsSound(q)
    <3> SUFFICES ASSUME NEW j \in Keys PROVE SessionSound(q, j) /\ SubSound(q, j)
      BY DEF MapsSound
    <3>1. /\ q.session[j].llm = p.session[j].llm /\ q.session[j].tool = p.session[j].tool
          /\ q.session[j].root = p.session[j].root
      BY <2>1, <2>3 DEF OthersKept
    <3>2. SessionSound(p, j) /\ SubSound(p, j)
      BY DEF Sound, MapsSound
    <3> QED BY <2>1, <2>8, <3>1, <3>2 DEF SessionSound, SubSound, Holds, SubagentsKept
  <2>10. Numbered(q)
    <3>1. \A i \in Ids(q) : /\ q.spans[i].run \in RunsOf(q)
                            /\ q.lineages[q.spans[i].run] = q.spans[i].key
      <4> SUFFICES ASSUME NEW i \in Ids(p)
                   PROVE  /\ p.spans[i].run \in RunsOf(q)
                          /\ q.lineages[p.spans[i].run] = p.spans[i].key
        BY <2>1, <2>8
      <4>1. /\ p.spans[i].run \in RunsOf(p)
            /\ p.lineages[p.spans[i].run] = p.spans[i].key
        BY DEF Sound, Numbered
      <4> QED BY <2>4, <4>1
    <3>2. ASSUME NEW j \in Keys, q.session[j].stats # NoStats
          PROVE  /\ q.session[j].stats.run \in RunsOf(q)
                 /\ q.lineages[q.session[j].stats.run] = j
                 /\ \A r \in RunsOf(q) : q.lineages[r] = j => r <= q.session[j].stats.run
      <4>1. CASE j = k
        BY <2>4, <2>5, <4>1
      <4>2. CASE j # k
        <5>1. q.session[j].stats = p.session[j].stats
          BY <2>1, <4>2 DEF OthersKept
        <5>2. /\ p.session[j].stats.run \in RunsOf(p)
              /\ p.lineages[p.session[j].stats.run] = j
              /\ \A r \in RunsOf(p) : p.lineages[r] = j => r <= p.session[j].stats.run
          BY <3>2, <5>1 DEF Sound, Numbered
        <5> QED BY <2>4, <4>2, <5>1, <5>2
      <4> QED BY <4>1, <4>2
    <3> QED BY <3>1, <3>2 DEF Numbered
  <2>11. Rooted(q)
    <3> SUFFICES ASSUME NEW j \in Keys PROVE RootedAt(q, j)
      BY DEF Rooted
    <3>1. RootedAt(p, j)
      BY DEF Sound, Rooted
    <3>2. CASE j = k
      BY <2>3, <2>5, <2>7, <3>1, <3>2 DEF RootedAt
    <3>3. CASE j # k
      BY <2>1, <3>1, <3>3 DEF RootedAt, OthersKept
    <3> QED BY <3>2, <3>3
  <2>12. Families(q)
    <3>1. \A i \in Ids(p) : IsRoot(q, i) <=> IsRoot(p, i)
      BY <2>1, <2>8 DEF IsRoot
    <3>2. RootRuns(q)
      BY <2>1, <2>8, <3>1 DEF Sound, Families, RootRuns
    <3>3. CurrentRoots(q)
      <4> SUFFICES ASSUME NEW i \in Ids(p), IsRoot(p, i),
                          q.spans[i].run = q.session[q.spans[i].key].stats.run
                   PROVE  i = q.session[q.spans[i].key].root
        BY <2>8, <3>1 DEF CurrentRoots
      <4>0. q.spans[i] = p.spans[i] /\ p.spans[i].run \in RunsOf(p)
        BY <2>1, <2>8
      <4>1. p.spans[i].key # k
        BY <2>4, <2>5, <4>0
      <4>2. q.session[p.spans[i].key] = p.session[p.spans[i].key]
        BY <2>1, <2>8, <4>1 DEF OthersKept
      <4> QED BY <2>1, <4>2 DEF Sound, Families, CurrentRoots
    <3>4. \A m : Known(p, m) => Known(q, m)
      BY <2>1, <2>8, <3>1 DEF Known
    <3>5. \A j \in Keys : q.session[j].closed = p.session[j].closed
      BY <2>1, <2>3 DEF OthersKept
    <3>6. Remembered(q)
      BY <2>1, <3>4, <3>5 DEF Sound, Families, Remembered, SubagentsKept
    <3> QED BY <3>2, <3>3, <3>6 DEF Families
  <2>13. SubsDescribed(q)
    <3> SUFFICES ASSUME NEW a \in Keys, q.sub[a].span # 0
                 PROVE  /\ a \in q.sub[q.sub[a].primary].group
                        /\ a \in q.misnamed \/ Described(q, a)
      BY DEF SubsDescribed
    <3>1. /\ a \in p.sub[p.sub[a].primary].group
          /\ a \in p.misnamed \/ Described(p, a)
      BY <2>1 DEF Sound, SubsDescribed, SubagentsKept
    <3> QED BY <2>1, <2>4, <3>1 DEF Described, SubagentsKept
  <2>14. RootsSpawned(q)
    <3> SUFFICES ASSUME NEW i \in Ids(p), IsRoot(p, i), p.spans[i].parent # 0
                 PROVE  RootSpawned(q, i)
      BY <2>1, <2>8 DEF RootsSpawned, IsRoot
    <3>1. RootSpawned(p, i)
      BY DEF Sound, RootsSpawned
    <3> QED BY <2>1, <2>4, <2>8, <3>1 DEF RootSpawned, SubagentsKept
  <2> QED BY <2>1, <2>5, <2>6, <2>9, <2>10, <2>11, <2>12, <2>13, <2>14 DEF Sound, q
<1> QED BY <1>2, <1>3

\* A new root with its timer.
RootTouched(p, q, k, d) ==
  /\ q \in Plugins /\ NewRoot(p, k, d) \in SpanT /\ SpanAdded(p, q, NewRoot(p, k, d))
  /\ q.session[k].stats = d /\ q.session[k].root = NewId(p)
  /\ q.session[k].pending = FALSE /\ q.session[k].timer = TRUE
  /\ q.session[k].llm = p.session[k].llm /\ q.session[k].tool = p.session[k].tool
  /\ q.session[k].closed = p.session[k].closed
  /\ OthersKept(p, q, k) /\ NamesKept(p, q) /\ SubagentsKept(p, q)

LEMMA TouchedRootFields ==
  ASSUME NEW p \in Plugins, NEW k \in Keys, NEW why, p.session[k].root = 0
  PROVE  RootTouched(p, Touch(WithRoot(p, k, why), k), k, Decided(p, k, why))
<1> DEFINE d == Decided(p, k, why)
           r == WithRoot(p, k, why)
           q == Touch(r, k)
           s == [p.session[k] EXCEPT !.stats = d, !.root = Len(p.spans) + 1, !.pending = FALSE]
           u == [s EXCEPT !.timer = TRUE]
<1>1. /\ r \in Plugins /\ NewRoot(p, k, d) \in SpanT
      /\ r.spans = Append(p.spans, NewRoot(p, k, d)) /\ r.session[k] = s
      /\ OthersKept(p, r, k)
      /\ r.lineages = p.lineages /\ NamesKept(p, r) /\ SubagentsKept(p, r)
  <2>1. RootStarted(p, r, k, d)
    BY WithRootFields
  <2> HIDE DEF r, d
  <2> QED BY <2>1 DEF RootStarted
<1>2. p.session[k] \in SessionT /\ d \in StatsT /\ NewId(p) \in Nat /\ NewId(p) # 0
  BY PluginFields, DecidedFields DEF NewId
<1> HIDE DEF r, d
<1>3. /\ s \in SessionT /\ s.stats = d /\ s.root = NewId(p) /\ s.pending = FALSE
      /\ s.llm = p.session[k].llm /\ s.tool = p.session[k].tool
      /\ s.closed = p.session[k].closed
  BY <1>2 DEF SessionT, NewId
<1> HIDE DEF s
<1>4. /\ u \in SessionT /\ u.stats = s.stats /\ u.root = s.root /\ u.pending = s.pending
      /\ u.llm = s.llm /\ u.tool = s.tool /\ u.closed = s.closed /\ u.timer = TRUE
  BY <1>3 DEF SessionT
<1>5. k # None
  BY SpansAssumption
<1>6. q = [r EXCEPT !.session = [r.session EXCEPT ![k] = u]]
  BY <1>1, <1>2, <1>3, <1>5 DEF Touch
<1> HIDE DEF u, q
<1>7. /\ q \in Plugins /\ q.session[k] = u /\ OthersKept(r, q, k)
      /\ NamesKept(r, q) /\ SubagentsKept(r, q) /\ SpansKept(r, q)
  BY <1>1, <1>4, <1>6, SessionsWritten
<1>8. /\ q \in Plugins /\ NewRoot(p, k, d) \in SpanT /\ SpanAdded(p, q, NewRoot(p, k, d))
      /\ OthersKept(p, q, k) /\ NamesKept(p, q) /\ SubagentsKept(p, q)
  BY <1>1, <1>7 DEF SpanAdded, OthersKept, NamesKept, SubagentsKept, SpansKept
<1> HIDE DEF d
<1>9. RootTouched(p, q, k, d)
  BY <1>3, <1>4, <1>7, <1>8 DEF RootTouched
<1> QED BY <1>9 DEF q, r, d

\* The root decides its family right: it takes the lineage of a root that is
\* there, or is the first of a family of its own.
LEMMA DecidedWell ==
  ASSUME NEW p, Sound(p), NEW k \in Keys, NEW why, p.session[k].root = 0,
         NEW d, d = Decided(p, k, why), NEW i \in Ids(p), IsRoot(p, i),
         d.parentRun = p.spans[i].run
  PROVE  d.rootRun = p.spans[i].rootRun
<1> DEFINE primary == IF p.sub[k].primary = None THEN k ELSE p.sub[k].primary
           parent == p.sub[k].parent
           ofParent == IF parent = None THEN NoStats ELSE p.session[parent].stats
           meta == p.sub[primary].meta
           prior == p.session[k].closed
           stats == p.session[k].stats
<1>1. /\ p \in Plugins /\ stats \in StatsT /\ primary \in Keys
      /\ parent \in Keys \cup {None} /\ meta \in LineageT /\ prior \in LineageT
  <2>1. p \in Plugins
    BY DEF Sound
  <2>2. p.sub[k] \in SubagentT /\ p.session[k] \in SessionT
    BY <2>1, PluginFields
  <2>3. primary \in Keys /\ parent \in Keys \cup {None}
    BY <2>2, SubagentFields
  <2>4. p.sub[primary] \in SubagentT
    BY <2>1, <2>3, PluginFields
  <2> QED BY <2>1, <2>2, <2>3, <2>4, SubagentFields, SessionFields
<1>2. /\ p.spans[i].run \in RunsOf(p) /\ p.spans[i].run \in Nat /\ p.spans[i].run # 0
      /\ p.lineages[p.spans[i].run] = p.spans[i].key /\ p.spans[i].key \in Keys
  BY <1>1, SpanFields DEF Sound, Numbered, RunsOf
<1>3. \A m : Known(p, m) /\ m.run = p.spans[i].run => m.rootRun = p.spans[i].rootRun
  BY DEF Sound, Families, RootRuns, Known
<1>4. CASE ofParent # NoStats
  <2>1. parent \in Keys /\ p.session[parent].stats # NoStats
    BY <1>1, <1>4
  <2>2. d = [stats EXCEPT !.parentRun = p.session[parent].stats.run,
                          !.rootRun = p.session[parent].stats.rootRun]
    BY <1>4, <2>1, SpansAssumption DEF Decided
  <2>3. d.parentRun = p.session[parent].stats.run /\ d.rootRun = p.session[parent].stats.rootRun
    BY <1>1, <2>2 DEF StatsT
  <2>4. p.spans[i].key = parent
    BY <1>2, <2>1, <2>3 DEF Sound, Numbered
  <2>5. i = p.session[parent].root /\ i # 0
    <3>1. p.spans[i].run = p.session[p.spans[i].key].stats.run
      BY <2>3, <2>4
    <3>2. i # 0
      BY DEF Ids
    <3> QED BY <2>4, <3>1, <3>2 DEF Sound, Families, CurrentRoots
  <2> QED BY <2>1, <2>3, <2>5 DEF Sound, Rooted, RootedAt
<1>5. CASE ofParent = NoStats /\ parent # None /\ meta # NoMeta
  <2>1. d = [stats EXCEPT !.parentRun = meta.run, !.rootRun = meta.rootRun]
    BY <1>5 DEF Decided
  <2> HIDE DEF meta
  <2>2. d.parentRun = meta.run /\ d.rootRun = meta.rootRun
    BY <1>1, <2>1 DEF StatsT, LineageT
  <2>3. Known(p, meta)
    BY <1>1, <1>5 DEF Sound, Families, Remembered, meta
  <2> QED BY <1>3, <2>2, <2>3
<1>6. CASE /\ ofParent = NoStats /\ ~(parent # None /\ meta # NoMeta)
           /\ why # "inbound_claim" /\ prior # NoLineage
  <2>1. d = [stats EXCEPT !.parentRun = prior.run, !.rootRun = prior.rootRun]
    BY <1>6 DEF Decided
  <2> HIDE DEF prior
  <2>2. d.parentRun = prior.run /\ d.rootRun = prior.rootRun
    BY <1>1, <2>1 DEF StatsT, LineageT
  <2>3. Known(p, prior)
    BY <1>6 DEF Sound, Families, Remembered, prior
  <2> QED BY <1>3, <2>2, <2>3
<1>7. CASE /\ ofParent = NoStats /\ ~(parent # None /\ meta # NoMeta)
           /\ ~(why # "inbound_claim" /\ prior # NoLineage)
  <2>1. d = [stats EXCEPT !.rootRun = stats.run]
    BY <1>7 DEF Decided
  <2>2. stats.parentRun = 0
    BY DEF Sound, Rooted, RootedAt
  <2>3. d.parentRun = 0
    BY <1>1, <2>1, <2>2 DEF StatsT
  <2> QED BY <1>2, <2>3
<1> QED BY <1>4, <1>5, <1>6, <1>7

\* ... and names the run that spawned it, or a later one of that session, unless
\* it has no metadata of its own.
LEMMA DecidedSpawner ==
  ASSUME NEW p, Sound(p), NEW k \in Keys, NEW why, NEW d, d = Decided(p, k, why),
         p.sub[k].span # 0, k \notin p.misnamed
  PROVE  /\ d.parentRun \in RunsOf(p) /\ d.parentRun >= p.spans[p.sub[k].span].run
         /\ p.lineages[d.parentRun] = p.spans[p.sub[k].span].key
<1> DEFINE parent == p.sub[k].parent
           span == p.sub[k].span
           primary == IF p.sub[k].primary = None THEN k ELSE p.sub[k].primary
           meta == p.sub[primary].meta
           stats == p.session[k].stats
<1>1. p \in Plugins /\ stats \in StatsT
  BY PluginFields, SessionFields DEF Sound
<1>2. /\ span \in Ids(p) /\ p.spans[span].key = parent /\ parent \in Keys
      /\ p.sub[k].primary # None /\ parent # None
  <2>1. SubSound(p, k) /\ p.sub[k] \in SubagentT
    BY <1>1, PluginFields DEF Sound, MapsSound
  <2> QED BY <2>1, SubagentFields DEF SubSound, Holds
<1>3. p.spans[span].run \in RunsOf(p) /\ p.lineages[p.spans[span].run] = parent
  BY <1>2 DEF Sound, Numbered
<1>4. Described(p, k)
  BY DEF Sound, SubsDescribed
<1>5. meta.run \in RunsOf(p) /\ p.lineages[meta.run] = parent /\ meta.run >= p.spans[span].run
  BY <1>2, <1>4 DEF Described
<1>6. CASE p.session[parent].stats # NoStats
  <2>1. d = [stats EXCEPT !.parentRun = p.session[parent].stats.run,
                          !.rootRun = p.session[parent].stats.rootRun]
    BY <1>2, <1>6 DEF Decided
  <2>2. d.parentRun = p.session[parent].stats.run
    BY <1>1, <2>1 DEF StatsT
  <2>3. /\ p.session[parent].stats.run \in RunsOf(p)
        /\ p.lineages[p.session[parent].stats.run] = parent
        /\ p.spans[span].run <= p.session[parent].stats.run
    BY <1>2, <1>3, <1>6 DEF Sound, Numbered
  <2>4. p.spans[span].run \in Nat /\ p.session[parent].stats.run \in Nat
    BY <1>3, <2>3 DEF RunsOf
  <2> QED BY <1>2, <2>2, <2>3, <2>4
<1>7. CASE p.session[parent].stats = NoStats
  <2>1. meta # NoMeta
    BY <1>5 DEF NoMeta, RunsOf
  <2>2. d = [stats EXCEPT !.parentRun = meta.run, !.rootRun = meta.rootRun]
    BY <1>2, <1>7, <2>1 DEF Decided
  <2> HIDE DEF meta
  <2>3. d.parentRun = meta.run
    BY <1>1, <2>2 DEF StatsT
  <2> QED BY <1>2, <1>5, <2>3
<1> QED BY <1>6, <1>7

WellDecided(p, k, d) ==
  /\ d \in StatsT /\ d.run = p.session[k].stats.run
  /\ \A i \in Ids(p) : IsRoot(p, i) /\ d.parentRun = p.spans[i].run =>
       d.rootRun = p.spans[i].rootRun
  /\ p.sub[k].span # 0 =>
       \/ k \in p.misnamed
       \/ /\ d.parentRun \in RunsOf(p) /\ d.parentRun >= p.spans[p.sub[k].span].run
          /\ p.lineages[d.parentRun] = p.spans[p.sub[k].span].key

LEMMA AllDecidedWell ==
  ASSUME NEW p, Sound(p), NEW k \in Keys, NEW why, p.session[k].root = 0
  PROVE  WellDecided(p, k, Decided(p, k, why))
<1> DEFINE d == Decided(p, k, why)
<1>1. d \in StatsT /\ d.run = p.session[k].stats.run
  BY DecidedFields DEF Sound
<1>2. ASSUME NEW i \in Ids(p), IsRoot(p, i), d.parentRun = p.spans[i].run
      PROVE  d.rootRun = p.spans[i].rootRun
  BY <1>2, DecidedWell
<1>3. ASSUME p.sub[k].span # 0, k \notin p.misnamed
      PROVE  /\ d.parentRun \in RunsOf(p) /\ d.parentRun >= p.spans[p.sub[k].span].run
             /\ p.lineages[d.parentRun] = p.spans[p.sub[k].span].key
  BY <1>3, DecidedSpawner
<1> HIDE DEF d
<1>4. WellDecided(p, k, d)
  BY <1>1, <1>2, <1>3 DEF WellDecided
<1> QED BY <1>4 DEF d

\* The root that is started, with the run its session counts for.
LEMMA SoundRooted ==
  ASSUME NEW p, Sound(p), NEW k \in Keys, NEW q, NEW d, RootTouched(p, q, k, d),
         WellDecided(p, k, d), p.session[k].root = 0, p.session[k].stats # NoStats
  PROVE  Sound(q)
<1> DEFINE new == NewId(p)
           x == NewRoot(p, k, d)
<1>1. p \in Plugins /\ q \in Plugins
  BY DEF Sound, RootTouched
<1>2. /\ new \in Ids(q) /\ new \notin Ids(p) /\ new \in Nat /\ new # 0
      /\ Ids(q) = Ids(p) \cup {new} /\ q.spans[new] = x
      /\ \A i \in Ids(p) : q.spans[i] = p.spans[i] /\ i < new /\ i \in Nat
  <2>1. x \in SpanT /\ SpanAdded(p, q, x)
    BY DEF RootTouched
  <2> HIDE DEF x
  <2> QED BY <1>1, <2>1, Appended
<1>3. /\ \A i, kind, j : Holds(p, i, kind, j) => Holds(q, i, kind, j)
      /\ Holds(q, new, "root", k)
  <2>1. x \in SpanT /\ SpanAdded(p, q, x) /\ x.kind = "root" /\ x.key = k
    BY DEF RootTouched, NewRoot
  <2> HIDE DEF x
  <2> QED BY <1>1, <2>1, HoldsAppended
<1>4. /\ x.kind = "root" /\ x.key = k /\ x.parent = p.sub[k].span /\ x.run = d.run
      /\ x.rootRun = d.rootRun /\ x.parentRun = d.parentRun
  BY DEF NewRoot
<1> HIDE DEF new, x
<1>5. /\ q.session[k].stats = d /\ q.session[k].root = new
      /\ q.session[k].pending = FALSE /\ q.session[k].timer = TRUE
      /\ q.session[k].llm = p.session[k].llm /\ q.session[k].tool = p.session[k].tool
      /\ q.session[k].closed = p.session[k].closed
      /\ OthersKept(p, q, k) /\ q.sub = p.sub /\ q.misnamed = p.misnamed
      /\ q.lineages = p.lineages /\ RunsOf(q) = RunsOf(p)
  BY DEF RootTouched, SubagentsKept, RunsOf, SpanAdded, new
<1>6. /\ d.run = p.session[k].stats.run /\ d.run \in RunsOf(p) /\ p.lineages[d.run] = k
      /\ \A r \in RunsOf(p) : p.lineages[r] = k => r <= d.run
  BY DEF Sound, Numbered, WellDecided
<1>7. d # NoStats
  BY <1>6 DEF NoStats, RunsOf
<1>8. \A i \in Ids(p) : IsRoot(p, i) => p.spans[i].run # d.run
  <2> SUFFICES ASSUME NEW i \in Ids(p), IsRoot(p, i), p.spans[i].run = d.run
               PROVE  FALSE
    OBVIOUS
  <2>1. p.spans[i].key = k
    BY <1>6 DEF Sound, Numbered
  <2>2. i = p.session[k].root
    BY <1>6, <2>1 DEF Sound, Families, CurrentRoots
  <2> QED BY <2>2 DEF Ids
<1>9. MapsSound(q)
  <2> SUFFICES ASSUME NEW j \in Keys PROVE SessionSound(q, j) /\ SubSound(q, j)
    BY DEF MapsSound
  <2>1. SessionSound(p, j) /\ SubSound(p, j)
    BY DEF Sound, MapsSound
  <2>2. SubSound(q, j)
    BY <1>3, <1>5, <2>1 DEF SubSound
  <2>3. CASE j = k
    BY <1>3, <1>5, <2>1, <2>2, <2>3 DEF SessionSound
  <2>4. CASE j # k
    BY <1>3, <1>5, <2>1, <2>2, <2>4, SessionKept DEF OthersKept
  <2> QED BY <2>3, <2>4
<1>10. Numbered(q)
  <2>1. \A i \in Ids(q) : /\ q.spans[i].run \in RunsOf(q)
                          /\ q.lineages[q.spans[i].run] = q.spans[i].key
    <3> SUFFICES ASSUME NEW i \in Ids(q)
                 PROVE  /\ q.spans[i].run \in RunsOf(p)
                        /\ p.lineages[q.spans[i].run] = q.spans[i].key
      BY <1>5
    <3>1. CASE i = new
      BY <1>2, <1>4, <1>6, <3>1
    <3>2. CASE i \in Ids(p)
      BY <1>2, <3>2 DEF Sound, Numbered
    <3> QED BY <1>2, <3>1, <3>2
  <2>2. ASSUME NEW j \in Keys, q.session[j].stats # NoStats
        PROVE  /\ q.session[j].stats.run \in RunsOf(q)
               /\ q.lineages[q.session[j].stats.run] = j
               /\ \A r \in RunsOf(q) : q.lineages[r] = j => r <= q.session[j].stats.run
    <3>1. CASE j = k
      BY <1>5, <1>6, <3>1
    <3>2. CASE j # k
      <4>1. q.session[j] = p.session[j]
        BY <1>5, <3>2 DEF OthersKept
      <4> QED BY <1>5, <2>2, <4>1 DEF Sound, Numbered
    <3> QED BY <3>1, <3>2
  <2> QED BY <2>1, <2>2 DEF Numbered
<1>11. Rooted(q)
  <2> SUFFICES ASSUME NEW j \in Keys PROVE RootedAt(q, j)
    BY DEF Rooted
  <2>1. CASE j = k
    BY <1>2, <1>4, <1>5, <1>7, <2>1 DEF RootedAt
  <2>2. CASE j # k
    <3>1. Holds(p, p.session[j].root, "root", j) /\ RootedAt(p, j)
      BY DEF Sound, MapsSound, SessionSound, Rooted
    <3>2. p.session[j].root # 0 => q.spans[p.session[j].root] = p.spans[p.session[j].root]
      BY <1>2, <3>1 DEF Holds
    <3>3. q.session[j] = p.session[j]
      BY <1>5, <2>2 DEF OthersKept
    <3> QED BY <3>1, <3>2, <3>3 DEF RootedAt
  <2> QED BY <2>1, <2>2
<1>12. \A i \in Ids(p) : IsRoot(q, i) <=> IsRoot(p, i)
  BY <1>2 DEF IsRoot
<1>13. Families(q)
  <2>1. RootRuns(q)
    <3> SUFFICES ASSUME NEW i \in Ids(q), NEW j \in Ids(q), IsRoot(q, i), IsRoot(q, j)
                 PROVE  /\ q.spans[i].run = q.spans[j].run => i = j
                        /\ i < j /\ q.spans[j].parentRun = q.spans[i].run =>
                             q.spans[j].rootRun = q.spans[i].rootRun
      BY DEF RootRuns
    <3>1. CASE i \in Ids(p) /\ j \in Ids(p)
      BY <1>2, <1>12, <3>1 DEF Sound, Families, RootRuns
    <3>2. CASE i \in Ids(p) /\ j = new
      <4>1. q.spans[i] = p.spans[i] /\ IsRoot(p, i)
        BY <1>2, <1>12, <3>2
      <4>2. q.spans[j].run # p.spans[i].run
        BY <1>2, <1>4, <1>8, <3>2, <4>1
      <4>3. q.spans[j].parentRun = p.spans[i].run => q.spans[j].rootRun = p.spans[i].rootRun
        BY <1>2, <1>4, <3>2, <4>1 DEF WellDecided
      <4> QED BY <4>1, <4>2, <4>3
    <3>3. CASE i = new /\ j \in Ids(p)
      BY <1>2, <1>4, <1>8, <1>12, <3>3
    <3>4. CASE i = new /\ j = new
      BY <1>2, <3>4
    <3> QED BY <1>2, <3>1, <3>2, <3>3, <3>4
  <2>2. CurrentRoots(q)
    <3> SUFFICES ASSUME NEW i \in Ids(q), IsRoot(q, i),
                        q.spans[i].run = q.session[q.spans[i].key].stats.run
                 PROVE  i = q.session[q.spans[i].key].root
      BY DEF CurrentRoots
    <3>1. CASE i = new
      BY <1>2, <1>4, <1>5, <3>1
    <3>2. CASE i \in Ids(p)
      <4>1. q.spans[i] = p.spans[i] /\ p.spans[i].key \in Keys /\ IsRoot(p, i)
        BY <1>1, <1>2, <1>12, <3>2, SpanFields
      <4>2. p.spans[i].key # k
        BY <1>5, <1>8, <3>2, <4>1
      <4>3. q.session[p.spans[i].key] = p.session[p.spans[i].key]
        BY <1>5, <4>1, <4>2 DEF OthersKept
      <4> QED BY <3>2, <4>1, <4>3 DEF Sound, Families, CurrentRoots
    <3> QED BY <1>2, <3>1, <3>2
  <2>3. \A m : Known(p, m) => Known(q, m)
    BY <1>2, <1>12 DEF Known
  <2>4. \A j \in Keys : q.session[j].closed = p.session[j].closed
    BY <1>5 DEF OthersKept
  <2>5. Remembered(q)
    BY <1>5, <2>3, <2>4 DEF Sound, Families, Remembered
  <2> QED BY <2>1, <2>2, <2>5 DEF Families
<1>14. SubsDescribed(q)
  <2> SUFFICES ASSUME NEW a \in Keys, q.sub[a].span # 0
               PROVE  /\ a \in q.sub[q.sub[a].primary].group
                      /\ a \in q.misnamed \/ Described(q, a)
    BY DEF SubsDescribed
  <2>1. /\ a \in p.sub[p.sub[a].primary].group
        /\ a \in p.misnamed \/ Described(p, a)
        /\ p.sub[a].span \in Ids(p)
    BY <1>5 DEF Sound, SubsDescribed, MapsSound, SubSound, Holds
  <2>2. q.spans[p.sub[a].span] = p.spans[p.sub[a].span]
    BY <1>2, <2>1
  <2> QED BY <1>5, <2>1, <2>2 DEF Described
<1>15. RootsSpawned(q)
  <2> SUFFICES ASSUME NEW i \in Ids(q), IsRoot(q, i), q.spans[i].parent # 0
               PROVE  RootSpawned(q, i)
    BY DEF RootsSpawned
  <2>0. \A j \in Ids(p) : q.spans[j] = p.spans[j] /\ j \in Ids(q)
    BY <1>2
  <2>1. CASE i = new
    <3>1. p.sub[k].span # 0 /\ q.spans[i] = x
      BY <1>2, <1>4, <2>1
    <3>2. p.sub[k].span \in Ids(p) /\ p.spans[p.sub[k].span].kind = "subagent"
      BY <3>1 DEF Sound, MapsSound, SubSound, Holds
    <3>3. q.spans[p.sub[k].span] = p.spans[p.sub[k].span] /\ p.sub[k].span \in Ids(q)
      BY <2>0, <3>2
    <3> QED BY <1>4, <1>5, <3>1, <3>2, <3>3 DEF RootSpawned, WellDecided
  <2>2. CASE i \in Ids(p)
    <3>1. q.spans[i] = p.spans[i] /\ RootSpawned(p, i)
      BY <1>2, <1>12, <2>2 DEF Sound, RootsSpawned
    <3>2. /\ q.spans[p.spans[i].parent] = p.spans[p.spans[i].parent]
          /\ p.spans[i].parent \in Ids(q)
      BY <2>0, <3>1 DEF RootSpawned
    <3> QED BY <1>5, <3>1, <3>2 DEF RootSpawned
  <2> QED BY <1>2, <2>1, <2>2
<1> QED BY <1>1, <1>9, <1>10, <1>11, <1>13, <1>14, <1>15 DEF Sound

\* A session that has its root is left as it is.
LEMMA TouchKeeps ==
  ASSUME NEW p, Sound(p), NEW k \in Keys \cup {None}
  PROVE  Touch(p, k) = p
<1>1. p \in Plugins /\ \A j \in Keys : p.session[j].root # 0 => p.session[j].timer
  BY DEF Sound, Rooted, RootedAt
<1> QED BY <1>1, TouchFields

\* A session that is traced has statistics and a root; nothing else changes but
\* what a new root and a new run write.
TracedAs(p, q, k) ==
  /\ Sound(q) /\ NamesKept(p, q) /\ SubagentsKept(p, q) /\ OthersKept(p, q, k)
  /\ q.session[k].root # 0 /\ q.session[k].stats # NoStats
  /\ q.session[k].llm = p.session[k].llm /\ q.session[k].tool = p.session[k].tool
  /\ q.session[k].closed = p.session[k].closed
  /\ Len(q.spans) <= Len(p.spans) + 1 /\ Len(p.spans) <= Len(q.spans)
  /\ Len(q.lineages) <= Len(p.lineages) + 1
  /\ \A i \in Ids(p) : q.spans[i] = p.spans[i]
  /\ \/ q = p
     \/ /\ p.session[k].root = 0 /\ q.session[k].root = NewId(p)
        /\ \E x \in SpanT : q.spans = Append(p.spans, x) /\ x.open = TRUE

LEMMA TracedSound ==
  ASSUME NEW p, Sound(p), NEW k \in Keys, NEW why
  PROVE  /\ TracedAs(p, Traced(p, k, why), k)
         /\ p.session[k].root # 0 => Traced(p, k, why) = p
         /\ p.session[k].stats # NoStats => Traced(p, k, why).lineages = p.lineages
<1> DEFINE r == WithStats(p, k)
           q == Touch(WithRoot(r, k, why), k)
<1>1. Traced(p, k, why) = q
  BY DEF Traced
<1>2. p \in Plugins /\ p.session[k] \in SessionT /\ Len(p.spans) \in Nat /\ Len(p.lineages) \in Nat
  BY PluginFields DEF Sound
<1>3. /\ Sound(r) /\ r.session[k].stats # NoStats /\ r.session[k].root = p.session[k].root
      /\ r \in Plugins
  BY SoundStats DEF Sound
<1>4. /\ NamesKept(p, r) /\ SubagentsKept(p, r) /\ r.spans = p.spans /\ OthersKept(p, r, k)
      /\ p.session[k].stats # NoStats => r = p
      /\ p.session[k].stats = NoStats =>
              /\ r.lineages = Append(p.lineages, k)
              /\ r.session[k] = [p.session[k] EXCEPT !.stats =
                   [run |-> Len(p.lineages) + 1, rootRun |-> Len(p.lineages) + 1,
                    parentRun |-> 0]]
  BY <1>2, WithStatsFields
<1>5. /\ Len(r.lineages) <= Len(p.lineages) + 1
      /\ r.session[k].llm = p.session[k].llm /\ r.session[k].tool = p.session[k].tool
      /\ r.session[k].closed = p.session[k].closed
  <2>1. CASE p.session[k].stats # NoStats
    BY <1>2, <1>4, <2>1
  <2>2. CASE p.session[k].stats = NoStats
    <3>1. Len(r.lineages) = Len(p.lineages) + 1
      BY <1>2, <1>4, <2>2, PluginFields
    <3> QED BY <1>2, <1>4, <2>2, <3>1 DEF SessionT
  <2> QED BY <2>1, <2>2
<1> HIDE DEF r
<1>6. CASE p.session[k].root # 0
  <2>1. p.session[k].stats # NoStats
    BY <1>6 DEF Sound, Rooted, RootedAt
  <2>2. r = p /\ WithRoot(p, k, why) = p
    BY <1>4, <1>6, <2>1 DEF WithRoot
  <2>3. Traced(p, k, why) = p
    BY <1>1, <2>2, TouchKeeps
  <2>4. TracedAs(p, p, k)
    BY <1>2, <1>6, <2>1 DEF TracedAs, NamesKept, SubagentsKept, OthersKept
  <2> QED BY <2>3, <2>4
<1>7. CASE p.session[k].root = 0
  <2> DEFINE d == Decided(r, k, why)
  <2>1. RootTouched(r, q, k, d) /\ WellDecided(r, k, d)
    BY <1>3, <1>7, TouchedRootFields, AllDecidedWell
  <2> HIDE DEF d, q
  <2>2. Sound(q)
    BY <1>3, <1>7, <2>1, SoundRooted
  <2>3. /\ q.session[k].stats = d /\ q.session[k].root = NewId(r)
        /\ q.session[k].llm = r.session[k].llm /\ q.session[k].tool = r.session[k].tool
        /\ q.session[k].closed = r.session[k].closed
        /\ OthersKept(r, q, k) /\ NamesKept(r, q) /\ SubagentsKept(r, q)
        /\ q.lineages = r.lineages /\ q.spans = Append(r.spans, NewRoot(r, k, d))
        /\ NewRoot(r, k, d) \in SpanT
    BY <2>1 DEF RootTouched, SpanAdded
  <2>4. NewId(r) # 0
    BY <1>3, PluginFields DEF NewId
  <2>5. q.session[k].stats # NoStats
    BY <2>2, <2>3, <2>4 DEF Sound, Rooted, RootedAt
  <2>6. /\ Len(q.spans) = Len(p.spans) + 1
        /\ \A i \in Ids(p) : q.spans[i] = p.spans[i]
    <3> DEFINE x == NewRoot(r, k, d)
    <3>1. q.spans = Append(p.spans, x) /\ x \in SpanT /\ p.spans \in Seq(SpanT)
      BY <1>2, <1>4, <2>3, PluginFields
    <3> HIDE DEF x
    <3> QED BY <3>1 DEF Ids
  <2>7. NamesKept(p, q) /\ SubagentsKept(p, q) /\ OthersKept(p, q, k)
    BY <1>4, <2>3 DEF NamesKept, SubagentsKept, OthersKept
  <2>a. /\ Len(q.spans) <= Len(p.spans) + 1 /\ Len(p.spans) <= Len(q.spans)
        /\ Len(q.lineages) <= Len(p.lineages) + 1
    BY <1>2, <1>5, <2>3, <2>6
  <2>b. /\ q.session[k].root # 0 /\ q.session[k].llm = p.session[k].llm
        /\ q.session[k].tool = p.session[k].tool
        /\ q.session[k].closed = p.session[k].closed
    BY <1>5, <2>3, <2>4
  <2>c. /\ p.session[k].root = 0 /\ q.session[k].root = NewId(p)
        /\ \E x \in SpanT : q.spans = Append(p.spans, x) /\ x.open = TRUE
    BY <1>4, <1>7, <2>3 DEF NewId, NewRoot
  <2>8. TracedAs(p, q, k)
    BY <2>2, <2>5, <2>6, <2>7, <2>a, <2>b, <2>c DEF TracedAs
  <2> QED BY <1>1, <1>4, <1>7, <2>3, <2>8
<1> QED BY <1>6, <1>7

-------------------------------------------------------------------------------
(* Where the spans are: what a Map holds is open, and what is open and held by  *)
(* none was displaced.  For that the names of a child must be found together.   *)

SameNames(c) == \A d \in Children : Meets(c, d) => Elems(d) = Elems(c)
SameHead(c) == \A d \in Children : Meets(c, d) => Head(d) = Head(c)

\* A group has names under which the hooks call the child of that key.
GroupsNamed(p) ==
  \A x, a \in Keys : a \in p.sub[x].group => \E c \in Children : Head(c) = x /\ a \in Elems(c)
\* The key of a group holds the newest span of its names.
GroupAt(p, a, x) ==
  /\ a \in p.sub[x].group
  /\ p.sub[x].primary = x /\ p.sub[a].span <= p.sub[x].span
  /\ p.sub[x].source = "fallback" => p.sub[x].span = p.sub[a].span
  /\ \A b \in Keys : p.sub[b].span = p.sub[a].span => p.sub[b].primary = x
GroupsKeyed(p) == \A a \in Keys : p.sub[a].span # 0 => GroupAt(p, a, p.sub[a].primary)
\* Names that the hooks use together are of one group.
ChildNamed(p, c) ==
  \A a, b \in Elems(c) :
    /\ p.sub[a].span # 0 /\ p.sub[b].span # 0 => p.sub[a].primary = p.sub[b].primary
    /\ SameNames(c) => p.sub[a].span = p.sub[b].span
ChildrenNamed(p) == \A c \in Children : ChildNamed(p, c)
Grouped(p) == GroupsNamed(p) /\ GroupsKeyed(p) /\ ChildrenNamed(p)

\* A span of a subagent is held under names of the child it was started for only.
SpanOf(p, a, c) ==
  /\ p.spans[p.sub[a].span].child = Elems(c)
  /\ \A d \in Children : a \in Elems(d) => Meets(c, d)
Tied(p) == \A a \in Keys : p.sub[a].span # 0 => \E c \in Children : SpanOf(p, a, c)

HeldAt(p, k, i) ==
  \/ p.session[k].root = i \/ p.session[k].llm = i
  \/ \E t \in Tools : p.session[k].tool[t] = i
  \/ p.sub[k].span = i
HeldBy(p, i) == \E k \in Keys : HeldAt(p, k, i)
DisplacedBy(p, i, j) ==
  /\ i < j /\ p.spans[j].kind = p.spans[i].kind /\ p.spans[i].kind # "root"
  /\ p.spans[i].kind \in {"llm", "tool"} => p.spans[j].key = p.spans[i].key
  /\ p.spans[i].kind = "subagent" => p.spans[j].child \cap p.spans[i].child # {}
Displaced(p, i) == \E j \in Ids(p) : DisplacedBy(p, i, j)
Accounted(p) ==
  \A i \in Ids(p) : /\ HeldBy(p, i) => p.spans[i].open
                    /\ p.spans[i].open => HeldBy(p, i) \/ Displaced(p, i)
Tidy(p) == Grouped(p) /\ Tied(p) /\ Accounted(p)

SubNamesSame(p, q) ==
  \A a \in Keys : /\ q.sub[a].span = p.sub[a].span /\ q.sub[a].primary = p.sub[a].primary
                  /\ q.sub[a].group = p.sub[a].group /\ q.sub[a].source = p.sub[a].source
HeldSame(p, q) ==
  \A k \in Keys : /\ q.session[k].root = p.session[k].root
                  /\ q.session[k].llm = p.session[k].llm
                  /\ q.session[k].tool = p.session[k].tool

\* A name with a span is that of a group, and the groups have keys.
LEMMA SpannedSub ==
  ASSUME NEW p, Sound(p), NEW a \in Keys, p.sub[a].span # 0
  PROVE  /\ p.sub[a].span \in Ids(p) /\ p.sub[a].primary \in Keys
         /\ p.spans[p.sub[a].span].kind = "subagent"
<1>1. p.sub[a] \in SubagentT /\ SubSound(p, a)
  BY PluginFields DEF Sound, MapsSound
<1> QED BY <1>1, SubagentFields DEF SubSound, Holds

\* Where the hooks name the children apart, those that meet a third meet.
LEMMA ChildrenMeet ==
  ASSUME ChildrenApart, NEW l \in Children, NEW m \in Children, NEW n \in Children,
         Meets(l, m), Meets(m, n)
  PROVE  Meets(l, n)
<1>1. Head(l) \in Elems(l) /\ Head(n) \in Elems(n) /\ Meets(m, l)
  BY NameElems DEF Meets
<1>2. CASE SameHead(m)
  BY <1>1, <1>2 DEF SameHead, Meets
<1>3. CASE SameNames(m)
  BY <1>1, <1>3 DEF SameNames, Meets
<1> QED BY <1>2, <1>3 DEF ChildrenApart, SameHead, SameNames

LEMMA TiedKept ==
  ASSUME NEW p, Sound(p), NEW q, Tied(p),
         \A a \in Keys : q.sub[a].span \in {0, p.sub[a].span},
         \A i \in Ids(p) : q.spans[i].child = p.spans[i].child
  PROVE  Tied(q)
<1> SUFFICES ASSUME NEW a \in Keys, q.sub[a].span # 0
             PROVE  \E c \in Children : SpanOf(q, a, c)
  BY DEF Tied
<1>1. q.sub[a].span = p.sub[a].span /\ p.sub[a].span # 0
  OBVIOUS
<1>2. p.sub[a].span \in Ids(p)
  BY <1>1, SpannedSub
<1>3. PICK c \in Children : SpanOf(p, a, c)
  BY <1>1 DEF Tied
<1>4. SpanOf(q, a, c)
  BY <1>1, <1>2, <1>3 DEF SpanOf
<1> QED BY <1>4

LEMMA GroupedSame ==
  ASSUME NEW p, Sound(p), NEW q, Grouped(p), SubNamesSame(p, q)
  PROVE  Grouped(q)
<1> USE DEF SubNamesSame
<1>0. \A c \in Children : Elems(c) \subseteq Keys
  BY NameElems
<1>1. GroupsNamed(q)
  BY DEF Grouped, GroupsNamed
<1>2. ChildrenNamed(q)
  BY <1>0 DEF Grouped, ChildrenNamed, ChildNamed
<1>3. GroupsKeyed(q)
  <2> SUFFICES ASSUME NEW a \in Keys, q.sub[a].span # 0
               PROVE  GroupAt(q, a, q.sub[a].primary)
    BY DEF GroupsKeyed
  <2>1. /\ GroupAt(p, a, p.sub[a].primary) /\ p.sub[a].primary \in Keys
        /\ q.sub[a].primary = p.sub[a].primary
    BY SpannedSub DEF Grouped, GroupsKeyed
  <2> DEFINE x == p.sub[a].primary
  <2>2. GroupAt(p, a, x) /\ x \in Keys
    BY <2>1
  <2> HIDE DEF x
  <2>3. GroupAt(q, a, x)
    BY <2>2 DEF GroupAt
  <2> QED BY <2>1, <2>3 DEF x
<1> QED BY <1>1, <1>2, <1>3 DEF Grouped

\* Nothing of it changes.
LEMMA TidyKept ==
  ASSUME NEW p, Sound(p), NEW q, Tidy(p), SubNamesSame(p, q), HeldSame(p, q),
         q.spans = p.spans
  PROVE  Tidy(q)
<1>1. Grouped(q)
  BY GroupedSame DEF Tidy
<1>2. \A i : (HeldBy(q, i) <=> HeldBy(p, i)) /\ (Displaced(q, i) <=> Displaced(p, i))
  BY DEF HeldBy, HeldAt, SubNamesSame, HeldSame, Displaced, DisplacedBy, Ids
<1>3. Accounted(q)
  BY <1>2 DEF Tidy, Accounted, Ids
<1>4. Tied(q)
  BY TiedKept DEF Tidy, SubNamesSame
<1> QED BY <1>1, <1>3, <1>4 DEF Tidy

\* A span is started and held; what was held by its holder is displaced by it.
LEMMA TidyStarted ==
  ASSUME NEW p, Sound(p), NEW q, Tidy(p), NEW x \in SpanT,
         q.spans = Append(p.spans, x), x.open = TRUE, Grouped(q), Tied(q), HeldBy(q, NewId(p)),
         \A i \in Ids(p) : HeldBy(q, i) => HeldBy(p, i),
         \A i \in Ids(p) : HeldBy(p, i) => HeldBy(q, i) \/ DisplacedBy(q, i, NewId(p))
  PROVE  Tidy(q)
<1> DEFINE N == NewId(p)
<1>1. /\ N \in Ids(q) /\ q.spans[N] = x /\ Ids(q) = Ids(p) \cup {N}
      /\ \A i \in Ids(p) : q.spans[i] = p.spans[i]
  BY PluginFields DEF Sound, Ids, NewId
<1>2. ASSUME NEW i \in Ids(q)
      PROVE  /\ HeldBy(q, i) => q.spans[i].open
             /\ q.spans[i].open => HeldBy(q, i) \/ Displaced(q, i)
  <2>1. CASE i = N
    BY <1>1, <2>1
  <2>2. CASE i \in Ids(p)
    <3>1. /\ HeldBy(p, i) => p.spans[i].open
          /\ p.spans[i].open => HeldBy(p, i) \/ Displaced(p, i)
          /\ q.spans[i] = p.spans[i]
      BY <1>1, <2>2 DEF Tidy, Accounted
    <3>2. DisplacedBy(q, i, N) => Displaced(q, i)
      BY <1>1 DEF Displaced
    <3>3. Displaced(p, i) => Displaced(q, i)
      BY <1>1, <2>2 DEF Displaced, DisplacedBy
    <3> QED BY <2>2, <3>1, <3>2, <3>3
  <2> QED BY <1>1, <2>1, <2>2
<1> QED BY <1>2 DEF Tidy, Accounted

\* The spans are the same; what a Map lets go was displaced.
LEMMA TidyMoved ==
  ASSUME NEW p, NEW q, Tidy(p), q.spans = p.spans, Grouped(q), Tied(q),
         \A i \in Ids(p) : HeldBy(q, i) => HeldBy(p, i),
         \A i \in Ids(p) : HeldBy(p, i) => HeldBy(q, i) \/ Displaced(p, i)
  PROVE  Tidy(q)
<1>1. Ids(q) = Ids(p) /\ \A i : Displaced(q, i) <=> Displaced(p, i)
  BY DEF Ids, Displaced, DisplacedBy
<1> QED BY <1>1 DEF Tidy, Accounted

\* A span ends and is held no more; what else is let go was displaced.
LEMMA TidyEnded ==
  ASSUME NEW p, Sound(p), NEW q, Tidy(p), NEW i \in Ids(p), SpansAs(p, q), Grouped(q),
         \A a \in Keys : q.sub[a].span \in {0, p.sub[a].span},
         \A j \in Ids(p) : q.spans[j].open <=> j # i /\ p.spans[j].open,
         ~HeldBy(q, i),
         \A j \in Ids(p) : HeldBy(q, j) => HeldBy(p, j),
         \A j \in Ids(p) : HeldBy(p, j) => HeldBy(q, j) \/ j = i \/ Displaced(p, j)
  PROVE  Tidy(q)
<1>1. /\ Ids(q) = Ids(p)
      /\ \A j \in Ids(p) : /\ q.spans[j].kind = p.spans[j].kind
                           /\ q.spans[j].key = p.spans[j].key
                           /\ q.spans[j].child = p.spans[j].child
  BY DEF SpansAs, Ids
<1>2. ASSUME NEW j \in Ids(p)
      PROVE  /\ HeldBy(q, j) => q.spans[j].open
             /\ q.spans[j].open => HeldBy(q, j) \/ Displaced(q, j)
  <2>1. /\ HeldBy(p, j) => p.spans[j].open
        /\ p.spans[j].open => HeldBy(p, j) \/ Displaced(p, j)
    BY DEF Tidy, Accounted
  <2>2. Displaced(p, j) => Displaced(q, j)
    BY <1>1 DEF Displaced, DisplacedBy
  <2>3. HeldBy(q, j) => q.spans[j].open
    BY <2>1
  <2>4. ASSUME q.spans[j].open PROVE HeldBy(q, j) \/ Displaced(q, j)
    BY <2>1, <2>2, <2>4
  <2> QED BY <2>3, <2>4
<1>3. Tied(q)
  BY <1>1, TiedKept DEF Tidy
<1> QED BY <1>1, <1>2, <1>3 DEF Tidy, Accounted

\* The key of the group of a name is the key, or one of the names, of every child
\* that the hooks call by that name.
LEMMA GroupOf ==
  ASSUME ChildrenApart, NEW p, Sound(p), Grouped(p), NEW d \in Children,
         NEW a \in Elems(d), p.sub[a].span # 0
  PROVE  LET x == p.sub[a].primary
         IN  /\ x \in Keys /\ a \in Keys /\ GroupAt(p, a, x)
             /\ \/ SameHead(d) /\ x = Head(d)
                \/ SameNames(d) /\ x \in Elems(d)
<1> DEFINE x == p.sub[a].primary
<1>1. a \in Keys
  BY NameElems
<1>2. x \in Keys /\ GroupAt(p, a, x)
  BY <1>1, SpannedSub DEF Grouped, GroupsKeyed
<1>3. PICK e \in Children : Head(e) = x /\ a \in Elems(e)
  BY <1>1, <1>2 DEF GroupAt, Grouped, GroupsNamed
<1> HIDE DEF x
<1>4. Meets(d, e) /\ Head(e) \in Elems(e)
  BY <1>3, NameElems DEF Meets
<1>5. SameHead(d) \/ SameNames(d)
  BY DEF ChildrenApart, SameHead, SameNames
<1>6. SameHead(d) => x = Head(d)
  BY <1>3, <1>4 DEF SameHead
<1>7. SameNames(d) => x \in Elems(d)
  BY <1>3, <1>4 DEF SameNames
<1> QED BY <1>1, <1>2, <1>5, <1>6, <1>7 DEF x

\* A child is called by names of one group, whose span, new or not, all have then.
NamedAs(p, q, c, i, source) ==
  \A a \in Keys :
    /\ a \in Elems(c) => q.sub[a].span = i /\ q.sub[a].primary = Head(c)
    /\ a \notin Elems(c) => /\ q.sub[a].span = p.sub[a].span
                            /\ q.sub[a].primary = p.sub[a].primary
    /\ a = Head(c) => /\ q.sub[a].group = p.sub[a].group \cup Elems(c)
                      /\ q.sub[a].source = source
    /\ a # Head(c) => q.sub[a].group = p.sub[a].group /\ q.sub[a].source = p.sub[a].source

LEMMA GroupedNamed ==
  ASSUME ChildrenApart, NEW p, Sound(p), Grouped(p), NEW c \in Children,
         NEW i \in Nat, NEW source, NEW q, NamedAs(p, q, c, i, source),
         \A b \in Keys \ Elems(c) : p.sub[b].span = i => p.sub[b].primary = Head(c),
         \A a \in Keys \ Elems(c) :
           p.sub[a].span # 0 /\ p.sub[a].primary = Head(c) => p.sub[a].span <= i,
         \A a \in Keys \ Elems(c) : p.sub[a].primary = Head(c) /\ p.sub[a].span # 0 =>
           source # "fallback",
         i # 0
  PROVE  Grouped(q)
<1> DEFINE h == Head(c)
<1>1. h \in Keys /\ h \in Elems(c) /\ Elems(c) \subseteq Keys
  BY NameElems
<1>2. \A d \in Children : Elems(d) \subseteq Keys /\ Head(d) \in Elems(d)
  BY NameElems
<1>3. \A a, b \in Keys : p.sub[a].span \in Nat
  BY PluginFields, SubagentFields DEF Sound
<1>4. ASSUME NEW a \in Keys \ Elems(c), p.sub[a].span # 0, p.sub[a].primary \in Elems(c)
      PROVE  p.sub[a].primary = h
  <2> DEFINE x == p.sub[a].primary
  <2>1. x \in Keys /\ GroupAt(p, a, x)
    BY <1>4, SpannedSub DEF Grouped, GroupsKeyed
  <2>2. PICK d \in Children : Head(d) = x /\ a \in Elems(d)
    BY <2>1 DEF GroupAt, Grouped, GroupsNamed
  <2>3. Meets(c, d)
    BY <1>2, <1>4, <2>2 DEF Meets
  <2>4. Elems(d) # Elems(c)
    BY <1>4, <2>2
  <2>5. SameHead(c)
    BY <2>3, <2>4 DEF ChildrenApart, SameHead
  <2> QED BY <2>2, <2>3, <2>5 DEF SameHead
<1>5. GroupsNamed(q)
  <2> SUFFICES ASSUME NEW x \in Keys, NEW a \in Keys, a \in q.sub[x].group
               PROVE  \E d \in Children : Head(d) = x /\ a \in Elems(d)
    BY DEF GroupsNamed
  <2>1. a \in p.sub[x].group \/ (x = h /\ a \in Elems(c))
    BY DEF NamedAs
  <2> QED BY <2>1 DEF Grouped, GroupsNamed
<1>6. GroupsKeyed(q)
  <2> SUFFICES ASSUME NEW a \in Keys, q.sub[a].span # 0
               PROVE  GroupAt(q, a, q.sub[a].primary)
    BY DEF GroupsKeyed
  <2>1. CASE a \in Elems(c)
    <3>1. q.sub[a].primary = h /\ q.sub[a].span = i /\ a \in q.sub[h].group
          /\ q.sub[h].primary = h /\ q.sub[h].span = i
      BY <1>1, <2>1 DEF NamedAs
    <3>2. \A b \in Keys : q.sub[b].span = i => q.sub[b].primary = h
      BY DEF NamedAs
    <3> HIDE DEF h
    <3> QED BY <3>1, <3>2 DEF GroupAt
  <2>2. CASE a \notin Elems(c)
    <3> DEFINE x == p.sub[a].primary
    <3>1. /\ q.sub[a].span = p.sub[a].span /\ q.sub[a].primary = x
          /\ p.sub[a].span # 0
      BY <2>2 DEF NamedAs
    <3>2. x \in Keys /\ GroupAt(p, a, x)
      BY <3>1, SpannedSub DEF Grouped, GroupsKeyed
    <3>3. CASE x \in Elems(c)
      <4>1. x = h
        BY <1>4, <2>2, <3>1, <3>3
      <4>2. a \in q.sub[h].group /\ q.sub[h].primary = h /\ q.sub[h].span = i
            /\ q.sub[h].source = source
        BY <1>1, <3>2, <4>1 DEF NamedAs, GroupAt
      <4>3. p.sub[a].span <= i /\ source # "fallback"
        BY <2>2, <3>1, <4>1
      <4>4. \A b \in Keys : q.sub[b].span = p.sub[a].span => q.sub[b].primary = h
        BY <1>1, <3>2, <4>1 DEF NamedAs, GroupAt
      <4> HIDE DEF h, x
      <4> QED BY <3>1, <4>1, <4>2, <4>3, <4>4 DEF GroupAt
    <3>4. CASE x \notin Elems(c)
      <4>1. x # h /\ p.sub[a].span # i
        BY <1>1, <2>2, <3>4
      <4>2. /\ q.sub[x].group = p.sub[x].group /\ q.sub[x].source = p.sub[x].source
            /\ q.sub[x].span = p.sub[x].span /\ q.sub[x].primary = p.sub[x].primary
        BY <3>2, <3>4, <4>1 DEF NamedAs
      <4>3. \A b \in Keys : q.sub[b].span = p.sub[a].span => q.sub[b].primary = x
        BY <3>2, <4>1 DEF NamedAs, GroupAt
      <4> HIDE DEF x
      <4> QED BY <3>1, <3>2, <4>2, <4>3 DEF GroupAt
    <3> QED BY <3>3, <3>4
  <2> QED BY <2>1, <2>2
<1>7. ChildrenNamed(q)
  <2> SUFFICES ASSUME NEW d \in Children PROVE ChildNamed(q, d)
    BY DEF ChildrenNamed
  <2>0. ChildNamed(p, d) /\ Elems(d) \subseteq Keys
    BY <1>2 DEF Grouped, ChildrenNamed
  <2>1. CASE Elems(d) = Elems(c)
    BY <1>1, <2>1 DEF ChildNamed, NamedAs
  <2>2. CASE ~Meets(c, d)
    <3>1. \A a \in Elems(d) : a \notin Elems(c) /\ a \in Keys
      BY <2>0, <2>2 DEF Meets
    <3> QED BY <2>0, <3>1 DEF ChildNamed, NamedAs
  <2>3. CASE Meets(c, d) /\ Elems(d) # Elems(c)
    <3>1. SameHead(c) /\ ~SameNames(c)
      BY <2>3 DEF ChildrenApart, SameHead, SameNames
    <3>2. Head(d) = h
      BY <2>3, <3>1 DEF SameHead
    <3>3. Meets(d, c)
      BY <2>3 DEF Meets
    <3>4. ~SameNames(d)
      BY <2>3, <3>3 DEF SameNames
    <3>5. ASSUME NEW a \in Elems(d), q.sub[a].span # 0 PROVE q.sub[a].primary = h
      <4>1. CASE a \in Elems(c)
        BY <1>1, <4>1 DEF NamedAs
      <4>2. CASE a \notin Elems(c)
        <5>1. q.sub[a].primary = p.sub[a].primary /\ p.sub[a].span # 0
          BY <2>0, <3>5, <4>2 DEF NamedAs
        <5>2. p.sub[a].primary = Head(d)
          BY <3>4, <5>1, GroupOf
        <5> QED BY <3>2, <5>1, <5>2
      <4> QED BY <4>1, <4>2
    <3> QED BY <3>4, <3>5 DEF ChildNamed
  <2> QED BY <2>1, <2>2, <2>3
<1> QED BY <1>5, <1>6, <1>7 DEF Grouped

\* unregisterSubagentAliases, of names under which the hooks call one child, takes
\* the whole group of that child, and of no other.
LEMMA GoneTogether ==
  ASSUME ChildrenApart, NEW p, Sound(p), Grouped(p), NEW c \in Children,
         NEW as \in SUBSET Elems(c), NEW z \in as, p.sub[z].span # 0
  PROVE  LET x == p.sub[z].primary
         IN  /\ x \in SubPrimaries(p, as) /\ SubPrimaries(p, as) \subseteq Elems(c)
             /\ \A y \in SubPrimaries(p, as) : p.sub[y].span # 0 => p.sub[y].primary = x
             /\ \A a \in Keys : p.sub[a].span # 0 =>
                  (a \in SubGone(p, as) <=> p.sub[a].primary = x)
<1> DEFINE x == p.sub[z].primary
           ks == SubPrimaries(p, as)
<1>1. /\ z \in Elems(c) /\ Elems(c) \subseteq Keys /\ Head(c) \in Elems(c)
      /\ ChildNamed(p, c)
  BY NameElems DEF Grouped, ChildrenNamed
<1>2. x \in Keys /\ GroupAt(p, z, x) /\ ((SameHead(c) /\ x = Head(c)) \/ (SameNames(c) /\ x \in Elems(c)))
  BY <1>1, GroupOf
<1>3. x # None
  BY <1>2, SpansAssumption
<1>4. x \in ks
  BY <1>3 DEF SubPrimaries
<1>5. \A a \in Elems(c) : p.sub[a].span # 0 => p.sub[a].primary = x
  BY <1>1 DEF ChildNamed
<1>6. ASSUME NEW y \in ks PROVE y \in Elems(c)
  <2>1. PICK b \in as : y = IF p.sub[b].primary = None THEN b ELSE p.sub[b].primary
    BY DEF SubPrimaries
  <2>2. CASE p.sub[b].primary = None
    BY <2>1, <2>2
  <2>3. CASE p.sub[b].primary # None
    <3>1. b \in Elems(c) /\ p.sub[b].span # 0
      BY <1>1, <2>3 DEF Sound, MapsSound, SubSound
    <3>2. p.sub[b].primary \in Elems(c)
      BY <1>1, <3>1, GroupOf
    <3> QED BY <2>1, <2>3, <3>2
  <2> QED BY <2>2, <2>3
<1>7. ASSUME NEW a \in Keys, p.sub[a].span # 0, a \in SubGone(p, as)
      PROVE  p.sub[a].primary = x
  <2>1. PICK y \in ks : a \in IF p.sub[y].group = {} THEN AliasesOf[y] ELSE p.sub[y].group
    BY <1>7 DEF SubGone
  <2>2. y \in Elems(c) /\ y \in Keys
    BY <1>1, <1>6
  <2>3. CASE a \in AliasesOf[y]
    <3>1. AliasesOf[y] \cap Elems(c) # {}
      BY <2>2, SpansAssumption
    <3>2. a \in Elems(c)
      BY <2>2, <2>3, <3>1 DEF ChildrenApart
    <3> QED BY <1>5, <1>7, <3>2
  <2>4. CASE a \in p.sub[y].group
    <3>1. PICK e \in Children : Head(e) = y /\ a \in Elems(e)
      BY <2>2, <2>4 DEF Grouped, GroupsNamed
    <3>2. Meets(c, e) /\ Meets(e, c)
      BY <2>2, <3>1, NameElems DEF Meets
    <3>3. CASE a \in Elems(c)
      BY <1>5, <1>7, <3>3
    <3>4. CASE a \notin Elems(c)
      <4>1. ~SameNames(c) /\ ~SameNames(e)
        BY <3>1, <3>2, <3>4 DEF SameNames
      <4>2. SameHead(c) /\ x = Head(c)
        BY <1>2, <4>1
      <4>3. Head(e) = x
        BY <3>2, <4>2 DEF SameHead
      <4>4. p.sub[a].primary = Head(e)
        BY <1>7, <3>1, <4>1, GroupOf
      <4> QED BY <4>3, <4>4
    <3> QED BY <3>3, <3>4
  <2> QED BY <2>1, <2>3, <2>4
<1>8. ASSUME NEW a \in Keys, p.sub[a].span # 0, p.sub[a].primary = x
      PROVE  a \in SubGone(p, as)
  <2>1. GroupAt(p, a, x)
    BY <1>8 DEF Grouped, GroupsKeyed
  <2>2. a \in p.sub[x].group
    BY <2>1 DEF GroupAt
  <2> QED BY <1>4, <2>2 DEF SubGone
<1>9. \A y \in ks : p.sub[y].span # 0 => p.sub[y].primary = x
  BY <1>5, <1>6
<1> QED BY <1>4, <1>6, <1>7, <1>8, <1>9

LEMMA GroupedGone ==
  ASSUME ChildrenApart, NEW p, Sound(p), Grouped(p), NEW c \in Children,
         NEW as \in SUBSET Elems(c), NEW z \in as, p.sub[z].span # 0,
         NEW r, r.sub = p.sub, NEW q, SubsGone(r, q, as)
  PROVE  Grouped(q)
<1> DEFINE x == p.sub[z].primary
           ks == SubPrimaries(p, as)
           gone == SubGone(p, as)
<1>1. /\ x \in ks /\ ks \subseteq Elems(c)
      /\ \A y \in ks : p.sub[y].span # 0 => p.sub[y].primary = x
      /\ \A a \in Keys : p.sub[a].span # 0 => (a \in gone <=> p.sub[a].primary = x)
  BY GoneTogether
<1>2. ks = SubPrimaries(r, as) /\ gone = SubGone(r, as)
  BY DEF SubPrimaries, SubGone
<1> HIDE DEF ks, gone, x
<1>3. \A a \in Keys :
        /\ a \in gone => q.sub[a].span = 0
        /\ a \notin gone => /\ q.sub[a].span = p.sub[a].span
                            /\ q.sub[a].primary = p.sub[a].primary
        /\ a \in ks => q.sub[a].group = {}
        /\ a \notin ks => q.sub[a].group = p.sub[a].group /\ q.sub[a].source = p.sub[a].source
  BY <1>2 DEF SubsGone
<1>4. GroupsNamed(q)
  BY <1>3 DEF Grouped, GroupsNamed
<1>5. GroupsKeyed(q)
  <2> SUFFICES ASSUME NEW a \in Keys, q.sub[a].span # 0
               PROVE  GroupAt(q, a, q.sub[a].primary)
    BY DEF GroupsKeyed
  <2> DEFINE y == p.sub[a].primary
  <2>1. a \notin gone /\ q.sub[a].span = p.sub[a].span /\ q.sub[a].primary = y
    BY <1>3
  <2>2. y \in Keys /\ GroupAt(p, a, y) /\ y # x
    BY <1>1, <2>1, SpannedSub DEF Grouped, GroupsKeyed
  <2> HIDE DEF y
  <2>3. p.sub[a].span \in Nat /\ p.sub[y].span \in Nat
    BY <2>2, PluginFields, SubagentFields DEF Sound
  <2>4. p.sub[y].span # 0 /\ p.sub[y].primary = y
    BY <2>1, <2>2, <2>3 DEF GroupAt
  <2>5. y \notin gone /\ y \notin ks
    BY <1>1, <2>2, <2>4
  <2>6. /\ q.sub[y].span = p.sub[y].span /\ q.sub[y].primary = y
        /\ q.sub[y].group = p.sub[y].group /\ q.sub[y].source = p.sub[y].source
    BY <1>3, <2>2, <2>4, <2>5
  <2>7. \A b \in Keys : q.sub[b].span = p.sub[a].span => q.sub[b].primary = y
    BY <1>3, <2>1, <2>2 DEF GroupAt
  <2> QED BY <2>1, <2>2, <2>6, <2>7 DEF GroupAt
<1>6. ChildrenNamed(q)
  <2> SUFFICES ASSUME NEW d \in Children, NEW a \in Elems(d), NEW b \in Elems(d)
               PROVE  /\ q.sub[a].span # 0 /\ q.sub[b].span # 0 =>
                           q.sub[a].primary = q.sub[b].primary
                      /\ SameNames(d) => q.sub[a].span = q.sub[b].span
    BY DEF ChildrenNamed, ChildNamed
  <2>1. a \in Keys /\ b \in Keys
    BY NameElems
  <2>2. /\ p.sub[a].span # 0 /\ p.sub[b].span # 0 => p.sub[a].primary = p.sub[b].primary
        /\ SameNames(d) => p.sub[a].span = p.sub[b].span
    BY DEF Grouped, ChildrenNamed, ChildNamed
  <2>3. q.sub[a].span # 0 /\ q.sub[b].span # 0 => q.sub[a].primary = q.sub[b].primary
    BY <1>3, <2>1, <2>2
  <2>4. SameNames(d) => q.sub[a].span = q.sub[b].span
    BY <1>1, <1>3, <2>1, <2>2
  <2> QED BY <2>3, <2>4
<1> QED BY <1>4, <1>5, <1>6 DEF Grouped

\* The span of a child ends and its names are gone.  Older spans that some of the
\* names had go with it: it displaced them.
LEMMA TidyFinished ==
  ASSUME ChildrenApart, NEW p, Sound(p), Tidy(p), NEW c \in Children,
         NEW as \in SUBSET Elems(c), NEW z \in as, p.sub[z].span # 0,
         NEW i, i = p.sub[p.sub[z].primary].span,
         NEW r, r.sub = p.sub, r.session = p.session, SpansAs(p, r),
         \A j \in Ids(p) : r.spans[j].open <=> j # i /\ p.spans[j].open,
         NEW q, SubsGone(r, q, as)
  PROVE  Tidy(q)
<1> DEFINE x == p.sub[z].primary
<1>1. Grouped(p) /\ z \in Keys /\ as \in SUBSET Keys
  BY NameElems DEF Tidy
<1>2. Grouped(q)
  BY <1>1, GroupedGone
<1>3. /\ \A a \in Keys : p.sub[a].span # 0 => (a \in SubGone(r, as) <=> p.sub[a].primary = x)
  <2>1. SubGone(r, as) = SubGone(p, as)
    BY DEF SubGone, SubPrimaries
  <2>2. \A a \in Keys : p.sub[a].span # 0 => (a \in SubGone(p, as) <=> p.sub[a].primary = x)
    BY <1>1, GoneTogether
  <2> QED BY <2>1, <2>2
<1>4. \A a \in Keys :
        /\ a \in SubGone(r, as) => q.sub[a].span = 0
        /\ a \notin SubGone(r, as) => q.sub[a].span = p.sub[a].span
  BY DEF SubsGone
<1>5. x \in Keys /\ GroupAt(p, z, x)
  BY <1>1, SpannedSub DEF Grouped, GroupsKeyed
<1>6. q.session = p.session /\ SpansAs(p, q) /\ q.spans = r.spans
  BY DEF SubsGone, SpansKept, SpansAs
<1> HIDE DEF x
<1>7. i = p.sub[x].span
  BY DEF x
<1>8. i # 0 /\ i \in Ids(p) /\ p.spans[i].kind = "subagent" /\ i \in Nat
      /\ p.sub[x].primary = x
  <2>1. p.sub[x].span \in Nat /\ p.sub[z].span \in Nat /\ p.sub[z].span <= p.sub[x].span
        /\ p.sub[x].primary = x
    BY <1>1, <1>5, PluginFields, SubagentFields DEF Sound, GroupAt
  <2>2. p.sub[x].span # 0
    BY <2>1
  <2> QED BY <1>5, <1>7, <2>1, <2>2, SpannedSub
<1>9. ~HeldBy(q, i)
  <2> SUFFICES ASSUME NEW k \in Keys, HeldAt(q, k, i) PROVE FALSE
    BY DEF HeldBy
  <2>1. SessionSound(p, k)
    BY DEF Sound, MapsSound
  <2>2. q.sub[k].span = i
    BY <1>6, <1>8, <2>1 DEF HeldAt, SessionSound, Holds
  <2>3. p.sub[k].span = i /\ k \notin SubGone(r, as)
    BY <1>4, <1>8, <2>2
  <2>4. GroupAt(p, x, x)
    BY <1>1, <1>5, <1>7, <1>8 DEF Grouped, GroupsKeyed
  <2>5. p.sub[k].primary = x
    BY <1>7, <2>3, <2>4 DEF GroupAt
  <2> QED BY <1>3, <1>8, <2>3, <2>5
<1>10. ASSUME NEW j \in Ids(p), HeldBy(q, j) PROVE HeldBy(p, j)
  <2>1. PICK k \in Keys : HeldAt(q, k, j)
    BY <1>10 DEF HeldBy
  <2>2. j # 0
    BY DEF Ids
  <2>3. HeldAt(p, k, j)
    BY <1>4, <1>6, <2>1, <2>2 DEF HeldAt
  <2> QED BY <2>3 DEF HeldBy
<1>11. ASSUME NEW j \in Ids(p), HeldBy(p, j) PROVE HeldBy(q, j) \/ j = i \/ Displaced(p, j)
  <2>1. PICK k \in Keys : HeldAt(p, k, j)
    BY <1>11 DEF HeldBy
  <2>2. j # 0
    BY DEF Ids
  <2>3. CASE p.sub[k].span = j /\ k \in SubGone(r, as)
    <3>1. p.sub[k].primary = x
      BY <1>3, <2>2, <2>3
    <3>2. GroupAt(p, k, x)
      BY <1>1, <2>2, <2>3, <3>1 DEF Grouped, GroupsKeyed
    <3>3. j <= i /\ p.spans[j].kind = "subagent"
      BY <1>7, <2>2, <2>3, <3>2, SpannedSub DEF GroupAt
    <3>a. p.spans[i].child \cap p.spans[j].child # {}
      <4>1. PICK e \in Children : Head(e) = x /\ k \in Elems(e)
        BY <1>1, <1>5, <3>2 DEF Grouped, GroupsNamed, GroupAt
      <4>2. x \in Elems(e)
        BY <4>1, NameElems
      <4>3. PICK l \in Children : SpanOf(p, k, l)
        BY <2>2, <2>3 DEF Tidy, Tied
      <4>4. PICK n \in Children : SpanOf(p, x, n)
        BY <1>5, <1>7, <1>8 DEF Tidy, Tied
      <4>5. Meets(n, e) /\ Meets(e, l)
        BY <4>1, <4>2, <4>3, <4>4 DEF SpanOf, Meets
      <4>6. Meets(n, l)
        BY <4>5, ChildrenMeet
      <4> QED BY <1>7, <2>3, <4>3, <4>4, <4>6 DEF SpanOf, Meets
    <3>4. j = i \/ DisplacedBy(p, j, i)
      BY <1>8, <3>3, <3>a DEF DisplacedBy, Ids
    <3> QED BY <1>8, <3>4 DEF Displaced
  <2>4. CASE ~(p.sub[k].span = j /\ k \in SubGone(r, as))
    <3>1. HeldAt(q, k, j)
      BY <1>4, <1>6, <2>1, <2>4 DEF HeldAt
    <3> QED BY <3>1 DEF HeldBy
  <2> QED BY <2>3, <2>4
<1>12. \A j \in Ids(p) : q.spans[j].open <=> j # i /\ p.spans[j].open
  BY <1>6
<1>13. \A a \in Keys : q.sub[a].span \in {0, p.sub[a].span}
  BY <1>4
<1> QED BY <1>2, <1>6, <1>8, <1>9, <1>10, <1>11, <1>12, <1>13, TidyEnded

\* A new span is held under all names of a child, and displaces the spans they had.
LEMMA TidySpawned ==
  ASSUME ChildrenApart, NEW p, Sound(p), Tidy(p), NEW c \in Children,
         NEW source \in {"hook", "fallback"}, source = "fallback" => p.sub[Head(c)].span = 0,
         NEW x \in SpanT, x.kind = "subagent", x.open = TRUE, x.child = Elems(c),
         NEW q, q.spans = Append(p.spans, x), q.session = p.session,
         NamedAs(p, q, c, NewId(p), source)
  PROVE  Tidy(q)
<1> DEFINE N == NewId(p)
<1>1. /\ N \in Nat /\ q.spans[N] = x /\ N # 0
      /\ \A i \in Ids(p) : q.spans[i] = p.spans[i] /\ i < N /\ i # 0 /\ i # N
  BY PluginFields DEF Sound, Ids, NewId
<1> HIDE DEF N
<1>2. Head(c) \in Elems(c) /\ Head(c) \in Keys /\ Elems(c) \subseteq Keys /\ Grouped(p)
  BY NameElems DEF Tidy
<1>3. ASSUME NEW a \in Keys, p.sub[a].span # 0
      PROVE  /\ p.sub[a].span \in Ids(p) /\ p.sub[a].span # N /\ p.sub[a].span <= N
             /\ p.spans[p.sub[a].span].kind = "subagent"
             /\ p.sub[a].primary = Head(c) => p.sub[Head(c)].span # 0
  <2>1. /\ p.sub[a].span \in Ids(p) /\ p.spans[p.sub[a].span].kind = "subagent"
        /\ p.sub[a].span \in Nat /\ p.sub[Head(c)].span \in Nat
    BY <1>2, <1>3, SpannedSub, PluginFields, SubagentFields DEF Sound
  <2>2. p.sub[a].primary = Head(c) => p.sub[a].span <= p.sub[Head(c)].span
    BY <1>2, <1>3 DEF Grouped, GroupsKeyed, GroupAt
  <2> QED BY <1>1, <1>3, <2>1, <2>2
<1>4. Grouped(q)
  <2>1. NamedAs(p, q, c, N, source)
    BY DEF N
  <2>2. \A b \in Keys \ Elems(c) : p.sub[b].span = N => p.sub[b].primary = Head(c)
    BY <1>1, <1>3
  <2>3. \A a \in Keys \ Elems(c) :
          p.sub[a].span # 0 /\ p.sub[a].primary = Head(c) => p.sub[a].span <= N
    BY <1>3
  <2>4. \A a \in Keys \ Elems(c) :
          p.sub[a].primary = Head(c) /\ p.sub[a].span # 0 => source # "fallback"
    BY <1>3
  <2> QED BY <1>1, <1>2, <2>1, <2>2, <2>3, <2>4, GroupedNamed
<1>5. HeldBy(q, N)
  BY <1>2 DEF HeldBy, HeldAt, NamedAs, N
<1>6. ASSUME NEW i \in Ids(p), NEW k \in Keys
      PROVE  /\ HeldAt(q, k, i) => HeldAt(p, k, i)
             /\ HeldAt(p, k, i) => HeldAt(q, k, i) \/ DisplacedBy(q, i, N)
  <2>1. CASE k \notin Elems(c)
    BY <2>1 DEF HeldAt, NamedAs
  <2>2. CASE k \in Elems(c)
    <3>1. q.sub[k].span = N
      BY <2>2 DEF NamedAs, N
    <3>2. p.sub[k].span = i => DisplacedBy(q, i, N)
      <4> SUFFICES ASSUME p.sub[k].span = i PROVE DisplacedBy(q, i, N)
        OBVIOUS
      <4>1. PICK l \in Children : SpanOf(p, k, l)
        BY <1>1 DEF Tidy, Tied
      <4>2. Meets(l, c) /\ q.spans[N].child = Elems(c) /\ q.spans[i].child = Elems(l)
        BY <1>1, <2>2, <4>1 DEF SpanOf
      <4>3. q.spans[N].child \cap q.spans[i].child # {}
        BY <4>2 DEF Meets
      <4> QED BY <1>1, <1>3, <4>3 DEF DisplacedBy
    <3> QED BY <1>1, <3>1, <3>2 DEF HeldAt
  <2> QED BY <2>1, <2>2
<1>7. /\ \A i \in Ids(p) : HeldBy(q, i) => HeldBy(p, i)
      /\ \A i \in Ids(p) : HeldBy(p, i) => HeldBy(q, i) \/ DisplacedBy(q, i, N)
  BY <1>6 DEF HeldBy
<1>8. Tied(q)
  <2> SUFFICES ASSUME NEW a \in Keys, q.sub[a].span # 0
               PROVE  \E l \in Children : SpanOf(q, a, l)
    BY DEF Tied
  <2>1. CASE a \in Elems(c)
    <3>1. q.sub[a].span = N
      BY <2>1 DEF NamedAs, N
    <3>2. SpanOf(q, a, c)
      BY <1>1, <2>1, <3>1 DEF SpanOf, Meets
    <3> QED BY <3>2
  <2>2. CASE a \notin Elems(c)
    <3>1. q.sub[a].span = p.sub[a].span
      BY <2>2 DEF NamedAs
    <3>2. PICK l \in Children : SpanOf(p, a, l)
      BY <3>1 DEF Tidy, Tied
    <3>3. SpanOf(q, a, l)
      BY <1>1, <1>3, <3>1, <3>2 DEF SpanOf
    <3> QED BY <3>3
  <2> QED BY <2>1, <2>2
<1> QED BY <1>4, <1>5, <1>7, <1>8, TidyStarted DEF N

\* A span that a child has is held under all its names from now on.
LEMMA TidyRespawned ==
  ASSUME ChildrenApart, NEW p, Sound(p), Tidy(p), NEW c \in Children,
         p.sub[Head(c)].span # 0, NEW q, q.spans = p.spans, q.session = p.session,
         NamedAs(p, q, c, p.sub[Head(c)].span, "hook")
  PROVE  Tidy(q)
<1> DEFINE h == Head(c)
           i == p.sub[h].span
           x == p.sub[h].primary
<1>1. h \in Elems(c) /\ h \in Keys /\ Elems(c) \subseteq Keys /\ Grouped(p)
  BY NameElems DEF Tidy
<1>2. /\ x \in Keys /\ GroupAt(p, h, x)
      /\ ((SameHead(c) /\ x = h) \/ (SameNames(c) /\ x \in Elems(c)))
  BY <1>1, GroupOf
<1>3. i \in Ids(p) /\ i # 0 /\ i \in Nat /\ p.spans[i].kind = "subagent"
  BY <1>1, SpannedSub DEF Ids
<1>4. \A a \in Keys : p.sub[a].span \in Nat
  BY PluginFields, SubagentFields DEF Sound
<1>5. ASSUME NEW b \in Keys \ Elems(c), p.sub[b].span = i PROVE p.sub[b].primary = h
  <2>1. p.sub[b].primary = x /\ p.sub[b].span # 0
    BY <1>2, <1>3, <1>5 DEF GroupAt
  <2>2. GroupAt(p, b, x)
    BY <1>1, <2>1 DEF Grouped, GroupsKeyed
  <2>3. PICK d \in Children : Head(d) = x /\ b \in Elems(d)
    BY <1>1, <1>2, <2>2 DEF GroupAt, Grouped, GroupsNamed
  <2>4. CASE SameNames(c) /\ x \in Elems(c)
    <3>1. Meets(c, d)
      BY <2>3, <2>4, NameElems DEF Meets
    <3> QED BY <1>5, <2>3, <2>4, <3>1 DEF SameNames
  <2>5. CASE x = h
    BY <2>1, <2>5
  <2> QED BY <1>2, <2>4, <2>5
<1>6. ASSUME NEW a \in Keys, p.sub[a].span # 0, p.sub[a].primary = h PROVE p.sub[a].span <= i
  <2>1. GroupAt(p, a, h)
    BY <1>1, <1>6 DEF Grouped, GroupsKeyed
  <2> QED BY <2>1 DEF GroupAt
<1>7. NamedAs(p, q, c, i, "hook")
  OBVIOUS
\* The spans that other names had are older.
<1>8. ASSUME NEW a \in Elems(c), p.sub[a].span # 0, p.sub[a].span # i
      PROVE  p.sub[a].span \in Ids(p) /\ DisplacedBy(p, p.sub[a].span, i)
  <2>1. ChildNamed(p, c) /\ a \in Keys
    BY <1>1 DEF Grouped, ChildrenNamed
  <2>2. p.sub[a].primary = x
    BY <1>1, <1>3, <1>8, <2>1 DEF ChildNamed
  <2>3. ~SameNames(c)
    BY <1>1, <1>8, <2>1 DEF ChildNamed
  <2>4. p.sub[a].span <= i
    BY <1>2, <1>6, <1>8, <2>1, <2>2, <2>3
  <2>5. p.sub[a].span \in Ids(p) /\ p.spans[p.sub[a].span].kind = "subagent"
    BY <1>8, <2>1, SpannedSub
  <2>6. p.spans[i].child \cap p.spans[p.sub[a].span].child # {}
    <3>1. PICK l \in Children : SpanOf(p, a, l)
      BY <1>8, <2>1 DEF Tidy, Tied
    <3>2. PICK n \in Children : SpanOf(p, h, n)
      BY <1>1 DEF Tidy, Tied
    <3>3. Meets(n, c) /\ Meets(c, l)
      BY <1>1, <1>8, <3>1, <3>2 DEF SpanOf, Meets
    <3>4. Meets(n, l)
      BY <3>3, ChildrenMeet
    <3> QED BY <3>1, <3>2, <3>4 DEF SpanOf, Meets
  <2> QED BY <1>3, <1>4, <1>8, <2>1, <2>4, <2>5, <2>6 DEF DisplacedBy
<1>12. Tied(q)
  <2> SUFFICES ASSUME NEW a \in Keys, q.sub[a].span # 0
               PROVE  \E l \in Children : SpanOf(q, a, l)
    BY DEF Tied
  <2>1. CASE a \in Elems(c)
    <3>1. q.sub[a].span = i
      BY <2>1 DEF NamedAs
    <3>2. PICK n \in Children : SpanOf(p, h, n)
      BY <1>1 DEF Tidy, Tied
    <3>3. Meets(n, c)
      BY <1>1, <3>2 DEF SpanOf
    <3>4. ASSUME NEW d \in Children, a \in Elems(d) PROVE Meets(n, d)
      <4>1. Meets(c, d)
        BY <2>1, <3>4 DEF Meets
      <4> QED BY <3>3, <4>1, ChildrenMeet
    <3>5. SpanOf(q, a, n)
      BY <3>1, <3>2, <3>4 DEF SpanOf
    <3> QED BY <3>5
  <2>2. CASE a \notin Elems(c)
    <3>1. q.sub[a].span = p.sub[a].span
      BY <2>2 DEF NamedAs
    <3>2. PICK l \in Children : SpanOf(p, a, l)
      BY <3>1 DEF Tidy, Tied
    <3>3. SpanOf(q, a, l)
      BY <3>1, <3>2 DEF SpanOf
    <3> QED BY <3>3
  <2> QED BY <2>1, <2>2
<1> HIDE DEF i, x
<1>9. ASSUME NEW j \in Ids(p), NEW k \in Keys
      PROVE  /\ HeldAt(q, k, j) => HeldBy(p, j)
             /\ HeldAt(p, k, j) => HeldBy(q, j) \/ Displaced(p, j)
  <2>1. j # 0
    BY DEF Ids
  <2>2. CASE k \notin Elems(c)
    BY <2>2 DEF HeldAt, HeldBy, NamedAs
  <2>3. CASE k \in Elems(c)
    <3>1. q.sub[k].span = i /\ HeldBy(p, i) /\ HeldBy(q, i)
      BY <1>1, <1>7, <2>3 DEF NamedAs, HeldAt, HeldBy, i
    <3>2. HeldAt(q, k, j) => HeldBy(p, j)
      BY <3>1 DEF HeldAt, HeldBy
    <3>3. p.sub[k].span = j => j = i \/ Displaced(p, j)
      BY <1>3, <1>8, <2>1, <2>3 DEF Displaced
    <3>4. HeldAt(p, k, j) => HeldBy(q, j) \/ Displaced(p, j)
      BY <3>1, <3>3 DEF HeldAt, HeldBy
    <3> QED BY <3>2, <3>4
  <2> QED BY <2>2, <2>3
<1>10. /\ \A j \in Ids(p) : HeldBy(q, j) => HeldBy(p, j)
       /\ \A j \in Ids(p) : HeldBy(p, j) => HeldBy(q, j) \/ Displaced(p, j)
  BY <1>9 DEF HeldBy
<1>11. Grouped(q)
  <2>1. "hook" # "fallback"
    OBVIOUS
  <2> HIDE DEF h
  <2>2. /\ \A b \in Keys \ Elems(c) : p.sub[b].span = i => p.sub[b].primary = h
        /\ \A a \in Keys \ Elems(c) :
             p.sub[a].span # 0 /\ p.sub[a].primary = h => p.sub[a].span <= i
    BY <1>5, <1>6
  <2> QED BY <1>1, <1>3, <1>7, <2>1, <2>2, GroupedNamed DEF h
<1> QED BY <1>10, <1>11, <1>12, TidyMoved

-------------------------------------------------------------------------------
(* The parts of a hook preserve the invariant.                               *)

\* No more than s spans and r runs are made.
Grown(p, q, s, r) ==
  Sound(q) /\ Len(q.spans) <= Len(p.spans) + s /\ Len(q.lineages) <= Len(p.lineages) + r
\* ... and where the children are named apart, every span is still accounted for.
Tidied(p, q) == ChildrenApart /\ Tidy(p) => Tidy(q)
Reached(p, q, s, r) == Grown(p, q, s, r) /\ Tidied(p, q)

LEMMA Counted ==
  ASSUME NEW p, Sound(p)
  PROVE  p \in Plugins /\ Len(p.spans) \in Nat /\ Len(p.lineages) \in Nat
BY PluginFields DEF Sound

LEMMA Stays ==
  ASSUME NEW p, Sound(p), NEW s \in Nat, NEW r \in Nat
  PROVE  Reached(p, p, s, r)
BY Counted DEF Reached, Grown, Tidied

LEMMA TidiedKept ==
  ASSUME NEW p, Sound(p), NEW q, HeldSame(p, q), SubNamesSame(p, q), q.spans = p.spans
  PROVE  Tidied(p, q)
BY TidyKept DEF Tidied

LEMMA Summed ==
  ASSUME NEW a \in Nat, NEW b \in Nat, NEW c \in Nat, NEW s \in Nat, NEW u \in Nat,
         b <= a + s, c <= b + u
  PROVE  c <= a + (s + u)
OBVIOUS

LEMMA GrownChained ==
  ASSUME NEW p, NEW q, NEW r, Sound(p), NEW s \in Nat, NEW t \in Nat,
         NEW u \in Nat, NEW v \in Nat,
         Grown(p, q, s, t), Grown(q, r, u, v)
  PROVE  Grown(p, r, s + u, t + v)
<1>1. Sound(q) /\ Sound(r)
  BY DEF Grown
<1>2. /\ Len(p.spans) \in Nat /\ Len(p.lineages) \in Nat
      /\ Len(q.spans) \in Nat /\ Len(q.lineages) \in Nat
      /\ Len(r.spans) \in Nat /\ Len(r.lineages) \in Nat
  BY <1>1, Counted
<1>3. /\ Len(q.spans) <= Len(p.spans) + s /\ Len(q.lineages) <= Len(p.lineages) + t
      /\ Len(r.spans) <= Len(q.spans) + u /\ Len(r.lineages) <= Len(q.lineages) + v
  BY DEF Grown
<1>4. Len(r.spans) <= Len(p.spans) + (s + u) /\ Len(r.lineages) <= Len(p.lineages) + (t + v)
  BY <1>2, <1>3, Summed, Zenon
<1> QED BY <1>1, <1>4 DEF Grown

LEMMA GrownFirst ==
  ASSUME NEW p, NEW q, NEW r, Sound(p), Grown(p, q, 0, 0), Grown(q, r, 0, 0)
  PROVE  Grown(p, r, 0, 0)
<1>1. 0 \in Nat /\ 0 + 0 = 0
  OBVIOUS
<1>2. Grown(p, r, 0 + 0, 0 + 0)
  BY <1>1, GrownChained, Zenon
<1> QED BY <1>1, <1>2, Zenon

LEMMA Chained ==
  ASSUME NEW p, NEW q, NEW r, Sound(p), NEW s \in Nat, NEW t \in Nat,
         NEW u \in Nat, NEW v \in Nat,
         Reached(p, q, s, t), Reached(q, r, u, v)
  PROVE  Reached(p, r, s + u, t + v)
<1>1. Grown(p, q, s, t) /\ Grown(q, r, u, v) /\ Tidied(p, r)
  BY Zenon DEF Reached, Tidied
<1>2. Grown(p, r, s + u, t + v)
  BY <1>1, GrownChained, Zenon
<1> QED BY <1>1, <1>2, Zenon DEF Reached

LEMMA ChainedFirst ==
  ASSUME NEW p, NEW q, NEW r, Sound(p), NEW s \in Nat, NEW t \in Nat,
         Reached(p, q, 0, 0), Reached(q, r, s, t)
  PROVE  Reached(p, r, s, t)
<1>1. 0 \in Nat /\ 0 + s = s /\ 0 + t = t
  OBVIOUS
<1>2. Reached(p, r, 0 + s, 0 + t)
  BY <1>1, Chained, Zenon
<1> QED BY <1>1, <1>2, Zenon

\* Only the names of sessions change.
Quiet(p, q) == Sound(q) /\ q.session = p.session /\ SubagentsKept(p, q) /\ SpansKept(p, q)

LEMMA QuietSound ==
  ASSUME NEW p, Sound(p), NEW q \in Plugins, q.session = p.session,
         SubagentsKept(p, q), SpansKept(p, q)
  PROVE  Quiet(p, q)
<1>1. SpansAs(p, q)
  BY PluginFields DEF Sound, SpansKept, SpansAs
<1>2. Harmless(p, q)
  BY <1>1 DEF Harmless, SpansKept
<1> QED BY <1>2, SoundKept DEF Quiet

LEMMA RegisterSound ==
  ASSUME NEW p, Sound(p), NEW k \in Keys, NEW n \in Names
  PROVE  Quiet(p, Register(p, k, n))
<1> DEFINE q == Register(p, k, n)
<1>1. p \in Plugins /\ Elems(n) \subseteq Keys /\ q = Register(p, k, n)
  BY NameElems DEF Sound
<1> HIDE DEF q
<1>2. /\ q \in Plugins /\ q.session = p.session
      /\ SubagentsKept(p, q) /\ SpansKept(p, q)
  <2>1. AliasesOf[k] \subseteq Keys
    BY SpansAssumption
  <2> QED BY <1>1, <2>1, PluginFields DEF Register, Plugins, SubagentsKept, SpansKept
<1>3. Quiet(p, q)
  BY <1>2, QuietSound
<1> QED BY <1>3 DEF q

LEMMA UnregisterSound ==
  ASSUME NEW p, Sound(p), NEW k \in Keys
  PROVE  Quiet(p, Unregister(p, k))
<1> DEFINE q == Unregister(p, k)
<1>1. p \in Plugins
  BY DEF Sound
<1>2. /\ q \in Plugins /\ q.session = p.session
      /\ SubagentsKept(p, q) /\ SpansKept(p, q)
  BY <1>1, UnregisterFields
<1> HIDE DEF q
<1>3. Quiet(p, q)
  BY <1>2, QuietSound
<1> QED BY <1>3 DEF q

LEMMA QuietReached ==
  ASSUME NEW p, Sound(p), NEW q, Quiet(p, q)
  PROVE  Reached(p, q, 0, 0)
<1>1. Grown(p, q, 0, 0)
  BY Counted DEF Quiet, SpansKept, Grown
<1>2. HeldSame(p, q) /\ SubNamesSame(p, q) /\ q.spans = p.spans
  BY DEF Quiet, SpansKept, SubagentsKept, HeldSame, SubNamesSame
<1> QED BY <1>1, <1>2, TidiedKept DEF Reached

LEMMA AttachSound ==
  ASSUME NEW p, Sound(p), NEW k \in Keys
  PROVE  /\ Reached(p, Attach(p, k), 0, 0) /\ SpansKept(p, Attach(p, k))
         /\ SubagentsKept(p, Attach(p, k))
         /\ Attach(p, k).session[k].stats = p.session[k].stats
         /\ Attach(p, k).session[k].llm = p.session[k].llm
<1> DEFINE q == Attach(p, k)
<1>1. /\ p \in Plugins /\ p.session[k] \in SessionT
      /\ Len(p.spans) \in Nat /\ Len(p.lineages) \in Nat
  BY PluginFields, Counted DEF Sound
<1>2. /\ p.session[k].root # 0 => q = p
      /\ p.session[k].root = 0 => q.session[k] = [p.session[k] EXCEPT !.pending = TRUE]
      /\ q \in Plugins /\ OthersKept(p, q, k)
      /\ NamesKept(p, q) /\ SubagentsKept(p, q) /\ SpansKept(p, q)
  BY <1>1, AttachFields
<1> HIDE DEF q
<1>3. SpansAs(p, q) /\ q.lineages = p.lineages
  BY <1>1, <1>2, PluginFields DEF SpansKept, SpansAs
<1>4. /\ q.session[k].root = p.session[k].root /\ q.session[k].stats = p.session[k].stats
      /\ q.session[k].timer = p.session[k].timer
      /\ q.session[k].root # 0 => q.session[k].pending = p.session[k].pending
      /\ q.session[k].llm = p.session[k].llm
      /\ q.session[k].tool = p.session[k].tool
      /\ q.session[k].closed = p.session[k].closed
  BY <1>1, <1>2 DEF SessionT
<1>5. Harmless(p, q)
  BY <1>2, <1>3, <1>4 DEF Harmless, OthersKept
<1>6. Sound(q)
  BY <1>2, <1>5, SoundKept
<1>7. Reached(p, q, 0, 0)
  <2>1. HeldSame(p, q) /\ SubNamesSame(p, q) /\ q.spans = p.spans
    BY <1>2, <1>4 DEF SpansKept, SubagentsKept, HeldSame, SubNamesSame, OthersKept
  <2>2. Tidied(p, q)
    BY <2>1, TidiedKept
  <2> QED BY <1>1, <1>2, <1>6, <2>2 DEF Reached, Grown, SpansKept
<1> QED BY <1>2, <1>4, <1>7 DEF q

LEMMA StatsReached ==
  ASSUME NEW p, Sound(p), NEW k \in Keys
  PROVE  /\ Reached(p, WithStats(p, k), 0, 1)
         /\ WithStats(p, k).session[k].stats # NoStats
         /\ SubagentsKept(p, WithStats(p, k)) /\ WithStats(p, k).spans = p.spans
<1> DEFINE q == WithStats(p, k)
<1>1. p \in Plugins /\ Len(p.spans) \in Nat /\ Len(p.lineages) \in Nat
  BY Counted
<1>2. Sound(q) /\ q.session[k].stats # NoStats
  BY SoundStats
<1>3. /\ SubagentsKept(p, q) /\ q.spans = p.spans
      /\ p.session[k].stats # NoStats => q = p
      /\ p.session[k].stats = NoStats => q.lineages = Append(p.lineages, k)
  BY <1>1, WithStatsFields
<1>t. HeldSame(p, q)
  <2>1. p.session[k] \in SessionT /\ OthersKept(p, q, k)
    BY <1>1, PluginFields, WithStatsFields
  <2>2. CASE p.session[k].stats # NoStats
    BY <1>3, <2>2 DEF HeldSame
  <2>3. CASE p.session[k].stats = NoStats
    <3>1. q.session[k] = [p.session[k] EXCEPT !.stats =
             [run |-> Len(p.lineages) + 1, rootRun |-> Len(p.lineages) + 1, parentRun |-> 0]]
      BY <1>1, <2>3, WithStatsFields
    <3>2. /\ q.session[k].root = p.session[k].root /\ q.session[k].llm = p.session[k].llm
          /\ q.session[k].tool = p.session[k].tool
      BY <2>1, <3>1 DEF SessionT
    <3> HIDE DEF q
    <3> QED BY <2>1, <3>2 DEF HeldSame, OthersKept
  <2> QED BY <2>2, <2>3
<1> HIDE DEF q
<1>4. Len(q.lineages) <= Len(p.lineages) + 1
  BY <1>1, <1>3, PluginFields
<1>5. Reached(p, q, 0, 1)
  <2>1. SubNamesSame(p, q)
    BY <1>3 DEF SubagentsKept, SubNamesSame
  <2>2. Tidied(p, q)
    BY <1>3, <1>t, <2>1, TidiedKept
  <2> QED BY <1>1, <1>2, <1>3, <1>4, <2>2 DEF Reached, Grown
<1> QED BY <1>2, <1>3, <1>5 DEF q

LEMMA TracedReached ==
  ASSUME NEW p, Sound(p), NEW k \in Keys, NEW why
  PROVE  Reached(p, Traced(p, k, why), 1, 1)
<1> DEFINE q == Traced(p, k, why)
<1>1. TracedAs(p, q, k)
  BY TracedSound
<1> HIDE DEF q
<1>2. Grown(p, q, 1, 1)
  BY <1>1 DEF TracedAs, Grown
<1>3. q = p => Tidied(p, q)
  BY DEF Tidied
<1>4. ASSUME q # p PROVE Tidied(p, q)
  <2>1. PICK x \in SpanT : q.spans = Append(p.spans, x) /\ x.open = TRUE
    BY <1>1, <1>4 DEF TracedAs
  <2>2. /\ p.session[k].root = 0 /\ q.session[k].root = NewId(p)
        /\ q.session[k].llm = p.session[k].llm /\ q.session[k].tool = p.session[k].tool
        /\ q.sub = p.sub /\ OthersKept(p, q, k)
    BY <1>1, <1>4 DEF TracedAs, SubagentsKept
  <2>3. \A i \in Ids(p) : i # 0 /\ i # NewId(p)
    BY Counted DEF Ids, NewId
  <2>4. HeldBy(q, NewId(p))
    BY <2>2 DEF HeldBy, HeldAt
  <2>5. ASSUME NEW i \in Ids(p) PROVE HeldBy(q, i) <=> HeldBy(p, i)
    <3>1. \A j \in Keys : HeldAt(q, j, i) <=> HeldAt(p, j, i)
      BY <2>2, <2>3 DEF HeldAt, OthersKept
    <3> QED BY <3>1 DEF HeldBy
  <2>6. SubNamesSame(p, q)
    BY <2>2 DEF SubNamesSame
  <2>7. Tidy(p) => Tidy(q)
    <3>1. \A i \in Ids(p) : q.spans[i] = p.spans[i]
      BY <2>1, PluginFields DEF Sound, Ids
    <3>2. Tied(p) => Tied(q)
      BY <2>6, <3>1, TiedKept DEF SubNamesSame
    <3> QED BY <2>1, <2>4, <2>5, <2>6, <3>2, GroupedSame, TidyStarted DEF Tidy
  <2> QED BY <2>7 DEF Tidied
<1>5. Reached(p, q, 1, 1)
  BY <1>2, <1>3, <1>4 DEF Reached
<1> QED BY <1>5 DEF q

\* An llm or a tool span is started under a parent, and the Map holds it.
LlmStarted(p, k, parent) ==
  LET started == StartSpan(p, "llm", k, parent, {})
  IN  [started EXCEPT !.session[k].llm = Len(started.spans)]
ToolStarted(p, k, t, parent) ==
  LET started == StartSpan(p, "tool", k, parent, {})
  IN  [started EXCEPT !.session[k].tool[t] = Len(started.spans)]

\* The span is new, and the session is written.
BegunAs(p, q, k, kind, u) ==
  \E s \in Plugins, x \in SpanT :
    /\ SpanStarted(p, s, x) /\ x.kind = kind /\ x.key = k /\ x.open = TRUE
    /\ x.run = p.session[k].stats.run /\ SessionPut(s, q, k, u)

LEMMA BegunReached ==
  ASSUME NEW p, Sound(p), NEW q, NEW k \in Keys, NEW u, NEW kind,
         p.session[k].stats # NoStats, BegunAs(p, q, k, kind, u),
         \/ kind = "llm" /\ u = [p.session[k] EXCEPT !.llm = NewId(p)]
         \/ /\ kind = "tool"
            /\ \E t \in Tools : u = [p.session[k] EXCEPT !.tool = [@ EXCEPT ![t] = NewId(p)]]
  PROVE  Reached(p, q, 1, 0)
<1>1. PICK s \in Plugins, x \in SpanT :
        /\ SpanStarted(p, s, x) /\ x.kind = kind /\ x.key = k /\ x.open = TRUE
        /\ x.run = p.session[k].stats.run /\ SessionPut(s, q, k, u)
  BY DEF BegunAs
<1>2. /\ q \in Plugins /\ SpanAdded(p, q, x) /\ SubagentsKept(p, q) /\ OthersKept(p, q, k)
      /\ q.session[k] = u
  BY <1>1 DEF SpanStarted, SessionPut, SpanAdded, SpansKept, SubagentsKept, OthersKept
<1>3. Current(p, x) /\ Begun(p, q, k, x)
  BY <1>1, <1>2 DEF Current, Begun
<1>4. Sound(q)
  BY <1>1, <1>2, <1>3, SoundBegun
<1>5. /\ Len(q.spans) = Len(p.spans) + 1 /\ q.lineages = p.lineages
      /\ Len(p.spans) \in Nat /\ Len(p.lineages) \in Nat
  BY <1>1, <1>2, Counted, PluginFields DEF SpanAdded
<1>6. Tidy(p) => Tidy(q)
  <2> DEFINE N == NewId(p)
  <2>1. /\ N \in Nat /\ q.spans[N] = x /\ Ids(q) = Ids(p) \cup {N}
        /\ \A i \in Ids(p) : q.spans[i] = p.spans[i] /\ i < N /\ i # 0 /\ i # N
    BY <1>2, Appended DEF Sound, Ids
  <2>2. /\ p.session[k] \in SessionT /\ q.sub = p.sub /\ q.session[k] = u
        /\ q.spans = Append(p.spans, x)
    BY <1>2, PluginFields DEF Sound, SubagentsKept, SpanAdded
  <2>3. SessionSound(p, k)
    BY DEF Sound, MapsSound
  <2> HIDE DEF N
  <2>4. /\ u.root = p.session[k].root
        /\ \/ u.llm = N /\ u.tool = p.session[k].tool /\ kind = "llm"
           \/ /\ kind = "tool" /\ u.llm = p.session[k].llm
              /\ \E t \in Tools : u.tool[t] = N /\ \A v \in Tools \ {t} :
                                      u.tool[v] = p.session[k].tool[v]
    BY <2>1, <2>2, SessionFields DEF SessionT, N
  <2>5. HeldAt(q, k, N)
    BY <2>2, <2>4 DEF HeldAt
  <2>6. ASSUME NEW i \in Ids(p), NEW j \in Keys
        PROVE  /\ HeldAt(q, j, i) => HeldAt(p, j, i)
               /\ HeldAt(p, j, i) => HeldAt(q, j, i) \/ DisplacedBy(q, i, N)
    <3>1. CASE j # k
      BY <1>2, <2>2, <3>1 DEF HeldAt, OthersKept
    <3>2. CASE j = k
      <4>1. HeldAt(q, j, i) => HeldAt(p, j, i)
        BY <2>1, <2>2, <2>4, <3>2 DEF HeldAt
      <4>2. ASSUME kind = "llm", p.session[k].llm = i PROVE DisplacedBy(q, i, N)
        BY <1>1, <2>1, <2>3, <4>2 DEF DisplacedBy, SessionSound, Holds
      <4>3. ASSUME kind = "tool", NEW t \in Tools, p.session[k].tool[t] = i
            PROVE  DisplacedBy(q, i, N)
        BY <1>1, <2>1, <2>3, <4>3 DEF DisplacedBy, SessionSound, Holds
      <4>4. HeldAt(p, j, i) => HeldAt(q, j, i) \/ DisplacedBy(q, i, N)
        BY <2>2, <2>4, <3>2, <4>2, <4>3 DEF HeldAt
      <4> QED BY <4>1, <4>4
    <3> QED BY <3>1, <3>2
  <2>7. /\ HeldBy(q, N) /\ \A i \in Ids(p) : HeldBy(q, i) => HeldBy(p, i)
        /\ \A i \in Ids(p) : HeldBy(p, i) => HeldBy(q, i) \/ DisplacedBy(q, i, N)
    BY <2>5, <2>6 DEF HeldBy
  <2>8. SubNamesSame(p, q)
    BY <2>2 DEF SubNamesSame
  <2>9. Tied(p) => Tied(q)
    BY <2>1, <2>8, TiedKept DEF SubNamesSame
  <2> QED BY <1>1, <2>2, <2>7, <2>8, <2>9, GroupedSame, TidyStarted DEF Tidy, N
<1> QED BY <1>4, <1>5, <1>6 DEF Reached, Grown, Tidied

LEMMA StartsHeld ==
  ASSUME NEW p \in Plugins, NEW k \in Keys, NEW parent \in Nat
  PROVE  /\ BegunAs(p, LlmStarted(p, k, parent), k, "llm",
                    [p.session[k] EXCEPT !.llm = NewId(p)])
         /\ \A t \in Tools :
              BegunAs(p, ToolStarted(p, k, t, parent), k, "tool",
                      [p.session[k] EXCEPT !.tool = [@ EXCEPT ![t] = NewId(p)]])
<1>1. /\ "llm" \in SpanKinds /\ "tool" \in SpanKinds
      /\ p.session[k] \in SessionT /\ NewId(p) \in Nat
  BY PluginFields DEF SpanKinds, NewId
<1>2. ASSUME NEW kind \in SpanKinds, NEW u \in SessionT
      PROVE  /\ BegunAs(p, PutSession(StartSpan(p, kind, k, parent, {}), k, u), k, kind, u)
             /\ Len(StartSpan(p, kind, k, parent, {}).spans) = NewId(p)
             /\ StartSpan(p, kind, k, parent, {}).session = p.session
             /\ StartSpan(p, kind, k, parent, {}) \in Plugins
  <2> DEFINE s == StartSpan(p, kind, k, parent, {})
             x == NewSpan(p, kind, k, parent, {})
  <2>1. SpanStarted(p, s, x)
    BY StartSpanFields
  <2>2. x.kind = kind /\ x.key = k /\ x.run = p.session[k].stats.run /\ x.open = TRUE
    BY DEF NewSpan
  <2> HIDE DEF s, x
  <2>3. s \in Plugins /\ x \in SpanT /\ s.spans = Append(p.spans, x) /\ s.session = p.session
    BY <2>1 DEF SpanStarted
  <2>4. SessionPut(s, PutSession(s, k, u), k, u)
    BY <2>3, SessionPutFields
  <2>5. BegunAs(p, PutSession(s, k, u), k, kind, u)
    BY <2>1, <2>2, <2>3, <2>4 DEF BegunAs
  <2>6. Len(s.spans) = NewId(p)
    BY <2>3, PluginFields DEF NewId
  <2> QED BY <2>3, <2>5, <2>6 DEF s
<1>3. BegunAs(p, LlmStarted(p, k, parent), k, "llm", [p.session[k] EXCEPT !.llm = NewId(p)])
  <2> DEFINE u == [p.session[k] EXCEPT !.llm = NewId(p)]
             s == StartSpan(p, "llm", k, parent, {})
  <2>1. u \in SessionT
    BY <1>1, SessionWritten
  <2>2. BegunAs(p, PutSession(s, k, u), k, "llm", u) /\ Len(s.spans) = NewId(p)
        /\ s.session = p.session /\ s \in Plugins
    <3> HIDE DEF u
    <3> QED BY <1>1, <1>2, <2>1
  <2>3. LlmStarted(p, k, parent) = [s EXCEPT !.session[k].llm = Len(s.spans)]
    BY DEF LlmStarted
  <2> HIDE DEF s
  <2>4. LlmStarted(p, k, parent) = PutSession(s, k, u)
    BY <2>2, <2>3 DEF PutSession
  <2> QED BY <2>2, <2>4
<1>4. ASSUME NEW t \in Tools
      PROVE  BegunAs(p, ToolStarted(p, k, t, parent), k, "tool",
                     [p.session[k] EXCEPT !.tool = [@ EXCEPT ![t] = NewId(p)]])
  <2> DEFINE tl == [p.session[k].tool EXCEPT ![t] = NewId(p)]
             u == [p.session[k] EXCEPT !.tool = tl]
             s == StartSpan(p, "tool", k, parent, {})
  <2>0. tl \in [Tools -> Nat]
    BY <1>1, SessionFields
  <2>1. u \in SessionT
    <3> HIDE DEF tl
    <3> QED BY <1>1, <2>0, SessionWritten
  <2>2. BegunAs(p, PutSession(s, k, u), k, "tool", u) /\ Len(s.spans) = NewId(p)
        /\ s.session = p.session /\ s \in Plugins
    <3> HIDE DEF u
    <3> QED BY <1>1, <1>2, <2>1
  <2>3. ToolStarted(p, k, t, parent) = [s EXCEPT !.session[k].tool[t] = Len(s.spans)]
    BY DEF ToolStarted
  <2> HIDE DEF s
  <2>4. ToolStarted(p, k, t, parent) = PutSession(s, k, u)
    BY <2>2, <2>3 DEF PutSession
  <2> QED BY <2>2, <2>4
<1> QED BY <1>3, <1>4

LEMMA StartsReached ==
  ASSUME NEW p, Sound(p), NEW k \in Keys, NEW parent \in Nat,
         p.session[k].stats # NoStats
  PROVE  /\ Reached(p, LlmStarted(p, k, parent), 1, 0)
         /\ \A t \in Tools : Reached(p, ToolStarted(p, k, t, parent), 1, 0)
<1>1. p \in Plugins
  BY DEF Sound
<1>2. /\ BegunAs(p, LlmStarted(p, k, parent), k, "llm", [p.session[k] EXCEPT !.llm = NewId(p)])
      /\ \A t \in Tools :
              BegunAs(p, ToolStarted(p, k, t, parent), k, "tool",
                      [p.session[k] EXCEPT !.tool = [@ EXCEPT ![t] = NewId(p)]])
  BY <1>1, StartsHeld
<1>3. Reached(p, LlmStarted(p, k, parent), 1, 0)
  BY <1>2, BegunReached
<1>4. ASSUME NEW t \in Tools PROVE Reached(p, ToolStarted(p, k, t, parent), 1, 0)
  BY <1>2, BegunReached
<1> QED BY <1>3, <1>4

\* A span ends.
LEMMA EndSound ==
  ASSUME NEW p, Sound(p), NEW i \in Ids(p)
  PROVE  /\ Grown(p, EndSpan(p, i), 0, 0)
         /\ EndSpan(p, i).session = p.session /\ SubagentsKept(p, EndSpan(p, i))
         /\ Ids(EndSpan(p, i)) = Ids(p)
<1> DEFINE q == EndSpan(p, i)
<1>1. /\ p \in Plugins /\ i \in 1..Len(p.spans) /\ q = EndSpan(p, i)
      /\ Len(p.spans) \in Nat /\ Len(p.lineages) \in Nat
  BY Counted DEF Ids
<1> HIDE DEF q
<1>2. /\ q \in Plugins /\ SpansAs(p, q)
      /\ q.lineages = p.lineages /\ q.session = p.session
      /\ NamesKept(p, q) /\ SubagentsKept(p, q)
  BY <1>1, EndSpanFields
<1>3. Harmless(p, q)
  BY <1>2 DEF Harmless
<1>4. Sound(q)
  BY <1>2, <1>3, SoundKept
<1>5. Grown(p, q, 0, 0) /\ Ids(q) = Ids(p)
  BY <1>1, <1>2, <1>4 DEF Grown, SpansAs, Ids
<1> QED BY <1>2, <1>5 DEF q

LlmEnded(p, k, i) == [EndSpan(p, i) EXCEPT !.session[k].llm = 0]
ToolEnded(p, k, t, i) == [EndSpan(p, i) EXCEPT !.session[k].tool[t] = 0]

\* The session no longer holds a span.
Released(u, s) ==
  /\ u.root = s.root /\ u.stats = s.stats /\ u.timer = s.timer /\ u.pending = s.pending
  /\ u.closed = s.closed /\ u.llm \in {0, s.llm}
  /\ \A t \in Tools : u.tool[t] \in {0, s.tool[t]}

LEMMA ReleasedGrown ==
  ASSUME NEW p, Sound(p), NEW k \in Keys, NEW u \in SessionT, Released(u, p.session[k])
  PROVE  Grown(p, PutSession(p, k, u), 0, 0)
<1> DEFINE q == PutSession(p, k, u)
<1>1. p \in Plugins /\ Len(p.spans) \in Nat /\ Len(p.lineages) \in Nat
  BY Counted
<1>2. SessionPut(p, q, k, u)
  BY <1>1, SessionPutFields
<1> HIDE DEF q
<1>3. /\ q \in Plugins /\ q.session[k] = u /\ OthersKept(p, q, k)
      /\ SubagentsKept(p, q) /\ q.spans = p.spans /\ q.lineages = p.lineages
  BY <1>2 DEF SessionPut, SpansKept
<1>4. SpansAs(p, q)
  BY <1>1, <1>3, PluginFields DEF SpansAs
<1>5. Harmless(p, q)
  BY <1>3, <1>4 DEF Harmless, OthersKept, Released
<1>6. Sound(q)
  BY <1>3, <1>5, SoundKept
<1>7. Grown(p, q, 0, 0)
  BY <1>1, <1>3, <1>6 DEF Grown
<1> QED BY <1>7 DEF q

LEMMA EndsReached ==
  ASSUME NEW p, Sound(p), NEW k \in Keys, NEW i \in Ids(p)
  PROVE  /\ i = p.session[k].llm => Reached(p, LlmEnded(p, k, i), 0, 0)
         /\ \A t \in Tools :
              i = p.session[k].tool[t] => Reached(p, ToolEnded(p, k, t, i), 0, 0)
<1> DEFINE r == EndSpan(p, i)
<1>1. Grown(p, r, 0, 0) /\ r.session = p.session
  BY EndSound
<1>2. LlmEnded(p, k, i) = [r EXCEPT !.session[k].llm = 0]
  BY DEF LlmEnded
<1>3. \A t \in Tools : ToolEnded(p, k, t, i) = [r EXCEPT !.session[k].tool[t] = 0]
  BY DEF ToolEnded
<1>t. /\ SpansAs(p, r) /\ r.sub = p.sub
      /\ \A j \in Ids(p) : r.spans[j].open <=> j # i /\ p.spans[j].open
  <2>1. p \in Plugins /\ i \in 1..Len(p.spans) /\ r = EndSpan(p, i)
    BY DEF Sound, Ids
  <2> HIDE DEF r
  <2> QED BY <2>1, EndSpanFields DEF SubagentsKept, Ids
<1> HIDE DEF r
<1>4. Sound(r) /\ r \in Plugins /\ r.session[k] \in SessionT
  BY <1>1, PluginFields DEF Grown, Sound
<1>s. SessionSound(p, k) /\ i # 0
  BY DEF Sound, MapsSound, Ids
<1>5. ASSUME NEW u \in SessionT, Released(u, r.session[k]),
             \/ i = p.session[k].llm /\ u.llm = 0 /\ u.tool = p.session[k].tool
             \/ /\ u.llm = p.session[k].llm
                /\ \E t \in Tools : /\ i = p.session[k].tool[t] /\ u.tool[t] = 0
                                    /\ \A v \in Tools \ {t} : u.tool[v] = p.session[k].tool[v]
      PROVE  Reached(p, PutSession(r, k, u), 0, 0)
  <2> DEFINE q == PutSession(r, k, u)
  <2>1. Grown(r, q, 0, 0) /\ SessionPut(r, q, k, u)
    BY <1>4, <1>5, ReleasedGrown, SessionPutFields
  <2> HIDE DEF q
  <2>2. Grown(p, q, 0, 0)
    BY <1>1, <2>1, GrownFirst, Zenon
  <2>3. /\ q.session[k] = u /\ q.sub = p.sub /\ q.spans = r.spans
        /\ \A j \in Keys : j # k => q.session[j] = p.session[j]
    BY <1>1, <1>t, <2>1 DEF SessionPut, OthersKept, SubagentsKept, SpansKept
  <2>4. SpansAs(p, q)
    BY <1>t, <2>3 DEF SpansAs
  <2>5. ASSUME NEW x \in Keys, HeldAt(q, x, i) PROVE FALSE
    <3>1. SessionSound(p, x) /\ SubSound(p, x)
      BY DEF Sound, MapsSound
    <3>2. CASE i = p.session[k].llm /\ u.llm = 0 /\ u.tool = p.session[k].tool
      <4>1. p.spans[i].kind = "llm" /\ p.spans[i].key = k
        BY <1>s, <3>2 DEF SessionSound, Holds
      <4> QED BY <1>1, <1>5, <1>s, <2>3, <2>5, <3>1, <3>2, <4>1
              DEF HeldAt, SessionSound, SubSound, Holds, Released
    <3>3. CASE /\ u.llm = p.session[k].llm
               /\ \E t \in Tools : /\ i = p.session[k].tool[t] /\ u.tool[t] = 0
                                   /\ \A v \in Tools \ {t} : u.tool[v] = p.session[k].tool[v]
      <4>0. PICK t \in Tools : /\ i = p.session[k].tool[t] /\ u.tool[t] = 0
                               /\ \A v \in Tools \ {t} : u.tool[v] = p.session[k].tool[v]
        BY <3>3
      <4>1. p.spans[i].kind = "tool" /\ p.spans[i].key = k
        BY <1>s, <4>0 DEF SessionSound, Holds
      <4>r. q.session[x].root = p.session[x].root /\ q.session[x].llm = p.session[x].llm
        BY <1>1, <1>5, <2>3, <3>3 DEF Released
      <4>n. /\ q.session[x].root # i /\ q.session[x].llm # i /\ q.sub[x].span # i
        BY <1>s, <2>3, <3>1, <4>1, <4>r DEF SessionSound, SubSound, Holds
      <4>2. PICK v \in Tools : q.session[x].tool[v] = i
        BY <2>5, <4>n DEF HeldAt
      <4>3. CASE x # k
        BY <1>s, <2>3, <3>1, <4>1, <4>2, <4>3 DEF SessionSound, Holds
      <4>4. CASE x = k
        BY <1>s, <2>3, <3>1, <4>0, <4>2, <4>4 DEF SessionSound
      <4> QED BY <4>3, <4>4
    <3> QED BY <1>5, <3>2, <3>3
  <2>6. ASSUME NEW j \in Ids(p), NEW x \in Keys
        PROVE  /\ HeldAt(q, x, j) => HeldAt(p, x, j)
               /\ HeldAt(p, x, j) => HeldAt(q, x, j) \/ j = i
    <3>1. j # 0
      BY DEF Ids
    <3>2. CASE x # k
      BY <2>3, <3>2 DEF HeldAt
    <3>3. CASE x = k
      BY <1>1, <1>5, <2>3, <3>1, <3>3 DEF HeldAt, Released
    <3> QED BY <3>2, <3>3
  <2>7. /\ ~HeldBy(q, i)
        /\ \A j \in Ids(p) : HeldBy(q, j) => HeldBy(p, j)
        /\ \A j \in Ids(p) : HeldBy(p, j) => HeldBy(q, j) \/ j = i
    BY <2>5, <2>6 DEF HeldBy
  <2>8. SubNamesSame(p, q)
    BY <2>3 DEF SubNamesSame
  <2>9. \A j \in Ids(p) : q.spans[j].open <=> j # i /\ p.spans[j].open
    BY <1>t, <2>3
  <2>10. Tidy(p) => Tidy(q)
    BY <2>4, <2>7, <2>8, <2>9, GroupedSame, TidyEnded DEF Tidy, SubNamesSame
  <2>11. Reached(p, q, 0, 0)
    BY <2>2, <2>10 DEF Reached, Tidied
  <2> QED BY <2>11 DEF q
<1>6. ASSUME i = p.session[k].llm
      PROVE  Reached(p, LlmEnded(p, k, i), 0, 0)
  <2> DEFINE u == [r.session[k] EXCEPT !.llm = 0]
  <2>1. u \in SessionT /\ Released(u, r.session[k]) /\ u.llm = 0 /\ u.tool = r.session[k].tool
    BY <1>4 DEF SessionT, Released
  <2>2. LlmEnded(p, k, i) = PutSession(r, k, u)
    BY <1>2, <1>4 DEF PutSession
  <2> HIDE DEF u
  <2> QED BY <1>1, <1>5, <1>6, <2>1, <2>2
<1>7. ASSUME NEW t \in Tools, i = p.session[k].tool[t]
      PROVE  Reached(p, ToolEnded(p, k, t, i), 0, 0)
  <2> DEFINE tl == [r.session[k].tool EXCEPT ![t] = 0]
             u == [r.session[k] EXCEPT !.tool = tl]
  <2>1. r.session[k].tool \in [Tools -> Nat] /\ tl \in [Tools -> Nat]
    BY <1>4, SessionFields
  <2>2. /\ \A v \in Tools : tl[v] \in {0, r.session[k].tool[v]}
        /\ tl[t] = 0 /\ \A v \in Tools \ {t} : tl[v] = r.session[k].tool[v]
    BY <2>1
  <2>3. ToolEnded(p, k, t, i) = PutSession(r, k, u)
    BY <1>3, <1>4 DEF PutSession
  <2> HIDE DEF tl
  <2>4. /\ u \in SessionT /\ Released(u, r.session[k])
        /\ u.tool = tl /\ u.llm = r.session[k].llm
    BY <1>4, <2>1, <2>2 DEF SessionT, Released
  <2> HIDE DEF u
  <2> QED BY <1>1, <1>5, <1>7, <2>2, <2>3, <2>4
<1> QED BY <1>6, <1>7

\* A session that has no root left and no statistics; what it remembers is the
\* lineage of a root.
Emptied(p, u, s) ==
  /\ u \in SessionT /\ u.root = 0 /\ u.llm = s.llm /\ u.tool = s.tool
  /\ u.timer = FALSE /\ u.stats = NoStats
  /\ u.closed # NoLineage => Known(p, u.closed)

LEMMA EmptiedGrown ==
  ASSUME NEW p, Sound(p), NEW k \in Keys, NEW u, Emptied(p, u, p.session[k])
  PROVE  /\ Grown(p, PutSession(p, k, u), 0, 0)
         /\ SpansKept(p, PutSession(p, k, u))
<1> DEFINE q == PutSession(p, k, u)
<1>1. p \in Plugins /\ Len(p.spans) \in Nat /\ Len(p.lineages) \in Nat
  BY Counted
<1>2. SessionPut(p, q, k, u)
  <2>1. u \in SessionT
    BY DEF Emptied
  <2> QED BY <1>1, <2>1, SessionPutFields
<1> HIDE DEF q
<1>3. /\ q \in Plugins /\ q.session[k] = u /\ OthersKept(p, q, k)
      /\ q.sub = p.sub /\ q.misnamed = p.misnamed
      /\ q.spans = p.spans /\ q.lineages = p.lineages /\ SpansKept(p, q)
  BY <1>2 DEF SessionPut, SpansKept, SubagentsKept
<1>4. Ids(q) = Ids(p) /\ RunsOf(q) = RunsOf(p) /\ \A i : IsRoot(q, i) <=> IsRoot(p, i)
  BY <1>3 DEF Ids, RunsOf, IsRoot
<1>5. /\ \A i, kind, j : Holds(p, i, kind, j) => Holds(q, i, kind, j)
      /\ \A m : Known(p, m) => Known(q, m)
  BY <1>3, <1>4 DEF Holds, Known
<1>6. Holds(q, 0, "root", k)
  BY DEF Holds
<1>e. /\ u.root = 0 /\ u.llm = p.session[k].llm /\ u.tool = p.session[k].tool
      /\ u.timer = FALSE /\ u.stats = NoStats
      /\ u.closed # NoLineage => Known(p, u.closed)
  BY DEF Emptied
<1>7. MapsSound(q)
  <2> SUFFICES ASSUME NEW j \in Keys PROVE SessionSound(q, j) /\ SubSound(q, j)
    BY DEF MapsSound
  <2>1. SessionSound(p, j) /\ SubSound(p, j)
    BY DEF Sound, MapsSound
  <2>2. SubSound(q, j)
    BY <1>3, <1>5, <2>1 DEF SubSound
  <2>3. CASE j = k
    BY <1>3, <1>5, <1>6, <1>e, <2>1, <2>2, <2>3 DEF SessionSound
  <2>4. CASE j # k
    BY <1>3, <1>5, <2>1, <2>2, <2>4, SessionKept DEF OthersKept
  <2> QED BY <2>3, <2>4
<1>8. \A j \in Keys : j = k \/ q.session[j] = p.session[j]
  BY <1>3 DEF OthersKept
<1>9. Numbered(q)
  BY <1>3, <1>4, <1>8, <1>e DEF Sound, Numbered
<1>10. Rooted(q)
  <2> SUFFICES ASSUME NEW j \in Keys PROVE RootedAt(q, j)
    BY DEF Rooted
  <2>1. CASE j = k
    <3>1. /\ q.session[j].timer = FALSE /\ q.session[j].root = 0
          /\ q.session[j].stats = NoStats
      BY <1>3, <1>e, <2>1
    <3>2. NoStats.parentRun = 0 /\ q.session[j].timer = (q.session[j].root # 0)
      BY <3>1 DEF NoStats
    <3> QED BY <3>1, <3>2 DEF RootedAt
  <2>2. CASE j # k
    <3>1. RootedAt(p, j) /\ q.session[j] = p.session[j]
      BY <1>8, <2>2 DEF Sound, Rooted
    <3> QED BY <1>3, <3>1 DEF RootedAt
  <2> QED BY <2>1, <2>2
<1>11. RootRuns(q)
  BY <1>3, <1>4 DEF Sound, Families, RootRuns
<1>12. CurrentRoots(q)
  <2> SUFFICES ASSUME NEW i \in Ids(p), IsRoot(p, i),
                      p.spans[i].run = q.session[p.spans[i].key].stats.run
               PROVE  i = q.session[p.spans[i].key].root
    BY <1>3, <1>4 DEF CurrentRoots
  <2>1. p.spans[i].run # 0 /\ p.spans[i].key \in Keys
    BY <1>1, SpanFields DEF Sound, Numbered, RunsOf
  <2>2. p.spans[i].key # k
    BY <1>3, <1>e, <2>1 DEF NoStats
  <2>3. q.session[p.spans[i].key] = p.session[p.spans[i].key]
    BY <1>8, <2>1, <2>2
  <2> QED BY <2>3 DEF Sound, Families, CurrentRoots
<1>13. Remembered(q)
  BY <1>3, <1>5, <1>8, <1>e DEF Sound, Families, Remembered
<1>14. SubsDescribed(q)
  BY <1>3, <1>4 DEF Sound, SubsDescribed, Described
<1>15. RootsSpawned(q)
  BY <1>3, <1>4 DEF Sound, RootsSpawned, RootSpawned
<1>16. Sound(q)
  BY <1>3, <1>7, <1>9, <1>10, <1>11, <1>12, <1>13, <1>14, <1>15 DEF Sound, Families
<1>17. Grown(p, q, 0, 0)
  BY <1>1, <1>3, <1>16 DEF Grown
<1> QED BY <1>3, <1>17 DEF q

\* Names of a subagent are gone.
LEMMA UnregisterSubagentSound ==
  ASSUME NEW p, Sound(p), NEW as \in SUBSET Keys
  PROVE  /\ Grown(p, UnregisterSubagent(p, as), 0, 0)
         /\ UnregisterSubagent(p, as).session = p.session
         /\ SpansKept(p, UnregisterSubagent(p, as))
<1> DEFINE q == UnregisterSubagent(p, as)
<1>1. /\ p \in Plugins /\ q = UnregisterSubagent(p, as)
      /\ Len(p.spans) \in Nat /\ Len(p.lineages) \in Nat
  BY Counted
<1> HIDE DEF q
<1>2. /\ q \in Plugins /\ SpansKept(p, q) /\ q.misnamed = p.misnamed /\ q.session = p.session
      /\ \A a \in Keys :
           /\ a \in SubGone(p, as) => /\ q.sub[a].span = 0 /\ q.sub[a].parent = None
                                      /\ q.sub[a].primary = None
           /\ a \notin SubGone(p, as) => /\ q.sub[a].span = p.sub[a].span
                                         /\ q.sub[a].parent = p.sub[a].parent
                                         /\ q.sub[a].primary = p.sub[a].primary
           /\ a \in SubPrimaries(p, as) => q.sub[a].meta = NoMeta
           /\ a \notin SubPrimaries(p, as) =>
                q.sub[a].group = p.sub[a].group /\ q.sub[a].meta = p.sub[a].meta
  <2>1. SubsGone(p, q, as)
    BY <1>1, UnregisterSubagentFields
  <2> QED BY <2>1 DEF SubsGone
<1>3. Ids(q) = Ids(p) /\ RunsOf(q) = RunsOf(p) /\ q.spans = p.spans /\ q.lineages = p.lineages
  BY <1>2 DEF SpansKept, Ids, RunsOf
<1>4. ASSUME NEW a \in Keys PROVE SubSound(q, a)
  <2>1. SubSound(p, a)
    BY DEF Sound, MapsSound
  <2>2. CASE a \in SubGone(p, as)
    BY <1>2, <2>2 DEF SubSound, Holds
  <2>3. CASE a \notin SubGone(p, as)
    BY <1>2, <1>3, <2>1, <2>3 DEF SubSound, Holds
  <2> QED BY <2>2, <2>3
<1>5. MetaKnown(p, q)
  BY <1>2 DEF MetaKnown, Sound, Families, Remembered
<1>6. SubsDescribed(q)
  <2> SUFFICES ASSUME NEW a \in Keys, q.sub[a].span # 0
               PROVE  /\ a \in q.sub[q.sub[a].primary].group
                      /\ a \in q.misnamed \/ Described(q, a)
    BY DEF SubsDescribed
  <2> DEFINE x == p.sub[a].primary
  <2>1. /\ a \notin SubGone(p, as) /\ q.sub[a].span = p.sub[a].span
        /\ q.sub[a].parent = p.sub[a].parent /\ q.sub[a].primary = x
    BY <1>2
  <2>2. /\ a \in p.sub[x].group /\ (a \in p.misnamed \/ Described(p, a))
        /\ x # None /\ x \in Keys
    <3>1. p.sub[a].span # 0
      BY <2>1
    <3>2. x # None
      BY <3>1 DEF Sound, MapsSound, SubSound
    <3> QED BY <1>1, <3>1, <3>2, PluginFields, SubagentFields DEF Sound, SubsDescribed
  <2>3. x \notin SubPrimaries(p, as)
    BY <2>1, <2>2 DEF SubGone
  <2>4. q.sub[x].group = p.sub[x].group /\ q.sub[x].meta = p.sub[x].meta
    BY <1>2, <2>2, <2>3
  <2> HIDE DEF x
  <2>5. x = p.sub[a].primary
    BY DEF x
  <2> QED BY <1>2, <1>3, <2>1, <2>2, <2>4, <2>5 DEF Described
<1>7. SubsFine(p, q)
  BY <1>2, <1>4, <1>5, <1>6 DEF SubsFine
<1>8. Sound(q)
  BY <1>2, <1>7, SoundSubs
<1>9. Grown(p, q, 0, 0)
  BY <1>1, <1>3, <1>8 DEF Grown
<1> QED BY <1>2, <1>9 DEF q

\* The span of a subagent has been started under the live root of k.
Launched(p, r, k, names) ==
  \E x \in SpanT :
    /\ r \in Plugins /\ SpanAdded(p, r, x) /\ r.session = p.session /\ SubagentsKept(p, r)
    /\ x.kind = "subagent" /\ x.key = k /\ x.run = p.session[k].stats.run
    /\ x.open = TRUE /\ x.child = names

\* It is described, and held under the names of the child.
LEMMA SpawnSound ==
  ASSUME NEW p, Sound(p), NEW k \in Keys, NEW c \in Children, NEW source \in {"hook", "fallback"},
         source = "fallback" => p.sub[Head(c)].span = 0,
         NEW r, Launched(p, r, k, Elems(c)), p.session[k].root # 0,
         NEW d, SubDescribed(r, d, c, p.session[k].stats),
         NEW q, SubNamed(d, q, c, k, NewId(p), source)
  PROVE  Reached(p, q, 1, 0) /\ q.session = p.session
<1>1. PICK x \in SpanT :
        /\ r \in Plugins /\ SpanAdded(p, r, x) /\ r.session = p.session
        /\ SubagentsKept(p, r)
        /\ x.kind = "subagent" /\ x.key = k /\ x.run = p.session[k].stats.run
        /\ x.open = TRUE /\ x.child = Elems(c)
  BY DEF Launched
<1>2. p \in Plugins /\ Len(p.spans) \in Nat /\ Len(p.lineages) \in Nat
  BY Counted
<1>3. q \in Plugins /\ SpanAdded(p, q, x) /\ q.session = p.session
  BY <1>1 DEF SubDescribed, SubNamed, SpansKept, SpanAdded
<1>4. /\ q.misnamed = p.misnamed \cup {a \in Keys \ Elems(c) : p.sub[a].primary = Head(c)}
      /\ \A a \in Keys :
           /\ a \in Elems(c) => /\ q.sub[a].span = NewId(p) /\ q.sub[a].parent = k
                                /\ q.sub[a].primary = Head(c)
           /\ a \notin Elems(c) => /\ q.sub[a].span = p.sub[a].span
                                   /\ q.sub[a].parent = p.sub[a].parent
                                   /\ q.sub[a].primary = p.sub[a].primary
           /\ a = Head(c) => q.sub[a].group = p.sub[a].group \cup Elems(c)
           /\ a # Head(c) => q.sub[a].group = p.sub[a].group
           /\ a = Head(c) => q.sub[a].meta = [run |-> p.session[k].stats.run,
                                              rootRun |-> p.session[k].stats.rootRun]
           /\ a # Head(c) => q.sub[a].meta = p.sub[a].meta
  <2>1. r.sub = p.sub /\ r.misnamed = p.misnamed
    BY <1>1 DEF SubagentsKept
  <2> QED BY <2>1 DEF SubDescribed, SubNamed
<1>5. /\ NewId(p) \in Ids(q) /\ NewId(p) # 0 /\ q.spans[NewId(p)] = x
      /\ Ids(p) \subseteq Ids(q) /\ \A i \in Ids(p) : q.spans[i] = p.spans[i]
  BY <1>2, <1>3, Appended
<1>6. /\ \A i, kind, j : Holds(p, i, kind, j) => Holds(q, i, kind, j)
      /\ Holds(q, NewId(p), "subagent", k)
  BY <1>1, <1>2, <1>3, HoldsAppended
<1>7. /\ Head(c) \in Keys /\ Head(c) \in Elems(c) /\ Elems(c) \subseteq Keys
      /\ k # None /\ Head(c) # None
  BY NameElems, SpansAssumption
<1>8. /\ RootedAt(p, k) /\ p.session[k].stats # NoStats
      /\ p.session[k].root \in Ids(p) /\ p.spans[p.session[k].root].kind = "root"
  BY DEF Sound, Rooted, RootedAt, MapsSound, SessionSound, Holds
<1>9. /\ p.session[k].stats.run \in RunsOf(p) /\ p.lineages[p.session[k].stats.run] = k
      /\ RunsOf(q) = RunsOf(p) /\ q.lineages = p.lineages
  BY <1>3, <1>8 DEF Sound, Numbered, RunsOf, SpanAdded
<1>10. Current(p, x)
  BY <1>1, <1>8 DEF Current
<1>11. RunsKept(p, q)
  BY <1>3 DEF RunsKept
<1>12. MapsSound(q)
  <2> SUFFICES ASSUME NEW j \in Keys PROVE SessionSound(q, j) /\ SubSound(q, j)
    BY DEF MapsSound
  <2>1. SessionSound(p, j) /\ SubSound(p, j)
    BY DEF Sound, MapsSound
  <2>2. SessionSound(q, j)
    BY <1>3, <1>6, <2>1, SessionKept
  <2>3. CASE j \in Elems(c)
    BY <1>4, <1>5, <1>6, <1>7, <2>2, <2>3 DEF SubSound
  <2>4. CASE j \notin Elems(c)
    BY <1>4, <1>6, <2>1, <2>2, <2>4 DEF SubSound
  <2> QED BY <2>2, <2>3, <2>4
<1>13. MetaKnown(p, q)
  <2> SUFFICES ASSUME NEW a \in Keys, q.sub[a].meta # NoMeta
               PROVE  Known(p, q.sub[a].meta)
    BY DEF MetaKnown
  <2>1. CASE a = Head(c)
    <3> DEFINE m == [run |-> p.session[k].stats.run, rootRun |-> p.session[k].stats.rootRun]
    <3>1. m.run = p.session[k].stats.run /\ m.rootRun = p.session[k].stats.rootRun
      OBVIOUS
    <3>2. q.sub[a].meta = m
      BY <1>4, <2>1
    <3> HIDE DEF m
    <3>3. Known(p, m)
      BY <1>8, <3>1 DEF Known, IsRoot, RootedAt
    <3> QED BY <3>2, <3>3
  <2>2. CASE a # Head(c)
    BY <1>4, <2>2 DEF Sound, Families, Remembered
  <2> QED BY <2>1, <2>2
<1>14. SubsDescribed(q)
  <2> SUFFICES ASSUME NEW a \in Keys, q.sub[a].span # 0
               PROVE  /\ a \in q.sub[q.sub[a].primary].group
                      /\ a \in q.misnamed \/ Described(q, a)
    BY DEF SubsDescribed
  <2>1. CASE a \in Elems(c)
    <3>1. /\ q.sub[a].span = NewId(p) /\ q.sub[a].parent = k /\ q.sub[a].primary = Head(c)
          /\ q.sub[Head(c)].group = p.sub[Head(c)].group \cup Elems(c)
          /\ q.sub[Head(c)].meta.run = p.session[k].stats.run
      BY <1>4, <1>7, <2>1
    <3>2. q.spans[NewId(p)].run = p.session[k].stats.run
      BY <1>1, <1>5
    <3>3. p.session[k].stats.run \in Nat
      BY <1>9 DEF RunsOf
    <3>4. Described(q, a)
      BY <1>9, <3>1, <3>2, <3>3 DEF Described
    <3> QED BY <2>1, <3>1, <3>4
  <2>2. CASE a \notin Elems(c)
    <3>1. /\ q.sub[a].span = p.sub[a].span /\ q.sub[a].parent = p.sub[a].parent
          /\ q.sub[a].primary = p.sub[a].primary /\ p.sub[a].span # 0
      BY <1>4, <2>2
    <3>2. /\ a \in p.sub[p.sub[a].primary].group
          /\ a \in p.misnamed \/ Described(p, a)
          /\ p.sub[a].span \in Ids(p) /\ p.sub[a].primary # None
      BY <3>1 DEF Sound, SubsDescribed, MapsSound, SubSound, Holds
    <3>3. p.sub[a].primary \in Keys
      BY <1>2, <3>2, PluginFields, SubagentFields
    <3>4. q.spans[p.sub[a].span] = p.spans[p.sub[a].span]
      BY <1>5, <3>2
    <3>5. CASE p.sub[a].primary = Head(c)
      <4>1. a \in q.misnamed
        BY <1>4, <2>2, <3>5
      <4>2. a \in q.sub[Head(c)].group
        BY <1>4, <1>7, <3>2, <3>5
      <4> QED BY <3>1, <3>5, <4>1, <4>2
    <3>6. CASE p.sub[a].primary # Head(c)
      <4>1. /\ q.sub[p.sub[a].primary].group = p.sub[p.sub[a].primary].group
            /\ q.sub[p.sub[a].primary].meta = p.sub[p.sub[a].primary].meta
        BY <1>4, <3>3, <3>6
      <4>2. Described(p, a) => Described(q, a)
        BY <1>9, <3>1, <3>4, <4>1 DEF Described
      <4>3. p.misnamed \subseteq q.misnamed
        BY <1>4
      <4> QED BY <3>1, <3>2, <4>1, <4>2, <4>3
    <3> QED BY <3>5, <3>6
  <2> QED BY <2>1, <2>2
<1>15. p.misnamed \subseteq q.misnamed
  BY <1>4
<1>16. Sound(q)
  BY <1>3, <1>10, <1>11, <1>12, <1>13, <1>14, <1>15, SoundAppended
<1>17. Len(q.spans) = Len(p.spans) + 1
  BY <1>2, <1>3, PluginFields DEF SpanAdded
<1>18. Tidied(p, q)
  <2>1. NamedAs(p, q, c, NewId(p), source)
    <3>1. r.sub = p.sub
      BY <1>1 DEF SubagentsKept
    <3> QED BY <3>1 DEF SubDescribed, SubNamed, NamedAs
  <2>2. ASSUME ChildrenApart, Tidy(p) PROVE Tidy(q)
    BY <1>1, <1>3, <2>1, <2>2, TidySpawned DEF SpanAdded
  <2> QED BY <2>2 DEF Tidied
<1> QED BY <1>2, <1>3, <1>9, <1>16, <1>17, <1>18 DEF Reached, Grown

\* subagent_spawned names a child again; the metadata stay with the name it had.
LEMMA RespawnSound ==
  ASSUME NEW p, Sound(p), NEW c \in Children, p.sub[Head(c)].span # 0,
         NEW r \in Plugins, r.session = p.session, r.sub = p.sub, SpansKept(p, r),
         p.misnamed \subseteq r.misnamed,
         \/ Elems(c) \subseteq r.misnamed
         \/ p.sub[Head(c)].primary = Head(c) /\ Head(c) \notin p.misnamed,
         NEW q, SubNamed(r, q, c, p.sub[Head(c)].parent, p.sub[Head(c)].span, "hook")
  PROVE  Reached(p, q, 0, 0)
<1> DEFINE child == Head(c)
           parent == p.sub[child].parent
           span == p.sub[child].span
<1>1. p \in Plugins /\ Len(p.spans) \in Nat /\ Len(p.lineages) \in Nat
  BY Counted
<1>2. child \in Keys /\ child \in Elems(c) /\ Elems(c) \subseteq Keys /\ child # None
  BY NameElems, SpansAssumption
<1>3. q \in Plugins /\ q.session = p.session /\ q.spans = p.spans /\ q.lineages = p.lineages
  BY DEF SubNamed, SpansKept
<1>4. /\ q.misnamed = r.misnamed
      /\ \A a \in Keys :
           /\ a \in Elems(c) => /\ q.sub[a].span = span /\ q.sub[a].parent = parent
                                /\ q.sub[a].primary = child
           /\ a \notin Elems(c) => /\ q.sub[a].span = p.sub[a].span
                                   /\ q.sub[a].parent = p.sub[a].parent
                                   /\ q.sub[a].primary = p.sub[a].primary
           /\ p.sub[a].group \subseteq q.sub[a].group
           /\ q.sub[a].meta = p.sub[a].meta
      /\ Elems(c) \subseteq q.sub[child].group
  BY <1>2 DEF SubNamed
<1>5. Ids(q) = Ids(p) /\ RunsOf(q) = RunsOf(p)
  BY <1>3 DEF Ids, RunsOf
<1>6. ASSUME NEW a \in Keys PROVE SubSound(q, a)
  <2>1. SubSound(p, a) /\ SubSound(p, child)
    BY <1>2 DEF Sound, MapsSound
  <2>2. CASE a \in Elems(c)
    <3>1. Holds(q, span, "subagent", parent)
      BY <1>3, <1>5, <2>1 DEF SubSound, Holds
    <3>2. span # 0 /\ parent # None
      BY <2>1 DEF SubSound
    <3> QED BY <1>2, <1>4, <2>2, <3>1, <3>2 DEF SubSound
  <2>3. CASE a \notin Elems(c)
    BY <1>3, <1>4, <1>5, <2>1, <2>3 DEF SubSound, Holds
  <2> QED BY <2>2, <2>3
<1>7. MetaKnown(p, q)
  BY <1>4 DEF MetaKnown, Sound, Families, Remembered
<1>8. SubsDescribed(q)
  <2> SUFFICES ASSUME NEW a \in Keys, q.sub[a].span # 0
               PROVE  /\ a \in q.sub[q.sub[a].primary].group
                      /\ a \in q.misnamed \/ Described(q, a)
    BY DEF SubsDescribed
  <2>1. CASE a \in Elems(c)
    <3>1. a \in q.sub[q.sub[a].primary].group
      BY <1>4, <2>1
    <3>2. CASE Elems(c) \subseteq r.misnamed
      BY <1>4, <2>1, <3>1, <3>2
    <3>3. CASE p.sub[child].primary = child /\ child \notin p.misnamed
      <4>1. Described(p, child)
        BY <1>2, <3>3 DEF Sound, SubsDescribed
      <4>2. /\ q.sub[a].primary = p.sub[child].primary /\ q.sub[a].span = p.sub[child].span
            /\ q.sub[a].parent = p.sub[child].parent
            /\ q.sub[child].meta = p.sub[child].meta
        BY <1>2, <1>4, <2>1, <3>3
      <4>3. Described(q, a)
        BY <1>3, <1>5, <3>3, <4>1, <4>2 DEF Described
      <4> QED BY <3>1, <4>3
    <3> QED BY <3>2, <3>3
  <2>2. CASE a \notin Elems(c)
    <3>1. /\ q.sub[a].span = p.sub[a].span /\ q.sub[a].parent = p.sub[a].parent
          /\ q.sub[a].primary = p.sub[a].primary /\ p.sub[a].span # 0
      BY <1>4, <2>2
    <3>2. /\ a \in p.sub[p.sub[a].primary].group
          /\ a \in p.misnamed \/ Described(p, a)
          /\ p.sub[a].primary # None
      BY <3>1 DEF Sound, SubsDescribed, MapsSound, SubSound
    <3>3. p.sub[a].primary \in Keys
      BY <1>1, <3>2, PluginFields, SubagentFields
    <3>4. /\ a \in q.sub[p.sub[a].primary].group
          /\ q.sub[p.sub[a].primary].meta = p.sub[p.sub[a].primary].meta
      BY <1>4, <3>2, <3>3
    <3>5. Described(p, a) => Described(q, a)
      BY <1>3, <1>5, <3>1, <3>4 DEF Described
    <3> QED BY <1>4, <3>1, <3>2, <3>4, <3>5
  <2> QED BY <2>1, <2>2
<1>9. SubsFine(p, q)
  BY <1>4, <1>6, <1>7, <1>8 DEF SubsFine
<1>10. Sound(q)
  <2>1. SpansKept(p, q)
    BY <1>3 DEF SpansKept
  <2> QED BY <1>3, <1>9, <2>1, SoundSubs
<1>11. Tidied(p, q)
  <2>1. NamedAs(p, q, c, span, "hook")
    BY DEF SubNamed, NamedAs
  <2>2. ASSUME ChildrenApart, Tidy(p) PROVE Tidy(q)
    BY <1>3, <2>1, <2>2, TidyRespawned
  <2> QED BY <2>2 DEF Tidied
<1> QED BY <1>1, <1>3, <1>10, <1>11 DEF Reached, Grown

\* The span of a child ends, and the names under which it was found are gone.  The
\* sessions are as they were.
LEMMA FinishReached ==
  ASSUME NEW p, Sound(p), NEW as \in SUBSET Keys, NEW z \in as, p.sub[z].span # 0,
         NEW i \in Ids(p),
         ChildrenApart /\ Tidy(p) =>
           i = p.sub[p.sub[z].primary].span /\ \E c \in Children : as \subseteq Elems(c)
  PROVE  /\ Reached(p, UnregisterSubagent(EndSpan(p, i), as), 0, 0)
         /\ UnregisterSubagent(EndSpan(p, i), as).session = p.session
         /\ Ids(UnregisterSubagent(EndSpan(p, i), as)) = Ids(p)
<1> DEFINE r == EndSpan(p, i)
           q == UnregisterSubagent(r, as)
<1>1. /\ Grown(p, r, 0, 0) /\ r.session = p.session /\ SubagentsKept(p, r)
      /\ Ids(r) = Ids(p)
  BY EndSound
<1>2. SpansAs(p, r) /\ \A j \in Ids(p) : r.spans[j].open <=> j # i /\ p.spans[j].open
  <2>1. p \in Plugins /\ i \in 1..Len(p.spans) /\ r = EndSpan(p, i)
    BY DEF Sound, Ids
  <2> HIDE DEF r
  <2> QED BY <2>1, EndSpanFields DEF Ids
<1> HIDE DEF r
<1>3. Sound(r)
  BY <1>1 DEF Grown
<1>4. Grown(r, q, 0, 0) /\ q.session = r.session /\ SpansKept(r, q) /\ SubsGone(r, q, as)
  BY <1>3, UnregisterSubagentSound, UnregisterSubagentFields DEF Sound
<1> HIDE DEF q
<1>5. Grown(p, q, 0, 0)
  BY <1>1, <1>4, GrownFirst, Zenon
<1>6. ASSUME ChildrenApart, Tidy(p) PROVE Tidy(q)
  <2>1. PICK c \in Children : as \subseteq Elems(c)
    BY <1>6
  <2>2. i = p.sub[p.sub[z].primary].span /\ r.sub = p.sub
    BY <1>1, <1>6 DEF SubagentsKept
  <2> QED BY <1>1, <1>2, <1>4, <1>6, <2>1, <2>2, TidyFinished
<1>7. Reached(p, q, 0, 0)
  BY <1>5, <1>6 DEF Reached, Tidied
<1>8. Ids(q) = Ids(p)
  BY <1>1, <1>4 DEF Ids, SpansKept
<1> QED BY <1>1, <1>4, <1>7, <1>8 DEF q, r

LEMMA FinalizeSound ==
  ASSUME NEW p, Sound(p), NEW k \in Keys
  PROVE  /\ Reached(p, FinalizeFallback(p, k), 0, 0)
         /\ FinalizeFallback(p, k).session = p.session
         /\ Ids(FinalizeFallback(p, k)) = Ids(p)
<1> DEFINE i == p.sub[k].span
           x == p.sub[k].primary
           r == EndSpan(p, i)
           q == UnregisterSubagent(r, AliasesOf[k])
<1>1. Reached(p, p, 0, 0)
  BY Stays
<1>2. CASE FinalizeFallback(p, k) = p
  BY <1>1, <1>2
<1>3. CASE i # 0 /\ p.sub[x].source = "fallback" /\ FinalizeFallback(p, k) = q
  <2>1. i \in Ids(p) /\ AliasesOf[k] \in SUBSET Keys /\ k \in AliasesOf[k]
    BY <1>3, SpansAssumption DEF Sound, MapsSound, SubSound, Holds
  <2>2. ASSUME ChildrenApart, Tidy(p)
        PROVE  i = p.sub[x].span /\ \E c \in Children : AliasesOf[k] \subseteq Elems(c)
    <3>1. GroupAt(p, k, x) /\ x \in Keys
      BY <1>3, <2>2, SpannedSub DEF Tidy, Grouped, GroupsKeyed
    <3>2. PICK c \in Children : Head(c) = x /\ k \in Elems(c)
      BY <2>2, <3>1 DEF Tidy, Grouped, GroupsNamed, GroupAt
    <3>3. AliasesOf[k] \cap Elems(c) # {}
      BY <2>1, <3>2
    <3>4. AliasesOf[k] \subseteq Elems(c)
      BY <2>2, <3>3 DEF ChildrenApart
    <3>5. i = p.sub[x].span
      BY <1>3, <3>1 DEF GroupAt
    <3> QED BY <3>4, <3>5
  <2>3. /\ Reached(p, q, 0, 0) /\ q.session = p.session /\ Ids(q) = Ids(p)
    <3>1. \E z \in AliasesOf[k] :
            /\ z = k /\ p.sub[z].span # 0
            /\ ChildrenApart /\ Tidy(p) =>
                 /\ i = p.sub[p.sub[z].primary].span
                 /\ \E c \in Children : AliasesOf[k] \subseteq Elems(c)
      BY <1>3, <2>1, <2>2
    <3> HIDE DEF i
    <3> QED BY <2>1, <3>1, FinishReached
  <2> QED BY <1>3, <2>3
<1>4. \/ FinalizeFallback(p, k) = p
      \/ i # 0 /\ p.sub[x].source = "fallback" /\ FinalizeFallback(p, k) = q
  <2>1. i # 0 => x # None
    BY DEF Sound, MapsSound, SubSound
  <2> QED BY <2>1 DEF FinalizeFallback
<1> QED BY <1>2, <1>3, <1>4

\* The root of a session ends, and no Map holds it.
LEMMA RootTidied ==
  ASSUME NEW p, Sound(p), NEW k \in Keys, NEW i, i = p.session[k].root, i # 0,
         NEW r, r.session = p.session, r.sub = p.sub, SpansAs(p, r),
         \A j \in Ids(p) : r.spans[j].open <=> j # i /\ p.spans[j].open,
         NEW u, u.root = 0, u.llm = p.session[k].llm, u.tool = p.session[k].tool,
         NEW q, SessionPut(r, q, k, u)
  PROVE  Tidied(p, q)
<1>1. SessionSound(p, k) /\ i \in Ids(p) /\ p.spans[i].kind = "root" /\ p.spans[i].key = k
  BY DEF Sound, MapsSound, SessionSound, Holds
<1>2. /\ q.session[k] = u /\ q.sub = p.sub /\ q.spans = r.spans
      /\ \A j \in Keys : j # k => q.session[j] = p.session[j]
  BY DEF SessionPut, OthersKept, SubagentsKept, SpansKept
<1>3. SpansAs(p, q) /\ SubNamesSame(p, q)
  BY <1>2 DEF SpansAs, SubNamesSame
<1>4. ASSUME NEW j \in Ids(p), NEW x \in Keys
      PROVE  /\ HeldAt(q, x, j) => HeldAt(p, x, j) /\ j # i
             /\ HeldAt(p, x, j) => HeldAt(q, x, j) \/ j = i
  <2>1. j # 0 /\ SessionSound(p, x) /\ SubSound(p, x)
    BY DEF Ids, Sound, MapsSound
  <2>2. CASE x # k
    BY <1>1, <1>2, <2>1, <2>2 DEF HeldAt, SessionSound, SubSound, Holds
  <2>3. CASE x = k
    BY <1>1, <1>2, <2>1, <2>3 DEF HeldAt, SessionSound, SubSound, Holds
  <2> QED BY <2>2, <2>3
<1>5. /\ ~HeldBy(q, i)
      /\ \A j \in Ids(p) : HeldBy(q, j) => HeldBy(p, j)
      /\ \A j \in Ids(p) : HeldBy(p, j) => HeldBy(q, j) \/ j = i
  BY <1>1, <1>4 DEF HeldBy
<1>6. Tidy(p) => Tidy(q)
  BY <1>1, <1>2, <1>3, <1>5, GroupedSame, TidyEnded DEF Tidy, SubNamesSame
<1> QED BY <1>6 DEF Tidied

LEMMA CloseSound ==
  ASSUME NEW p, Sound(p), NEW k \in Keys
  PROVE  Reached(p, Close(p, k), 0, 0)
<1> DEFINE s == p.session[k]
           hadSubagents == \E a \in Keys : p.sub[a].parent = k
           emptied == [s EXCEPT !.timer = FALSE, !.pending = FALSE, !.stats = NoStats]
           closed == IF s.stats = NoStats THEN s.closed
                     ELSE IF ~hadSubagents THEN NoLineage
                     ELSE [run |-> s.stats.run, rootRun |-> s.stats.rootRun]
           u == [emptied EXCEPT !.root = 0, !.closed = closed]
           f == FinalizeFallback(p, k)
           ended == EndSpan(f, s.root)
           put == [ended EXCEPT !.session[k] = u]
<1>1. p \in Plugins /\ s \in SessionT
  BY PluginFields DEF Sound
<1>2. NoStats \in StatsT /\ NoLineage \in LineageT
  BY DEF NoStats, StatsT, NoLineage, LineageT
<1>3. /\ emptied \in SessionT /\ emptied.root = s.root /\ emptied.llm = s.llm
      /\ emptied.tool = s.tool /\ emptied.timer = FALSE /\ emptied.stats = NoStats
      /\ emptied.closed = s.closed
  BY <1>1, <1>2 DEF SessionT
<1>4. s.closed # NoLineage => Known(p, s.closed)
  BY DEF Sound, Families, Remembered
<1>5. CASE s.root = 0
  <2>1. Close(p, k) = [p EXCEPT !.session[k] = emptied]
    BY <1>5 DEF Close
  <2> HIDE DEF emptied
  <2>2. Emptied(p, emptied, s)
    BY <1>3, <1>4, <1>5 DEF Emptied
  <2>3. Close(p, k) = PutSession(p, k, emptied)
    BY <2>1 DEF PutSession
  <2>4. Grown(p, Close(p, k), 0, 0)
    BY <2>2, <2>3, EmptiedGrown
  <2>5. SessionPut(p, Close(p, k), k, emptied)
    BY <1>1, <1>3, <2>3, SessionPutFields
  <2>6. /\ HeldSame(p, Close(p, k)) /\ SubNamesSame(p, Close(p, k))
        /\ Close(p, k).spans = p.spans
    BY <1>3, <2>5 DEF SessionPut, OthersKept, HeldSame, SubNamesSame, SubagentsKept, SpansKept
  <2>7. Tidied(p, Close(p, k))
    BY <2>6, TidiedKept
  <2> QED BY <2>4, <2>7 DEF Reached
<1>6. CASE s.root # 0
  <2>1. Close(p, k) = Unregister(put, k)
    BY <1>6 DEF Close
  <2>2. /\ s.root \in Ids(p) /\ IsRoot(p, s.root)
        /\ p.spans[s.root].run = s.stats.run /\ p.spans[s.root].rootRun = s.stats.rootRun
    BY <1>6 DEF Sound, MapsSound, SessionSound, Holds, IsRoot, Rooted, RootedAt
  <2>3. closed \in LineageT
    <3>1. s.closed \in LineageT /\ s.stats \in StatsT
      BY <1>1, SessionFields
    <3> QED BY <1>2, <3>1 DEF LineageT, StatsT
  <2>4. Known(p, [run |-> s.stats.run, rootRun |-> s.stats.rootRun])
    BY <2>2 DEF Known
  <2>5. closed # NoLineage => Known(p, closed)
    BY <1>4, <2>4
  <2> HIDE DEF closed
  <2>6. /\ u \in SessionT /\ u.root = 0 /\ u.llm = emptied.llm /\ u.tool = emptied.tool
        /\ u.timer = FALSE /\ u.stats = NoStats /\ u.closed = closed
    <3> HIDE DEF emptied
    <3> QED BY <1>3, <2>3 DEF SessionT
  <2>7. /\ u \in SessionT /\ u.root = 0 /\ u.llm = s.llm /\ u.tool = s.tool
        /\ u.timer = FALSE /\ u.stats = NoStats /\ u.closed = closed
    BY <1>3, <2>6
  <2> HIDE DEF u
  \* What the session remembers is known before its root ends, and after.
  <2>8. Reached(p, f, 0, 0) /\ f.session = p.session /\ Ids(f) = Ids(p)
    BY FinalizeSound
  <2> HIDE DEF f
  <2>9. /\ Grown(f, ended, 0, 0) /\ ended.session = f.session /\ ended.sub = f.sub
        /\ SpansAs(f, ended)
        /\ \A j \in Ids(f) : ended.spans[j].open <=> j # s.root /\ f.spans[j].open
    <3>1. Sound(f) /\ s.root \in Ids(f)
      BY <2>2, <2>8 DEF Reached, Grown
    <3>2. f \in Plugins /\ s.root \in 1..Len(f.spans)
      BY <3>1 DEF Sound, Ids
    <3> HIDE DEF s
    <3>3. /\ SpansAs(f, ended)
          /\ \A j \in Ids(f) : ended.spans[j].open <=> j # s.root /\ f.spans[j].open
      BY <3>2, EndSpanFields DEF Ids
    <3> QED BY <3>1, <3>3, EndSound DEF SubagentsKept
  <2>10. ended.session[k] = s /\ Sound(ended)
    BY <2>8, <2>9 DEF Reached, Grown
  <2> HIDE DEF ended
  <2>11. closed # NoLineage => Known(ended, closed)
    <3>1. closed \in {s.closed, NoLineage, [run |-> s.stats.run, rootRun |-> s.stats.rootRun]}
      BY DEF closed
    <3>2. s.closed # NoLineage => Known(ended, s.closed)
      BY <2>10 DEF Sound, Families, Remembered
    <3>3. Known(ended, [run |-> s.stats.run, rootRun |-> s.stats.rootRun])
      <4>1. /\ s.root \in Ids(ended) /\ IsRoot(ended, s.root)
            /\ ended.spans[s.root].run = s.stats.run
            /\ ended.spans[s.root].rootRun = s.stats.rootRun
        BY <1>6, <2>10 DEF Sound, MapsSound, SessionSound, Holds, IsRoot, Rooted, RootedAt
      <4> QED BY <4>1 DEF Known
    <3> QED BY <3>1, <3>2, <3>3
  <2>12. Emptied(ended, u, ended.session[k])
    BY <2>7, <2>10, <2>11 DEF Emptied
  <2>13. put = PutSession(ended, k, u)
    BY DEF PutSession
  <2>14. Grown(ended, put, 0, 0) /\ SessionPut(ended, put, k, u)
    BY <2>7, <2>10, <2>12, <2>13, EmptiedGrown, SessionPutFields DEF Sound
  <2> HIDE DEF put
  <2>t. Tidied(f, put)
    BY <1>6, <2>2, <2>7, <2>8, <2>9, <2>10, <2>14, RootTidied DEF Reached, Grown
  <2>15. Reached(put, Unregister(put, k), 0, 0)
    BY <2>14, UnregisterSound, QuietReached DEF Reached, Grown
  <2>16. 0 \in Nat
    OBVIOUS
  <2>17. Reached(f, put, 0, 0)
    <3>1. Sound(f) /\ Grown(f, put, 0, 0)
      BY <2>8, <2>9, <2>14, GrownFirst, Zenon DEF Reached, Grown
    <3> QED BY <2>t, <3>1 DEF Reached
  <2>18. Reached(p, put, 0, 0)
    BY <2>8, <2>16, <2>17, ChainedFirst, Zenon
  <2>19. Reached(p, Unregister(put, k), 0, 0)
    BY <2>15, <2>16, <2>18, ChainedFirst, Zenon
  <2> QED BY <2>1, <2>19
<1> QED BY <1>5, <1>6

-------------------------------------------------------------------------------
(* The hooks.                                                                *)

Less == {ss \in Nat \X Nat : ss[1] < ss[2]}

LEMMA LeastNatural ==
  ASSUME NEW T \in SUBSET Nat, T # {}
  PROVE  \E m \in T : \A j \in T : ~(j < m)
<1>1. IsWellFoundedOn(Less, Nat)
  BY NatLessThanWellFounded DEF OpToRel, Less
<1>2. \E x \in T : \A y \in T : <<y, x>> \notin Less
  BY <1>1, WFMin
<1>3. PICK x \in T : \A y \in T : <<y, x>> \notin Less
  BY <1>2
<1>4. \A y \in T : y < x => <<y, x>> \in Less
  BY DEF Less
<1> QED BY <1>3, <1>4

\* The session of an event: the primary key of a name that has one, before all of
\* which there is none, or the name itself.
LEMMA CanonicalKey ==
  ASSUME NEW p \in Plugins, NEW n \in Names
  PROVE  /\ Canonical(p, n) \in Keys
         /\ \/ (\A a \in Elems(n) : p.primary[a] = None) /\ Canonical(p, n) = Head(n)
            \/ \E a \in Elems(n) : p.primary[a] # None /\ Canonical(p, n) = p.primary[a]
<1>1. /\ n \in Seq(Keys) /\ Head(n) \in Keys
      /\ p.primary \in [Keys -> Keys \cup {None}]
  BY NameElems, PluginFields
<1>2. CASE \A i \in DOMAIN n : p.primary[n[i]] = None
  BY <1>1, <1>2 DEF Canonical, Elems
<1>3. CASE \E i \in DOMAIN n : p.primary[n[i]] # None
  <2> DEFINE T == {i \in DOMAIN n : p.primary[n[i]] # None}
             First(i) == /\ p.primary[n[i]] # None
                         /\ \A j \in 1..(i - 1) : p.primary[n[j]] = None
  <2>1. T \in SUBSET Nat /\ T # {} /\ DOMAIN n = 1..Len(n) /\ Len(n) \in Nat
    BY <1>1, <1>3
  <2>2. PICK m \in T : \A j \in T : ~(j < m)
    <3> HIDE DEF T
    <3> QED BY <2>1, LeastNatural
  <2>3. \E i \in DOMAIN n : First(i)
    <3>1. m \in DOMAIN n /\ m \in Nat
      BY <2>1, <2>2
    <3>2. \A j \in 1..(m - 1) : j \in DOMAIN n /\ j < m
      BY <2>1, <3>1
    <3> QED BY <2>2, <3>1, <3>2
  <2> DEFINE i == CHOOSE i \in DOMAIN n : First(i)
  <2>4. i \in DOMAIN n /\ p.primary[n[i]] # None
    BY <2>3
  <2>5. Canonical(p, n) = p.primary[n[i]]
    BY <1>3 DEF Canonical
  <2> HIDE DEF i
  <2>6. n[i] \in Keys /\ n[i] \in Elems(n)
    BY <1>1, <2>4 DEF Elems
  <2> QED BY <1>1, <2>4, <2>5, <2>6
<1> QED BY <1>2, <1>3

\* What a hook may start: nothing, or as much as it asks room for.
HookSound(p, q) == Reached(p, q, 0, 0) \/ (Room /\ Reached(p, q, 2, 2))

LEMMA ChainedWithin ==
  ASSUME NEW p, NEW q, NEW r, Sound(p), NEW s \in Nat, NEW t \in Nat,
         NEW u \in Nat, NEW v \in Nat, NEW m \in Nat, NEW n \in Nat,
         s + u <= m, t + v <= n,
         Reached(p, q, s, t), Reached(q, r, u, v)
  PROVE  Reached(p, r, m, n)
<1>1. Sound(r) /\ Reached(p, r, s + u, t + v)
  BY Chained, Zenon DEF Reached, Grown
<1>2. /\ Len(p.spans) \in Nat /\ Len(p.lineages) \in Nat
      /\ Len(r.spans) \in Nat /\ Len(r.lineages) \in Nat
  BY <1>1, Counted
<1>3. Len(r.spans) <= Len(p.spans) + (s + u) /\ Len(r.lineages) <= Len(p.lineages) + (t + v)
  BY <1>1 DEF Reached, Grown
<1> DEFINE a == Len(p.spans)
           b == Len(p.lineages)
           c == Len(r.spans)
           d == Len(r.lineages)
<1>4. c <= a + (s + u) /\ d <= b + (t + v) /\ a \in Nat /\ b \in Nat /\ c \in Nat /\ d \in Nat
  BY <1>2, <1>3
<1> HIDE DEF a, b, c, d
<1>5. c <= a + m /\ d <= b + n
  BY <1>4
<1> QED BY <1>1, <1>5 DEF Reached, Grown, a, b, c, d

LEMMA SmallSums ==
  /\ 0 \in Nat /\ 1 \in Nat /\ 2 \in Nat
  /\ 0 + 0 <= 2 /\ 0 + 1 <= 1 /\ 0 + 1 <= 2 /\ 1 + 0 <= 1 /\ 1 + 0 <= 2
  /\ 1 + 1 <= 2 /\ 2 + 0 <= 2 /\ 0 + 0 <= 1 /\ 0 + 0 <= 0
OBVIOUS

LEMMA ClaimSound ==
  ASSUME Sound(plugin), NEW n \in Names, InboundClaim(n)
  PROVE  HookSound(plugin, plugin')
<1> DEFINE k == Canonical(plugin, n)
           r == Register(plugin, k, n)
           q == Traced(r, k, "inbound_claim")
<1>1. plugin' = q /\ Room
  BY DEF InboundClaim
<1>2. k \in Keys
  BY CanonicalKey DEF Sound
<1> HIDE DEF k
<1>3. Reached(plugin, r, 0, 0)
  BY <1>2, RegisterSound, QuietReached
<1> HIDE DEF r
<1>4. Reached(r, q, 1, 1)
  BY <1>2, <1>3, TracedReached DEF Reached, Grown
<1> HIDE DEF q
<1>5. Reached(plugin, q, 2, 2)
  BY <1>3, <1>4, SmallSums, ChainedWithin, Zenon
<1> QED BY <1>1, <1>5 DEF HookSound

LEMMA AgentEndSound ==
  ASSUME Sound(plugin), NEW n \in Names, AgentEnd(n)
  PROVE  HookSound(plugin, plugin')
<1>1. Canonical(plugin, n) \in Keys
  BY CanonicalKey DEF Sound
<1> QED BY <1>1, CloseSound DEF AgentEnd, HookSound

LEMMA MessageSound ==
  ASSUME Sound(plugin), NEW n \in Names, MessageReceived(n)
  PROVE  HookSound(plugin, plugin')
<1> DEFINE k == Canonical(plugin, n)
           r == Register(plugin, k, n)
           t == Touch(r, k)
           q == Attach(t, k)
<1>1. plugin' = q
  BY DEF MessageReceived
<1>2. k \in Keys
  BY CanonicalKey DEF Sound
<1> HIDE DEF k
<1>3. Reached(plugin, r, 0, 0)
  BY <1>2, RegisterSound, QuietReached
<1> HIDE DEF r
<1>4. t = r /\ Sound(r)
  BY <1>2, <1>3, TouchKeeps DEF Reached, Grown
<1> HIDE DEF t
<1>5. Reached(r, q, 0, 0)
  BY <1>2, <1>4, AttachSound
<1> HIDE DEF q
<1>6. Reached(plugin, q, 0, 0)
  BY <1>3, <1>5, SmallSums, ChainedFirst, Zenon
<1> QED BY <1>1, <1>6 DEF HookSound

\* What llm_input and llm_output have in common.
LEMMA NotedReached ==
  ASSUME NEW p, Sound(p), NEW n \in Names, NEW k \in Keys
  PROVE  /\ Reached(p, WithStats(Register(p, k, n), k), 0, 1)
         /\ WithStats(Register(p, k, n), k).session[k].stats # NoStats
         /\ Touch(Register(p, k, n), k) = Register(p, k, n)
<1> DEFINE r == Register(p, k, n)
           q == WithStats(r, k)
<1>1. Reached(p, r, 0, 0)
  BY RegisterSound, QuietReached
<1> HIDE DEF r
<1>2. Touch(r, k) = r /\ Sound(r)
  BY <1>1, TouchKeeps DEF Reached, Grown
<1>3. Reached(r, q, 0, 1) /\ q.session[k].stats # NoStats
  BY <1>2, StatsReached
<1> HIDE DEF q
<1>4. Reached(p, q, 0, 1)
  BY <1>1, <1>3, SmallSums, ChainedFirst, Zenon
<1> QED BY <1>2, <1>3, <1>4 DEF q, r

LEMMA LlmInputSound ==
  ASSUME Sound(plugin), NEW n \in Names, LlmInput(n)
  PROVE  HookSound(plugin, plugin')
<1> DEFINE k == Canonical(plugin, n)
           stated == WithStats(Register(plugin, k, n), k)
           named == Attach(stated, k)
           traced == Traced(named, k, "llm_input")
           q == LlmStarted(traced, k, traced.session[k].root)
<1>1. plugin' = q /\ Room
  BY DEF LlmInput, LlmStarted
<1>2. k \in Keys
  BY CanonicalKey DEF Sound
<1> HIDE DEF k
<1>3. Reached(plugin, stated, 0, 1)
  BY <1>2, NotedReached
<1> HIDE DEF stated
<1>4. Reached(stated, named, 0, 0)
  BY <1>2, <1>3, AttachSound DEF Reached, Grown
<1> HIDE DEF named
<1>5. Sound(named)
  BY <1>4 DEF Reached, Grown
<1>6. Reached(named, traced, 1, 1) /\ TracedAs(named, traced, k)
  BY <1>2, <1>5, TracedReached, TracedSound
<1> HIDE DEF traced
<1>7. traced.session[k].stats # NoStats /\ Sound(traced) /\ traced.session[k].root \in Nat
  BY <1>2, <1>6, PluginFields, SessionFields DEF TracedAs, Sound
<1>8. Reached(traced, q, 1, 0)
  BY <1>2, <1>7, StartsReached
<1> HIDE DEF q
<1>9. Reached(plugin, named, 0, 1)
  BY <1>3, <1>4, SmallSums, ChainedWithin, Zenon
<1>10. Reached(plugin, traced, 1, 2)
  BY <1>6, <1>9, SmallSums, ChainedWithin, Zenon
<1>11. Reached(plugin, q, 2, 2)
  BY <1>8, <1>10, SmallSums, ChainedWithin, Zenon
<1> QED BY <1>1, <1>11 DEF HookSound

LEMMA LlmOutputSound ==
  ASSUME Sound(plugin), NEW n \in Names, LlmOutput(n)
  PROVE  HookSound(plugin, plugin')
<1> DEFINE k == Canonical(plugin, n)
           stated == WithStats(Register(plugin, k, n), k)
           noted == Attach(stated, k)
           span == noted.session[k].llm
<1>1. k \in Keys
  BY CanonicalKey DEF Sound
<1>2. Room /\ plugin' \in {noted, LlmEnded(noted, k, span)}
          /\ (plugin' = noted \/ span # 0)
  <2>1. Touch(Register(plugin, k, n), k) = Register(plugin, k, n)
    <3> HIDE DEF k
    <3> QED BY <1>1, NotedReached
  <2> QED BY <2>1 DEF LlmOutput, LlmEnded
<1> HIDE DEF k
<1>3. Reached(plugin, stated, 0, 1)
  BY <1>1, NotedReached
<1> HIDE DEF stated
<1>4. Reached(stated, noted, 0, 0)
  BY <1>1, <1>3, AttachSound DEF Reached, Grown
<1> HIDE DEF noted
<1>5. Sound(noted)
  BY <1>4 DEF Reached, Grown
<1>6. Reached(plugin, noted, 0, 1)
  BY <1>3, <1>4, SmallSums, ChainedWithin, Zenon
<1>7. CASE plugin' = noted
  <2>1. Reached(noted, noted, 0, 0)
    BY <1>5, Stays
  <2>2. Reached(plugin, noted, 2, 2)
    BY <1>6, <2>1, SmallSums, ChainedWithin, Zenon
  <2> QED BY <1>2, <1>7, <2>2 DEF HookSound
<1>8. CASE span # 0 /\ plugin' = LlmEnded(noted, k, span)
  <2>1. span \in Ids(noted)
    BY <1>1, <1>5, <1>8 DEF Sound, MapsSound, SessionSound, Holds
  <2>e. span = noted.session[k].llm
    OBVIOUS
  <2> HIDE DEF span
  <2>2. Reached(noted, plugin', 0, 0)
    BY <1>1, <1>5, <1>8, <2>1, <2>e, EndsReached
  <2>3. Reached(plugin, plugin', 2, 2)
    BY <1>6, <2>2, SmallSums, ChainedWithin, Zenon
  <2> QED BY <1>2, <2>3 DEF HookSound
<1> QED BY <1>2, <1>7, <1>8

LEMMA BeforeToolSound ==
  ASSUME Sound(plugin), NEW n \in Names, NEW t \in Tools, BeforeToolCall(n, t)
  PROVE  HookSound(plugin, plugin')
<1> DEFINE k == Canonical(plugin, n)
           stated == WithStats(Register(plugin, k, n), k)
           noted == Touch(stated, k)
           llm == noted.session[k].llm
           traced == IF llm # 0 THEN noted ELSE Traced(noted, k, "before_tool_call")
           parent == IF llm # 0 THEN llm ELSE traced.session[k].root
           q == ToolStarted(traced, k, t, parent)
<1>1. plugin' = q /\ Room
  BY DEF BeforeToolCall, ToolStarted
<1>2. k \in Keys
  BY CanonicalKey DEF Sound
<1> HIDE DEF k
<1>3. Reached(plugin, stated, 0, 1) /\ stated.session[k].stats # NoStats
  BY <1>2, NotedReached
<1> HIDE DEF stated
<1>4. noted = stated
  BY <1>2, <1>3, TouchKeeps DEF Reached, Grown
<1> HIDE DEF noted
<1>5. Sound(noted) /\ Reached(plugin, noted, 0, 1) /\ noted.session[k].stats # NoStats
  BY <1>3, <1>4 DEF Reached, Grown
<1>6. /\ Sound(traced) /\ Reached(plugin, traced, 1, 2) /\ traced.session[k].stats # NoStats
      /\ parent \in Nat
  <2>1. CASE llm # 0
    <3>1. Reached(noted, noted, 0, 0)
      BY <1>5, Stays
    <3>2. Reached(plugin, noted, 1, 2)
      BY <1>5, <3>1, SmallSums, ChainedWithin, Zenon
    <3>3. llm \in Nat
      BY <1>2, <1>5, PluginFields, SessionFields DEF Sound
    <3>4. traced = noted /\ parent = llm
      BY <2>1
    <3> QED BY <1>5, <3>2, <3>3, <3>4
  <2>2. CASE llm = 0
    <3> DEFINE r == Traced(noted, k, "before_tool_call")
    <3>1. Reached(noted, r, 1, 1) /\ TracedAs(noted, r, k)
      BY <1>2, <1>5, TracedReached, TracedSound
    <3>2. traced = r /\ parent = r.session[k].root
      BY <2>2
    <3> HIDE DEF r, traced, parent
    <3>3. Reached(plugin, r, 1, 2)
      BY <1>5, <3>1, SmallSums, ChainedWithin, Zenon
    <3>4. Sound(r) /\ r.session[k].stats # NoStats
      BY <3>1 DEF TracedAs
    <3>5. r.session[k].root \in Nat
      BY <1>2, <3>4, PluginFields, SessionFields DEF Sound
    <3> QED BY <3>2, <3>3, <3>4, <3>5
  <2> QED BY <2>1, <2>2
<1> HIDE DEF traced, parent
<1>7. Reached(traced, q, 1, 0)
  BY <1>2, <1>6, StartsReached
<1> HIDE DEF q
<1>8. Reached(plugin, q, 2, 2)
  BY <1>6, <1>7, SmallSums, ChainedWithin, Zenon
<1> QED BY <1>1, <1>8 DEF HookSound

\* The span of a subagent is started under a session that is traced, described,
\* and held under the names of the child.
Spawned(p, k, c, source, r) ==
  RegisterSubagent(Describe(r, Head(c), p.session[k].stats, c), Head(c), k,
                   Len(r.spans), source, c)

LEMMA SpawnReached ==
  ASSUME NEW p, Sound(p), NEW k \in Keys, p.session[k].root # 0, NEW c \in Children,
         NEW source \in {"hook", "fallback"}, NEW r, Launched(p, r, k, Elems(c)),
         source = "fallback" => p.sub[Head(c)].span = 0
  PROVE  Reached(p, Spawned(p, k, c, source, r), 1, 0)
         /\ Spawned(p, k, c, source, r).session = p.session
<1> DEFINE d == Describe(r, Head(c), p.session[k].stats, c)
           q == RegisterSubagent(d, Head(c), k, Len(r.spans), source, c)
<1>1. /\ p \in Plugins /\ p.session[k].stats \in StatsT /\ r \in Plugins
      /\ Len(r.spans) = NewId(p) /\ NewId(p) \in Nat
  <2>1. p \in Plugins /\ r \in Plugins
    BY DEF Sound, Launched
  <2>2. PICK x \in SpanT : SpanAdded(p, r, x)
    BY DEF Launched
  <2>3. Len(r.spans) = NewId(p) /\ NewId(p) \in Nat
    BY <2>1, <2>2, PluginFields DEF SpanAdded, NewId
  <2> QED BY <2>1, <2>3, PluginFields, SessionFields
<1>2. SubDescribed(r, d, c, p.session[k].stats)
  BY <1>1, DescribeFields
<1>3. q = Spawned(p, k, c, source, r)
  BY DEF Spawned
<1> HIDE DEF d
<1>4. d \in Plugins
  BY <1>2 DEF SubDescribed
<1>5. SubNamed(d, q, c, k, NewId(p), source)
  BY <1>1, <1>4, RegisterSubagentFields
<1> HIDE DEF q
<1>6. Reached(p, q, 1, 0) /\ q.session = p.session
  BY <1>2, <1>5, SpawnSound
<1> QED BY <1>3, <1>6

LEMMA LaunchedFields ==
  ASSUME NEW p \in Plugins, NEW k \in Keys, NEW parent \in Nat, NEW rs \in SUBSET Keys,
         NEW names \in SUBSET Keys
  PROVE  /\ Launched(p, StartSpan(p, "subagent", k, parent, names), k, names)
         /\ Launched(p, [StartSpan(p, "subagent", k, parent, names) EXCEPT !.renamed = rs],
                     k, names)
<1> DEFINE x == NewSpan(p, "subagent", k, parent, names)
           s == StartSpan(p, "subagent", k, parent, names)
           r == [s EXCEPT !.renamed = rs]
<1>1. "subagent" \in SpanKinds
  BY DEF SpanKinds
<1>2. SpanStarted(p, s, x)
  BY <1>1, StartSpanFields
<1>3. /\ x.kind = "subagent" /\ x.key = k /\ x.run = p.session[k].stats.run
      /\ x.open = TRUE /\ x.child = names
  BY DEF NewSpan
<1> HIDE DEF s, x
<1>4. /\ s \in Plugins /\ x \in SpanT /\ SpanAdded(p, s, x) /\ s.session = p.session
      /\ SubagentsKept(p, s)
  BY <1>2 DEF SpanStarted, SpanAdded
<1>5. Launched(p, s, k, names)
  BY <1>3, <1>4 DEF Launched
<1>6. r \in Plugins /\ SpanAdded(p, r, x) /\ r.session = p.session /\ SubagentsKept(p, r)
  BY <1>4, PluginFields DEF Plugins, SpanAdded, SubagentsKept
<1> HIDE DEF r
<1>7. Launched(p, r, k, names)
  BY <1>3, <1>4, <1>6 DEF Launched
<1> QED BY <1>5, <1>7 DEF r, s

LEMMA FallbackReached ==
  ASSUME NEW p, Sound(p), NEW k \in Keys, NEW c \in Children
  PROVE  /\ Reached(p, WithFallback(p, k, c), 2, 1)
         /\ WithFallback(p, k, c).session[k].tool = p.session[k].tool
<1> DEFINE traced == Traced(p, k, "sessions_spawn_fallback")
           started == StartSpan(traced, "subagent", k, traced.session[k].root, Elems(c))
           q == Spawned(traced, k, c, "fallback", started)
<1>1. CASE p.sub[Head(c)].span # 0
  <2>1. WithFallback(p, k, c) = p
    BY <1>1 DEF WithFallback
  <2> QED BY <2>1, Stays
<1>2. CASE p.sub[Head(c)].span = 0
  <2>1. WithFallback(p, k, c) = q
    BY <1>2 DEF WithFallback, Spawned
  <2>2. Reached(p, traced, 1, 1) /\ TracedAs(p, traced, k)
    BY TracedReached, TracedSound
  <2> HIDE DEF traced
  <2>3. /\ Sound(traced) /\ traced \in Plugins /\ traced.session[k].root # 0
        /\ traced.session[k].tool = p.session[k].tool
        /\ traced.sub[Head(c)].span = 0
    BY <1>2, <2>2 DEF TracedAs, Sound, SubagentsKept
  <2>4. traced.session[k].root \in Nat /\ Elems(c) \in SUBSET Keys
    BY <2>3, PluginFields, SessionFields, NameElems
  <2>5. Launched(traced, started, k, Elems(c))
    BY <2>3, <2>4, LaunchedFields
  <2> HIDE DEF started
  <2>6. Reached(traced, q, 1, 0) /\ q.session = traced.session
    BY <2>3, <2>5, SpawnReached
  <2> HIDE DEF q
  <2>7. Reached(p, q, 2, 1)
    BY <2>2, <2>6, SmallSums, ChainedWithin, Zenon
  <2> QED BY <2>1, <2>3, <2>6, <2>7
<1> QED BY <1>1, <1>2

LEMMA AfterToolSound ==
  ASSUME Sound(plugin), NEW n \in Names, NEW t \in Tools,
         NEW c \in Children \cup {<<>>}, AfterToolCall(n, t, c)
  PROVE  HookSound(plugin, plugin')
<1> DEFINE k == Canonical(plugin, n)
           stated == WithStats(Register(plugin, k, n), k)
           noted == Touch(stated, k)
           span == noted.session[k].tool[t]
           linked == IF c = <<>> THEN noted ELSE WithFallback(noted, k, c)
           q == ToolEnded(linked, k, t, span)
<1>1. Room /\ (plugin' = noted \/ (span # 0 /\ plugin' = q))
  BY DEF AfterToolCall, ToolEnded
<1>2. k \in Keys
  BY CanonicalKey DEF Sound
<1> HIDE DEF k
<1>3. Reached(plugin, stated, 0, 1)
  BY <1>2, NotedReached
<1> HIDE DEF stated
<1>4. noted = stated
  BY <1>2, <1>3, TouchKeeps DEF Reached, Grown
<1> HIDE DEF noted
<1>5. Sound(noted) /\ Reached(plugin, noted, 0, 1)
  BY <1>3, <1>4 DEF Reached, Grown
<1>6. Reached(noted, noted, 0, 0)
  BY <1>5, Stays
<1>7. CASE plugin' = noted
  <2>1. Reached(plugin, noted, 2, 2)
    BY <1>5, <1>6, SmallSums, ChainedWithin, Zenon
  <2> QED BY <1>1, <1>7, <2>1 DEF HookSound
<1>8. CASE span # 0 /\ plugin' = q
  <2>1. Reached(plugin, linked, 2, 2) /\ linked.session[k].tool = noted.session[k].tool
    <3>1. CASE c = <<>>
      <4>1. Reached(plugin, noted, 2, 2)
        BY <1>5, <1>6, SmallSums, ChainedWithin, Zenon
      <4> QED BY <3>1, <4>1
    <3>2. CASE c # <<>>
      <4> DEFINE r == WithFallback(noted, k, c)
      <4>1. Reached(noted, r, 2, 1) /\ r.session[k].tool = noted.session[k].tool
        BY <1>2, <1>5, <3>2, FallbackReached
      <4>2. linked = r
        BY <3>2
      <4> HIDE DEF r, linked
      <4>3. 0 + 2 <= 2
        OBVIOUS
      <4>4. Reached(plugin, r, 2, 2)
        BY <1>5, <4>1, <4>3, SmallSums, ChainedWithin, Zenon
      <4> QED BY <4>1, <4>2, <4>4
    <3> QED BY <3>1, <3>2
  <2> HIDE DEF linked
  <2>2. Sound(linked)
    BY <2>1 DEF Reached, Grown
  <2>e. span = linked.session[k].tool[t]
    BY <2>1
  <2>3. span \in Ids(linked)
    <3>1. span = linked.session[k].tool[t]
      BY <2>1
    <3>2. Holds(linked, linked.session[k].tool[t], "tool", k)
      BY <1>2, <2>2 DEF Sound, MapsSound, SessionSound
    <3> QED BY <1>8, <3>1, <3>2 DEF Holds
  <2> HIDE DEF span
  <2>4. Reached(linked, q, 0, 0)
    BY <1>2, <2>2, <2>3, <2>e, EndsReached
  <2> HIDE DEF q
  <2>5. Reached(plugin, q, 2, 2)
    BY <2>1, <2>4, SmallSums, ChainedWithin, Zenon
  <2> QED BY <1>1, <1>8, <2>5 DEF HookSound
<1> QED BY <1>1, <1>7, <1>8

LEMMA SpawningSound ==
  ASSUME Sound(plugin), NEW n \in Names, NEW c \in Children, SubagentSpawning(n, c)
  PROVE  HookSound(plugin, plugin')
<1> DEFINE k == Head(n)
           traced == Traced(plugin, k, "subagent_spawning")
           started == StartSpan(traced, "subagent", k, traced.session[k].root, Elems(c))
           rs == IF plugin.primary[k] = k THEN started.renamed
                 ELSE started.renamed \cup Elems(n)
           called == [started EXCEPT !.renamed = rs]
           q == Spawned(traced, k, c, "hook", called)
<1>1. plugin' = q /\ Room
  <2>1. plugin' = RegisterSubagent(Describe(called, Head(c), traced.session[k].stats, c),
                                   Head(c), k, Len(started.spans), "hook", c)
        /\ Room
    BY DEF SubagentSpawning
  <2> HIDE DEF started
  <2>2. called.spans = started.spans
    OBVIOUS
  <2> QED BY <2>1, <2>2 DEF Spawned
<1>2. k \in Keys /\ Elems(n) \subseteq Keys /\ Elems(c) \in SUBSET Keys
  BY NameElems
<1> HIDE DEF k
<1>3. Reached(plugin, traced, 1, 1) /\ TracedAs(plugin, traced, k)
  BY <1>2, TracedReached, TracedSound
<1> HIDE DEF traced
<1>4. Sound(traced) /\ traced \in Plugins /\ traced.session[k].root # 0
  BY <1>3 DEF TracedAs, Sound
<1>5. traced.session[k].root \in Nat
  BY <1>2, <1>4, PluginFields, SessionFields
<1>6. rs \in SUBSET Keys
  <2>1. Launched(traced, started, k, Elems(c))
    BY <1>2, <1>4, <1>5, LaunchedFields
  <2> HIDE DEF started
  <2>2. started.renamed \in SUBSET Keys
    BY <2>1, PluginFields DEF Launched
  <2> QED BY <1>2, <2>2
<1> HIDE DEF rs
<1>7. Launched(traced, called, k, Elems(c))
  BY <1>2, <1>4, <1>5, <1>6, LaunchedFields
<1> HIDE DEF called
<1>8. Reached(traced, q, 1, 0)
  BY <1>2, <1>4, <1>7, SpawnReached
<1> HIDE DEF q
<1>9. Reached(plugin, q, 2, 2)
  BY <1>3, <1>8, SmallSums, ChainedWithin, Zenon
<1> QED BY <1>1, <1>9 DEF HookSound

\* The parent of a subagent is a session, or there is none.
LEMMA SubagentOf ==
  ASSUME NEW p, Sound(p), NEW c \in Children
  PROVE  /\ Head(c) \in Keys /\ p.sub[Head(c)].parent \in Keys \cup {None}
         /\ p.sub[Head(c)].span \in Nat
         /\ p.sub[Head(c)].span # 0 =>
              p.sub[Head(c)].parent \in Keys /\ p.sub[Head(c)].span \in Ids(p)
<1>1. Head(c) \in Keys /\ p \in Plugins
  BY NameElems DEF Sound
<1>2. p.sub[Head(c)] \in SubagentT
  BY <1>1, PluginFields
<1>3. SubSound(p, Head(c))
  BY <1>1 DEF Sound, MapsSound
<1> QED BY <1>1, <1>2, <1>3, SubagentFields DEF SubSound, Holds

LEMMA SpawnedSound ==
  ASSUME Sound(plugin), NEW c \in Children, SubagentSpawned(c)
  PROVE  HookSound(plugin, plugin')
<1> DEFINE child == Head(c)
           parent == plugin.sub[child].parent
           span == plugin.sub[child].span
           touched == Touch(plugin, parent)
           described == plugin.sub[child].primary = child /\ child \notin plugin.misnamed
           ms == IF described THEN touched.misnamed ELSE touched.misnamed \cup Elems(c)
           again == [touched EXCEPT !.misnamed = ms]
           q == RegisterSubagent(again, child, parent, span, "hook", c)
<1>1. plugin' = IF span = 0 THEN touched ELSE q
  BY DEF SubagentSpawned
<1>2. /\ plugin \in Plugins /\ child \in Keys /\ parent \in Keys \cup {None} /\ span \in Nat
      /\ Elems(c) \subseteq Keys
  BY SubagentOf, NameElems DEF Sound
<1>3. touched = plugin
  BY <1>2, TouchKeeps
<1> HIDE DEF touched
<1>4. CASE span = 0
  <2>1. Reached(plugin, plugin, 0, 0)
    BY Stays
  <2> QED BY <1>1, <1>3, <1>4, <2>1 DEF HookSound
<1>5. CASE span # 0
  <2>1. ms \in SUBSET Keys /\ plugin.misnamed \subseteq ms
    BY <1>2, <1>3, PluginFields
  <2>2. Elems(c) \subseteq ms \/ described
    OBVIOUS
  <2> HIDE DEF ms
  <2>3. /\ again \in Plugins /\ again.session = plugin.session /\ again.sub = plugin.sub
        /\ SpansKept(plugin, again) /\ again.misnamed = ms
    BY <1>2, <1>3, <2>1, PluginFields DEF Plugins, SpansKept
  <2> HIDE DEF again
  <2>4. SubNamed(again, q, c, parent, span, "hook")
    BY <1>2, <2>3, RegisterSubagentFields
  <2> HIDE DEF q
  <2>5. Reached(plugin, q, 0, 0)
    BY <1>5, <2>1, <2>2, <2>3, <2>4, RespawnSound
  <2> QED BY <1>1, <1>5, <2>5 DEF HookSound
<1> QED BY <1>4, <1>5

\* All names of a child have the newest span of its group.
LEMMA NewestOfChild ==
  ASSUME ChildrenApart, NEW p, Sound(p), Tidy(p), NEW c \in Children, p.sub[Head(c)].span # 0
  PROVE  p.sub[Head(c)].span = p.sub[p.sub[Head(c)].primary].span
<1>1. Head(c) \in Elems(c) /\ Grouped(p) /\ ChildNamed(p, c)
  BY NameElems DEF Tidy, Grouped, ChildrenNamed
<1> DEFINE x == p.sub[Head(c)].primary
<1>2. (SameHead(c) /\ x = Head(c)) \/ (SameNames(c) /\ x \in Elems(c))
  BY <1>1, GroupOf
<1> QED BY <1>1, <1>2 DEF ChildNamed

LEMMA EndedSound ==
  ASSUME Sound(plugin), NEW c \in Children, NEW failed \in BOOLEAN,
         SubagentEnded(c, failed)
  PROVE  HookSound(plugin, plugin')
<1> DEFINE child == Head(c)
           parent == plugin.sub[child].parent
           span == plugin.sub[child].span
           touched == Touch(plugin, parent)
           marked == IF failed THEN WithStats(touched, parent) ELSE touched
           as == AliasesOf[child] \cup Elems(c)
           q == UnregisterSubagent(EndSpan(marked, span), as)
<1>1. (failed => Room) /\ plugin' = IF span = 0 THEN touched ELSE q
  BY DEF SubagentEnded
<1>2. /\ child \in Keys /\ parent \in Keys \cup {None}
      /\ span # 0 => parent \in Keys /\ span \in Ids(plugin)
      /\ as \in SUBSET Keys /\ as \subseteq Elems(c) /\ child \in as
  BY SubagentOf, NameElems, SpansAssumption
<1> HIDE DEF as
<1>3. touched = plugin
  BY <1>2, TouchKeeps
<1>4. Reached(plugin, plugin, 0, 0)
  BY Stays
<1> HIDE DEF touched, parent
<1>5. CASE span = 0
  BY <1>1, <1>3, <1>4, <1>5 DEF HookSound
<1>6. CASE span # 0
  <2>1. /\ Sound(marked) /\ marked.spans = plugin.spans /\ marked.sub = plugin.sub
        /\ ~failed => Reached(plugin, marked, 0, 0)
        /\ Reached(plugin, marked, 0, 1)
    <3>1. CASE failed
      <4> DEFINE r == WithStats(plugin, parent)
      <4>1. Reached(plugin, r, 0, 1) /\ r.spans = plugin.spans /\ r.sub = plugin.sub
        BY <1>2, <1>6, StatsReached DEF SubagentsKept
      <4>2. marked = r
        BY <1>3, <3>1
      <4> HIDE DEF r, marked
      <4> QED BY <3>1, <4>1, <4>2 DEF Reached, Grown
    <3>2. CASE ~failed
      <4>1. marked = plugin
        BY <1>3, <3>2
      <4> HIDE DEF marked
      <4>2. Reached(plugin, plugin, 0, 1)
        BY Stays
      <4> QED BY <1>4, <4>1, <4>2
    <3> QED BY <3>1, <3>2
  <2> HIDE DEF marked
  <2>2. span \in Ids(marked)
    BY <1>2, <1>6, <2>1 DEF Ids
  <2>3. marked.sub[child].span = span
    BY <2>1
  <2>4. ASSUME ChildrenApart, Tidy(marked)
        PROVE  /\ span = marked.sub[marked.sub[child].primary].span
               /\ \E d \in Children : as \subseteq Elems(d)
    BY <1>2, <1>6, <2>1, <2>3, <2>4, NewestOfChild
  <2> HIDE DEF span, child
  <2>5. Reached(marked, q, 0, 0)
    BY <1>2, <1>6, <2>1, <2>2, <2>3, <2>4, FinishReached
  <2> HIDE DEF q
  <2>6. CASE failed
    <3>0. Reached(plugin, marked, 0, 1)
      BY <2>1
    <3>1. Reached(plugin, q, 2, 2)
      BY <2>5, <3>0, SmallSums, ChainedWithin, Zenon
    <3> QED BY <1>1, <1>6, <2>6, <3>1 DEF HookSound
  <2>7. CASE ~failed
    <3>1. Reached(plugin, q, 0, 0)
      BY <2>1, <2>5, <2>7, SmallSums, ChainedFirst, Zenon
    <3> QED BY <1>1, <1>6, <3>1 DEF HookSound
  <2> QED BY <2>6, <2>7
<1> QED BY <1>5, <1>6

LEMMA ExpirySound ==
  ASSUME Sound(plugin), NEW k \in Keys, LineageExpires(k)
  PROVE  HookSound(plugin, plugin')
<1> DEFINE u == [plugin.session[k] EXCEPT !.closed = NoLineage]
<1>1. /\ plugin \in Plugins /\ plugin.session[k] \in SessionT
      /\ Len(plugin.spans) \in Nat /\ Len(plugin.lineages) \in Nat
  BY Counted, PluginFields
<1>2. plugin' = PutSession(plugin, k, u)
  BY DEF LineageExpires, PutSession
<1>3. NoLineage \in LineageT
  BY DEF NoLineage, LineageT
<1>4. /\ u \in SessionT /\ u.root = plugin.session[k].root /\ u.llm = plugin.session[k].llm
      /\ u.tool = plugin.session[k].tool /\ u.timer = plugin.session[k].timer
      /\ u.stats = plugin.session[k].stats /\ u.pending = plugin.session[k].pending
      /\ u.closed = NoLineage
  BY <1>1, <1>3 DEF SessionT
<1> HIDE DEF u
<1> DEFINE q == PutSession(plugin, k, u)
<1>5. SessionPut(plugin, q, k, u)
  BY <1>1, <1>4, SessionPutFields
<1> HIDE DEF q
<1>6. /\ q \in Plugins /\ q.session[k] = u /\ OthersKept(plugin, q, k)
      /\ SubagentsKept(plugin, q) /\ q.spans = plugin.spans /\ q.lineages = plugin.lineages
  BY <1>5 DEF SessionPut, SpansKept
<1>7. SpansAs(plugin, q)
  BY <1>1, <1>6, PluginFields DEF SpansAs
<1>8. Harmless(plugin, q)
  BY <1>4, <1>6, <1>7 DEF Harmless, OthersKept
<1>9. Sound(q)
  BY <1>6, <1>8, SoundKept
<1>10. Reached(plugin, q, 0, 0)
  <2>1. HeldSame(plugin, q) /\ SubNamesSame(plugin, q)
    BY <1>4, <1>6 DEF HeldSame, SubNamesSame, OthersKept, SubagentsKept
  <2>2. Tidied(plugin, q)
    BY <1>6, <2>1, TidiedKept
  <2> QED BY <1>1, <1>6, <1>9, <2>2 DEF Reached, Grown
<1> QED BY <1>2, <1>10 DEF HookSound, q

LEMMA NextSound ==
  ASSUME Sound(plugin), Next
  PROVE  HookSound(plugin, plugin')
<1>1. ASSUME NEW n \in Names, InboundClaim(n) PROVE HookSound(plugin, plugin')
  BY <1>1, ClaimSound
<1>2. ASSUME NEW n \in Names, AgentEnd(n) PROVE HookSound(plugin, plugin')
  BY <1>2, AgentEndSound
<1>3. ASSUME NEW n \in Names, MessageReceived(n) PROVE HookSound(plugin, plugin')
  BY <1>3, MessageSound
<1>4. ASSUME NEW n \in Names, LlmInput(n) PROVE HookSound(plugin, plugin')
  BY <1>4, LlmInputSound
<1>5. ASSUME NEW n \in Names, LlmOutput(n) PROVE HookSound(plugin, plugin')
  BY <1>5, LlmOutputSound
<1>6. ASSUME NEW n \in Names, NEW t \in Tools, BeforeToolCall(n, t)
      PROVE  HookSound(plugin, plugin')
  BY <1>6, BeforeToolSound
<1>7. ASSUME NEW n \in Names, NEW t \in Tools, NEW c \in ChildrenOf(n) \cup {<<>>},
             AfterToolCall(n, t, c)
      PROVE  HookSound(plugin, plugin')
  <2>1. c \in Children \cup {<<>>}
    BY <1>7 DEF ChildrenOf
  <2> QED BY <1>7, <2>1, AfterToolSound
<1>8. ASSUME NEW n \in Names, NEW c \in ChildrenOf(n), SubagentSpawning(n, c)
      PROVE  HookSound(plugin, plugin')
  <2>1. c \in Children
    BY <1>8 DEF ChildrenOf
  <2> QED BY <1>8, <2>1, SpawningSound
<1>9. ASSUME NEW c \in Children, SubagentSpawned(c) PROVE HookSound(plugin, plugin')
  BY <1>9, SpawnedSound
<1>10. ASSUME NEW c \in Children, NEW failed \in BOOLEAN, SubagentEnded(c, failed)
       PROVE  HookSound(plugin, plugin')
  BY <1>10, EndedSound
<1>11. ASSUME NEW k \in Keys, IdleTimeout(k) PROVE HookSound(plugin, plugin')
  BY <1>11, CloseSound DEF IdleTimeout, HookSound
<1>12. ASSUME NEW k \in Keys, LineageExpires(k) PROVE HookSound(plugin, plugin')
  BY <1>12, ExpirySound
<1> QED
  BY <1>1, <1>2, <1>3, <1>4, <1>5, <1>6, <1>7, <1>8, <1>9, <1>10, <1>11, <1>12,
     Zenon DEF Next

-------------------------------------------------------------------------------
(* The theorems.                                                             *)

Bounded(p) == Len(p.spans) <= MaxSpans /\ Len(p.lineages) <= MaxRuns + 1
Inv == Sound(plugin) /\ Bounded(plugin)

LEMMA InitInv ==
  ASSUME Init
  PROVE  Inv
<1>1. NoSession \in SessionT /\ NoSubagent \in SubagentT
  BY DEF NoSession, NoSubagent, SessionT, SubagentT, NoStats, NoLineage, NoMeta, StatsT, LineageT
<1>2. /\ plugin.primary = [k \in Keys |-> None] /\ plugin.group = [k \in Keys |-> {}]
      /\ plugin.session = [k \in Keys |-> NoSession]
      /\ plugin.sub = [k \in Keys |-> NoSubagent]
      /\ plugin.spans = <<>> /\ plugin.lineages = <<>>
      /\ plugin.renamed = {} /\ plugin.misnamed = {}
  BY DEF Init
<1>3. plugin \in Plugins
  BY <1>1 DEF Init, Plugins
<1>4. Ids(plugin) = {} /\ RunsOf(plugin) = {} /\ Len(plugin.spans) = 0 /\ Len(plugin.lineages) = 0
  BY <1>2 DEF Ids, RunsOf
<1>5. ASSUME NEW k \in Keys
      PROVE  /\ plugin.session[k].root = 0 /\ plugin.session[k].llm = 0
             /\ \A t \in Tools : plugin.session[k].tool[t] = 0
             /\ plugin.session[k].timer = FALSE /\ plugin.session[k].stats = NoStats
             /\ plugin.session[k].closed = NoLineage
             /\ plugin.sub[k].span = 0 /\ plugin.sub[k].parent = None
             /\ plugin.sub[k].primary = None /\ plugin.sub[k].meta = NoMeta
  BY <1>2 DEF NoSession, NoSubagent
<1>6. MapsSound(plugin)
  BY <1>5 DEF MapsSound, SessionSound, SubSound, Holds
<1>7. Numbered(plugin)
  BY <1>4, <1>5 DEF Numbered
<1>8. Rooted(plugin)
  <2>1. NoStats.parentRun = 0
    BY DEF NoStats
  <2> SUFFICES ASSUME NEW k \in Keys PROVE RootedAt(plugin, k)
    BY DEF Rooted
  <2>2. plugin.session[k].timer = (plugin.session[k].root # 0)
    BY <1>5
  <2> QED BY <1>5, <2>1, <2>2 DEF RootedAt
<1>9. Families(plugin)
  BY <1>4, <1>5 DEF Families, RootRuns, CurrentRoots, Remembered
<1>10. SubsDescribed(plugin) /\ RootsSpawned(plugin)
  BY <1>4, <1>5 DEF SubsDescribed, RootsSpawned
<1>11. Bounded(plugin)
  BY <1>4, SpansAssumption DEF Bounded
<1> QED BY <1>3, <1>6, <1>7, <1>8, <1>9, <1>10, <1>11 DEF Inv, Sound

LEMMA NextInv ==
  ASSUME Inv, Next
  PROVE  Inv'
<1>1. HookSound(plugin, plugin')
  BY NextSound DEF Inv
<1>2. Sound(plugin')
  BY <1>1 DEF HookSound, Reached, Grown
<1>3. /\ Len(plugin.spans) \in Nat /\ Len(plugin.lineages) \in Nat
      /\ Len(plugin'.spans) \in Nat /\ Len(plugin'.lineages) \in Nat
      /\ MaxSpans \in Nat /\ MaxRuns \in Nat
  BY <1>2, Counted, SpansAssumption DEF Inv
<1>4. Bounded(plugin)'
  <2>1. CASE Reached(plugin, plugin', 0, 0)
    BY <1>3, <2>1 DEF Reached, Grown, Bounded, Inv
  <2>2. CASE Room /\ Reached(plugin, plugin', 2, 2)
    <3>1. /\ Len(plugin'.spans) <= Len(plugin.spans) + 2
          /\ Len(plugin'.lineages) <= Len(plugin.lineages) + 2
          /\ Len(plugin.spans) + 1 < MaxSpans /\ Len(plugin.lineages) < MaxRuns
      BY <2>2 DEF Reached, Grown, Room
    <3> QED BY <1>3, <3>1 DEF Bounded
  <2> QED BY <1>1, <2>1, <2>2 DEF HookSound
<1> QED BY <1>2, <1>4 DEF Inv

LEMMA Invariance == Spec => []Inv
<1>1. Inv /\ [Next]_vars => Inv'
  <2>1. ASSUME Inv, UNCHANGED vars PROVE Inv'
    BY <2>1 DEF vars, Inv, Bounded
  <2> QED BY <2>1, NextInv
<1> QED BY <1>1, InitInv, PTL DEF Spec

LEMMA InvTypes == Inv => TypeOK
<1> SUFFICES ASSUME Inv PROVE TypeOK
  OBVIOUS
<1>1. Sound(plugin) /\ plugin \in Plugins /\ SpanIds = Ids(plugin)
  BY DEF Inv, Sound, SpanIds, Ids
<1>2. \A i, kind, k : Holds(plugin, i, kind, k) => i \in Spans(kind) \cup {0}
  BY <1>1 DEF Holds, Spans
<1>3. /\ plugin.primary \in [Keys -> Keys \cup {None}]
      /\ plugin.group \in [Keys -> SUBSET Keys]
  BY <1>1, PluginFields
<1>4. ASSUME NEW k \in Keys
      PROVE  LET s == plugin.session[k] IN
             /\ s.root \in Spans("root") \cup {0}
             /\ s.llm \in Spans("llm") \cup {0}
             /\ \A t \in Tools : s.tool[t] \in Spans("tool") \cup {0}
             /\ s.timer \in BOOLEAN /\ s.pending \in BOOLEAN
             /\ s.stats.run \in 0..Len(plugin.lineages)
             /\ s.closed.run \in 0..Len(plugin.lineages)
  <2> DEFINE s == plugin.session[k]
  <2>1. s \in SessionT
    BY <1>1, PluginFields
  <2>2. SessionSound(plugin, k)
    BY <1>1 DEF Sound, MapsSound
  <2>3. Holds(plugin, s.root, "root", k) /\ Holds(plugin, s.llm, "llm", k)
        /\ \A t \in Tools : Holds(plugin, s.tool[t], "tool", k)
    BY <2>2 DEF SessionSound
  <2>4. s.timer \in BOOLEAN /\ s.pending \in BOOLEAN
    BY <2>1, SessionFields
  <2>5. Len(plugin.lineages) \in Nat
    BY <1>1, Counted
  <2>6. s.stats.run \in 0..Len(plugin.lineages)
    <3>1. CASE s.stats = NoStats
      BY <2>5, <3>1 DEF NoStats
    <3>2. CASE s.stats # NoStats
      <4>1. s.stats.run \in RunsOf(plugin)
        BY <1>1, <3>2 DEF Sound, Numbered
      <4> QED BY <2>5, <4>1 DEF RunsOf
    <3> QED BY <3>1, <3>2
  <2>7. s.closed.run \in 0..Len(plugin.lineages)
    <3>1. CASE s.closed = NoLineage
      BY <2>5, <3>1 DEF NoLineage
    <3>2. CASE s.closed # NoLineage
      <4>1. Known(plugin, s.closed)
        BY <1>1, <3>2 DEF Sound, Families, Remembered
      <4>2. s.closed.run \in RunsOf(plugin)
        BY <1>1, <4>1 DEF Known, Sound, Numbered
      <4> QED BY <2>5, <4>2 DEF RunsOf
    <3> QED BY <3>1, <3>2
  <2> QED BY <1>2, <2>3, <2>4, <2>6, <2>7
<1>5. ASSUME NEW k \in Keys
      PROVE  LET b == plugin.sub[k] IN
             /\ b.span \in Spans("subagent") \cup {0}
             /\ b.parent \in Keys \cup {None} /\ b.primary \in Keys \cup {None}
             /\ b.source \in {"none", "hook", "fallback"}
             /\ b.span # 0 <=> b.parent # None
  <2>1. plugin.sub[k] \in SubagentT /\ SubSound(plugin, k)
    BY <1>1, PluginFields DEF Sound, MapsSound
  <2> QED BY <1>2, <2>1, SubagentFields DEF SubSound
<1>6. Len(plugin.spans) <= MaxSpans /\ Len(plugin.lineages) <= MaxRuns + 1
  BY DEF Inv, Bounded
<1> QED BY <1>3, <1>4, <1>5, <1>6 DEF TypeOK

\* Whatever hooks come, late, twice or not at all, the Maps hold spans of their
\* own kind, and keys and lineages that exist.
THEOREM TypesAreRight == Spec => []TypeOK
BY Invariance, InvTypes, PTL

LEMMA InvRoots == Inv => RootsAgree
<1> SUFFICES ASSUME Inv PROVE RootsAgree
  OBVIOUS
<1>1. \A k \in Keys : RootedAt(plugin, k)
  BY DEF Inv, Sound, Rooted
<1>2. \A k \in Keys : plugin.session[k].timer <=> k \in LiveRoots
  BY <1>1 DEF RootedAt, LiveRoots
<1>3. ASSUME NEW k \in LiveRoots
      PROVE  LET s == plugin.session[k] IN
             /\ plugin.spans[s.root].run = s.stats.run
             /\ plugin.spans[s.root].rootRun = s.stats.rootRun
             /\ ~s.pending
  BY <1>1 DEF RootedAt, LiveRoots
<1> QED BY <1>2, <1>3 DEF RootsAgree

\* The idle timer of a session is armed exactly while it has a root, a live root
\* belongs to the run its session counts for, and nothing waits to be attached to a
\* root that is there.
THEOREM RootsAreRight == Spec => []RootsAgree
BY Invariance, InvRoots, PTL

LEMMA InvLineages == Inv => LineagesAgree
<1> SUFFICES ASSUME Inv PROVE LineagesAgree
  OBVIOUS
<1>1. /\ SpanIds = Ids(plugin)
      /\ \A i \in Spans("root") : i \in Ids(plugin) /\ IsRoot(plugin, i)
  BY DEF SpanIds, Ids, Spans, IsRoot
<1>2. RootRuns(plugin)
  BY DEF Inv, Sound, Families
<1>3. RunsDistinct /\ FamiliesAgree
  BY <1>1, <1>2 DEF RootRuns, RunsDistinct, FamiliesAgree
<1>4. SpawnedByParent
  <2> SUFFICES ASSUME NEW i \in Spans("root"), plugin.spans[i].parent # 0
               PROVE  /\ plugin.spans[plugin.spans[i].parent].kind = "subagent"
                      /\ \/ plugin.spans[i].key \in plugin.misnamed
                         \/ /\ plugin.spans[i].parentRun >=
                                 plugin.spans[plugin.spans[i].parent].run
                            /\ plugin.lineages[plugin.spans[i].parentRun] =
                                 plugin.lineages[plugin.spans[plugin.spans[i].parent].run]
    BY DEF SpawnedByParent
  <2>1. RootSpawned(plugin, i)
    BY <1>1 DEF Inv, Sound, RootsSpawned
  <2>2. plugin.spans[i].parent \in Ids(plugin)
    BY <2>1 DEF RootSpawned
  <2>3. plugin.lineages[plugin.spans[plugin.spans[i].parent].run] =
          plugin.spans[plugin.spans[i].parent].key
    BY <2>2 DEF Inv, Sound, Numbered
  <2> QED BY <2>1, <2>3 DEF RootSpawned
<1> QED BY <1>3, <1>4 DEF LineagesAgree

\* Each run has a lineage of its own, belongs to the family of the run it names as
\* its parent, and a subagent names the run that spawned it, or a later one of that
\* session.
THEOREM LineagesAreRight == Spec => []LineagesAgree
BY Invariance, InvLineages, PTL

LEMMA InitTidy ==
  ASSUME Init
  PROVE  Tidy(plugin)
<1>1. /\ plugin.sub = [k \in Keys |-> NoSubagent] /\ plugin.spans = <<>>
  BY DEF Init
<1>2. \A a \in Keys : plugin.sub[a].span = 0 /\ plugin.sub[a].group = {}
  BY <1>1 DEF NoSubagent
<1>3. \A c \in Children : Elems(c) \subseteq Keys
  BY NameElems
<1>4. Grouped(plugin)
  BY <1>2, <1>3 DEF Grouped, GroupsNamed, GroupsKeyed, ChildrenNamed, ChildNamed
<1>5. Accounted(plugin)
  BY <1>1 DEF Accounted, Ids
<1>6. Tied(plugin)
  BY <1>2 DEF Tied
<1> QED BY <1>4, <1>5, <1>6 DEF Tidy

LEMMA InvSpans ==
  ASSUME Inv, Tidy(plugin)
  PROVE  SpansAccounted
<1>1. Ids(plugin) = SpanIds /\ MapsSound(plugin)
  BY DEF Ids, SpanIds, Inv, Sound
<1>2. \A i : i \in Held <=> HeldBy(plugin, i)
  BY DEF Held, HeldBy, HeldAt
<1>3. ASSUME NEW i \in Held \ {0} PROVE plugin.spans[i].open
  <2>1. PICK k \in Keys : HeldAt(plugin, k, i)
    BY <1>2 DEF HeldBy
  <2>2. SessionSound(plugin, k) /\ SubSound(plugin, k)
    BY <1>1 DEF MapsSound
  <2>3. i \in Ids(plugin)
    BY <2>1, <2>2 DEF HeldAt, SessionSound, SubSound, Holds
  <2> QED BY <1>2, <2>3 DEF Tidy, Accounted
<1>4. ASSUME NEW i \in LostSpans
      PROVE  \E j \in SpanIds :
               /\ i < j
               /\ plugin.spans[j].kind = plugin.spans[i].kind
               /\ plugin.spans[i].kind \in {"llm", "tool"} =>
                    plugin.spans[j].key = plugin.spans[i].key
               /\ plugin.spans[i].kind = "subagent" =>
                    plugin.spans[j].child \cap plugin.spans[i].child # {}
               /\ plugin.spans[i].kind # "root"
  <2>1. i \in Ids(plugin) /\ plugin.spans[i].open /\ ~HeldBy(plugin, i)
    BY <1>1, <1>2 DEF LostSpans
  <2>2. Displaced(plugin, i)
    BY <2>1 DEF Tidy, Accounted
  <2> QED BY <1>1, <2>2 DEF Displaced, DisplacedBy
<1> QED BY <1>3, <1>4 DEF SpansAccounted

\* Where the hooks name the children apart, no Map holds a span that has ended, and
\* an open span that none holds was displaced by a later one of its kind, for the
\* same session or, that of a subagent, for the same child.
THEOREM SpansAreAccounted ==
  ASSUME ChildrenApart
  PROVE  Spec => []SpansAccounted
<1>1. Init => Tidy(plugin)
  BY InitTidy
<1>2. Inv /\ Tidy(plugin) /\ [Next]_vars => Tidy(plugin)'
  <2>1. ASSUME Inv, Tidy(plugin), Next PROVE Tidy(plugin)'
    <3>1. HookSound(plugin, plugin')
      BY <2>1, NextSound DEF Inv
    <3> QED BY <2>1, <3>1 DEF HookSound, Reached, Tidied
  <2>2. ASSUME Tidy(plugin), UNCHANGED vars PROVE Tidy(plugin)'
    BY <2>2 DEF vars
  <2> QED BY <2>1, <2>2
<1>3. Inv /\ Tidy(plugin) => SpansAccounted
  BY InvSpans
<1> QED BY <1>1, <1>2, <1>3, Invariance, PTL DEF Spec
-------------------------------------------------------------------------------
(* Names that meet belong to one session.  Unless it was taken by a name of  *)
(* its own, all that is registered of it has one primary key, or nothing is. *)

Tainted(p, n) == Elems(n) \cap p.renamed # {}
Whole(p, k) == \A a \in AliasesOf[k] : p.primary[a] = k
Kin(a, k) == \E m, n \in Names : Head(m) = k /\ a \in Elems(n) /\ Meets(m, n)

Unnamed(p, n) == \A m \in Names : Meets(m, n) => \A a \in Elems(m) : p.primary[a] = None
Single(p, n, k) ==
  /\ Whole(p, k)
  /\ \A m \in Names : Meets(m, n) =>
       /\ \A a \in Elems(m) : p.primary[a] \in {None, k}
       /\ \E a \in Elems(m) : p.primary[a] = k

\* What is renamed is so with all of a name.
Renames(p) == \A x \in p.renamed : \E n \in Names : x \in Elems(n) /\ Elems(n) \subseteq p.renamed
\* The primary key of an alias has it in its group, and a group is of one session.
InGroup(p) == \A a \in Keys : p.primary[a] # None => a \in p.group[p.primary[a]]
GroupsKin(p) == \A k, a \in Keys : a \in p.group[k] => Kin(a, k)
\* A session has one primary key, and is in no group but that of this key.
OneKey(p) ==
  \A n \in Names : ~Tainted(p, n) => Unnamed(p, n) \/ \E k \in Keys : Single(p, n, k)
Fresh(p) ==
  \A n \in Names : ~Tainted(p, n) =>
    \A x \in Elems(n), k \in Keys : x \in p.group[k] => p.primary[x] = k
\* A session with a root is registered under all its aliases.
Callable(p, k) == \E m \in Names : Head(m) = k /\ (Tainted(p, m) \/ Whole(p, k))
Called(p) == \A k \in Keys : p.session[k].root # 0 => Callable(p, k)
Aliased(p) == Renames(p) /\ InGroup(p) /\ GroupsKin(p) /\ OneKey(p) /\ Fresh(p) /\ Called(p)

LEMMA Met ==
  /\ \A m, n \in Names : Meets(m, n) => Meets(n, m)
  /\ \A m, n \in Names : \A x : x \in Elems(m) /\ x \in Elems(n) => Meets(m, n)
  /\ \A n \in Names : Meets(n, n)
BY NameElems DEF Meets

LEMMA MetThrough ==
  ASSUME NamesMeet, NEW l \in Names, NEW m \in Names, NEW n \in Names,
         Meets(l, m), Meets(m, n)
  PROVE  Meets(l, n)
BY DEF NamesMeet

LEMMA TaintedTogether ==
  ASSUME NamesMeet, NEW p, Renames(p), NEW m \in Names, NEW n \in Names, Meets(m, n),
         Tainted(p, m)
  PROVE  Tainted(p, n)
<1>1. PICK x \in Elems(m) : x \in p.renamed
  BY DEF Tainted
<1>2. PICK l \in Names : x \in Elems(l) /\ Elems(l) \subseteq p.renamed
  BY <1>1 DEF Renames
<1>3. Meets(l, m)
  BY <1>2, Met
<1>4. Meets(l, n)
  BY <1>3, MetThrough
<1> QED BY <1>2, <1>4 DEF Meets, Tainted

LEMMA KinMeets ==
  ASSUME NamesMeet, NEW m \in Names, NEW n \in Names, NEW a \in Elems(n), Kin(a, Head(m))
  PROVE  Meets(m, n)
<1>1. PICK j \in Names, l \in Names : Head(j) = Head(m) /\ a \in Elems(l) /\ Meets(j, l)
  BY DEF Kin
<1>2. Head(m) \in Elems(j) /\ Head(m) \in Elems(m)
  BY <1>1, NameElems
<1>3. Meets(m, j) /\ Meets(l, n)
  BY <1>1, <1>2, Met
<1>4. Meets(m, l)
  BY <1>1, <1>3, MetThrough
<1> QED BY <1>3, <1>4, MetThrough

\* Names that meet are in the same state.
LEMMA OneSession ==
  ASSUME NamesMeet, NEW p, NEW l \in Names, NEW n \in Names, Meets(l, n)
  PROVE  /\ Unnamed(p, l) => Unnamed(p, n)
         /\ \A k : Single(p, l, k) => Single(p, n, k)
<1>1. \A m \in Names : Meets(m, n) => Meets(m, l)
  BY Met, MetThrough
<1> QED BY <1>1 DEF Unnamed, Single

\* The key of a registered session is the head of a name of it.
LEMMA KeyOfSession ==
  ASSUME NamesMeet, NEW p \in Plugins, InGroup(p), GroupsKin(p), NEW n \in Names,
         NEW a \in Elems(n), p.primary[a] # None
  PROVE  /\ p.primary[a] \in Keys
         /\ \E m \in Names : Head(m) = p.primary[a] /\ Meets(m, n)
<1>1. a \in Keys /\ p.primary[a] \in Keys
  BY NameElems, PluginFields
<1>2. Kin(a, p.primary[a])
  BY <1>1 DEF InGroup, GroupsKin
<1>3. PICK m \in Names : Head(m) = p.primary[a]
  BY <1>2 DEF Kin
<1>4. Meets(m, n)
  BY <1>2, <1>3, KinMeets
<1> QED BY <1>1, <1>3, <1>4

LEMMA CanonicalMeets ==
  ASSUME NamesMeet, NEW p \in Plugins, InGroup(p), GroupsKin(p), NEW n \in Names
  PROVE  /\ \E m \in Names : Head(m) = Canonical(p, n) /\ Meets(m, n)
         /\ \A k \in Keys : Single(p, n, k) => k = Canonical(p, n)
<1>1. \/ (\A a \in Elems(n) : p.primary[a] = None) /\ Canonical(p, n) = Head(n)
      \/ \E a \in Elems(n) : p.primary[a] # None /\ Canonical(p, n) = p.primary[a]
  BY CanonicalKey
<1>2. Meets(n, n)
  BY Met
<1>3. \E m \in Names : Head(m) = Canonical(p, n) /\ Meets(m, n)
  <2>1. CASE Canonical(p, n) = Head(n)
    BY <1>2, <2>1
  <2>2. CASE \E a \in Elems(n) : p.primary[a] # None /\ Canonical(p, n) = p.primary[a]
    BY <2>2, KeyOfSession
  <2> QED BY <1>1, <2>1, <2>2
<1>4. ASSUME NEW k \in Keys, Single(p, n, k) PROVE k = Canonical(p, n)
  <2>1. /\ \A a \in Elems(n) : p.primary[a] \in {None, k}
        /\ \E a \in Elems(n) : p.primary[a] = k
    BY <1>2, <1>4 DEF Single
  <2>2. k # None
    BY SpansAssumption
  <2> QED BY <1>1, <2>1, <2>2
<1> QED BY <1>3, <1>4

\* A name is of the session, or nothing that is written is of it.
Touches(as, n) == \A l \in Names, x \in as : x \in Elems(l) => Meets(l, n)

LEMMA PrimaryOf ==
  ASSUME NamesMeet, NEW p, OneKey(p), NEW m \in Names, ~Tainted(p, m),
         NEW k \in Keys, k \in Elems(m), p.primary[k] = k
  PROVE  Single(p, m, k)
<1>1. Meets(m, m) /\ k # None
  BY Met, SpansAssumption
<1>2. ~Unnamed(p, m)
  BY <1>1 DEF Unnamed
<1>3. PICK j \in Keys : Single(p, m, j)
  BY <1>2 DEF OneKey
<1>4. k \in {None, j}
  BY <1>1, <1>3 DEF Single
<1> QED BY <1>1, <1>3, <1>4

\* The aliases of the key of a session are names of it.
LEMMA AliasesOfSession ==
  ASSUME NamesMeet, NEW p \in Plugins, InGroup(p), GroupsKin(p), NEW n \in Names,
         NEW k \in Keys, Single(p, n, k)
  PROVE  \E m \in Names : Head(m) = k /\ Meets(m, n) /\ AliasesOf[k] \subseteq Elems(m)
<1>1. Meets(n, n) /\ k # None
  BY Met, SpansAssumption
<1>2. PICK a \in Elems(n) : p.primary[a] = k
  BY <1>1 DEF Single
<1>3. PICK m \in Names : Head(m) = k /\ Meets(m, n)
  BY <1>1, <1>2, KeyOfSession
<1> QED BY <1>3, NameElems

\* What is written of one session leaves the others as they are.
LEMMA OthersSame ==
  ASSUME NamesMeet, NEW p \in Plugins, InGroup(p), GroupsKin(p), NEW n \in Names,
         NEW as, Touches(as, n), NEW q, \A a \in Keys \ as : q.primary[a] = p.primary[a],
         NEW l \in Names, ~Meets(l, n)
  PROVE  /\ Unnamed(p, l) => Unnamed(q, l)
         /\ \A k \in Keys : Single(p, l, k) => Single(q, l, k)
         /\ \A x \in Elems(l) : x \notin as
<1>1. ASSUME NEW m \in Names, Meets(m, l)
      PROVE  \A a \in Elems(m) : a \notin as /\ q.primary[a] = p.primary[a]
  <2>1. ~Meets(m, n)
    BY <1>1, Met, MetThrough
  <2>2. Elems(m) \subseteq Keys
    BY NameElems
  <2> QED BY <2>1, <2>2 DEF Touches
<1>2. Meets(l, l)
  BY Met
<1>3. ASSUME NEW k \in Keys, Single(p, l, k) PROVE Single(q, l, k)
  <2>1. PICK m \in Names : Meets(m, l) /\ AliasesOf[k] \subseteq Elems(m)
    BY <1>3, AliasesOfSession
  <2>2. \A a \in AliasesOf[k] : q.primary[a] = p.primary[a]
    BY <1>1, <2>1
  <2>3. Whole(q, k)
    BY <1>3, <2>2 DEF Single, Whole
  <2> QED BY <1>1, <1>3, <2>3 DEF Single
<1> QED BY <1>1, <1>2, <1>3 DEF Unnamed

\* The callable sessions, but that one.
LEMMA OthersCallable ==
  ASSUME NamesMeet, NEW p, OneKey(p), Renames(p), NEW n \in Names,
         NEW as, Touches(as, n), NEW q, \A a \in Keys \ as : q.primary[a] = p.primary[a],
         q.renamed = p.renamed, NEW k \in Keys, ~Tainted(p, n) => Single(p, n, k) \/ Unnamed(p, n),
         NEW j \in Keys, j # k, Callable(p, j)
  PROVE  Callable(q, j)
<1>1. PICK m \in Names : Head(m) = j /\ (Tainted(p, m) \/ Whole(p, j))
  BY DEF Callable
<1>2. CASE Tainted(p, m)
  BY <1>1, <1>2 DEF Tainted, Callable
<1>3. CASE ~Tainted(p, m)
  <2>1. AliasesOf[j] \subseteq Elems(m) /\ Elems(m) \subseteq Keys /\ j \in AliasesOf[j]
    BY <1>1, NameElems, SpansAssumption
  <2>2. Whole(p, j) /\ p.primary[j] = j
    BY <1>1, <1>3, <2>1 DEF Whole
  <2>3. ~Meets(m, n)
    <3> SUFFICES ASSUME Meets(m, n) PROVE FALSE
      OBVIOUS
    <3>1. ~Tainted(p, n) /\ j # None
      BY <1>3, Met, TaintedTogether, SpansAssumption
    <3>2. j \in {None, k}
      BY <2>1, <2>2, <3>1 DEF Single, Unnamed
    <3> QED BY <3>1, <3>2
  <2>4. \A a \in AliasesOf[j] : a \notin as
    BY <2>1, <2>3 DEF Touches
  <2>5. Whole(q, j)
    BY <2>1, <2>2, <2>4 DEF Whole
  <2> QED BY <1>1, <2>5 DEF Callable
<1> QED BY <1>2, <1>3

-------------------------------------------------------------------------------
(* What the hooks may do to the sessions that have a root, and to the names. *)

Lives(p, k) == p.session[k].root # 0
Calls(p, q, k) == NamesKept(p, q) /\ \A j \in Keys : Lives(q, j) => j = k \/ Lives(p, j)

\* It is called by a name, and registers it.
LEMMA RegisterAliased ==
  ASSUME NamesMeet, NEW p \in Plugins, Aliased(p), NEW n \in Names,
         NEW q, Calls(Register(p, Canonical(p, n), n), q, Canonical(p, n))
  PROVE  Aliased(q)
<1> DEFINE k == Canonical(p, n)
           r == Register(p, k, n)
           as == AliasesOf[k] \cup Elems(n)
<1>1. /\ Renames(p) /\ InGroup(p) /\ GroupsKin(p) /\ OneKey(p) /\ Fresh(p) /\ Called(p)
      /\ k \in Keys /\ k # None /\ Elems(n) \subseteq Keys /\ k \in AliasesOf[k]
      /\ AliasesOf[k] \subseteq Keys
  BY CanonicalKey, NameElems, SpansAssumption DEF Aliased
<1>2. PICK m \in Names : Head(m) = k /\ Meets(m, n)
  BY <1>1, CanonicalMeets
<1>k. \A j \in Keys : Single(p, n, j) => j = k
  BY <1>1, CanonicalMeets
<1>c. Calls(r, q, k)
  OBVIOUS
<1> HIDE DEF k
<1>r. /\ r.primary = [a \in Keys |-> IF a \in as THEN k ELSE p.primary[a]]
      /\ r.group = [p.group EXCEPT ![k] = @ \cup AliasesOf[k] \cup Elems(n)]
      /\ r.renamed = p.renamed /\ r.session = p.session
  BY <1>1, RegisterFields
<1> HIDE DEF r
<1>3. /\ \A a \in Keys : a \in as => q.primary[a] = k
      /\ \A a \in Keys \ as : q.primary[a] = p.primary[a]
      /\ q.group[k] = p.group[k] \cup as
      /\ \A j \in Keys : j # k => q.group[j] = p.group[j]
      /\ q.renamed = p.renamed
      /\ \A j \in Keys : Lives(q, j) => j = k \/ Lives(p, j)
  BY <1>1, <1>c, <1>r, PluginFields DEF Calls, NamesKept, Lives
<1>4. AliasesOf[k] \subseteq Elems(m) /\ Elems(m) \subseteq Keys /\ k \in as /\ Elems(n) \subseteq as
  BY <1>1, <1>2, NameElems
<1>5. Touches(as, n)
  <2> SUFFICES ASSUME NEW l \in Names, NEW x \in as, x \in Elems(l) PROVE Meets(l, n)
    BY DEF Touches
  <2>1. CASE x \in Elems(n)
    BY <2>1, Met
  <2>2. CASE x \in AliasesOf[k]
    <3>1. Meets(l, m)
      BY <1>4, <2>2, Met
    <3> QED BY <1>2, <3>1, MetThrough
  <2> QED BY <2>1, <2>2
<1>w. Whole(q, k)
  BY <1>1, <1>3 DEF Whole
<1>6. \A l \in Names : Tainted(q, l) <=> Tainted(p, l)
  BY <1>3 DEF Tainted
<1>7. ASSUME NEW j \in Keys, NEW a \in Keys, a \in q.group[j] PROVE Kin(a, j)
  <2>1. a \in p.group[j] \/ (j = k /\ a \in as)
    BY <1>3, <1>7
  <2>2. ASSUME j = k, a \in as PROVE Kin(a, j)
    BY <1>2, <1>4, <2>2, Met DEF Kin
  <2> QED BY <1>1, <2>1, <2>2 DEF GroupsKin
<1>8. ASSUME NEW a \in Keys, q.primary[a] # None PROVE a \in q.group[q.primary[a]]
  <2>1. CASE a \in as
    BY <1>3, <2>1
  <2>2. CASE a \notin as
    <3>1. a \in p.group[p.primary[a]] /\ q.primary[a] = p.primary[a] /\ p.primary[a] \in Keys
      BY <1>1, <1>3, <1>8, <2>2, PluginFields DEF InGroup
    <3> QED BY <1>3, <3>1
  <2> QED BY <2>1, <2>2
<1>9. ASSUME NEW l \in Names, Meets(l, n), ~Tainted(p, l)
      PROVE  /\ Unnamed(p, l) \/ Single(p, l, k)
             /\ Single(q, l, k)
  <2>1. Unnamed(p, l) \/ \E j \in Keys : Single(p, l, j)
    BY <1>1, <1>9 DEF OneKey
  <2>2. \A j \in Keys : Single(p, l, j) => j = k
    BY <1>9, <1>k, OneSession
  <2>3. Unnamed(p, l) \/ Single(p, l, k)
    BY <2>1, <2>2
  <2>4. ASSUME NEW i \in Names, Meets(i, l)
        PROVE  /\ \A a \in Elems(i) : q.primary[a] \in {None, k}
               /\ \E a \in Elems(i) : q.primary[a] = k
    <3>1. Elems(i) \subseteq Keys /\ \A a \in Elems(i) : p.primary[a] \in {None, k}
      BY <2>3, <2>4, NameElems DEF Unnamed, Single
    <3>2. \A a \in Elems(i) : q.primary[a] \in {None, k}
      BY <1>3, <3>1
    <3>3. PICK a \in Elems(i) : a \in Elems(n)
      BY <1>9, <2>4, MetThrough DEF Meets
    <3> QED BY <1>3, <1>4, <3>1, <3>2, <3>3
  <2> QED BY <1>w, <2>3, <2>4 DEF Single
<1>10. ASSUME NEW l \in Names, ~Tainted(p, l)
       PROVE  Unnamed(q, l) \/ \E j \in Keys : Single(q, l, j)
  <2>1. CASE Meets(l, n)
    BY <1>1, <1>9, <1>10, <2>1
  <2>2. CASE ~Meets(l, n)
    BY <1>1, <1>3, <1>5, <1>10, <2>2, OthersSame DEF OneKey
  <2> QED BY <2>1, <2>2
<1>11. ASSUME NEW l \in Names, ~Tainted(p, l), NEW x \in Elems(l), NEW j \in Keys,
              x \in q.group[j]
       PROVE  q.primary[x] = j
  <2>1. x \in Keys
    BY NameElems
  <2>2. CASE x \in as
    <3>1. Meets(l, n) /\ q.primary[x] = k
      BY <1>3, <1>5, <2>1, <2>2 DEF Touches
    <3>2. ASSUME j # k PROVE FALSE
      <4>1. p.primary[x] = j /\ j # None
        BY <1>1, <1>3, <1>11, <3>2, SpansAssumption DEF Fresh
      <4>2. p.primary[x] \in {None, k}
        BY <1>9, <1>11, <3>1, Met DEF Unnamed, Single
      <4> QED BY <3>2, <4>1, <4>2
    <3> QED BY <3>1, <3>2
  <2>3. CASE x \notin as
    <3>1. x \in p.group[j] /\ q.primary[x] = p.primary[x]
      BY <1>3, <1>11, <2>1, <2>3
    <3> QED BY <1>1, <1>11, <3>1 DEF Fresh
  <2> QED BY <2>2, <2>3
<1>12. ASSUME NEW j \in Keys, Lives(q, j) PROVE Callable(q, j)
  <2>1. CASE j = k
    BY <1>2, <1>w, <2>1 DEF Callable
  <2>2. CASE j # k
    <3>1. Callable(p, j)
      BY <1>1, <1>3, <1>12, <2>2 DEF Called, Lives
    <3>2. ~Tainted(p, n) => Single(p, n, k) \/ Unnamed(p, n)
      BY <1>9, Met
    <3> QED BY <1>1, <1>3, <1>5, <2>2, <3>1, <3>2, OthersCallable
  <2> QED BY <2>1, <2>2
<1>13. Renames(q) /\ InGroup(q) /\ GroupsKin(q)
  BY <1>1, <1>3, <1>7, <1>8 DEF Renames, InGroup, GroupsKin
<1>14. OneKey(q) /\ Fresh(q) /\ Called(q)
  BY <1>6, <1>10, <1>11, <1>12 DEF OneKey, Fresh, Called, Lives
<1> QED BY <1>13, <1>14 DEF Aliased

\* A session is called by the name its hook gives it, which is recorded unless the
\* name is its primary key.
Takes(p, q, n) ==
  /\ q.primary = p.primary /\ q.group = p.group
  /\ q.renamed = IF p.primary[Head(n)] = Head(n) THEN p.renamed ELSE p.renamed \cup Elems(n)
  /\ \A j \in Keys : Lives(q, j) => j = Head(n) \/ Lives(p, j)

LEMMA TakesAliased ==
  ASSUME NamesMeet, NEW p \in Plugins, Aliased(p), NEW n \in Names, NEW q, Takes(p, q, n)
  PROVE  Aliased(q)
<1>1. /\ Renames(p) /\ InGroup(p) /\ GroupsKin(p) /\ OneKey(p) /\ Fresh(p) /\ Called(p)
      /\ Head(n) \in Keys /\ Head(n) \in Elems(n)
  BY NameElems DEF Aliased
<1>2. /\ q.primary = p.primary /\ q.group = p.group
      /\ q.renamed = p.renamed \/ q.renamed = p.renamed \cup Elems(n)
      /\ p.primary[Head(n)] # Head(n) => Elems(n) \subseteq q.renamed
  BY DEF Takes
<1>3. \A l \in Names : Tainted(p, l) => Tainted(q, l)
  BY <1>2 DEF Tainted
<1>4. /\ \A l \in Names : Unnamed(p, l) => Unnamed(q, l)
      /\ \A l \in Names, k \in Keys : Single(p, l, k) => Single(q, l, k)
      /\ \A k \in Keys : Whole(p, k) => Whole(q, k)
  BY <1>2 DEF Unnamed, Single, Whole
<1>5. Renames(q)
  BY <1>1, <1>2 DEF Renames
<1>6. InGroup(q) /\ GroupsKin(q)
  BY <1>1, <1>2 DEF InGroup, GroupsKin
<1>7. OneKey(q)
  BY <1>1, <1>3, <1>4 DEF OneKey
<1>8. Fresh(q)
  BY <1>1, <1>2, <1>3 DEF Fresh
<1>9. ASSUME NEW j \in Keys, Callable(p, j) PROVE Callable(q, j)
  BY <1>3, <1>4, <1>9 DEF Callable
<1>10. Callable(q, Head(n))
  <2>1. CASE Tainted(q, n)
    BY <2>1 DEF Callable
  <2>2. CASE ~Tainted(q, n)
    <3>1. p.primary[Head(n)] = Head(n) /\ ~Tainted(p, n)
      BY <1>1, <1>2, <1>3, <2>2 DEF Tainted
    <3>2. Single(p, n, Head(n))
      BY <1>1, <3>1, PrimaryOf
    <3> QED BY <1>1, <1>4, <3>2 DEF Single, Callable
  <2> QED BY <2>1, <2>2
<1>11. Called(q)
  BY <1>1, <1>9, <1>10 DEF Called, Takes, Lives
<1> QED BY <1>5, <1>6, <1>7, <1>8, <1>11 DEF Aliased

\* A session that had a root ends, and its names with it.
Ends(p, q, k) ==
  /\ Lives(p, k) /\ NamesKept(Unregister(p, k), q)
  /\ \A j \in Keys : Lives(q, j) => j # k /\ Lives(p, j)

NamesGone(p, q, ks, as) ==
  /\ \A a \in Keys : a \in as => q.primary[a] = None
  /\ \A a \in Keys \ as : q.primary[a] = p.primary[a]
  /\ \A y \in Keys : q.group[y] = IF y \in ks THEN {} ELSE p.group[y]
  /\ q.renamed = p.renamed

LEMMA UnregisteredNames ==
  ASSUME NEW p \in Plugins, NEW k \in Keys, NEW ks, NEW as,
         ks = {IF p.primary[a] = None THEN a ELSE p.primary[a] : a \in AliasesOf[k]},
         as = UNION {IF p.group[x] = {} THEN AliasesOf[x] ELSE p.group[x] : x \in ks}
  PROVE  NamesGone(p, Unregister(p, k), ks, as)
<1> DEFINE q == Unregister(p, k)
<1>q. q = Unregister(p, k)
  OBVIOUS
<1> HIDE DEF q
<1>1. /\ q.primary = [a \in Keys |-> IF a \in as THEN None ELSE p.primary[a]]
      /\ q.group = [x \in Keys |-> IF x \in ks THEN {} ELSE p.group[x]]
      /\ q.renamed = p.renamed
  BY <1>q, PluginFields DEF Unregister, Plugins
<1>2. NamesGone(p, q, ks, as)
  BY <1>1 DEF NamesGone
<1> QED BY <1>2 DEF q

LEMMA EndsAliased ==
  ASSUME NamesMeet, NEW p \in Plugins, Aliased(p), NEW k \in Keys, NEW q, Ends(p, q, k)
  PROVE  Aliased(q)
<1> DEFINE ks == {IF p.primary[a] = None THEN a ELSE p.primary[a] : a \in AliasesOf[k]}
           as == UNION {IF p.group[y] = {} THEN AliasesOf[y] ELSE p.group[y] : y \in ks}
           r == Unregister(p, k)
<1>1. /\ Renames(p) /\ InGroup(p) /\ GroupsKin(p) /\ OneKey(p) /\ Fresh(p) /\ Called(p)
      /\ k # None /\ k \in AliasesOf[k] /\ AliasesOf[k] \subseteq Keys
  BY SpansAssumption DEF Aliased
<1>2. PICK m \in Names : Head(m) = k /\ (Tainted(p, m) \/ Whole(p, k))
  BY <1>1 DEF Called, Ends, Lives, Callable
<1>3. AliasesOf[k] \subseteq Elems(m) /\ Elems(m) \subseteq Keys /\ k \in Elems(m) /\ Meets(m, m)
  BY <1>1, <1>2, NameElems, Met
<1>d. /\ r = Unregister(p, k)
      /\ ks = {IF p.primary[a] = None THEN a ELSE p.primary[a] : a \in AliasesOf[k]}
      /\ as = UNION {IF p.group[y] = {} THEN AliasesOf[y] ELSE p.group[y] : y \in ks}
  OBVIOUS
<1>k. ASSUME NEW y \in ks
      PROVE  /\ y \in Keys
             /\ \/ y \in AliasesOf[k] /\ p.primary[y] = None
                \/ \E a \in AliasesOf[k] : p.primary[a] # None /\ y = p.primary[a]
  <2>1. PICK a \in AliasesOf[k] : y = IF p.primary[a] = None THEN a ELSE p.primary[a]
    BY <1>k
  <2>2. a \in Keys /\ p.primary[a] \in Keys \cup {None}
    BY <1>1, PluginFields
  <2>3. CASE p.primary[a] = None
    BY <2>1, <2>2, <2>3
  <2>4. CASE p.primary[a] # None
    BY <2>1, <2>2, <2>4
  <2> QED BY <2>3, <2>4
<1>s. /\ \A y \in ks : \A x \in p.group[y] : x \in as
      /\ \A x \in as : \E y \in ks : x \in IF p.group[y] = {} THEN AliasesOf[y] ELSE p.group[y]
  OBVIOUS
<1>h. Whole(p, k) => ks = {k} /\ as = p.group[k]
  <2> SUFFICES ASSUME Whole(p, k) PROVE ks = {k} /\ as = p.group[k]
    OBVIOUS
  <2>1. ks = {k}
    BY <1>1 DEF Whole
  <2>2. k \in p.group[k]
    BY <1>1 DEF Whole, InGroup
  <2> HIDE DEF ks
  <2>3. as = IF p.group[k] = {} THEN AliasesOf[k] ELSE p.group[k]
    BY <2>1
  <2> QED BY <2>1, <2>2, <2>3
<1> HIDE DEF r, ks, as
<1>r. NamesGone(p, r, ks, as)
  BY <1>d, UnregisteredNames
<1>c. NamesKept(r, q) /\ \A j \in Keys : Lives(q, j) => j # k /\ Lives(p, j)
  BY <1>d DEF Ends
<1>4. /\ \A a \in Keys : a \in as => q.primary[a] = None
      /\ \A a \in Keys \ as : q.primary[a] = p.primary[a]
      /\ \A y \in Keys : q.group[y] = IF y \in ks THEN {} ELSE p.group[y]
      /\ q.renamed = p.renamed
  BY <1>c, <1>r DEF NamesKept, NamesGone
<1>5. Touches(as, m)
  <2> SUFFICES ASSUME NEW l \in Names, NEW x \in as, x \in Elems(l) PROVE Meets(l, m)
    BY DEF Touches
  <2>x. x \in Keys
    BY NameElems
  <2>1. PICK y \in ks : x \in IF p.group[y] = {} THEN AliasesOf[y] ELSE p.group[y]
    BY <1>s
  <2>2. CASE y \in AliasesOf[k] /\ x \in AliasesOf[y]
    <3>1. y \in Keys /\ y \in AliasesOf[y] /\ y \in Elems(m)
      BY <1>3, <2>2, SpansAssumption
    <3>2. AliasesOf[y] \cap Elems(l) # {} /\ AliasesOf[y] \cap Elems(m) # {}
      BY <2>2, <3>1
    <3> QED BY <3>1, <3>2 DEF NamesMeet
  <2>3. CASE x \in p.group[y]
    <3>1. y \in Keys /\ Kin(x, y)
      BY <1>1, <1>k, <2>x, <2>3 DEF GroupsKin
    <3>2. PICK i \in Names : Head(i) = y
      BY <3>1 DEF Kin
    <3>3. Meets(i, l) /\ y \in Elems(i)
      BY <3>1, <3>2, KinMeets, NameElems
    <3>4. CASE y \in AliasesOf[k]
      <4>1. Meets(i, m)
        BY <1>3, <3>3, <3>4, Met
      <4> QED BY <3>3, <4>1, Met, MetThrough
    <3>5. CASE \E a \in AliasesOf[k] : p.primary[a] # None /\ y = p.primary[a]
      <4>1. PICK a \in AliasesOf[k] : p.primary[a] # None /\ y = p.primary[a]
        BY <3>5
      <4>2. PICK j \in Names : Head(j) = y /\ Meets(j, m)
        BY <1>1, <1>3, <4>1, KeyOfSession
      <4>3. Meets(i, j)
        BY <3>3, <4>2, NameElems, Met
      <4>4. Meets(i, m)
        BY <4>2, <4>3, MetThrough
      <4> QED BY <3>3, <4>4, Met, MetThrough
    <3> QED BY <1>k, <3>4, <3>5
  <2>4. CASE p.group[y] = {} /\ \E a \in AliasesOf[k] : p.primary[a] # None /\ y = p.primary[a]
    BY <1>1, <2>4 DEF InGroup
  <2> QED BY <1>k, <2>1, <2>2, <2>3, <2>4
<1>6. \A l \in Names : Tainted(q, l) <=> Tainted(p, l)
  BY <1>4 DEF Tainted
\* Unless it is called otherwise, only its own group goes.
<1>7. ASSUME NEW l \in Names, Meets(l, m), ~Tainted(p, l)
      PROVE  ks = {k} /\ as = p.group[k] /\ Single(p, l, k)
  <2>1. ~Tainted(p, m)
    BY <1>1, <1>7, Met, TaintedTogether
  <2>2. Whole(p, k) /\ p.primary[k] = k
    BY <1>1, <1>2, <2>1 DEF Whole
  <2>3. Single(p, m, k)
    BY <1>1, <1>3, <2>1, <2>2, PrimaryOf
  <2> QED BY <1>7, <1>h, <2>2, <2>3, Met, OneSession
<1>8. ASSUME NEW l \in Names, ~Tainted(p, l)
      PROVE  Unnamed(q, l) \/ \E j \in Keys : Single(q, l, j)
  <2>1. CASE Meets(l, m)
    <3> SUFFICES ASSUME NEW i \in Names, Meets(i, l), NEW a \in Elems(i)
                 PROVE  q.primary[a] = None
      BY DEF Unnamed
    <3>1. a \in Keys /\ p.primary[a] \in {None, k}
      BY <1>7, <1>8, <2>1, NameElems DEF Single
    <3>2. p.primary[a] = k => a \in as
      BY <1>1, <1>7, <1>8, <2>1, <3>1 DEF InGroup
    <3> QED BY <1>4, <3>1, <3>2
  <2>2. CASE ~Meets(l, m)
    BY <1>1, <1>4, <1>5, <1>8, <2>2, OthersSame DEF OneKey
  <2> QED BY <2>1, <2>2
<1>9. ASSUME NEW l \in Names, ~Tainted(p, l), NEW x \in Elems(l), NEW j \in Keys,
             x \in q.group[j]
      PROVE  q.primary[x] = j
  <2>1. x \in Keys /\ x \in p.group[j] /\ j \notin ks
    BY <1>4, <1>9, NameElems
  <2>2. p.primary[x] = j
    BY <1>1, <1>9, <2>1 DEF Fresh
  <2>3. ASSUME x \in as PROVE FALSE
    <3>1. Meets(l, m)
      BY <1>5, <2>3 DEF Touches
    <3>2. x \in p.group[k] /\ k \in ks
      BY <1>7, <1>9, <2>3, <3>1
    <3>3. p.primary[x] = k
      BY <1>1, <1>9, <3>2 DEF Fresh
    <3> QED BY <2>1, <2>2, <3>2, <3>3
  <2> QED BY <1>4, <2>1, <2>2, <2>3
<1>10. ASSUME NEW j \in Keys, Lives(q, j) PROVE Callable(q, j)
  <2>1. j # k /\ Callable(p, j)
    BY <1>1, <1>c, <1>10 DEF Called, Lives
  <2>2. ~Tainted(p, m) => Single(p, m, k) \/ Unnamed(p, m)
    BY <1>3, <1>7
  <2> QED BY <1>1, <1>4, <1>5, <2>1, <2>2, OthersCallable
<1>11. ASSUME NEW a \in Keys, q.primary[a] # None PROVE a \in q.group[q.primary[a]]
  <2>1. a \notin as /\ q.primary[a] = p.primary[a]
    BY <1>4, <1>11
  <2>2. a \in p.group[p.primary[a]] /\ p.primary[a] \in Keys
    BY <1>1, <1>11, <2>1, PluginFields DEF InGroup
  <2>3. p.primary[a] \notin ks
    BY <1>s, <2>1, <2>2
  <2> QED BY <1>4, <2>1, <2>2, <2>3
<1>12. Renames(q) /\ InGroup(q)
  BY <1>1, <1>4, <1>11 DEF Renames, InGroup
<1>13. GroupsKin(q)
  BY <1>1, <1>4 DEF GroupsKin
<1>14. OneKey(q) /\ Fresh(q) /\ Called(q)
  BY <1>6, <1>8, <1>9, <1>10 DEF OneKey, Fresh, Called, Lives
<1> QED BY <1>12, <1>13, <1>14 DEF Aliased

\* No name changes, and no session gets a root.
Leaves(p, q) == NamesKept(p, q) /\ \A j \in Keys : Lives(q, j) => Lives(p, j)

LEMMA LeavesAliased ==
  ASSUME NEW p, Aliased(p), NEW q, Leaves(p, q)
  PROVE  Aliased(q)
<1>1. q.primary = p.primary /\ q.group = p.group /\ q.renamed = p.renamed
  BY DEF Leaves, NamesKept
<1>2. \A l \in Names : Tainted(q, l) <=> Tainted(p, l)
  BY <1>1 DEF Tainted
<1>3. /\ \A l \in Names : Unnamed(p, l) => Unnamed(q, l)
      /\ \A l \in Names, k \in Keys : Single(p, l, k) => Single(q, l, k)
      /\ \A k \in Keys : Callable(p, k) => Callable(q, k)
  BY <1>1, <1>2 DEF Unnamed, Single, Whole, Callable
<1>4. Renames(q) /\ InGroup(q) /\ GroupsKin(q)
  BY <1>1 DEF Aliased, Renames, InGroup, GroupsKin
<1>5. OneKey(q) /\ Fresh(q) /\ Called(q)
  BY <1>1, <1>2, <1>3 DEF Aliased, OneKey, Fresh, Called, Leaves, Lives
<1> QED BY <1>4, <1>5 DEF Aliased

LEMMA AliasedFinds ==
  ASSUME NamesMeet, plugin \in Plugins, Aliased(plugin)
  PROVE  EveryNameFindsRoot
<1> SUFFICES ASSUME NEW k \in LiveRoots, NEW n \in Names, AliasesOf[k] \cap Elems(n) # {},
                    ~Renamed(n, k)
             PROVE  Canonical(plugin, n) = k
  BY DEF EveryNameFindsRoot
<1>1. /\ k \in Keys /\ k \in AliasesOf[k] /\ Callable(plugin, k)
      /\ OneKey(plugin) /\ Renames(plugin) /\ InGroup(plugin) /\ GroupsKin(plugin)
  BY SpansAssumption DEF LiveRoots, Aliased, Called
<1>2. PICK m \in Names : Head(m) = k /\ (Tainted(plugin, m) \/ Whole(plugin, k))
  BY <1>1 DEF Callable
<1>3. k \in Elems(m)
  BY <1>2, NameElems
<1>4. AliasesOf[k] \cap Elems(m) # {}
  BY <1>1, <1>3
<1>5. Meets(m, n)
  BY <1>1, <1>4 DEF NamesMeet
<1>6. ~Tainted(plugin, n)
  BY DEF Renamed, Tainted
<1>7. ~Tainted(plugin, m)
  BY <1>1, <1>5, <1>6, TaintedTogether
<1>8. Single(plugin, m, k)
  BY <1>1, <1>2, <1>3, <1>7, PrimaryOf DEF Whole
<1>9. Single(plugin, n, k)
  BY <1>5, <1>8, OneSession
<1> QED BY <1>1, <1>9, CanonicalMeets

-------------------------------------------------------------------------------
(* The parts of the hooks, and the hooks: what each does to the names.       *)

LEMMA CallsChained ==
  ASSUME NEW p, NEW q, NEW r, NEW k, Calls(p, q, k), Calls(q, r, k)
  PROVE  Calls(p, r, k)
BY DEF Calls, NamesKept

LEMMA PutCalls ==
  ASSUME NEW p, NEW k \in Keys, NEW q, NamesKept(p, q), OthersKept(p, q, k)
  PROVE  Calls(p, q, k)
BY DEF Calls, OthersKept, Lives

LEMMA StatsCalls ==
  ASSUME NEW p \in Plugins, NEW k \in Keys
  PROVE  Calls(p, WithStats(p, k), k)
<1> DEFINE q == WithStats(p, k)
<1>1. NamesKept(p, q) /\ OthersKept(p, q, k)
  BY WithStatsFields
<1> HIDE DEF q
<1>2. Calls(p, q, k)
  BY <1>1, PutCalls
<1> QED BY <1>2 DEF q

LEMMA AttachCalls ==
  ASSUME NEW p \in Plugins, NEW k \in Keys
  PROVE  Calls(p, Attach(p, k), k)
<1> DEFINE q == Attach(p, k)
<1>1. NamesKept(p, q) /\ OthersKept(p, q, k)
  BY AttachFields
<1> HIDE DEF q
<1>2. Calls(p, q, k)
  BY <1>1, PutCalls
<1> QED BY <1>2 DEF q

LEMMA TracedCalls ==
  ASSUME NEW p, NEW k \in Keys, NEW q, TracedAs(p, q, k)
  PROVE  Calls(p, q, k)
BY PutCalls DEF TracedAs

LEMMA StartsCalls ==
  ASSUME NEW p, Sound(p), NEW k \in Keys, NEW parent \in Nat
  PROVE  /\ Calls(p, LlmStarted(p, k, parent), k)
         /\ \A t \in Tools : Calls(p, ToolStarted(p, k, t, parent), k)
<1>1. p \in Plugins
  BY DEF Sound
<1>2. /\ BegunAs(p, LlmStarted(p, k, parent), k, "llm", [p.session[k] EXCEPT !.llm = NewId(p)])
      /\ \A t \in Tools :
              BegunAs(p, ToolStarted(p, k, t, parent), k, "tool",
                      [p.session[k] EXCEPT !.tool = [@ EXCEPT ![t] = NewId(p)]])
  BY <1>1, StartsHeld
<1>3. ASSUME NEW q, NEW kind, NEW u, BegunAs(p, q, k, kind, u) PROVE Calls(p, q, k)
  <2>1. PICK s \in Plugins, x \in SpanT : SpanStarted(p, s, x) /\ SessionPut(s, q, k, u)
    BY <1>3 DEF BegunAs
  <2>2. NamesKept(p, q) /\ OthersKept(p, q, k)
    BY <2>1 DEF SpanStarted, SessionPut, NamesKept, OthersKept
  <2> QED BY <2>2, PutCalls
<1> QED BY <1>2, <1>3

LEMMA EndsCalls ==
  ASSUME NEW p, Sound(p), NEW k \in Keys, NEW i \in Ids(p)
  PROVE  /\ Calls(p, LlmEnded(p, k, i), k)
         /\ \A t \in Tools : Calls(p, ToolEnded(p, k, t, i), k)
<1> DEFINE r == EndSpan(p, i)
<1>1. /\ r \in Plugins /\ r.session = p.session /\ NamesKept(p, r)
  <2>1. p \in Plugins /\ i \in 1..Len(p.spans)
    BY DEF Sound, Ids
  <2> QED BY <2>1, EndSpanFields
<1>2. LlmEnded(p, k, i) = [r EXCEPT !.session[k].llm = 0]
  BY DEF LlmEnded
<1>3. \A t \in Tools : ToolEnded(p, k, t, i) = [r EXCEPT !.session[k].tool[t] = 0]
  BY DEF ToolEnded
<1> HIDE DEF r
<1>4. ASSUME NEW u, NEW q, q = PutSession(r, k, u) PROVE Calls(p, q, k)
  <2>1. r.session \in [Keys -> SessionT]
    BY <1>1, PluginFields
  <2>2. NamesKept(r, q) /\ OthersKept(r, q, k)
    BY <1>1, <1>4, <2>1 DEF PutSession, Plugins, NamesKept, OthersKept
  <2>3. NamesKept(p, q) /\ OthersKept(p, q, k)
    BY <1>1, <2>2 DEF NamesKept, OthersKept
  <2> QED BY <2>3, PutCalls
<1>5. Calls(p, LlmEnded(p, k, i), k)
  <2> DEFINE u == [r.session[k] EXCEPT !.llm = 0]
  <2>1. LlmEnded(p, k, i) = PutSession(r, k, u)
    BY <1>2 DEF PutSession
  <2> QED BY <1>4, <2>1
<1>6. ASSUME NEW t \in Tools PROVE Calls(p, ToolEnded(p, k, t, i), k)
  <2> DEFINE u == [r.session[k] EXCEPT !.tool = [@ EXCEPT ![t] = 0]]
  <2>1. ToolEnded(p, k, t, i) = PutSession(r, k, u)
    BY <1>3 DEF PutSession
  <2> QED BY <1>4, <2>1
<1> QED BY <1>5, <1>6

NameStep(p, q) ==
  \/ \E n \in Names : Calls(Register(p, Canonical(p, n), n), q, Canonical(p, n))
  \/ \E n \in Names : Takes(p, q, n)
  \/ \E k \in Keys : Ends(p, q, k)
  \/ Leaves(p, q)

\* What the hooks that register a name have in common.
LEMMA Registered ==
  ASSUME Sound(plugin), NEW n \in Names, NEW k, k = Canonical(plugin, n)
  PROVE  /\ k \in Keys /\ Sound(Register(plugin, k, n))
         /\ Touch(Register(plugin, k, n), k) = Register(plugin, k, n)
         /\ Sound(WithStats(Register(plugin, k, n), k))
         /\ WithStats(Register(plugin, k, n), k).session[k].stats # NoStats
         /\ Calls(Register(plugin, k, n), WithStats(Register(plugin, k, n), k), k)
         /\ \A q : Calls(Register(plugin, k, n), q, k) => NameStep(plugin, q)
<1>1. k \in Keys
  BY CanonicalKey DEF Sound
<1>2. Sound(Register(plugin, k, n))
  BY <1>1, RegisterSound DEF Quiet
<1>3. /\ Touch(Register(plugin, k, n), k) = Register(plugin, k, n)
      /\ Sound(WithStats(Register(plugin, k, n), k))
      /\ WithStats(Register(plugin, k, n), k).session[k].stats # NoStats
  BY <1>1, NotedReached DEF Reached, Grown
<1>4. Calls(Register(plugin, k, n), WithStats(Register(plugin, k, n), k), k)
  BY <1>1, <1>2, StatsCalls DEF Sound
<1>5. \A q : Calls(Register(plugin, k, n), q, k) => NameStep(plugin, q)
  BY DEF NameStep
<1> QED BY <1>1, <1>2, <1>3, <1>4, <1>5

LEMMA ClaimNames ==
  ASSUME Sound(plugin), NEW n \in Names, InboundClaim(n)
  PROVE  NameStep(plugin, plugin')
<1> DEFINE k == Canonical(plugin, n)
           r == Register(plugin, k, n)
           q == Traced(r, k, "inbound_claim")
<1>1. plugin' = q
  BY DEF InboundClaim
<1>2. k = Canonical(plugin, n)
  OBVIOUS
<1> HIDE DEF k
<1>3. k \in Keys /\ Sound(r) /\ \A x : Calls(r, x, k) => NameStep(plugin, x)
  BY <1>2, Registered
<1> HIDE DEF r
<1>4. TracedAs(r, q, k)
  BY <1>3, TracedSound
<1> HIDE DEF q
<1> QED BY <1>1, <1>3, <1>4, TracedCalls

LEMMA MessageNames ==
  ASSUME Sound(plugin), NEW n \in Names, MessageReceived(n)
  PROVE  NameStep(plugin, plugin')
<1> DEFINE k == Canonical(plugin, n)
           r == Register(plugin, k, n)
           t == Touch(r, k)
           q == Attach(t, k)
<1>1. plugin' = q
  BY DEF MessageReceived
<1>2. k = Canonical(plugin, n)
  OBVIOUS
<1> HIDE DEF k
<1>3. /\ k \in Keys /\ Sound(r) /\ t = r /\ \A x : Calls(r, x, k) => NameStep(plugin, x)
  BY <1>2, Registered
<1> HIDE DEF r, t
<1>4. Calls(r, q, k)
  BY <1>3, AttachCalls DEF Sound
<1> QED BY <1>1, <1>3, <1>4

LEMMA LlmInputNames ==
  ASSUME Sound(plugin), NEW n \in Names, LlmInput(n)
  PROVE  NameStep(plugin, plugin')
<1> DEFINE k == Canonical(plugin, n)
           r == Register(plugin, k, n)
           stated == WithStats(r, k)
           named == Attach(stated, k)
           traced == Traced(named, k, "llm_input")
           q == LlmStarted(traced, k, traced.session[k].root)
<1>1. plugin' = q
  BY DEF LlmInput, LlmStarted
<1>2. k = Canonical(plugin, n)
  OBVIOUS
<1> HIDE DEF k
<1>3. /\ k \in Keys /\ Sound(stated) /\ Calls(r, stated, k)
      /\ \A x : Calls(r, x, k) => NameStep(plugin, x)
  BY <1>2, Registered
<1> HIDE DEF r, stated
<1>4. Sound(named) /\ Calls(stated, named, k)
  BY <1>3, AttachSound, AttachCalls DEF Sound, Reached, Grown
<1> HIDE DEF named
<1>5. TracedAs(named, traced, k)
  BY <1>3, <1>4, TracedSound
<1> HIDE DEF traced
<1>6. Calls(named, traced, k) /\ Sound(traced) /\ traced.session[k].root \in Nat
  BY <1>3, <1>5, TracedCalls, PluginFields, SessionFields DEF TracedAs, Sound
<1>7. Calls(traced, q, k)
  BY <1>3, <1>6, StartsCalls
<1> HIDE DEF q
<1>8. Calls(r, named, k)
  BY <1>3, <1>4, CallsChained
<1>9. Calls(r, traced, k)
  BY <1>6, <1>8, CallsChained
<1>10. Calls(r, q, k)
  BY <1>7, <1>9, CallsChained
<1> QED BY <1>1, <1>3, <1>10

LEMMA LlmOutputNames ==
  ASSUME Sound(plugin), NEW n \in Names, LlmOutput(n)
  PROVE  NameStep(plugin, plugin')
<1> DEFINE k == Canonical(plugin, n)
           r == Register(plugin, k, n)
           t == Touch(r, k)
           stated == WithStats(t, k)
           noted == Attach(stated, k)
           span == noted.session[k].llm
           q == LlmEnded(noted, k, span)
<1>1. plugin' = IF span = 0 THEN noted ELSE q
  BY DEF LlmOutput, LlmEnded
<1>2. k = Canonical(plugin, n)
  OBVIOUS
<1> HIDE DEF k
<1>3. /\ k \in Keys /\ t = r /\ Sound(WithStats(r, k)) /\ Calls(r, WithStats(r, k), k)
      /\ \A x : Calls(r, x, k) => NameStep(plugin, x)
  BY <1>2, Registered
<1> HIDE DEF r, t
<1>s. Sound(stated) /\ Calls(r, stated, k)
  BY <1>3
<1> HIDE DEF stated
<1>4. Sound(noted) /\ Calls(stated, noted, k)
  BY <1>3, <1>s, AttachSound, AttachCalls DEF Sound, Reached, Grown
<1> HIDE DEF noted
<1>5. Calls(r, noted, k)
  BY <1>s, <1>4, CallsChained
<1>6. ASSUME span # 0 PROVE Calls(r, q, k)
  <2>1. span \in Ids(noted)
    BY <1>3, <1>4, <1>6 DEF Sound, MapsSound, SessionSound, Holds
  <2> HIDE DEF span
  <2>2. Calls(noted, q, k)
    BY <1>3, <1>4, <2>1, EndsCalls
  <2> HIDE DEF q
  <2> QED BY <1>5, <2>2, CallsChained
<1> HIDE DEF q, span
<1> QED BY <1>1, <1>3, <1>5, <1>6

\* What the hooks of a tool call have in common.
LEMMA ToolNoted ==
  ASSUME Sound(plugin), NEW n \in Names, NEW k, k = Canonical(plugin, n),
         NEW r, r = Register(plugin, k, n), NEW q, q = Touch(WithStats(r, k), k)
  PROVE  /\ k \in Keys /\ Sound(q) /\ Calls(r, q, k)
         /\ \A x : Calls(r, x, k) => NameStep(plugin, x)
<1> DEFINE s == WithStats(r, k)
<1>1. k \in Keys /\ Sound(s) /\ Calls(r, s, k) /\ \A x : Calls(r, x, k) => NameStep(plugin, x)
  BY Registered
<1> HIDE DEF s
<1>2. Touch(s, k) = s
  BY <1>1, TouchKeeps
<1>3. q = s
  BY <1>2 DEF s
<1> QED BY <1>1, <1>3

LEMMA BeforeToolNames ==
  ASSUME Sound(plugin), NEW n \in Names, NEW t \in Tools, BeforeToolCall(n, t)
  PROVE  NameStep(plugin, plugin')
<1> DEFINE k == Canonical(plugin, n)
           r == Register(plugin, k, n)
           noted == Touch(WithStats(r, k), k)
           llm == noted.session[k].llm
           begun == Traced(noted, k, "before_tool_call")
           traced == IF llm # 0 THEN noted ELSE begun
           parent == IF llm # 0 THEN llm ELSE traced.session[k].root
           q == ToolStarted(traced, k, t, parent)
<1>1. plugin' = q
  BY DEF BeforeToolCall, ToolStarted
<1>2. k = Canonical(plugin, n) /\ r = Register(plugin, k, n) /\ noted = Touch(WithStats(r, k), k)
  OBVIOUS
<1> HIDE DEF k, r, noted
<1>3. /\ k \in Keys /\ Sound(noted) /\ Calls(r, noted, k)
      /\ \A x : Calls(r, x, k) => NameStep(plugin, x)
  BY <1>2, ToolNoted
<1>4. TracedAs(noted, begun, k)
  BY <1>3, TracedSound
<1>b. traced \in {noted, begun}
  OBVIOUS
<1>p. parent \in {llm, traced.session[k].root}
  OBVIOUS
<1> HIDE DEF begun, traced, parent
<1>5. Calls(noted, begun, k) /\ Sound(begun)
  BY <1>3, <1>4, TracedCalls DEF TracedAs
<1>6. Calls(r, begun, k)
  BY <1>3, <1>5, CallsChained
<1>7. Sound(traced) /\ Calls(r, traced, k)
  BY <1>3, <1>5, <1>6, <1>b
<1>8. parent \in Nat
  BY <1>3, <1>7, <1>p, PluginFields, SessionFields DEF Sound
<1>9. Calls(traced, q, k)
  BY <1>3, <1>7, <1>8, StartsCalls
<1> HIDE DEF q
<1>10. Calls(r, q, k)
  BY <1>7, <1>9, CallsChained
<1> QED BY <1>1, <1>3, <1>10

\* The spawner of a subagent keeps its names and its session.
LEMMA SpawnedCalls ==
  ASSUME NEW p \in Plugins, NEW k \in Keys, NEW c \in Children,
         NEW source \in {"hook", "fallback"}, NEW r \in Plugins
  PROVE  /\ NamesKept(r, Spawned(p, k, c, source, r))
         /\ Spawned(p, k, c, source, r).session = r.session
<1> DEFINE d == Describe(r, Head(c), p.session[k].stats, c)
           q == RegisterSubagent(d, Head(c), k, Len(r.spans), source, c)
<1>1. p.session[k].stats \in StatsT /\ Len(r.spans) \in Nat
  BY PluginFields, SessionFields
<1>2. SubDescribed(r, d, c, p.session[k].stats)
  BY <1>1, DescribeFields
<1>3. q = Spawned(p, k, c, source, r)
  BY DEF Spawned
<1> HIDE DEF d
<1>4. SubNamed(d, q, c, k, Len(r.spans), source)
  BY <1>1, <1>2, RegisterSubagentFields DEF SubDescribed
<1> HIDE DEF q
<1>5. NamesKept(r, q) /\ q.session = r.session
  BY <1>2, <1>4 DEF SubDescribed, SubNamed, NamesKept
<1> QED BY <1>3, <1>5

LEMMA FallbackCalls ==
  ASSUME NEW p, Sound(p), NEW k \in Keys, NEW c \in Children
  PROVE  /\ Calls(p, WithFallback(p, k, c), k) /\ Sound(WithFallback(p, k, c))
         /\ WithFallback(p, k, c).session[k].tool = p.session[k].tool
<1> DEFINE traced == Traced(p, k, "sessions_spawn_fallback")
           started == StartSpan(traced, "subagent", k, traced.session[k].root, Elems(c))
           q == Spawned(traced, k, c, "fallback", started)
<1>1. Sound(WithFallback(p, k, c)) /\ WithFallback(p, k, c).session[k].tool = p.session[k].tool
  BY FallbackReached DEF Reached, Grown
<1>2. CASE p.sub[Head(c)].span # 0
  <2>1. WithFallback(p, k, c) = p
    BY <1>2 DEF WithFallback
  <2>2. Calls(p, p, k)
    BY DEF Calls, NamesKept
  <2> QED BY <1>1, <2>1, <2>2
<1>3. CASE p.sub[Head(c)].span = 0
  <2>1. WithFallback(p, k, c) = q
    BY <1>3 DEF WithFallback, Spawned
  <2>2. TracedAs(p, traced, k)
    BY TracedSound
  <2> HIDE DEF traced
  <2>3. traced \in Plugins /\ traced.session[k].root \in Nat /\ Calls(p, traced, k)
    BY <2>2, TracedCalls, PluginFields, SessionFields DEF TracedAs, Sound
  <2>4. started \in Plugins /\ NamesKept(traced, started) /\ started.session = traced.session
    <3>1. "subagent" \in SpanKinds /\ Elems(c) \in SUBSET Keys
      BY NameElems DEF SpanKinds
    <3> QED BY <2>3, <3>1, StartSpanFields DEF SpanStarted
  <2> HIDE DEF started
  <2>5. NamesKept(started, q) /\ q.session = started.session
    BY <2>3, <2>4, SpawnedCalls
  <2> HIDE DEF q
  <2>6. Calls(traced, q, k)
    BY <2>4, <2>5 DEF Calls, NamesKept, Lives
  <2>7. Calls(p, q, k)
    BY <2>3, <2>6, CallsChained
  <2> QED BY <1>1, <2>1, <2>7
<1> QED BY <1>2, <1>3

LEMMA AfterToolNames ==
  ASSUME Sound(plugin), NEW n \in Names, NEW t \in Tools,
         NEW c \in Children \cup {<<>>}, AfterToolCall(n, t, c)
  PROVE  NameStep(plugin, plugin')
<1> DEFINE k == Canonical(plugin, n)
           r == Register(plugin, k, n)
           noted == Touch(WithStats(r, k), k)
           span == noted.session[k].tool[t]
           linked == IF c = <<>> THEN noted ELSE WithFallback(noted, k, c)
           q == ToolEnded(linked, k, t, span)
<1>1. plugin' = IF span = 0 THEN noted ELSE q
  BY DEF AfterToolCall, ToolEnded
<1>2. k = Canonical(plugin, n) /\ r = Register(plugin, k, n) /\ noted = Touch(WithStats(r, k), k)
  OBVIOUS
<1> HIDE DEF k, r, noted
<1>3. /\ k \in Keys /\ Sound(noted) /\ Calls(r, noted, k)
      /\ \A x : Calls(r, x, k) => NameStep(plugin, x)
  BY <1>2, ToolNoted
<1>4. Sound(linked) /\ Calls(r, linked, k) /\ linked.session[k].tool = noted.session[k].tool
  <2>1. CASE c = <<>>
    BY <1>3, <2>1
  <2>2. CASE c # <<>>
    <3> DEFINE x == WithFallback(noted, k, c)
    <3>1. c \in Children /\ linked = x
      BY <2>2
    <3>2. Sound(x) /\ Calls(noted, x, k) /\ x.session[k].tool = noted.session[k].tool
      BY <1>3, <3>1, FallbackCalls
    <3> HIDE DEF x, linked
    <3>3. Calls(r, x, k)
      BY <1>3, <3>2, CallsChained
    <3> QED BY <3>1, <3>2, <3>3
  <2> QED BY <2>1, <2>2
<1> HIDE DEF linked
<1>5. ASSUME span # 0 PROVE Calls(r, q, k)
  <2>1. span = linked.session[k].tool[t]
    BY <1>4
  <2>2. Holds(linked, linked.session[k].tool[t], "tool", k)
    BY <1>3, <1>4 DEF Sound, MapsSound, SessionSound
  <2>3. span \in Ids(linked)
    BY <1>5, <2>1, <2>2 DEF Holds
  <2> HIDE DEF span
  <2>4. Calls(linked, q, k)
    BY <1>3, <1>4, <2>3, EndsCalls
  <2> HIDE DEF q
  <2> QED BY <1>4, <2>4, CallsChained
<1> HIDE DEF q, span
<1> QED BY <1>1, <1>3, <1>5

LEMMA SpawningNames ==
  ASSUME Sound(plugin), NEW n \in Names, NEW c \in Children, SubagentSpawning(n, c)
  PROVE  NameStep(plugin, plugin')
<1> DEFINE k == Head(n)
           traced == Traced(plugin, k, "subagent_spawning")
           root == traced.session[k].root
           started == StartSpan(traced, "subagent", k, root, Elems(c))
           rs == IF plugin.primary[k] = k THEN started.renamed
                 ELSE started.renamed \cup Elems(n)
           called == [started EXCEPT !.renamed = rs]
           q == Spawned(traced, k, c, "hook", called)
<1>1. plugin' = q
  <2>1. plugin' = RegisterSubagent(Describe(called, Head(c), traced.session[k].stats, c),
                                   Head(c), k, Len(started.spans), "hook", c)
    BY DEF SubagentSpawning
  <2> HIDE DEF started
  <2>2. called.spans = started.spans
    OBVIOUS
  <2> QED BY <2>1, <2>2 DEF Spawned
<1>2. k \in Keys /\ Elems(n) \subseteq Keys /\ k = Head(n)
  BY NameElems
<1> HIDE DEF k
<1>3. TracedAs(plugin, traced, k)
  BY <1>2, TracedSound
<1> HIDE DEF traced
<1>4. traced \in Plugins /\ root \in Nat /\ Calls(plugin, traced, k)
  BY <1>2, <1>3, TracedCalls, PluginFields, SessionFields DEF TracedAs, Sound
<1> HIDE DEF root
<1>5. started \in Plugins /\ NamesKept(traced, started) /\ started.session = traced.session
  <2>1. "subagent" \in SpanKinds /\ Elems(c) \in SUBSET Keys
    BY NameElems DEF SpanKinds
  <2> QED BY <1>2, <1>4, <2>1, StartSpanFields DEF SpanStarted
<1> HIDE DEF started
<1>6. /\ rs \in SUBSET Keys
      /\ rs = IF plugin.primary[k] = k THEN plugin.renamed ELSE plugin.renamed \cup Elems(n)
  BY <1>2, <1>4, <1>5, PluginFields DEF Calls, NamesKept
<1> HIDE DEF rs
<1>7. /\ called \in Plugins /\ called.session = traced.session /\ called.renamed = rs
      /\ called.primary = traced.primary /\ called.group = traced.group
  BY <1>5, <1>6, PluginFields DEF Plugins, NamesKept
<1> HIDE DEF called
<1>8. NamesKept(called, q) /\ q.session = called.session
  BY <1>2, <1>4, <1>7, SpawnedCalls
<1> HIDE DEF q
<1>9. Takes(plugin, q, n)
  BY <1>2, <1>4, <1>6, <1>7, <1>8 DEF Calls, NamesKept, Lives, Takes
<1> QED BY <1>1, <1>9 DEF NameStep

LEMMA SpawnedNames ==
  ASSUME Sound(plugin), NEW c \in Children, SubagentSpawned(c)
  PROVE  NameStep(plugin, plugin')
<1> DEFINE child == Head(c)
           parent == plugin.sub[child].parent
           span == plugin.sub[child].span
           touched == Touch(plugin, parent)
           described == plugin.sub[child].primary = child /\ child \notin plugin.misnamed
           ms == IF described THEN touched.misnamed ELSE touched.misnamed \cup Elems(c)
           again == [touched EXCEPT !.misnamed = ms]
           q == RegisterSubagent(again, child, parent, span, "hook", c)
<1>1. plugin' = IF span = 0 THEN touched ELSE q
  BY DEF SubagentSpawned
<1>2. /\ plugin \in Plugins /\ child \in Keys /\ parent \in Keys \cup {None} /\ span \in Nat
      /\ Elems(c) \subseteq Keys
  BY SubagentOf, NameElems DEF Sound
<1>3. touched = plugin
  BY <1>2, TouchKeeps
<1> HIDE DEF touched
<1>4. ms \in SUBSET Keys
  BY <1>2, <1>3, PluginFields
<1> HIDE DEF ms
<1>5. again \in Plugins /\ NamesKept(plugin, again) /\ again.session = plugin.session
  BY <1>2, <1>3, <1>4, PluginFields DEF Plugins, NamesKept
<1> HIDE DEF again, parent, span
<1>6. SubNamed(again, q, c, parent, span, "hook")
  BY <1>2, <1>5, RegisterSubagentFields
<1> HIDE DEF q
<1>7. Leaves(plugin, q) /\ Leaves(plugin, plugin)
  BY <1>5, <1>6 DEF SubNamed, Leaves, NamesKept, Lives
<1> QED BY <1>1, <1>3, <1>7 DEF NameStep

\* A span of a subagent ends, and its names with it.
LEMMA FinishNames ==
  ASSUME NEW p, Sound(p), NEW as \in SUBSET Keys, NEW i \in Ids(p),
         NEW q, q = UnregisterSubagent(EndSpan(p, i), as)
  PROVE  q \in Plugins /\ NamesKept(p, q) /\ q.session = p.session
<1> DEFINE r == EndSpan(p, i)
<1>1. r \in Plugins /\ NamesKept(p, r) /\ r.session = p.session
  <2>1. p \in Plugins /\ i \in 1..Len(p.spans)
    BY DEF Sound, Ids
  <2> QED BY <2>1, EndSpanFields
<1>2. q = UnregisterSubagent(r, as)
  OBVIOUS
<1> HIDE DEF r
<1>3. SubsGone(r, q, as)
  BY <1>1, <1>2, UnregisterSubagentFields
<1> QED BY <1>1, <1>3 DEF SubsGone, NamesKept

LEMMA EndedNames ==
  ASSUME Sound(plugin), NEW c \in Children, NEW failed \in BOOLEAN,
         SubagentEnded(c, failed)
  PROVE  NameStep(plugin, plugin')
<1> DEFINE child == Head(c)
           parent == plugin.sub[child].parent
           span == plugin.sub[child].span
           touched == Touch(plugin, parent)
           counted == WithStats(plugin, parent)
           marked == IF failed THEN WithStats(touched, parent) ELSE touched
           as == AliasesOf[child] \cup Elems(c)
           q == UnregisterSubagent(EndSpan(marked, span), as)
<1>1. plugin' = IF span = 0 THEN touched ELSE q
  BY DEF SubagentEnded
<1>2. /\ child \in Keys /\ parent \in Keys \cup {None}
      /\ span # 0 => parent \in Keys /\ span \in Ids(plugin)
      /\ as \in SUBSET Keys
  BY SubagentOf, NameElems, SpansAssumption
<1>3. touched = plugin
  BY <1>2, TouchKeeps
<1>m. marked \in {counted, plugin}
  BY <1>3
<1> HIDE DEF as, marked, touched, parent
<1>4. Leaves(plugin, plugin)
  BY DEF Leaves, NamesKept
<1>5. ASSUME span # 0 PROVE Leaves(plugin, q)
  <2>1. /\ Sound(counted) /\ counted.spans = plugin.spans /\ NamesKept(plugin, counted)
        /\ OthersKept(plugin, counted, parent)
        /\ counted.session[parent].root = plugin.session[parent].root
    <3>1. parent \in Keys /\ plugin \in Plugins /\ counted = WithStats(plugin, parent)
      BY <1>2, <1>5 DEF Sound
    <3>2. Sound(counted) /\ counted.session[parent].root = plugin.session[parent].root
      BY <3>1, SoundStats
    <3> HIDE DEF counted
    <3> QED BY <3>1, <3>2, WithStatsFields
  <2>2. Leaves(plugin, counted)
    BY <2>1 DEF Leaves, OthersKept, Lives
  <2> HIDE DEF counted
  <2>3. Sound(marked) /\ Leaves(plugin, marked) /\ span \in Ids(marked)
    BY <1>2, <1>4, <1>5, <1>m, <2>1, <2>2 DEF Ids
  <2> HIDE DEF span
  <2>4. NamesKept(marked, q) /\ q.session = marked.session
    BY <1>2, <2>3, FinishNames
  <2> QED BY <2>3, <2>4 DEF Leaves, NamesKept, Lives
<1> HIDE DEF q, span
<1> QED BY <1>1, <1>3, <1>4, <1>5 DEF NameStep

LEMMA ExpiryNames ==
  ASSUME Sound(plugin), NEW k \in Keys, LineageExpires(k)
  PROVE  NameStep(plugin, plugin')
<1>1. plugin \in Plugins /\ plugin.session \in [Keys -> SessionT]
  BY PluginFields DEF Sound
<1>2. plugin' = [plugin EXCEPT !.session[k].closed = NoLineage]
  BY DEF LineageExpires
<1>3. /\ NamesKept(plugin, plugin')
      /\ \A j \in Keys : plugin'.session[j].root = plugin.session[j].root
  BY <1>1, <1>2 DEF Plugins, NamesKept, SessionT
<1> QED BY <1>3 DEF NameStep, Leaves, Lives

\* The names that are unregistered depend on the names alone.
LEMMA UnregisterSame ==
  ASSUME NEW p \in Plugins, NEW r \in Plugins, NamesKept(p, r), NEW k \in Keys
  PROVE  NamesKept(Unregister(p, k), Unregister(r, k))
<1>1. r.primary = p.primary /\ r.group = p.group /\ r.renamed = p.renamed
  BY DEF NamesKept
<1> DEFINE ks == {IF p.primary[a] = None THEN a ELSE p.primary[a] : a \in AliasesOf[k]}
           as == UNION {IF p.group[y] = {} THEN AliasesOf[y] ELSE p.group[y] : y \in ks}
           np == [a \in Keys |-> IF a \in as THEN None ELSE p.primary[a]]
           ng == [y \in Keys |-> IF y \in ks THEN {} ELSE p.group[y]]
<1>2. \A x \in Plugins : x.primary = p.primary /\ x.group = p.group =>
        Unregister(x, k) = [x EXCEPT !.primary = np, !.group = ng]
  BY DEF Unregister
<1> HIDE DEF np, ng
<1>3. \A x \in Plugins : LET u == [x EXCEPT !.primary = np, !.group = ng]
                         IN  u.primary = np /\ u.group = ng /\ u.renamed = x.renamed
  BY DEF Plugins
<1> QED BY <1>1, <1>2, <1>3 DEF NamesKept

LEMMA CloseNames ==
  ASSUME NEW p, Sound(p), NEW k \in Keys
  PROVE  NameStep(p, Close(p, k))
<1> DEFINE s == p.session[k]
           hadSubagents == \E a \in Keys : p.sub[a].parent = k
           emptied == [s EXCEPT !.timer = FALSE, !.pending = FALSE, !.stats = NoStats]
           closed == IF s.stats = NoStats THEN s.closed
                     ELSE IF ~hadSubagents THEN NoLineage
                     ELSE [run |-> s.stats.run, rootRun |-> s.stats.rootRun]
           u == [emptied EXCEPT !.root = 0, !.closed = closed]
           f == FinalizeFallback(p, k)
           ended == EndSpan(f, s.root)
           put == [ended EXCEPT !.session[k] = u]
           q == Unregister(put, k)
<1>1. p \in Plugins /\ s \in SessionT
  BY PluginFields DEF Sound
<1>2. /\ emptied.root = s.root /\ u.root = 0 /\ emptied \in SessionT /\ u \in SessionT
  <2>1. s.stats \in StatsT /\ s.closed \in LineageT
    BY <1>1, SessionFields
  <2>2. NoStats \in StatsT /\ NoLineage \in LineageT
    BY DEF NoStats, StatsT, NoLineage, LineageT
  <2>3. closed \in LineageT
    BY <2>1, <2>2 DEF LineageT, StatsT
  <2> HIDE DEF closed, s
  <2>4. emptied \in SessionT /\ emptied.root = s.root
    BY <1>1, <2>2 DEF SessionT
  <2> HIDE DEF emptied
  <2>5. u \in SessionT /\ u.root = 0
    BY <2>3, <2>4 DEF SessionT
  <2> QED BY <2>4, <2>5
<1>3. Close(p, k) = IF s.root = 0 THEN [p EXCEPT !.session[k] = emptied] ELSE q
  BY DEF Close
<1> HIDE DEF emptied, u
<1>5. CASE s.root = 0
  <2> DEFINE e == PutSession(p, k, emptied)
  <2>1. SessionPut(p, e, k, emptied)
    BY <1>1, <1>2, SessionPutFields
  <2> HIDE DEF e
  <2>2. Leaves(p, e)
    BY <1>2, <1>5, <2>1 DEF SessionPut, Leaves, OthersKept, Lives
  <2>3. Close(p, k) = e
    BY <1>3, <1>5 DEF e, PutSession
  <2> QED BY <2>2, <2>3 DEF NameStep
<1>6. CASE s.root # 0
  <2>1. Sound(f) /\ f.session = p.session /\ s.root \in Ids(f)
    <3>1. s.root \in Ids(p)
      BY <1>6 DEF Sound, MapsSound, SessionSound, Holds
    <3> QED BY <3>1, FinalizeSound DEF Reached, Grown
  <2>2. NamesKept(p, f)
    <3> DEFINE i == p.sub[k].span
               x == UnregisterSubagent(EndSpan(p, i), AliasesOf[k])
    <3>1. f = p \/ (i # 0 /\ f = x)
      BY DEF FinalizeFallback
    <3>2. i # 0 => i \in Ids(p)
      BY DEF Sound, MapsSound, SubSound, Holds
    <3>3. AliasesOf[k] \in SUBSET Keys
      BY SpansAssumption
    <3> HIDE DEF f, i
    <3>4. i # 0 => NamesKept(p, x)
      BY <3>2, <3>3, FinishNames
    <3> HIDE DEF x
    <3> QED BY <3>1, <3>4 DEF NamesKept
  <2> HIDE DEF f, s
  <2>3. ended \in Plugins /\ NamesKept(f, ended) /\ ended.session = f.session
    <3>1. f \in Plugins /\ s.root \in 1..Len(f.spans)
      BY <2>1 DEF Sound, Ids
    <3> QED BY <3>1, EndSpanFields
  <2> HIDE DEF ended
  <2>4. /\ put \in Plugins /\ NamesKept(ended, put) /\ put.session[k] = u
        /\ OthersKept(ended, put, k)
    <3>1. put = PutSession(ended, k, u)
      BY DEF PutSession
    <3> HIDE DEF put
    <3> QED BY <1>2, <2>3, <3>1, SessionPutFields DEF SessionPut
  <2> HIDE DEF put
  <2>5. NamesKept(p, put)
    BY <2>2, <2>3, <2>4 DEF NamesKept
  <2>6. NamesKept(Unregister(p, k), q)
    BY <1>1, <2>4, <2>5, UnregisterSame
  <2>7. q.session = put.session
    BY <2>4, UnregisterFields
  <2> HIDE DEF q
  <2>8. Ends(p, q, k)
    BY <1>2, <1>6, <2>1, <2>3, <2>4, <2>6, <2>7 DEF Ends, OthersKept, Lives, s
  <2> QED BY <1>3, <1>6, <2>8 DEF NameStep
<1> QED BY <1>5, <1>6

LEMMA NextNames ==
  ASSUME Sound(plugin), Next
  PROVE  NameStep(plugin, plugin')
<1>1. ASSUME NEW n \in Names, InboundClaim(n) PROVE NameStep(plugin, plugin')
  BY <1>1, ClaimNames
<1>2. ASSUME NEW n \in Names, AgentEnd(n) PROVE NameStep(plugin, plugin')
  <2>1. Canonical(plugin, n) \in Keys
    BY CanonicalKey DEF Sound
  <2> QED BY <1>2, <2>1, CloseNames DEF AgentEnd
<1>3. ASSUME NEW n \in Names, MessageReceived(n) PROVE NameStep(plugin, plugin')
  BY <1>3, MessageNames
<1>4. ASSUME NEW n \in Names, LlmInput(n) PROVE NameStep(plugin, plugin')
  BY <1>4, LlmInputNames
<1>5. ASSUME NEW n \in Names, LlmOutput(n) PROVE NameStep(plugin, plugin')
  BY <1>5, LlmOutputNames
<1>6. ASSUME NEW n \in Names, NEW t \in Tools, BeforeToolCall(n, t)
      PROVE  NameStep(plugin, plugin')
  BY <1>6, BeforeToolNames
<1>7. ASSUME NEW n \in Names, NEW t \in Tools, NEW c \in ChildrenOf(n) \cup {<<>>},
             AfterToolCall(n, t, c)
      PROVE  NameStep(plugin, plugin')
  <2>1. c \in Children \cup {<<>>}
    BY <1>7 DEF ChildrenOf
  <2> QED BY <1>7, <2>1, AfterToolNames
<1>8. ASSUME NEW n \in Names, NEW c \in ChildrenOf(n), SubagentSpawning(n, c)
      PROVE  NameStep(plugin, plugin')
  <2>1. c \in Children
    BY <1>8 DEF ChildrenOf
  <2> QED BY <1>8, <2>1, SpawningNames
<1>9. ASSUME NEW c \in Children, SubagentSpawned(c) PROVE NameStep(plugin, plugin')
  BY <1>9, SpawnedNames
<1>10. ASSUME NEW c \in Children, NEW failed \in BOOLEAN, SubagentEnded(c, failed)
       PROVE  NameStep(plugin, plugin')
  BY <1>10, EndedNames
<1>11. ASSUME NEW k \in Keys, IdleTimeout(k) PROVE NameStep(plugin, plugin')
  BY <1>11, CloseNames DEF IdleTimeout
<1>12. ASSUME NEW k \in Keys, LineageExpires(k) PROVE NameStep(plugin, plugin')
  BY <1>12, ExpiryNames
<1> QED
  BY <1>1, <1>2, <1>3, <1>4, <1>5, <1>6, <1>7, <1>8, <1>9, <1>10, <1>11, <1>12,
     Zenon DEF Next

LEMMA InitAliased ==
  ASSUME Init
  PROVE  Aliased(plugin)
<1>1. /\ \A k \in Keys : plugin.primary[k] = None /\ plugin.group[k] = {}
      /\ \A k \in Keys : plugin.session[k].root = 0
      /\ plugin.renamed = {}
  BY DEF Init, NoSession
<1>2. \A n \in Names : Unnamed(plugin, n)
  BY <1>1, NameElems DEF Unnamed
<1> QED BY <1>1, <1>2 DEF Aliased, Renames, InGroup, GroupsKin, OneKey, Fresh, Called

\* Where names that stand for one session have an alias in common, every event finds
\* the live root of its session under whatever name it uses, unless a subagent was
\* spawned under a name that is not the key of its requester.
THEOREM EveryNameIsRight ==
  ASSUME NamesMeet
  PROVE  Spec => []EveryNameFindsRoot
<1>1. Init => Aliased(plugin)
  BY InitAliased
<1>2. Inv /\ Aliased(plugin) /\ [Next]_vars => Aliased(plugin)'
  <2>1. ASSUME Inv, Aliased(plugin), Next PROVE Aliased(plugin')
    <3>1. NameStep(plugin, plugin') /\ plugin \in Plugins
      BY <2>1, NextNames DEF Inv, Sound
    <3> DEFINE q == plugin'
    <3>2. NameStep(plugin, q)
      BY <3>1
    <3> HIDE DEF q
    <3>3. Aliased(q)
      BY <2>1, <3>1, <3>2, RegisterAliased, TakesAliased, EndsAliased, LeavesAliased
         DEF NameStep
    <3> QED BY <3>3 DEF q
  <2>2. ASSUME Aliased(plugin), UNCHANGED vars PROVE Aliased(plugin)'
    BY <2>2 DEF vars
  <2> QED BY <2>1, <2>2
<1>3. Inv /\ Aliased(plugin) => EveryNameFindsRoot
  BY AliasedFinds DEF Inv, Sound
<1> QED BY <1>1, <1>2, <1>3, Invariance, PTL DEF Spec
===============================================================================
