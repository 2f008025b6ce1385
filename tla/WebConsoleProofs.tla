--------------------------- MODULE WebConsoleProofs ---------------------------
(***************************************************************************)
(* Proofs about WebConsole, page by page, and then of the whole.           *)
(*                                                                         *)
(* Requests are numbered, and a page remembers the number of the last one. *)
(* Of the sessions page and of those with a tree the invariant is that the *)
(* request with that number, while it is under way, is for what is         *)
(* selected: so its answer is, if it comes last.  Of the timeline it is    *)
(* that what is due is in it or is the newest message, and that an entry   *)
(* is appended only if none reads the same (SignatureSays).  Of the polling *)
(* pages it is that no panel is ahead of a request that was not overtaken. *)
(***************************************************************************)
EXTENDS WebConsole, FiniteSetTheorems, SequenceTheorems, TLAPS

-------------------------------------------------------------------------------
(* The sessions page.                                                        *)

\* The last request that is under way was for the session selected now.
AsksMatch == \A r \in asks : r.n = asked /\ activeId # NoOne => r.of = activeId

\* The rows of a session are its events, each once.
RowsAreOwn ==
  \A s \in Sessions : \A i, j \in DOMAIN table[s] :
    SessionOf[table[s][i]] = s /\ (i # j => table[s][i] # table[s][j])

\* An event that is due is shown, or is the newest message and not rendered.
DueKept ==
  \A e \in due :
    \/ \E i \in DOMAIN timeline : LookOf[timeline[i].ev] = LookOf[e]
    \/ "messages" \in changed /\ head # NoOne /\ head.ev = e

SessionsInv ==
  /\ SessionsTypeOK /\ AsksMatch /\ RowsAreOwn
  /\ TimelineOfSelected /\ RepeatsExplained /\ DueKept

LEMMA SessionsInitInv == SessionsInit => SessionsInv
<1> SUFFICES ASSUME SessionsInit PROVE SessionsInv
  OBVIOUS
<1> USE SessionsAssumption DEF SessionsInit
<1>1. table \in [Sessions -> Seq(Events)]
  OBVIOUS
<1>2. SessionsTypeOK
  <2>1. timeline \in Seq(Entry) /\ map \in [Sessions -> Views \cup {"absent"}]
    BY DEF Views
  <2>2. asked \in 0..MaxAsks /\ applied \in 0..asked /\ turns \in 0..MaxTurns
    OBVIOUS
  <2> QED BY <1>1, <2>1, <2>2 DEF SessionsTypeOK, Views
<1>3. AsksMatch /\ RowsAreOwn /\ TimelineOfSelected /\ RepeatsExplained /\ DueKept
  BY DEF AsksMatch, RowsAreOwn, TimelineOfSelected, RepeatsExplained, DueKept
<1> QED BY <1>2, <1>3 DEF SessionsInv

\* What a message that becomes messages[0] does.
LEMMA NewHeadInv ==
  ASSUME SessionsInv, NEW m \in Entry \cup {NoOne}, NewHead(m),
         m # NoOne => (m.form = "cast" => m.ev \in heard'),
         heard \subseteq heard', heard' \subseteq Events,
         table' = table, list' \in Lists \cup {NoOne}, turns' \in 0..MaxTurns,
         UNCHANGED pageKeeps
  PROVE  SessionsInv'
<1> USE SessionsAssumption
<1>1. SessionsTypeOK'
  BY DEF SessionsInv, SessionsTypeOK, NewHead, pageKeeps, Unrendered, Entry
<1>2. AsksMatch' /\ RowsAreOwn' /\ TimelineOfSelected' /\ RepeatsExplained'
  BY DEF SessionsInv, AsksMatch, RowsAreOwn, TimelineOfSelected, RepeatsExplained,
         pageKeeps
<1>3. DueKept'
  BY DEF SessionsInv, SessionsTypeOK, DueKept, NewHead, Unrendered, pageKeeps, Entry
<1> QED BY <1>1, <1>2, <1>3 DEF SessionsInv

\* A row is stored.
LEMMA StoreEventInv ==
  ASSUME SessionsInv, NEW e \in Events, StoreEvent(e)
  PROVE  SessionsInv'
<1> USE SessionsAssumption
<1> DEFINE s == SessionOf[e]
<1>1. /\ s \in Sessions /\ table[s] \in Seq(Events)
      /\ table' = [table EXCEPT ![s] = Append(@, e)]
      /\ UNCHANGED <<heard, head, list, changed, due, turns, pageKeeps>>
  BY DEF SessionsInv, SessionsTypeOK, StoreEvent
<1>2. SessionsTypeOK'
  <2>1. table' \in [Sessions -> Seq(Events)]
    BY <1>1 DEF SessionsInv, SessionsTypeOK
  <2>2. \A t \in Sessions : Len(table[t]) <= Len(table'[t])
    BY <1>1 DEF SessionsInv, SessionsTypeOK
  <2>3. \A r \in asks : r.from <= Len(table'[r.of])
    <3> TAKE r \in asks
    <3>1. r.of \in Sessions /\ r.from \in Nat /\ r.from <= Len(table[r.of])
      BY DEF SessionsInv, SessionsTypeOK
    <3>2. Len(table[r.of]) \in Nat /\ Len(table'[r.of]) \in Nat
      BY <3>1, <2>1 DEF SessionsInv, SessionsTypeOK
    <3> QED BY <3>1, <3>2, <2>2
  <2> QED BY <1>1, <2>1, <2>3 DEF SessionsInv, SessionsTypeOK, pageKeeps
<1>3. RowsAreOwn'
  <2> SUFFICES ASSUME NEW t \in Sessions, NEW i \in DOMAIN table'[t],
                      NEW j \in DOMAIN table'[t]
               PROVE  /\ SessionOf[table'[t][i]] = t
                      /\ i # j => table'[t][i] # table'[t][j]
    BY DEF RowsAreOwn
  <2>1. \A k, l \in DOMAIN table[t] :
          SessionOf[table[t][k]] = t /\ (k # l => table[t][k] # table[t][l])
    BY DEF SessionsInv, RowsAreOwn
  <2>2. \A k \in DOMAIN table[s] : table[s][k] # e
    BY DEF StoreEvent
  <2>3. CASE t = s
    <3>1. /\ DOMAIN table[t] = 1..Len(table[t]) /\ Len(table[t]) \in Nat
          /\ table'[t] = Append(table[t], e)
          /\ DOMAIN table'[t] = 1..(Len(table[t]) + 1)
          /\ \A k \in 1..Len(table[t]) : table'[t][k] = table[t][k]
          /\ table'[t][Len(table[t]) + 1] = e
      BY <1>1, <2>3 DEF SessionsInv, SessionsTypeOK
    <3> QED BY <2>1, <2>2, <2>3, <3>1
  <2>4. CASE t # s
    BY <1>1, <2>1, <2>4 DEF SessionsInv, SessionsTypeOK
  <2> QED BY <2>3, <2>4
<1>4. AsksMatch' /\ TimelineOfSelected' /\ RepeatsExplained' /\ DueKept'
  BY <1>1 DEF SessionsInv, AsksMatch, TimelineOfSelected, RepeatsExplained,
              DueKept, pageKeeps
<1> QED BY <1>2, <1>3, <1>4 DEF SessionsInv

\* What a request for a timeline does to the requests under way.
LEMMA LoadTimelineAsks ==
  ASSUME SessionsInv, NEW s \in Sessions, LoadTimeline(s), UNCHANGED table
  PROVE  /\ asked' \in 0..MaxAsks /\ asked' > asked
         /\ asks' \subseteq [n : 1..asked', of : Sessions, from : Nat]
         /\ \A r \in asks' : r.from <= Len(table[r.of])
         /\ activeId' \in Sessions /\ loading' = TRUE
         /\ AsksMatch'
<1> USE SessionsAssumption
<1>1. /\ asked \in 0..MaxAsks /\ asks \subseteq [n : 1..asked, of : Sessions, from : Nat]
      /\ Len(table[s]) \in Nat
      /\ \A r \in asks : r.from <= Len(table[r.of])
  BY DEF SessionsInv, SessionsTypeOK
<1>2. /\ activeId' = s /\ loading' = TRUE /\ asked' = asked + 1
      /\ asks' = asks \cup {[n |-> asked + 1, of |-> s, from |-> Len(table[s])]}
      /\ asked < MaxAsks
  BY DEF LoadTimeline
<1>3. asks' \subseteq [n : 1..asked', of : Sessions, from : Nat]
  BY <1>1, <1>2
<1>4. AsksMatch'
  BY <1>1, <1>2 DEF AsksMatch
<1> QED BY <1>1, <1>2, <1>3, <1>4

\* The three ways to choose what the page shows.
LEMMA ChooseInv ==
  ASSUME SessionsInv,
         \/ \E s \in Sessions : SelectSession(s)
         \/ \E v \in Views : SelectView(v)
         \/ \E x \in Agents \cup {NoOne} : SelectAgent(x)
  PROVE  SessionsInv'
<1> USE SessionsAssumption
<1>1. ASSUME NEW s \in Sessions, SelectSession(s)
      PROVE  SessionsInv'
  <2>1. LoadTimeline(s) /\ UNCHANGED <<view, agent, turns, feedKeeps>>
        /\ changed' = changed \cup {"state"}
    BY <1>1 DEF SelectSession
  <2>2. /\ asked' \in 0..MaxAsks /\ asked' > asked
        /\ asks' \subseteq [n : 1..asked', of : Sessions, from : Nat]
        /\ \A r \in asks' : r.from <= Len(table[r.of])
        /\ activeId' \in Sessions /\ loading' = TRUE
        /\ AsksMatch'
    BY <2>1, LoadTimelineAsks DEF feedKeeps
  <2>3. SessionsTypeOK'
    BY <2>1, <2>2 DEF SessionsInv, SessionsTypeOK, feedKeeps
  <2> QED
    BY <2>1, <2>2, <2>3 DEF SessionsInv, RowsAreOwn, TimelineOfSelected,
       RepeatsExplained, DueKept, feedKeeps
<1>2. ASSUME NEW v \in Views, SelectView(v)
      PROVE  SessionsInv'
  <2>1. SessionsTypeOK'
    BY <1>2 DEF SessionsInv, SessionsTypeOK, SelectView, Turn, feedKeeps
  <2> QED
    BY <1>2, <2>1 DEF SessionsInv, AsksMatch, RowsAreOwn, TimelineOfSelected,
       RepeatsExplained, DueKept, SelectView, feedKeeps
<1>3. ASSUME NEW x \in Agents \cup {NoOne}, SelectAgent(x)
      PROVE  SessionsInv'
  <2>1. SessionsTypeOK'
    BY <1>3 DEF SessionsInv, SessionsTypeOK, SelectAgent, Turn, feedKeeps
  <2> QED
    BY <1>3, <2>1 DEF SessionsInv, AsksMatch, RowsAreOwn, TimelineOfSelected,
       RepeatsExplained, DueKept, SelectAgent, feedKeeps
<1> QED BY <1>1, <1>2, <1>3

\* The rows of a session, as an answer lists them.
LEMMA RowsOfRows ==
  ASSUME SessionsInv, NEW s \in Sessions, NEW n \in 0..Len(table[s])
  PROVE  /\ RowsOf(s, n) \in Seq(Entry)
         /\ DOMAIN RowsOf(s, n) = 1..n
         /\ \A i \in 1..n : /\ RowsOf(s, n)[i] = [ev |-> table[s][i], form |-> "row"]
                            /\ SessionOf[table[s][i]] = s
         /\ \A i, j \in 1..n : i # j => table[s][i] # table[s][j]
<1> USE SessionsAssumption
<1>1. table[s] \in Seq(Events) /\ DOMAIN table[s] = 1..Len(table[s])
      /\ Len(table[s]) \in Nat
  BY DEF SessionsInv, SessionsTypeOK
<1>2. \A i, j \in 1..n : SessionOf[table[s][i]] = s
                         /\ (i # j => table[s][i] # table[s][j])
  BY <1>1 DEF SessionsInv, RowsAreOwn
<1>3. \A i \in 1..n : [ev |-> table[s][i], form |-> "row"] \in Entry
  BY <1>1 DEF Entry
<1>4. RowsOf(s, n) \in [1..n -> Entry]
  BY <1>3 DEF RowsOf
<1>5. n \in Nat
  BY <1>1
<1>6. RowsOf(s, n) \in Seq(Entry)
  BY <1>4, <1>5, SeqDef
<1> QED BY <1>2, <1>4, <1>6 DEF RowsOf

\* A request for a timeline ends.
LEMMA TimelineAnsweredInv ==
  ASSUME SessionsInv, NEW r \in asks, TimelineAnswered(r)
  PROVE  SessionsInv'
<1> USE SessionsAssumption
<1>1. /\ r.n \in 1..asked /\ r.of \in Sessions /\ r.from \in Nat
      /\ Len(table[r.of]) \in Nat /\ asked \in 0..MaxAsks
  BY DEF SessionsInv, SessionsTypeOK
<1>2. PICK n \in r.from..Len(table[r.of]) : timeline' = RowsOf(r.of, n)
  BY DEF TimelineAnswered
<1>3. n \in 0..Len(table[r.of])
  BY <1>1
<1>4. /\ timeline' \in Seq(Entry) /\ DOMAIN timeline' = 1..n
      /\ \A i \in 1..n : /\ timeline'[i] = [ev |-> table[r.of][i], form |-> "row"]
                         /\ SessionOf[table[r.of][i]] = r.of
      /\ \A i, j \in 1..n : i # j => table[r.of][i] # table[r.of][j]
  BY <1>1, <1>2, <1>3, RowsOfRows
<1>5. /\ asks' = asks \ {r} /\ loading' = FALSE /\ applied' = r.n
      /\ due' = due \cap Unrendered
      /\ UNCHANGED <<table, heard, head, list, changed, map, view, agent, activeId,
                     was, asked, turns>>
  BY DEF TimelineAnswered
<1>6. SessionsTypeOK'
  <2>1. /\ asks' \subseteq [n : 1..asked', of : Sessions, from : Nat]
        /\ \A q \in asks' : q.from <= Len(table'[q.of])
    BY <1>5 DEF SessionsInv, SessionsTypeOK
  <2>2. asked' \in 0..MaxAsks /\ applied' \in 0..asked' /\ due' \subseteq heard'
    BY <1>1, <1>5 DEF SessionsInv, SessionsTypeOK
  <2> QED BY <1>4, <1>5, <2>1, <2>2 DEF SessionsInv, SessionsTypeOK
<1>7. AsksMatch' /\ RowsAreOwn'
  BY <1>5 DEF SessionsInv, AsksMatch, RowsAreOwn
<1>8. TimelineOfSelected'
  <2> SUFFICES ASSUME activeId # NoOne, r.n = asked, NEW i \in 1..n
               PROVE  SessionOf[timeline'[i].ev] = activeId
    BY <1>4, <1>5 DEF TimelineOfSelected
  <2>1. r.of = activeId
    BY DEF SessionsInv, AsksMatch
  <2> QED BY <1>4, <2>1
<1>9. RepeatsExplained'
  BY <1>4 DEF RepeatsExplained
<1>10. DueKept'
  BY <1>5 DEF DueKept, Unrendered
<1> QED BY <1>6, <1>7, <1>8, <1>9, <1>10 DEF SessionsInv

LEMMA TimelineFailsInv ==
  ASSUME SessionsInv, NEW r \in asks, TimelineFails(r)
  PROVE  SessionsInv'
<1>1. r.n \in 1..asked /\ asked \in 0..MaxAsks
  BY DEF SessionsInv, SessionsTypeOK
<1>2. SessionsTypeOK'
  <2>1. /\ asks' \subseteq [n : 1..asked', of : Sessions, from : Nat]
        /\ \A q \in asks' : q.from <= Len(table'[q.of])
    BY DEF SessionsInv, SessionsTypeOK, TimelineFails
  <2>2. applied' \in 0..asked' /\ due' \subseteq heard' /\ timeline' \in Seq(Entry)
    BY <1>1 DEF SessionsInv, SessionsTypeOK, TimelineFails
  <2> QED BY <2>1, <2>2 DEF SessionsInv, SessionsTypeOK, TimelineFails
<1> QED
  BY <1>2 DEF SessionsInv, AsksMatch, RowsAreOwn, TimelineOfSelected,
     RepeatsExplained, DueKept, Unrendered, TimelineFails

\* Entries that read alike are of events that look alike, and the same event
\* reads the same twice unless it has two forms and a fraction of a second.
LEMMA SignatureSays ==
  ASSUME NEW x \in Entry, NEW y \in Entry
  PROVE  /\ Signature(x) = Signature(y) => LookOf[x.ev] = LookOf[y.ev]
         /\ x.ev = y.ev /\ (x.form = y.form \/ x.ev \in WholeSecond) =>
              Signature(x) = Signature(y)
<1>1. x.form \in {"cast", "row"} /\ y.form \in {"cast", "row"}
  BY DEF Entry
<1>2. ASSUME Signature(x) = Signature(y)
      PROVE  LookOf[x.ev] = LookOf[y.ev]
  <2>1. CASE x.form = "row" /\ x.ev \notin WholeSecond
    BY <1>2, <2>1 DEF Signature
  <2>2. CASE y.form = "row" /\ y.ev \notin WholeSecond
    BY <1>2, <2>2 DEF Signature
  <2>3. CASE /\ ~(x.form = "row" /\ x.ev \notin WholeSecond)
             /\ ~(y.form = "row" /\ y.ev \notin WholeSecond)
    BY <1>2, <2>3 DEF Signature
  <2> QED BY <2>1, <2>2, <2>3
<1>3. ASSUME x.ev = y.ev, x.form = y.form \/ x.ev \in WholeSecond
      PROVE  Signature(x) = Signature(y)
  BY <1>3 DEF Signature
<1> QED BY <1>2, <1>3

\* The timeline after a render: the newest message is appended or it is not.
LEMMA RenderTimeline ==
  ASSUME SessionsInv, Render
  PROVE  /\ ActiveSession \in Sessions \cup {NoOne}
         /\ ActiveSession # NoOne => ActiveSession = activeId
         /\ \/ timeline' = timeline
            \/ /\ Concerns(ActiveSession) /\ ~Shows(head)
               /\ head \in Entry
               /\ timeline' = Append(timeline, head)
         /\ "messages" \in changed /\ Concerns(ActiveSession) =>
              Shows(head) \/ timeline' = Append(timeline, head)
<1>1. ActiveSession \in Sessions \cup {NoOne}
  BY DEF ActiveSession, Displayed
<1>2. ActiveSession # NoOne => ActiveSession = activeId
  BY DEF ActiveSession
<1>3. Concerns(ActiveSession) => head \in Entry
  BY DEF Concerns, SessionsInv, SessionsTypeOK
<1>4. timeline' = IF /\ changed \cap {"messages", "map"} # {} \/ ActiveSession # was
                     /\ Concerns(ActiveSession) /\ ~Shows(head)
                  THEN Append(timeline, head) ELSE timeline
  BY DEF Render
<1> QED BY <1>1, <1>2, <1>3, <1>4

LEMMA RenderInv ==
  ASSUME SessionsInv, Render
  PROVE  SessionsInv'
<1> USE SessionsAssumption
<1>1. /\ ActiveSession \in Sessions \cup {NoOne}
      /\ ActiveSession # NoOne => ActiveSession = activeId
      /\ \/ timeline' = timeline
         \/ /\ Concerns(ActiveSession) /\ ~Shows(head)
            /\ head \in Entry
            /\ timeline' = Append(timeline, head)
      /\ "messages" \in changed /\ Concerns(ActiveSession) =>
           Shows(head) \/ timeline' = Append(timeline, head)
  BY RenderTimeline
<1>2. /\ timeline \in Seq(Entry) /\ Len(timeline) \in Nat
      /\ DOMAIN timeline = 1..Len(timeline)
      /\ \A i \in DOMAIN timeline : timeline[i] \in Entry
  BY DEF SessionsInv, SessionsTypeOK
<1>3. /\ timeline' \in Seq(Entry)
      /\ DOMAIN timeline \subseteq DOMAIN timeline'
      /\ \A i \in DOMAIN timeline : timeline'[i] = timeline[i]
      /\ \A i \in DOMAIN timeline' \ DOMAIN timeline :
           /\ i = Len(timeline) + 1 /\ timeline'[i] = head
           /\ Concerns(ActiveSession) /\ ~Shows(head) /\ head \in Entry
  BY <1>1, <1>2
<1>4. /\ UNCHANGED <<table, heard, head, list, view, agent, applied, turns>>
      /\ was' = ActiveSession
      /\ due' = {e \in due : SessionOf[e] = ActiveSession}
  BY DEF Render
<1>5. /\ asked' \in 0..MaxAsks /\ asked' >= asked
      /\ asks' \subseteq [n : 1..asked', of : Sessions, from : Nat]
      /\ \A r \in asks' : r.from <= Len(table[r.of])
      /\ activeId' \in Sessions \cup {NoOne} /\ loading' \in BOOLEAN
      /\ AsksMatch'
      /\ \/ UNCHANGED <<activeId, loading, asked>>
         \/ loading' = TRUE
  <2>1. CASE activeId = NoOne /\ Displayed # {}
    <3>1. PICK s \in Displayed : LoadTimeline(s)
      BY <2>1 DEF Render
    <3>2. s \in Sessions
      BY DEF Displayed
    <3>3. asked \in 0..MaxAsks
      BY DEF SessionsInv, SessionsTypeOK
    <3>4. UNCHANGED table
      BY <1>4
    <3>5. /\ asked' \in 0..MaxAsks /\ asked' > asked
          /\ asks' \subseteq [n : 1..asked', of : Sessions, from : Nat]
          /\ \A r \in asks' : r.from <= Len(table[r.of])
          /\ activeId' \in Sessions /\ loading' = TRUE
          /\ AsksMatch'
      BY <3>1, <3>2, <3>4, LoadTimelineAsks
    <3> QED BY <3>3, <3>5
  <2>2. CASE ~(activeId = NoOne /\ Displayed # {})
    <3>1. UNCHANGED <<activeId, loading, asked, asks>>
      BY <2>2 DEF Render
    <3> QED BY <3>1 DEF SessionsInv, SessionsTypeOK, AsksMatch
  <2> QED BY <2>1, <2>2
<1>6. SessionsTypeOK'
  <2>1. map' \in [Sessions -> Views \cup {"absent"}]
    BY DEF Render, SessionsInv, SessionsTypeOK, Views
  <2>2. changed' \subseteq {"messages", "map", "state"}
    BY DEF Render
  <2>3. applied' \in 0..asked' /\ due' \subseteq heard'
    BY <1>4, <1>5 DEF SessionsInv, SessionsTypeOK
  <2> QED
    BY <1>1, <1>3, <1>4, <1>5, <2>1, <2>2, <2>3 DEF SessionsInv, SessionsTypeOK
<1>7. RowsAreOwn'
  BY <1>4 DEF SessionsInv, RowsAreOwn
<1>8. TimelineOfSelected'
  <2> SUFFICES ASSUME ~loading, activeId # NoOne, applied = asked,
                      UNCHANGED <<activeId, loading, asked>>, NEW i \in DOMAIN timeline'
               PROVE  SessionOf[timeline'[i].ev] = activeId
    BY <1>4, <1>5 DEF TimelineOfSelected
  <2>1. CASE i \in DOMAIN timeline
    BY <1>3, <2>1 DEF SessionsInv, TimelineOfSelected
  <2>2. CASE i \notin DOMAIN timeline
    BY <1>1, <1>3, <2>2 DEF Concerns
  <2> QED BY <2>1, <2>2
<1>9. RepeatsExplained'
  <2> SUFFICES ASSUME NEW i \in DOMAIN timeline', NEW j \in DOMAIN timeline',
                      i < j, timeline'[i].ev = timeline'[j].ev
               PROVE  /\ timeline'[i].form # timeline'[j].form
                      /\ timeline'[i].ev \notin WholeSecond
    BY <1>4 DEF RepeatsExplained
  <2>1. CASE j \in DOMAIN timeline
    <3>1. i \in DOMAIN timeline
      BY <1>2, <1>3, <2>1
    <3> QED BY <1>3, <2>1, <3>1 DEF SessionsInv, RepeatsExplained
  <2>2. CASE j \notin DOMAIN timeline
    <3>1. i \in DOMAIN timeline
      BY <1>2, <1>3, <2>2
    <3>2. Signature(timeline[i]) # Signature(head)
      BY <1>3, <2>2, <3>1 DEF Shows
    <3> QED BY <1>2, <1>3, <2>2, <3>1, <3>2, SignatureSays
  <2> QED BY <2>1, <2>2
<1>10. DueKept'
  <2> SUFFICES ASSUME NEW e \in due, SessionOf[e] = ActiveSession
               PROVE  \E i \in DOMAIN timeline' :
                        LookOf[timeline'[i].ev] = LookOf[e]
    BY <1>4 DEF DueKept
  <2>1. CASE \E i \in DOMAIN timeline : LookOf[timeline[i].ev] = LookOf[e]
    BY <1>3, <2>1
  <2>2. CASE "messages" \in changed /\ head # NoOne /\ head.ev = e
    <3>1. e \in Events /\ head \in Entry /\ SessionOf[e] \in Sessions
      BY <2>2 DEF SessionsInv, SessionsTypeOK
    <3>2. Concerns(ActiveSession)
      BY <2>2, <3>1 DEF Concerns
    <3>3. CASE Shows(head)
      <4>1. PICK i \in DOMAIN timeline : Signature(timeline[i]) = Signature(head)
        BY <3>3 DEF Shows
      <4>2. LookOf[timeline[i].ev] = LookOf[head.ev]
        BY <1>2, <3>1, <4>1, SignatureSays
      <4> QED BY <1>3, <2>2, <4>2
    <3>4. CASE timeline' = Append(timeline, head)
      BY <1>2, <2>2, <3>4
    <3> QED BY <1>1, <2>2, <3>2, <3>3, <3>4
  <2> QED BY <2>1, <2>2 DEF SessionsInv, DueKept
<1> QED BY <1>5, <1>6, <1>7, <1>8, <1>9, <1>10 DEF SessionsInv

LEMMA SessionsNextInv == SessionsInv /\ [SessionsNext]_sessionsVars => SessionsInv'
<1> SUFFICES ASSUME SessionsInv, [SessionsNext]_sessionsVars
             PROVE  SessionsInv'
  OBVIOUS
<1> USE SessionsAssumption
<1>1. ASSUME NEW e \in Events, StoreEvent(e)
      PROVE  SessionsInv'
  BY <1>1, StoreEventInv
<1>2. ASSUME NEW e \in Events, HearEvent(e)
      PROVE  SessionsInv'
  <2> DEFINE m == [ev |-> e, form |-> "cast"]
  <2>1. /\ heard' = heard \cup {e} /\ NewHead(m)
        /\ UNCHANGED <<table, list, turns, pageKeeps>>
    BY <1>2 DEF HearEvent
  <2>2. m \in Entry \cup {NoOne} /\ m.ev = e
    BY DEF Entry
  <2>3. heard' \subseteq Events /\ heard \subseteq heard'
        /\ list' \in Lists \cup {NoOne} /\ turns' \in 0..MaxTurns
    BY <2>1 DEF SessionsInv, SessionsTypeOK
  <2> HIDE DEF m
  <2> QED BY <2>1, <2>2, <2>3, NewHeadInv
<1>3. ASSUME NEW l \in Lists, HearList(l)
      PROVE  SessionsInv'
  <2>1. /\ list' = l /\ NewHead(NoOne) /\ UNCHANGED <<table, heard, pageKeeps>>
        /\ turns' \in 0..MaxTurns
    BY <1>3 DEF HearList, Turn, SessionsInv, SessionsTypeOK
  <2>2. heard' \subseteq Events
    BY <2>1 DEF SessionsInv, SessionsTypeOK
  <2> QED BY <2>1, <2>2, NewHeadInv
<1>4. ASSUME HearOther
      PROVE  SessionsInv'
  <2>1. NewHead(NoOne) /\ UNCHANGED <<table, heard, list, turns, pageKeeps>>
    BY <1>4 DEF HearOther
  <2>2. heard' \subseteq Events /\ list' \in Lists \cup {NoOne}
        /\ turns' \in 0..MaxTurns
    BY <2>1 DEF SessionsInv, SessionsTypeOK
  <2> QED BY <2>1, <2>2, NewHeadInv
<1>5. ASSUME HearSnapshot
      PROVE  SessionsInv'
  <2>1. /\ UNCHANGED <<table, heard, list, pageKeeps>>
        /\ turns' \in 0..MaxTurns
        /\ heard' \subseteq Events /\ list' \in Lists \cup {NoOne}
    BY <1>5 DEF HearSnapshot, Turn, SessionsInv, SessionsTypeOK
  <2>2. PICK s \in Sessions : \E i \in DOMAIN table[s] :
          NewHead([ev |-> table[s][i], form |-> "row"])
    BY <1>5 DEF HearSnapshot
  <2>5. PICK i \in DOMAIN table[s] : NewHead([ev |-> table[s][i], form |-> "row"])
    BY <2>2
  <2> DEFINE m == [ev |-> table[s][i], form |-> "row"]
  <2>3. m \in Entry \cup {NoOne} /\ m.form # "cast"
    BY DEF SessionsInv, SessionsTypeOK, Entry
  <2>4. NewHead(m)
    BY <2>5
  <2> HIDE DEF m
  <2> QED BY <2>1, <2>3, <2>4, NewHeadInv
<1>6. ASSUME NEW r \in asks, TimelineAnswered(r) \/ TimelineFails(r)
      PROVE  SessionsInv'
  BY <1>6, TimelineAnsweredInv, TimelineFailsInv
<1>7. CASE UNCHANGED sessionsVars
  BY <1>7 DEF sessionsVars, SessionsInv, SessionsTypeOK, AsksMatch, RowsAreOwn,
     TimelineOfSelected, RepeatsExplained, DueKept
<1> QED
  BY <1>1, <1>2, <1>3, <1>4, <1>5, <1>6, <1>7, RenderInv, ChooseInv DEF SessionsNext

-------------------------------------------------------------------------------
(* The pages with a tree.                                                    *)

\* The last request that is under way is for the run selected now.
QueriesMatch == \A q \in queries : q.n = queried => q.of = selected

TraceInv == TraceTypeOK /\ QueriesMatch /\ TreeOfSelected

LEMMA TraceInitInv == TraceInit \/ TraceRests => TraceInv
<1> SUFFICES ASSUME TraceInit \/ TraceRests PROVE TraceInv
  OBVIOUS
<1> USE TraceAssumption
<1>1. /\ page \in Pages /\ listing \in {"asked", "answered"} /\ listed = {}
      /\ selected = 0 /\ tree = NoTree /\ loadingTree = FALSE
      /\ queries = {} /\ queried = 0 /\ answered = 0
      /\ crashed = FALSE /\ errors = {}
  BY DEF TraceInit, TraceRests, Pages
<1>2. Cardinality(listed) <= ListLimit
  BY <1>1, FS_EmptySet
<1>3. tree.of = 0 /\ tree.has = {}
  BY <1>1 DEF NoTree
<1>4. TraceTypeOK
  <2>1. queried \in 0..MaxSelects /\ answered \in 0..queried
        /\ errors \subseteq {"tree", "bloat", "costs"}
    BY <1>1
  <2>2. queries \subseteq [n : 1..queried, of : Runs] /\ listed \subseteq Runs
    BY <1>1
  <2>3. tree.has \subseteq SpansOf(spans) /\ tree.of \in Runs \cup {0}
    BY <1>3
  <2>4. selected \in Runs \cup {0} /\ loadingTree \in BOOLEAN /\ crashed \in BOOLEAN
    BY <1>1
  <2> QED BY <1>1, <1>2, <2>1, <2>2, <2>3, <2>4 DEF TraceTypeOK
<1>5. QueriesMatch /\ TreeOfSelected
  BY <1>1, <1>3 DEF QueriesMatch, TreeOfSelected
<1> QED BY <1>4, <1>5 DEF TraceInv

\* What a request for a tree does to the requests under way.
LEMMA QueryTreeInv ==
  ASSUME TraceInv, NEW r \in Runs, QueryTree(r),
         listed' \subseteq Runs, Cardinality(listed') <= ListLimit,
         listing' \in {"asked", "answered"},
         UNCHANGED <<page, kin, spans, tree, answered, crashed, errors>>
  PROVE  TraceInv'
<1> USE TraceAssumption
<1>1. /\ selected' = r /\ loadingTree' = TRUE /\ queried' = queried + 1
      /\ queries' = queries \cup {[n |-> queried + 1, of |-> r]}
      /\ queried' \in 0..MaxSelects /\ queried \in 0..MaxSelects
      /\ answered' \in 0..queried'
  BY DEF QueryTree, TraceInv, TraceTypeOK
<1>2. queries \subseteq [n : 1..queried, of : Runs]
  BY DEF TraceInv, TraceTypeOK
<1>3. queries' \subseteq [n : 1..queried', of : Runs]
  BY <1>1, <1>2
<1>4. QueriesMatch'
  BY <1>1, <1>2 DEF QueriesMatch
<1> QED BY <1>1, <1>3, <1>4 DEF TraceInv, TraceTypeOK, TreeOfSelected

\* A list holds no more runs than the limit.
LEMMA ListFits ==
  ASSUME NEW last \in 0..MaxRun
  PROVE  LET l == {r \in 1..last : last - r < ListLimit} IN
         l \subseteq Runs /\ Cardinality(l) <= ListLimit
<1> USE TraceAssumption
<1> DEFINE l == {r \in 1..last : last - r < ListLimit}
           window == (last - ListLimit + 1)..last
<1>1. l \subseteq window /\ l \subseteq Runs
  BY DEF Runs
<1>2. IsFiniteSet(window) /\ Cardinality(window) = ListLimit
  <2>1. last - ListLimit + 1 \in Int /\ last \in Int /\ last - ListLimit + 1 <= last
    OBVIOUS
  <2> QED BY <2>1, FS_Interval
<1> HIDE DEF window
<1>3. Cardinality(l) <= Cardinality(window)
  BY <1>1, <1>2, FS_Subset
<1> QED BY <1>1, <1>2, <1>3

LEMMA TraceNextInv == TraceInv /\ [TraceNext]_traceVars => TraceInv'
<1> SUFFICES ASSUME TraceInv, [TraceNext]_traceVars
             PROVE  TraceInv'
  OBVIOUS
<1> USE TraceAssumption
<1>1. ASSUME NEW last \in 0..MaxRun, ListArrives(last)
      PROVE  TraceInv'
  <2>1. listed' \subseteq Runs /\ Cardinality(listed') <= ListLimit
    BY <1>1, ListFits DEF ListArrives
  <2>2. /\ listing' = "answered"
        /\ UNCHANGED <<page, kin, spans, tree, answered, crashed, errors>>
    BY <1>1 DEF ListArrives
  <2>3. CASE last = 0
    <3>1. UNCHANGED <<selected, loadingTree, queried, queries>>
      BY <1>1, <2>3 DEF ListArrives
    <3> QED
      BY <2>1, <2>2, <3>1 DEF TraceInv, TraceTypeOK, QueriesMatch, TreeOfSelected
  <2>4. CASE last # 0
    <3>1. PICK r \in listed' : QueryTree(r)
      BY <1>1, <2>4 DEF ListArrives
    <3> QED BY <2>1, <2>2, <3>1, QueryTreeInv
  <2> QED BY <2>3, <2>4
<1>2. CASE ListFails
  BY <1>2 DEF ListFails, TraceInv, TraceTypeOK, QueriesMatch, TreeOfSelected
<1>b. ASSUME NEW last \in 0..MaxRun, NEW why \in {"bloat", "costs"},
             CostThrows(last, why)
      PROVE  TraceInv'
  <2>1. listed' \subseteq Runs /\ Cardinality(listed') <= ListLimit
    BY <1>b, ListFits DEF CostThrows
  <2>2. /\ page = "cost" /\ listing' = "answered" /\ errors' = errors \cup {why}
        /\ crashed' \in BOOLEAN
        /\ UNCHANGED <<page, kin, spans, selected, tree, loadingTree, queries, queried,
                       answered>>
    BY <1>b DEF CostThrows
  <2>3. TraceTypeOK'
    BY <2>1, <2>2 DEF TraceInv, TraceTypeOK, SpansOf
  <2>4. QueriesMatch' /\ TreeOfSelected'
    BY <2>2 DEF TraceInv, QueriesMatch, TreeOfSelected
  <2> QED BY <2>3, <2>4 DEF TraceInv
<1>3. ASSUME NEW r \in Runs, SelectRun(r) \/ FollowLink(r)
      PROVE  TraceInv'
  <2>1. /\ QueryTree(r)
        /\ UNCHANGED <<page, kin, spans, listing, listed, tree, answered, crashed, errors>>
    BY <1>3 DEF FollowLink, SelectRun
  <2>2. /\ listed' \subseteq Runs /\ Cardinality(listed') <= ListLimit
        /\ listing' \in {"asked", "answered"}
    BY <2>1 DEF TraceInv, TraceTypeOK
  <2> QED BY <2>1, <2>2, QueryTreeInv
<1>4. ASSUME NEW q \in queries, TreeArrives(q)
      PROVE  TraceInv'
  <2>1. q.n \in 1..queried /\ q.of \in Runs
    BY DEF TraceInv, TraceTypeOK
  <2>2. PICK has \in Stored : tree' = [of |-> q.of, has |-> has]
    BY <1>4 DEF TreeArrives
  <2>3. tree'.of = q.of /\ tree'.has \subseteq SpansOf(spans)
    BY <2>2 DEF Stored
  <2>4. /\ queries' = queries \ {q} /\ answered' = q.n /\ loadingTree' = FALSE
        /\ UNCHANGED <<page, kin, spans, listing, listed, selected, queried, crashed, errors>>
    BY <1>4 DEF TreeArrives
  <2>5. q.n = queried => q.of = selected
    BY DEF TraceInv, QueriesMatch
  <2>6. TraceTypeOK'
    <3>1. queries' \subseteq [n : 1..queried', of : Runs] /\ answered' \in 0..queried'
      BY <2>1, <2>4 DEF TraceInv, TraceTypeOK
    <3>2. tree'.of \in Runs \cup {0} /\ tree'.has \subseteq SpansOf(spans')
      BY <2>1, <2>3, <2>4 DEF SpansOf
    <3> QED BY <2>4, <3>1, <3>2 DEF TraceInv, TraceTypeOK
  <2> QED
    BY <2>3, <2>4, <2>5, <2>6 DEF TraceInv, QueriesMatch, TreeOfSelected
<1>5. ASSUME NEW q \in queries, TreeError(q)
      PROVE  TraceInv'
  <2>1. q.n \in 1..queried /\ errors \subseteq {"tree", "bloat", "costs"}
    BY DEF TraceInv, TraceTypeOK
  <2>2. /\ queries' = queries \ {q} /\ answered' = q.n
        /\ errors' = errors \cup {"tree"}
        /\ tree'.of = 0 /\ tree'.has = {} /\ loadingTree' = FALSE
        /\ crashed' = (page = "trace")
        /\ UNCHANGED <<page, kin, spans, listing, listed, selected, queried>>
    BY <1>5 DEF TreeError, NoTree
  <2>3. TraceTypeOK'
    <3>1. queries' \subseteq [n : 1..queried', of : Runs] /\ answered' \in 0..queried'
          /\ crashed' \in BOOLEAN /\ errors' \subseteq {"tree", "bloat", "costs"}
      BY <2>1, <2>2 DEF TraceInv, TraceTypeOK
    <3>2. tree'.of \in Runs \cup {0} /\ tree'.has \subseteq SpansOf(spans')
      BY <2>2
    <3> QED BY <2>2, <3>1, <3>2 DEF TraceInv, TraceTypeOK
  <2>4. QueriesMatch'
    BY <2>2 DEF TraceInv, QueriesMatch
  <2>5. TreeOfSelected'
    <3>1. crashed' => page = "trace"
      BY <2>2, Zenon
    <3> QED BY <2>1, <2>2, <3>1 DEF TreeOfSelected
  <2> QED BY <2>3, <2>4, <2>5 DEF TraceInv
<1>6. ASSUME NEW q \in queries, TreeFails(q)
      PROVE  TraceInv'
  <2>1. q.n \in 1..queried /\ queried \in Nat
    BY DEF TraceInv, TraceTypeOK
  <2>2. /\ queries' = queries \ {q} /\ answered' = 0 /\ loadingTree' = FALSE
        /\ UNCHANGED <<page, kin, spans, listing, listed, selected, tree, queried,
                       crashed, errors>>
    BY <1>6 DEF TreeFails
  <2>3. TraceTypeOK'
    <3>1. queries' \subseteq [n : 1..queried', of : Runs] /\ answered' \in 0..queried'
      BY <2>1, <2>2 DEF TraceInv, TraceTypeOK
    <3>2. tree'.has \subseteq SpansOf(spans')
      BY <2>2 DEF TraceInv, TraceTypeOK, SpansOf
    <3> QED BY <2>2, <3>1, <3>2 DEF TraceInv, TraceTypeOK
  <2>4. QueriesMatch' /\ TreeOfSelected'
    BY <2>1, <2>2 DEF TraceInv, QueriesMatch, TreeOfSelected
  <2> QED BY <2>3, <2>4 DEF TraceInv
<1>7. CASE UNCHANGED traceVars
  BY <1>7 DEF traceVars, TraceInv, TraceTypeOK, QueriesMatch, TreeOfSelected
<1> QED BY <1>1, <1>2, <1>b, <1>3, <1>4, <1>5, <1>6, <1>7 DEF TraceNext

-------------------------------------------------------------------------------
(* The pages that poll.                                                      *)

\* No two requests under way have the same number.
PollsDiffer == \A q, r \in polls : q.n = r.n => q = r

\* No panel shows a version newer than what the server held when a request was
\* sent, but for requests that were overtaken.
NotAhead ==
  \A r \in polls : ~r.overtaken => \A p \in DOMAIN shown : shown[p] <= r.from

PolledInv == PolledTypeOK /\ PollsDiffer /\ NotAhead

LEMMA PolledInitInv == PolledInit \/ PolledRests => PolledInv
<1> USE PolledAssumption
<1>1. ASSUME PolledInit PROVE PolledInv
  <2>1. shown \in [Panels[pane] -> 0..version] /\ DOMAIN shown = Panels[pane]
    BY <1>1 DEF PolledInit
  <2>2. face \in {"empty", "list", "blank", "other"}
    BY <1>1 DEF PolledInit, Face
  <2>3. polls = {[n |-> 1, from |-> version, overtaken |-> FALSE]}
        /\ version \in 0..MaxVersion /\ polled = 1
    BY <1>1 DEF PolledInit
  <2>4. PolledTypeOK
    BY <1>1, <2>1, <2>2, <2>3 DEF PolledInit, PolledTypeOK, Panes
  <2>5. \A p \in DOMAIN shown : shown[p] <= version
    BY <2>1, <2>3
  <2> QED BY <2>3, <2>4, <2>5 DEF PolledInv, PollsDiffer, NotAhead
<1>2. ASSUME PolledRests PROVE PolledInv
  <2>1. pane = "security" /\ version = 0 /\ shown \in [Panels[pane] -> 0..version]
    BY <1>2 DEF PolledRests
  <2>2. /\ pane = "security" /\ version = 0 /\ polls = {} /\ polled = 1
        /\ waiting = FALSE /\ gateway = 0 /\ face = "other"
    BY <1>2 DEF PolledRests
  <2>3. /\ pane \in Panes /\ version \in 0..MaxVersion /\ polled \in 1..MaxPolls
        /\ gateway \in 0..MaxLines
    BY <2>2 DEF Panes
  <2> QED
    BY <2>1, <2>2, <2>3 DEF PolledInv, PolledTypeOK, PollsDiffer, NotAhead
<1> QED BY <1>1, <1>2

\* Requests that are under way when another is answered are overtaken.
LEMMA DoneOvertakes ==
  ASSUME PolledInv, NEW r \in polls
  PROVE  /\ Done(r) \subseteq [n : 1..polled, from : 0..version, overtaken : BOOLEAN]
         /\ \A q \in Done(r) : q.overtaken = TRUE /\ q.n # r.n
         /\ \A x, y \in Done(r) : x.n = y.n => x = y
<1>1. polls \subseteq [n : 1..polled, from : 0..version, overtaken : BOOLEAN]
  BY DEF PolledInv, PolledTypeOK
<1>2. \A x, y \in polls : x.n = y.n => x = y
  BY DEF PolledInv, PollsDiffer
<1>3. \A q \in Done(r) : \E x \in polls \ {r} : q = [x EXCEPT !.overtaken = TRUE]
  BY DEF Done
<1>4. \A q \in Done(r) : \E x \in polls \ {r} :
        /\ q \in [n : 1..polled, from : 0..version, overtaken : BOOLEAN]
        /\ q.n = x.n /\ q.from = x.from /\ q.overtaken = TRUE
  BY <1>1, <1>3
<1> QED BY <1>1, <1>2, <1>4

LEMMA PolledNextInv ==
  PolledInv /\ [PolledNext]_polledVars => PolledInv' /\ GoesForward
<1> SUFFICES ASSUME PolledInv, [PolledNext]_polledVars
             PROVE  PolledInv' /\ GoesForward
  OBVIOUS
<1> USE PolledAssumption
<1>1. /\ pane \in Panes /\ version \in 0..MaxVersion
      /\ shown \in [Panels[pane] -> 0..version] /\ DOMAIN shown = Panels[pane]
      /\ polled \in 1..MaxPolls
      /\ polls \subseteq [n : 1..polled, from : 0..version, overtaken : BOOLEAN]
      /\ face \in {"empty", "list", "blank", "other"}
  BY DEF PolledInv, PolledTypeOK
<1>2. ASSUME shown' = shown PROVE GoesForward
  <2>1. \A p \in DOMAIN shown : shown[p] \in Int
    BY <1>1
  <2> QED BY <1>2, <2>1 DEF GoesForward
<1>3. CASE ServerChanges
  BY <1>1, <1>2, <1>3 DEF ServerChanges, PolledInv, PolledTypeOK, PollsDiffer, NotAhead
<1>4. ASSUME NEW lines \in 0..MaxLines, GatewayMessages(lines)
      PROVE  PolledInv' /\ GoesForward
  BY <1>1, <1>2, <1>4 DEF GatewayMessages, Rerender, PolledInv, PolledTypeOK,
     PollsDiffer, NotAhead
<1>5. CASE Poll
  <2> DEFINE new == [n |-> polled + 1, from |-> version, overtaken |-> FALSE]
  <2>1. /\ polled < MaxPolls /\ polled' = polled + 1 /\ polls' = polls \cup {new}
        /\ UNCHANGED <<pane, version, shown, waiting, gateway, face>>
    BY <1>5 DEF Poll
  <2>2. /\ new.n = polled + 1 /\ new.from = version
        /\ new \in [n : 1..polled', from : 0..version, overtaken : BOOLEAN]
    BY <1>1, <2>1
  <2> HIDE DEF new
  <2>3. polls' \subseteq [n : 1..polled', from : 0..version', overtaken : BOOLEAN]
    BY <1>1, <2>1, <2>2
  <2>4. PolledTypeOK'
    BY <1>1, <2>1, <2>3 DEF PolledInv, PolledTypeOK
  <2>5. PollsDiffer'
    BY <1>1, <2>1, <2>2 DEF PolledInv, PollsDiffer
  <2>6. NotAhead'
    BY <1>1, <2>1, <2>2 DEF PolledInv, NotAhead
  <2> QED BY <1>2, <2>1, <2>4, <2>5, <2>6 DEF PolledInv
<1>6. ASSUME NEW r \in polls, PollAnswered(r)
      PROVE  PolledInv' /\ GoesForward
  <2>1. PICK v \in [Panels[pane] -> {-1} \cup r.from..version] :
          shown' = [p \in Panels[pane] |-> Taken(p, v[p])]
    BY <1>6 DEF PollAnswered
  <2>2. /\ polls' = Done(r) /\ waiting' = FALSE
        /\ UNCHANGED <<pane, version, polled, gateway>>
        /\ Rerender
    BY <1>6 DEF PollAnswered
  <2>3. r.from \in 0..version
    BY <1>1
  <2>4. \A p \in Panels[pane] :
          \/ shown'[p] = shown[p]
          \/ p \notin ChecksArray /\ shown'[p] = 0
          \/ shown'[p] = v[p] /\ v[p] \in r.from..version
    BY <1>1, <2>1, <2>3 DEF Taken, NoArray
  <2>5. shown' \in [Panels[pane] -> 0..version]
    <3>1. \A p \in Panels[pane] : shown'[p] \in 0..version
      BY <1>1, <2>3, <2>4
    <3> QED BY <2>1, <3>1
  <2>6. PolledTypeOK'
    <3>1. polls' \subseteq [n : 1..polled', from : 0..version', overtaken : BOOLEAN]
      BY <2>2, DoneOvertakes
    <3>2. face' \in {"empty", "list", "blank", "other"}
      BY <1>1, <2>2 DEF Rerender
    <3> QED BY <2>2, <2>5, <3>1, <3>2 DEF PolledInv, PolledTypeOK
  <2>7. PollsDiffer' /\ NotAhead'
    BY <2>2, DoneOvertakes DEF PollsDiffer, NotAhead
  <2>8. GoesForward
    <3> SUFFICES ASSUME NEW p \in DOMAIN shown, shown'[p] < shown[p],
                        ~(p \notin ChecksArray /\ shown'[p] = 0)
                 PROVE  r.overtaken /\ \A q \in polls' : q.n # r.n
      BY DEF GoesForward
    <3>1. p \in Panels[pane] /\ shown[p] \in 0..version
      BY <1>1
    <3>2. shown'[p] = v[p] /\ v[p] \in r.from..version
      BY <2>4, <3>1
    <3>3. r.from < shown[p]
      BY <2>3, <2>4, <3>1, <3>2
    <3>4. r.overtaken
      BY <2>3, <3>1, <3>3 DEF PolledInv, NotAhead
    <3> QED BY <2>2, <3>4, DoneOvertakes
  <2> QED BY <2>6, <2>7, <2>8 DEF PolledInv
<1>7. ASSUME NEW r \in polls, PollFails(r)
      PROVE  PolledInv' /\ GoesForward
  <2>1. /\ polls' = Done(r) /\ waiting' = FALSE
        /\ UNCHANGED <<pane, version, shown, polled, gateway, face>>
    BY <1>7 DEF PollFails
  <2>2. polls' \subseteq [n : 1..polled', from : 0..version', overtaken : BOOLEAN]
    BY <2>1, DoneOvertakes
  <2>3. PollsDiffer' /\ NotAhead'
    BY <2>1, DoneOvertakes DEF PollsDiffer, NotAhead
  <2> QED BY <1>2, <2>1, <2>2, <2>3 DEF PolledInv, PolledTypeOK
<1>8. CASE UNCHANGED polledVars
  BY <1>2, <1>8 DEF polledVars, PolledInv, PolledTypeOK, PollsDiffer, NotAhead
<1> QED BY <1>3, <1>4, <1>5, <1>6, <1>7, <1>8 DEF PolledNext

-------------------------------------------------------------------------------
(* The whole.                                                                *)

Inv == tab \in Tabs /\ SessionsInv /\ TraceInv /\ PolledInv

LEMMA InitInv == Init => Inv
  BY SessionsInitInv, TraceInitInv, PolledInitInv DEF Init, Inv

LEMMA NextInv == Inv /\ [Next]_vars => Inv' /\ GoesForward
<1> SUFFICES ASSUME Inv, [Next]_vars
             PROVE  Inv' /\ GoesForward
  OBVIOUS
<1>1. CASE SessionsStep
  <2>1. SessionsNext /\ UNCHANGED tab /\ UNCHANGED traceVars /\ UNCHANGED polledVars
    BY <1>1 DEF SessionsStep
  <2> QED
    BY <2>1, SessionsNextInv, TraceNextInv, PolledNextInv DEF Inv
<1>2. CASE TraceStep
  <2>1. TraceNext /\ UNCHANGED tab /\ UNCHANGED sessionsVars /\ UNCHANGED polledVars
    BY <1>2 DEF TraceStep
  <2> QED
    BY <2>1, SessionsNextInv, TraceNextInv, PolledNextInv DEF Inv
<1>3. CASE PolledStep
  <2>1. PolledNext /\ UNCHANGED tab /\ UNCHANGED sessionsVars /\ UNCHANGED traceVars
    BY <1>3 DEF PolledStep
  <2> QED
    BY <2>1, SessionsNextInv, TraceNextInv, PolledNextInv DEF Inv
<1>4. CASE UNCHANGED vars
  <2>1. UNCHANGED tab /\ UNCHANGED sessionsVars /\ UNCHANGED traceVars
        /\ UNCHANGED polledVars
    BY <1>4 DEF vars
  <2> QED
    BY <2>1, SessionsNextInv, TraceNextInv, PolledNextInv DEF Inv
<1> QED BY <1>1, <1>2, <1>3, <1>4 DEF Next

LEMMA SpecInv == Spec => []Inv
<1>1. Inv /\ [Next]_vars => Inv'
  BY NextInv
<1> QED BY InitInv, <1>1, PTL DEF Spec

\* The variables keep their types.
THEOREM TypesKept == Spec => []TypeOK
<1>1. Inv => TypeOK
  BY DEF Inv, SessionsInv, TraceInv, PolledInv, TypeOK
<1> QED BY SpecInv, <1>1, PTL

\* However answers of the server overtake each other, a page that is not
\* loading shows what belongs to its selection, unless the answer to an earlier
\* question came last; and a page goes blank only by an answer that it took
\* for what it is not, a tree, the context bloat or the costs.
THEOREM SelectionShown == Spec => []ShownIsSelected
<1>1. Inv => ShownIsSelected
  BY DEF Inv, SessionsInv, TraceInv, ShownIsSelected
<1> QED BY SpecInv, <1>1, PTL

\* However messages, snapshots and answers mix, a timeline shows an event
\* twice at most, and twice only when its time has a fraction of a second.
THEOREM RepeatsOnlyFractions == Spec => []RepeatsExplained
<1>1. Inv => RepeatsExplained
  BY DEF Inv, SessionsInv
<1> QED BY SpecInv, <1>1, PTL

\* An event of the selected session that comes after the answer with its
\* timeline is shown, unless another message came before the next render.
THEOREM LiveEventsKept == Spec => []LiveEventsShown
<1>1. Inv => LiveEventsShown
  BY DEF Inv, SessionsInv, DueKept, LiveEventsShown
<1> QED BY SpecInv, <1>1, PTL

\* What a polling page shows goes back only with the answer to a request that
\* was overtaken, or with an error that is taken for an empty answer.
THEOREM PollsGoForward == Spec => PollsForward
<1>1. Inv /\ [Next]_vars => [GoesForward]_vars
  BY NextInv
<1> QED BY SpecInv, <1>1, PTL DEF Spec, PollsForward
===============================================================================
