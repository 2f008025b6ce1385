------------------------------- MODULE LossyLog -------------------------------
(***************************************************************************)
(* What the ingestion pipeline of the server promises, with none of its    *)
(* queues, workers or batches: one lossy log per kind of telemetry.  A     *)
(* message that is admitted waits in `pending'; the oldest waiting         *)
(* messages are either stored, in the order they were admitted, or given   *)
(* up; and no message is ever stored twice.  Nothing promises that a       *)
(* message is stored at all.                                               *)
(***************************************************************************)
EXTENDS Naturals, Sequences

CONSTANTS
  Kinds,    \* the kinds of telemetry, each with a table of its own
  Messages, \* the messages that may arrive
  KindOf    \* the kind of every message

VARIABLES
  pending,  \* pending[k]: admitted messages of kind k, oldest first
  stored,   \* stored[k]: the rows of the table of kind k, oldest first
  lost      \* messages given up

abstractVars == <<pending, stored, lost>>

\* The messages the log has seen.
Elems(s) == {s[i] : i \in DOMAIN s}
Seen == lost \cup UNION {Elems(pending[k]) \cup Elems(stored[k]) : k \in Kinds}

AbstractInit ==
  /\ pending = [k \in Kinds |-> <<>>]
  /\ stored = [k \in Kinds |-> <<>>]
  /\ lost = {}

Admit(m) ==
  /\ m \notin Seen
  /\ pending' = [pending EXCEPT ![KindOf[m]] = Append(@, m)]
  /\ UNCHANGED <<stored, lost>>

Refuse(m) ==
  /\ m \notin Seen
  /\ lost' = lost \cup {m}
  /\ UNCHANGED <<pending, stored>>

\* The n oldest pending messages of kind k, and what stays behind them.
Oldest(k, n) == SubSeq(pending[k], 1, n)
Rest(k, n) == SubSeq(pending[k], n + 1, Len(pending[k]))

Store(k, n) ==
  /\ stored' = [stored EXCEPT ![k] = @ \o Oldest(k, n)]
  /\ pending' = [pending EXCEPT ![k] = Rest(k, n)]
  /\ UNCHANGED lost

GiveUp(k, n) ==
  /\ lost' = lost \cup Elems(Oldest(k, n))
  /\ pending' = [pending EXCEPT ![k] = Rest(k, n)]
  /\ UNCHANGED stored

AbstractNext ==
  \/ \E m \in Messages : Admit(m) \/ Refuse(m)
  \/ \E k \in Kinds : \E n \in 1..Len(pending[k]) : Store(k, n) \/ GiveUp(k, n)

AbstractSpec == AbstractInit /\ [][AbstractNext]_abstractVars
===============================================================================
