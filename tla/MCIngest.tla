------------------------------- MODULE MCIngest -------------------------------
(* Two kinds that share the connection: three events of one and one of the   *)
(* other, so that queues fill up, batches split and processors contend.      *)
EXTENDS Ingest

MCKinds == {"event", "metric"}
MCRequests == 1..4
MCKindOf == [r \in MCRequests |-> IF r = 4 THEN "metric" ELSE "event"]
MCCapacity == [k \in MCKinds |-> 1]
===============================================================================
