---------------------------- MODULE MCOtlpDelivery ----------------------------
(* A payload of two spans, one of a log record, and one of spans that the    *)
(* server refuses after it has taken the first.                              *)
EXTENDS OtlpDelivery

CONSTANTS spans, logs, bad, s1, s2, s3, l1

MCPayloads == {spans, logs, bad}
MCItemsOf == [p \in MCPayloads |->
  CASE p = spans -> <<s1, s2>> [] p = logs -> <<l1>> [] p = bad -> <<s3>>]
MCSignalOf == [p \in MCPayloads |-> IF p = logs THEN "logs" ELSE "traces"]
MCSignals == {"traces", "logs"}
===============================================================================
