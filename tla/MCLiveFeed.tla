------------------------------ MODULE MCLiveFeed ------------------------------
(* LiveFeed on a small instance, for TLC.                                    *)
EXTENDS LiveFeed

(* Three workspace events, two of them of one agent; a snapshot reads the    *)
(* newest two and lists one of each agent.                                   *)
MCMessages == 1..3
MCKindOf == [m \in MCMessages |-> "workspace"]
MCKinds == {"workspace"}
MCKindOrder == <<"workspace">>
MCRowLimit == [k \in MCKinds |-> 2]
MCAgentOf == [m \in MCMessages |-> IF m = 3 THEN "other" ELSE "main"]

(* Either the connection breaks, or there is a third message: both are       *)
(* steps that nothing has to take.                                           *)
BreakOrThird == broken = {} \/ handler[3] = "idle"
===============================================================================
