--------------------------- MODULE MCPlanDelivery ---------------------------
(* Small plans: three steps over two capabilities, every list of up to     *)
(* MaxRefs fallback references, both cancellation policies, every registry.*)
EXTENDS PlanDelivery

(* The shortest and the longest step id; texts at and beyond the limits    *)
(* that matter: 160 is accepted from an adapter, 161 is not, and 24 bytes  *)
(* of wrapping with a one-byte id leave room for 135.                      *)
MCIdBytes == {1, 48}
MCSummaryBytes == {135, 160, 161}
=============================================================================
