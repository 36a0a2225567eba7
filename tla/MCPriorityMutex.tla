--------------------------- MODULE MCPriorityMutex ---------------------------
(* PriorityMutex with five goroutines: two pairs of one priority, and     *)
(* both ends of the range that Unlock scans.                               *)
EXTENDS PriorityMutex, TLC

CONSTANTS t1, t2, t3, t4, t5

MCThreads == {t1, t2, t3, t4, t5}
MCPrio == (t1 :> 1) @@ (t2 :> 2) @@ (t3 :> 2) @@ (t4 :> 10) @@ (t5 :> 10)

(* Three of eleven control algorithms: priorities are index + 1. *)
ElevenThreads == {t1, t2, t3}
ElevenPrio == (t1 :> 1) @@ (t2 :> 10) @@ (t3 :> 11)
=============================================================================
