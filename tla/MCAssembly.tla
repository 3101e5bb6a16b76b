------------------------------ MODULE MCAssembly ------------------------------
(* A worker and a batch race for the first artifact of a two-unit film. *)
EXTENDS Assembly

CONSTANTS worker, batch, opening, ending, first, second

MCLength == [u \in Units |-> IF u = opening THEN 2 ELSE 1]
Opening == [unit |-> opening, path |-> first]
Ending == [unit |-> ending, path |-> second]
MCJobs == [w \in Workers |-> IF w = worker THEN <<Opening>> ELSE <<Opening, Ending>>]
MCPlan == <<Opening, Ending>>
=============================================================================
