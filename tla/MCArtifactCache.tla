--------------------------- MODULE MCArtifactCache ---------------------------
(* Two renders whose batches share a region, over three identities of      *)
(* different sizes and a store that cannot hold all three.                 *)
EXTENDS ArtifactCache

CONSTANTS p1, p2, a, b, c

MCProcesses == {p1, p2}
MCIds == {a, b, c}
MCSize == [id \in MCIds |-> IF id = b THEN 2 ELSE 1]
MCBatch == [p \in MCProcesses |-> IF p = p1 THEN <<b, a>> ELSE <<b, c>>]
=============================================================================
