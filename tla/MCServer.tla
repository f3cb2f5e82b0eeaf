------------------------------ MODULE MCServer ------------------------------
(* A small instance of Server for the model checker.                       *)
EXTENDS Server

CONSTANTS x, noId, p, q, ec0, ec1, bit

MCPeers == {p, q}
MCIdOf == [r \in MCPeers |-> IF r = p THEN x ELSE noId]
MCNotifierOf == [c \in 0 .. 1 |-> IF c = 0 THEN ec0 ELSE ec1]
MCBits == {bit}
MCRequests == {1}
MCOthers == {"refused", "unknown"}
MCTidy == {x, noId}
=============================================================================
