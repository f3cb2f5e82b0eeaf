--------------------------- MODULE MCNotification ---------------------------
(* Small instances of Notification for the model checker.                  *)
EXTENDS Notification, TLC

CONSTANTS p, q, x, y, noId, ec0, ec1

MCPeers == {p, q}
MCClientIds == {x, y, noId}
MCNotifiers == {ec0, ec1}
MCOthers == {"plain", "refused", "unknown"}

\* Connections are interchangeable, and so are notifiers and non-empty ids.
Symmetry ==
    Permutations(MCPeers) \cup Permutations(MCNotifiers) \cup Permutations({x, y})
=============================================================================
