----------------------------- MODULE MCCommands -----------------------------
(* A small instance of Commands for the model checker.                     *)
EXTENDS Commands

CONSTANTS p, q, x, y, noId

MCPeers == {p, q}
MCClientIds == {x, y}
MCNumbers == {1, 2}
=============================================================================
