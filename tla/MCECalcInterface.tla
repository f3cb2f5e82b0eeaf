------------------------- MODULE MCECalcInterface -------------------------
(* Small instances of ECalcInterface for the model checker.                *)
EXTENDS ECalcInterface

CONSTANTS a, b, noId

MCClientIds == {a, b, noId}

\* 0 is no valid request and 5 is one too many; the rest is 1 .. MaxRequest.
MCRequests == {0, 1, 2, 3, 4, 5}
MCSmallRequests == {0, 1, 2, 4}
=============================================================================
