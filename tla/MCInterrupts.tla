---------------------------- MODULE MCInterrupts ----------------------------
(* Small instances of Interrupts for the model checker.                    *)
EXTENDS Interrupts

CONSTANTS x, y

MCOneBit == {x}
MCTwoBits == {x, y}
=============================================================================
