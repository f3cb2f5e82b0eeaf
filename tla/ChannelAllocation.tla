------------------------- MODULE ChannelAllocation -------------------------
(***************************************************************************)
(* What the arbitration of the error calculators promises its clients: a   *)
(* channel has at most one owner, a client that owns nothing may acquire   *)
(* any non-empty set of channels nobody owns, and releasing gives back     *)
(* everything it owns and nothing of anybody else's.                       *)
(***************************************************************************)
CONSTANTS Channels, ClientIds, Nobody

VARIABLE owner

Owned(id) == {c \in Channels : owner[c] = id}

AllocInit == owner = [c \in Channels |-> Nobody]

Acquire(id, S) ==
    /\ Owned(id) = {}
    /\ S # {}
    /\ S \subseteq Owned(Nobody)
    /\ owner' = [c \in Channels |-> IF c \in S THEN id ELSE owner[c]]

Release(id) ==
    /\ Owned(id) # {}
    /\ owner' = [c \in Channels |-> IF owner[c] = id THEN Nobody ELSE owner[c]]

AllocNext ==
    \E id \in ClientIds :
        \/ \E S \in SUBSET Channels : Acquire(id, S)
        \/ Release(id)

AllocSpec == AllocInit /\ [][AllocNext]_owner
=============================================================================
