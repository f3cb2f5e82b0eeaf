------------------------------ MODULE Resource ------------------------------
(***************************************************************************)
(* The registration of the server's resource at the resource manager       *)
(* (resource.cpp; ecalcinterface.cpp: registerResource; pcbserver.cpp:     *)
(* getMsgNr).  The numbers in the list differ and their order is of no     *)
(* account, so the list is a set.  The server draws a single number: the   *)
(* counter's wrap, which leaves out 0, is not reached.                     *)
(***************************************************************************)
EXTENDS Naturals

VARIABLES
    m_nMsgNr,       \* the message number drawn last
    msgNrList,      \* numbers of the messages that are not acknowledged
    registerRdy,    \* times the signal has been emitted
    acked           \* history: the numbers the resource manager has
                    \* acknowledged

resourceVars == <<m_nMsgNr, msgNrList, registerRdy, acked>>

ResourceTypeOK ==
    /\ m_nMsgNr \in Nat
    /\ msgNrList \subseteq Nat
    /\ registerRdy \in Nat
    /\ acked \subseteq Nat

ResourceInit ==
    /\ m_nMsgNr = 0
    /\ msgNrList = {}
    /\ registerRdy = 0
    /\ acked = {}

getMsgNr == m_nMsgNr + 1

\* register1Resource sends RESOURCE:ADD under a new number.
registerResource ==
    /\ m_nMsgNr' = getMsgNr
    /\ msgNrList' = msgNrList \cup {getMsgNr}
    /\ UNCHANGED <<registerRdy, acked>>

awaitedAny(msgnr) == TRUE                        \* mutant: contains() dropped
awaited(msgnr) == msgnr \in msgNrList

resourceManagerAck(msgnr) ==
    /\ acked' = acked \cup {msgnr}
    /\ msgNrList' = msgNrList \ {msgnr}
    /\ registerRdy' = IF awaited(msgnr) /\ msgNrList' = {} THEN registerRdy + 1 ELSE registerRdy
    /\ UNCHANGED m_nMsgNr
=============================================================================
