--------------------------- MODULE Server_proofs ---------------------------
(***************************************************************************)
(* Proofs about Server, for every number of channels, every set of bits    *)
(* and any connections and clients.                                        *)
(***************************************************************************)
EXTENDS Server, TLAPS

\* A step of the server leaves the interrupt path alone or is one of its
\* steps, with clients that acknowledge by INTACK; the device raises bits of
\* started channels only.
LEMMA InterruptSteps ==
  ASSUME [Next]_vars
  PROVE  \/ UNCHANGED irqVars
         \/ /\ UNCHANGED arbVars
            /\ \/ \E c \in Channels, b \in Bits : mode[c] = "running" /\ Irq!DeviceRaises(c, b)
               \/ Irq!Signal \/ Irq!ReadPipe \/ Irq!ReadDevice
               \/ Irq!ThrowNotifiers \/ Irq!ResetWrites
               \/ \E c \in Channels, B \in SUBSET Bits : Irq!ResetReads(c, B)
<1>1. CASE UNCHANGED vars
  BY <1>1 DEF vars
<1>2. ASSUME NEW c \in Channels, NEW b \in Bits, DeviceRaises(c, b)
      PROVE  mode[c] = "running" /\ Irq!DeviceRaises(c, b) /\ UNCHANGED arbVars
  BY <1>2 DEF DeviceRaises, Quiet
<1>3. ASSUME Signal \/ ReadPipe \/ ReadDevice \/ ThrowNotifiers \/ ResetWrites
      PROVE  /\ Irq!Signal \/ Irq!ReadPipe \/ Irq!ReadDevice
                   \/ Irq!ThrowNotifiers \/ Irq!ResetWrites
             /\ UNCHANGED arbVars
  BY <1>3 DEF Signal, ReadPipe, ReadDevice, ThrowNotifiers, ResetWrites, Quiet
<1>4. ASSUME NEW p \in Peers, NEW c \in Channels, NEW B \in SUBSET Bits, INTACK(p, c, B)
      PROVE  Irq!ResetReads(c, B) /\ UNCHANGED arbVars
  BY <1>4 DEF INTACK
<1>5. ASSUME NEW p \in Peers,
             \/ Connect(p) \/ Lost(p) \/ FREE(p) \/ UNREGISTER(p)
             \/ \E n \in Requests : SET(p, n)
             \/ \E q \in Others : REGISTER(p, q)
             \/ \E c \in Channels : \/ REGISTER(p, NotifierOf[c]) \/ Query(p, c)
                                    \/ START(p, c) \/ STOP(p, c)
      PROVE  UNCHANGED irqVars
  BY <1>5 DEF Connect, Lost, FREE, UNREGISTER, SET, REGISTER, Query, START, STOP
<1> QED
  BY <1>1, <1>2, <1>3, <1>4, <1>5 DEF Next

\* The composition implements Interrupts with clients that acknowledge by
\* INTACK: what is proved of that holds of the running server.
THEOREM ImplementsInterrupts == Spec => Irq!AckSpec
<1>1. Init => Irq!Init
  BY DEF Init
<1>2. [Next]_vars => [Irq!AckNext]_(Irq!vars)
  BY InterruptSteps DEF Irq!AckNext, Irq!vars, irqVars, Channels, Irq!Channels
<1> QED
  BY <1>1, <1>2, PTL DEF Spec, Irq!AckSpec

-----------------------------------------------------------------------------
(* A channel that is quiet holds no bits.                                  *)

\* The types the interrupt path's steps are read with.
IrqTypes ==
    /\ INTREG \in [Channels -> SUBSET Bits]
    /\ interruptREGS \in [Channels -> SUBSET Bits]
    /\ notifier \in [Channels -> SUBSET Bits]
    /\ told \in [Channels -> SUBSET Bits]
    /\ pc = "reset" => reset.chan \in Channels
    /\ mode \in [Channels -> {"running", "stopped", "quiet"}]

\* Whatever the handlers and the notifiers hold of a channel is pending in it,
\* and what INTACK is going to write back was pending when it began.
Backed ==
    /\ pc # "throw" => interruptREGS = Irq!NoBits
    /\ \A c \in Channels :
          /\ interruptREGS[c] \cup notifier[c] \cup told[c] \subseteq INTREG[c]
          /\ pc = "reset" /\ reset.chan = c =>
                /\ reset.reg \subseteq INTREG[c]
                /\ notifier[c] \cup told[c] \subseteq reset.reg \ reset.bits

\* A channel gets quiet only by the INTACK of all its bits.
LEMMA ModeSteps ==
  ASSUME mode \in [Channels -> {"running", "stopped", "quiet"}], [Next]_vars
  PROVE  /\ mode' \in [Channels -> {"running", "stopped", "quiet"}]
         /\ \A c \in Channels : mode'[c] = "quiet" =>
                mode[c] = "quiet" \/ Irq!ResetReads(c, Bits)
<1> DEFINE Goal == /\ mode' \in [Channels -> {"running", "stopped", "quiet"}]
                   /\ \A c \in Channels : mode'[c] = "quiet" =>
                          mode[c] = "quiet" \/ Irq!ResetReads(c, Bits)
<1>1. ASSUME UNCHANGED mode
      PROVE  Goal
  BY <1>1
<1>2. ASSUME NEW p \in Peers, NEW c \in Channels, START(p, c) \/ STOP(p, c)
      PROVE  Goal
  BY <1>2 DEF START, STOP
<1>3. ASSUME NEW p \in Peers, NEW c \in Channels, NEW B \in SUBSET Bits, INTACK(p, c, B)
      PROVE  Goal
  BY <1>3 DEF INTACK
<1>4. ASSUME [Next]_vars,
             \A p \in Peers, c \in Channels : /\ ~START(p, c) /\ ~STOP(p, c)
                                              /\ \A B \in SUBSET Bits : ~INTACK(p, c, B)
      PROVE  UNCHANGED mode
  BY <1>4
  DEF Next, vars, DeviceRaises, Signal, ReadPipe, ReadDevice, ResetWrites, ThrowNotifiers,
      Quiet, Connect, Lost, UNREGISTER, REGISTER, Query, SET, FREE
<1> QED
  BY <1>1, <1>2, <1>3, <1>4

\* Backed is inductive, and no bits appear but those the device raises.
LEMMA BackedStep ==
  ASSUME IrqTypes, Backed, [Next]_vars
  PROVE  /\ IrqTypes' /\ Backed'
         /\ \A c \in Channels : mode[c] # "running" => INTREG'[c] \subseteq INTREG[c]
<1> DEFINE IrqOnly ==
             /\ INTREG \in [Channels -> SUBSET Bits]
             /\ interruptREGS \in [Channels -> SUBSET Bits]
             /\ notifier \in [Channels -> SUBSET Bits]
             /\ told \in [Channels -> SUBSET Bits]
             /\ pc = "reset" => reset.chan \in Channels
           Goal == /\ IrqOnly' /\ Backed'
                   /\ \A c \in Channels : mode[c] # "running" => INTREG'[c] \subseteq INTREG[c]
<1>0. mode' \in [Channels -> {"running", "stopped", "quiet"}]
  BY ModeSteps DEF IrqTypes
<1> USE DEF IrqTypes, Backed, Irq!NoBits, Irq!Channels, Channels
<1>1. ASSUME UNCHANGED irqVars
      PROVE  Goal
  BY <1>1 DEF irqVars
<1>2. ASSUME NEW c \in Channels, NEW b \in Bits, mode[c] = "running", Irq!DeviceRaises(c, b)
      PROVE  Goal
  BY <1>2 DEF Irq!DeviceRaises
<1>3. ASSUME Irq!Signal
      PROVE  Goal
  BY <1>3 DEF Irq!Signal
<1>4. ASSUME Irq!ReadPipe
      PROVE  Goal
  BY <1>4 DEF Irq!ReadPipe
<1>5. ASSUME Irq!ReadDevice
      PROVE  Goal
  BY <1>5 DEF Irq!ReadDevice
<1>6. ASSUME Irq!ThrowNotifiers
      PROVE  Goal
  BY <1>6 DEF Irq!ThrowNotifiers, Irq!Nibble
<1>7. ASSUME NEW c \in Channels, NEW B \in SUBSET Bits, Irq!ResetReads(c, B)
      PROVE  Goal
  BY <1>7 DEF Irq!ResetReads
<1>8. ASSUME Irq!ResetWrites
      PROVE  Goal
  BY <1>8 DEF Irq!ResetWrites
<1>9. Goal
  BY <1>1, <1>2, <1>3, <1>4, <1>5, <1>6, <1>7, <1>8, InterruptSteps
<1> QED
  BY <1>0, <1>9

\* Nothing is pending in a channel that is quiet, once the INTACK that has made
\* it quiet has written.
QuietIsClean ==
    \A c \in Channels : mode[c] = "quiet" =>
        \/ INTREG[c] = {}
        \/ pc = "reset" /\ reset.chan = c /\ reset.bits = Bits

LEMMA QuietStep ==
  ASSUME IrqTypes, Backed, QuietIsClean, [Next]_vars
  PROVE  QuietIsClean'
<1> SUFFICES ASSUME NEW c \in Channels, mode'[c] = "quiet"
             PROVE  \/ INTREG'[c] = {}
                    \/ pc' = "reset" /\ reset'.chan = c /\ reset'.bits = Bits
  BY DEF QuietIsClean, Channels
<1>1. mode[c] = "quiet" \/ Irq!ResetReads(c, Bits)
  BY ModeSteps DEF IrqTypes
<1>2. CASE Irq!ResetReads(c, Bits)
  BY <1>2 DEF Irq!ResetReads
<1>3. CASE mode[c] = "quiet" /\ INTREG[c] = {}
  BY <1>3, BackedStep
<1>4. CASE mode[c] = "quiet" /\ pc = "reset" /\ reset.chan = c /\ reset.bits = Bits
  <2>1. CASE UNCHANGED irqVars
    BY <1>4, <2>1 DEF irqVars
  <2>2. CASE \/ \E d \in Channels, b \in Bits : Irq!DeviceRaises(d, b)
             \/ Irq!Signal
    BY <1>4, <2>2 DEF Irq!DeviceRaises, Irq!Signal
  <2>3. CASE Irq!ResetWrites
    BY <1>4, <2>3 DEF Irq!ResetWrites, IrqTypes, Backed
  <2>4. ~Irq!ReadPipe /\ ~Irq!ReadDevice /\ ~Irq!ThrowNotifiers
        /\ \A d, B : ~Irq!ResetReads(d, B)
    BY <1>4 DEF Irq!ReadPipe, Irq!ReadDevice, Irq!ThrowNotifiers, Irq!ResetReads
  <2> QED
    BY <2>1, <2>2, <2>3, <2>4, InterruptSteps
<1> QED
  BY <1>1, <1>2, <1>3, <1>4 DEF QuietIsClean

-----------------------------------------------------------------------------
(* The arbitration.                                                        *)

ArbProofs == INSTANCE ECalcInterface_proofs WITH answer <- NoAnswer

\* The parameters are as the arbitration assumes.
LEMMA ArbParameters ==
  /\ NumChannels \in Nat /\ EmptyId \in ClientIds /\ Nobody \notin ClientIds
  /\ Requests \subseteq Nat
BY NumChannelsAssumption, NobodyAssumption, RequestsAssumption DEF ClientIds

\* The hash entry of a client that holds channels names exactly these.
HashNamesHeld ==
    \A p \in Peers : held[IdOf[p]] # {} =>
        IdOf[p] \in DOMAIN m_ClientECalcHash /\ m_ClientECalcHash[IdOf[p]] = held[IdOf[p]]

\* The types the arbitration's steps are read with.
ArbTypes ==
    /\ m_bSet \in [Channels -> BOOLEAN]
    /\ m_ClientId \in [Channels -> ClientIds]
    /\ held \in [ClientIds -> SUBSET Channels]

\* What clients hold is what is occupied in their names.
HeldIsOccupied ==
    \A id \in ClientIds : held[id] = {c \in Channels : m_bSet[c] /\ m_ClientId[c] = id}

ArbInv == ArbTypes /\ HashNamesHeld /\ HeldIsOccupied

\* The two ways a step changes who has which channel: a SET of connection p that
\* is granted the free channels S, and a FREE of all its client holds.
Grants(p, S) ==
    /\ IdOf[p] \in ClientIds /\ held[IdOf[p]] = {}
    /\ S \subseteq {c \in Channels : ~m_bSet[c]}
    /\ m_bSet' = [c \in Channels |-> m_bSet[c] \/ c \in S]
    /\ m_ClientId' = [c \in Channels |-> IF c \in S THEN IdOf[p] ELSE m_ClientId[c]]
    /\ held' = [held EXCEPT ![IdOf[p]] = S]
    /\ m_ClientECalcHash' =
          [i \in DOMAIN m_ClientECalcHash \cup {IdOf[p]} |->
              IF i = IdOf[p] THEN S ELSE m_ClientECalcHash[i]]

Frees(p) ==
    /\ IdOf[p] \in ClientIds /\ held[IdOf[p]] # {}
    /\ m_bSet' = [c \in Channels |-> m_bSet[c] /\ c \notin held[IdOf[p]]]
    /\ held' = [held EXCEPT ![IdOf[p]] = {}]
    /\ UNCHANGED <<m_ClientId, m_ClientECalcHash>>

\* Every other step leaves the arbitration alone.
LEMMA ArbEffects ==
  ASSUME ArbInv, [Next]_vars
  PROVE  \/ \E p \in Peers, S \in SUBSET Channels : Grants(p, S)
         \/ \E p \in Peers : Frees(p)
         \/ UNCHANGED arbVars
<1>1. ASSUME NEW p \in Peers, NEW n \in Requests, SET(p, n), ~UNCHANGED arbVars
      PROVE  \E S \in SUBSET Channels : Grants(p, S)
  <2>1. ASSUME NEW code, NEW chans,
               Arb(ArbAnswer(p, "SET", n, code, chans))!m_SetChannels(IdOf[p], n)
        PROVE  \E S \in SUBSET Channels : Grants(p, S)
    <3> DEFINE a == ArbAnswer(p, "SET", n, code, chans)
               S == Arb(a)!scan(n).sel
    <3>1. Arb(a)!Grant(IdOf[p], n, S)
      BY <1>1, <2>1 DEF Arb!m_SetChannels, Arb!Refuse, arbVars
    <3>2. S \subseteq {c \in Channels : ~m_bSet[c]}
      <4>1. n \in Nat
        BY RequestsAssumption
      <4>2. ArbProofs!scan(n).sel \subseteq {c \in Channels : ~m_bSet[c]}
        BY <4>1, ArbProofs!SelectsFree, ArbParameters DEF ArbProofs!Channels, Channels
      <4>3. Arb(a)!scan(n) = ArbProofs!scan(n)
        BY DEF Arb!scan, Arb!visit, Arb!isfree, ArbProofs!scan, ArbProofs!visit, ArbProofs!isfree
      <4> QED
        BY <4>2, <4>3
    <3>3. IdOf[p] \in ClientIds /\ held[IdOf[p]] = {}
      BY <1>1 DEF SET, ClientIds
    <3>4. /\ m_bSet' = [c \in Channels |-> m_bSet[c] \/ c \in S]
          /\ m_ClientId' = [c \in Channels |-> IF c \in S /\ ~m_bSet[c] THEN IdOf[p]
                                               ELSE m_ClientId[c]]
          /\ held' = [held EXCEPT ![IdOf[p]] = @ \cup S]
          /\ m_ClientECalcHash' =
                [i \in DOMAIN m_ClientECalcHash \cup {IdOf[p]} |->
                    IF i = IdOf[p] THEN S ELSE m_ClientECalcHash[i]]
      BY <3>1 DEF Arb!Grant, Arb!set, Arb!isfree, Arb!Remember, Arb!Channels, Channels
    <3> HIDE DEF S
    <3>5. m_ClientId' = [c \in Channels |-> IF c \in S THEN IdOf[p] ELSE m_ClientId[c]]
      BY <3>2, <3>4
    <3>6. held' = [held EXCEPT ![IdOf[p]] = S]
      BY <3>3, <3>4
    <3>7. Grants(p, S)
      BY <3>2, <3>3, <3>4, <3>5, <3>6 DEF Grants
    <3> QED
      BY <3>2, <3>7
  <2> QED
    BY <1>1, <2>1 DEF SET
<1>2. ASSUME NEW p \in Peers, FREE(p)
      PROVE  Frees(p)
  <2>1. /\ IdOf[p] \in ClientIds /\ held[IdOf[p]] # {}
        /\ IdOf[p] \in DOMAIN m_ClientECalcHash
        /\ m_ClientECalcHash[IdOf[p]] = held[IdOf[p]]
    BY <1>2 DEF FREE, ClientIds, ArbInv, HashNamesHeld
  <2>2. /\ m_bSet' = [c \in Channels |-> m_bSet[c] /\ c \notin held[IdOf[p]]]
        /\ held' = [held EXCEPT ![IdOf[p]] = {}]
        /\ UNCHANGED <<m_ClientId, m_ClientECalcHash>>
    BY <1>2, <2>1 DEF FREE, Arb!m_FreeChannels, Arb!free, Arb!Channels, Channels
  <2> QED
    BY <2>1, <2>2 DEF Frees
<1>3. ASSUME Next, \A p \in Peers : ~FREE(p) /\ \A n \in Requests : ~SET(p, n)
      PROVE  UNCHANGED arbVars
  BY <1>3
  DEF Next, DeviceRaises, Signal, ReadPipe, ReadDevice, ResetWrites, ThrowNotifiers, Quiet,
      Connect, Lost, UNREGISTER, REGISTER, Query, START, STOP, INTACK
<1> QED
  BY <1>1, <1>2, <1>3 DEF vars

\* ArbInv is inductive.
LEMMA ArbSteps ==
  ASSUME ArbInv, [Next]_vars
  PROVE  ArbInv'
<1> DEFINE Goal == ArbInv'
<1> USE DEF ArbInv
<1>1. \A q \in Peers : IdOf[q] \in ClientIds
  BY DEF ClientIds
<1>2. ASSUME NEW p \in Peers, NEW S \in SUBSET Channels, Grants(p, S)
      PROVE  Goal
  <2>1. ArbTypes'
    BY <1>2 DEF Grants, ArbTypes, ClientIds, Channels
  <2>2. HashNamesHeld'
    BY <1>1, <1>2 DEF Grants, ArbTypes, HashNamesHeld
  <2>3. HeldIsOccupied'
    <3> SUFFICES ASSUME NEW i \in ClientIds
                 PROVE  held'[i] = {c \in Channels : m_bSet'[c] /\ m_ClientId'[c] = i}
      BY DEF HeldIsOccupied, Channels, ClientIds
    <3>1. held[i] = {c \in Channels : m_bSet[c] /\ m_ClientId[c] = i}
      BY DEF HeldIsOccupied
    <3>2. held'[i] = IF i = IdOf[p] THEN S ELSE held[i]
      BY <1>2 DEF Grants, ArbTypes
    <3> QED
      BY <1>2, <3>1, <3>2 DEF Grants
  <2> QED
    BY <1>2, <2>1, <2>2, <2>3 DEF Grants
<1>3. ASSUME NEW p \in Peers, Frees(p)
      PROVE  Goal
  <2>1. ArbTypes'
    BY <1>3 DEF Frees, ArbTypes, ClientIds, Channels
  <2>2. HashNamesHeld'
    BY <1>1, <1>3 DEF Frees, ArbTypes, HashNamesHeld
  <2>3. HeldIsOccupied'
    <3> SUFFICES ASSUME NEW i \in ClientIds
                 PROVE  held'[i] = {c \in Channels : m_bSet'[c] /\ m_ClientId'[c] = i}
      BY DEF HeldIsOccupied, Channels, ClientIds
    <3>1. \A j \in ClientIds : held[j] = {c \in Channels : m_bSet[c] /\ m_ClientId[c] = j}
      BY DEF HeldIsOccupied
    <3>2. held'[i] = IF i = IdOf[p] THEN {} ELSE held[i]
      BY <1>3 DEF Frees, ArbTypes
    <3> QED
      BY <1>3, <3>1, <3>2 DEF Frees
  <2> QED
    BY <1>3, <2>1, <2>2, <2>3 DEF Frees, ArbTypes
<1>4. CASE UNCHANGED arbVars
  BY <1>4 DEF arbVars, ArbTypes, HashNamesHeld, HeldIsOccupied
<1> QED
  BY <1>2, <1>3, <1>4, ArbEffects

HandoverInv == IrqTypes /\ Backed /\ ArbInv /\ QuietIsClean

\* A quiet channel has nothing pending, and nobody holds anything of it.
THEOREM HandoverInvariant == Spec => []HandoverInv
<1>1. Init => HandoverInv
  <2> SUFFICES ASSUME Init
               PROVE  HandoverInv
    OBVIOUS
  <2>1. IrqTypes /\ Backed /\ QuietIsClean
    BY DEF Init, IrqTypes, Backed, QuietIsClean, Irq!Init, Irq!NoBits, Irq!Channels, Channels
  <2>2. ArbInv
    BY DEF Init, ArbInv, ArbTypes, HashNamesHeld, HeldIsOccupied, Arb!Init, Arb!Channels,
           Channels, ClientIds
  <2> QED
    BY <2>1, <2>2 DEF HandoverInv
<1>2. HandoverInv /\ [Next]_vars => HandoverInv'
  <2> SUFFICES ASSUME HandoverInv, [Next]_vars
               PROVE  HandoverInv'
    OBVIOUS
  <2> USE DEF HandoverInv
  <2> QED
    BY BackedStep, ArbSteps, QuietStep
<1> QED
  BY <1>1, <1>2, PTL DEF Spec

\* Whatever clients do, Tidy or not, a channel that was stopped and then had all
\* its bits acknowledged is given away with no bit of its former client
\* (CleanHandover).
THEOREM HandsOverClean == Spec => CleanHandover
<1>1. HandoverInv /\ [Next]_vars =>
        [\A c \in Channels : ~m_bSet[c] /\ m_bSet'[c] /\ mode[c] = "quiet" =>
            INTREG[c] = {} /\ notifier[c] = {} /\ told[c] = {}]_vars
  <2> SUFFICES ASSUME HandoverInv, Next,
                      NEW c \in Channels, ~m_bSet[c], m_bSet'[c], mode[c] = "quiet"
               PROVE  INTREG[c] = {} /\ notifier[c] = {} /\ told[c] = {}
    OBVIOUS
  <2>1. pc = "eventLoop"
    <3>1. ~UNCHANGED m_bSet
      OBVIOUS
    <3> QED
      BY <3>1
      DEF Next, DeviceRaises, Signal, ReadPipe, ReadDevice, ResetWrites, ThrowNotifiers, Quiet,
          Connect, Lost, UNREGISTER, REGISTER, Query, START, STOP, INTACK, SET, FREE, Idle, arbVars
  <2>2. INTREG[c] = {}
    BY <2>1 DEF HandoverInv, QuietIsClean
  <2> QED
    BY <2>2 DEF HandoverInv, Backed
<1> QED
  BY <1>1, HandoverInvariant, PTL DEF Spec, CleanHandover
-----------------------------------------------------------------------------
(* Who has which channel.                                                  *)

Owner == [c \in Channels |-> IF m_bSet[c] THEN m_ClientId[c] ELSE Nobody]

Alloc == INSTANCE ChannelAllocation WITH owner <- Owner

\* The running server implements the allocator of ChannelAllocation: whatever
\* interrupts, registrations and lost clients come between, a channel has at
\* most one owner, a SET acquires channels nobody owns, a FREE releases all its
\* client owns and nothing else, and nothing else changes hands.
THEOREM ImplementsAllocation == Spec => Alloc!AllocSpec
<1>1. Init => Alloc!AllocInit
  BY DEF Init, Arb!Init, Arb!Channels, Alloc!AllocInit, Owner, Channels
<1>2. ArbInv /\ [Next]_vars => [Alloc!AllocNext]_Owner
  <2> SUFFICES ASSUME ArbInv, [Next]_vars
               PROVE  [Alloc!AllocNext]_Owner
    OBVIOUS
  <2> USE NobodyAssumption DEF ArbInv
  <2>1. ASSUME NEW id \in ClientIds
        PROVE  Alloc!Owned(id) = held[id]
    BY <2>1 DEF Alloc!Owned, Owner, HeldIsOccupied, ArbTypes
  <2>2. Alloc!Owned(Nobody) = {c \in Channels : ~m_bSet[c]}
    BY DEF Alloc!Owned, Owner, ArbTypes
  <2>3. ASSUME NEW p \in Peers, NEW S \in SUBSET Channels, Grants(p, S)
        PROVE  [Alloc!AllocNext]_Owner
    <3>1. Owner' = [c \in Channels |-> IF c \in S THEN IdOf[p] ELSE Owner[c]]
      BY <2>3 DEF Grants, Owner, Channels
    <3>2. CASE S = {}
      BY <3>1, <3>2 DEF Owner
    <3>3. CASE S # {}
      <4>1. IdOf[p] \in ClientIds /\ Alloc!Acquire(IdOf[p], S)
        BY <2>1, <2>2, <2>3, <3>1, <3>3 DEF Alloc!Acquire, Grants
      <4> QED
        BY <4>1 DEF Alloc!AllocNext
    <3> QED
      BY <3>2, <3>3
  <2>4. ASSUME NEW p \in Peers, Frees(p)
        PROVE  [Alloc!AllocNext]_Owner
    <3>1. IdOf[p] \in ClientIds /\ held[IdOf[p]] = Alloc!Owned(IdOf[p])
      BY <2>1, <2>4 DEF Frees
    <3>2. Owner' = [c \in Channels |-> IF Owner[c] = IdOf[p] THEN Nobody ELSE Owner[c]]
      BY <2>4, <3>1 DEF Frees, Owner, Alloc!Owned, Channels
    <3>3. Alloc!Release(IdOf[p])
      BY <2>4, <3>1, <3>2 DEF Alloc!Release, Frees
    <3> QED
      BY <3>1, <3>3 DEF Alloc!AllocNext
  <2>5. CASE UNCHANGED arbVars
    BY <2>5 DEF arbVars, Owner, Channels
  <2> QED
    BY <2>3, <2>4, <2>5, ArbEffects
<1>3. HandoverInv => ArbInv
  BY DEF HandoverInv
<1> QED
  BY <1>1, <1>2, <1>3, HandoverInvariant, PTL DEF Spec, Alloc!AllocSpec

-----------------------------------------------------------------------------
(* What is proved of Interrupts holds of the running server.               *)

IrqProofs == INSTANCE Interrupts_proofs

\* The interrupt path the server is composed of is the one Interrupts_proofs
\* is about.
LEMMA SameInterrupts == Irq!AckSpec => IrqProofs!AckSpec
<1>1. Irq!Init => IrqProofs!Init
  BY DEF Irq!Init, Irq!NoBits, Irq!NoReset, Irq!Channels,
         IrqProofs!Init, IrqProofs!NoBits, IrqProofs!NoReset, IrqProofs!Channels
<1>2. [Irq!AckNext]_(Irq!vars) => [IrqProofs!AckNext]_(IrqProofs!vars)
  BY DEF Irq!AckNext, Irq!vars, Irq!Channels, Irq!NoBits, Irq!NoReset, Irq!Polled,
         Irq!Nibble, Irq!Rises, Irq!DeviceRaises, Irq!Edge, Irq!Signal, Irq!SigHandler,
         Irq!ReadPipe, Irq!ReadDevice, Irq!ThrowNotifiers, Irq!ResetReads, Irq!ResetWrites,
         IrqProofs!AckNext, IrqProofs!vars, IrqProofs!Channels, IrqProofs!NoBits,
         IrqProofs!NoReset, IrqProofs!Polled, IrqProofs!Nibble, IrqProofs!Rises,
         IrqProofs!DeviceRaises, IrqProofs!Edge, IrqProofs!Signal, IrqProofs!SigHandler,
         IrqProofs!ReadPipe, IrqProofs!ReadDevice, IrqProofs!ThrowNotifiers,
         IrqProofs!ResetReads, IrqProofs!ResetWrites
<1> QED
  BY <1>1, <1>2, PTL DEF Irq!AckSpec, IrqProofs!AckSpec

\* However clients compete, register, leave and are lost, no interrupt of the
\* running server is stuck: while a bit is pending the device will be polled
\* again or an INTACK for a pending bit is owed (NoStuckInterrupt, without its
\* exception).  Whether somebody is left to send that INTACK is another matter:
\* see ReachesClient.
THEOREM ServerNeverStuck ==
  ASSUME NumChannels % 2 = 0
  PROVE  Spec => [](INTREG # Irq!NoBits => Irq!PollAhead \/ Irq!AckOwed)
<1>1. IrqProofs!AckSpec => []~IrqProofs!LeftBehind
  BY IrqProofs!NeverLeftBehind, NumChannelsAssumption, PipeCapacityAssumption
<1>2. IrqProofs!Spec => []IrqProofs!NoStuckInterrupt
  BY IrqProofs!NoStuck, NumChannelsAssumption, PipeCapacityAssumption
<1>3. IrqProofs!AckSpec => IrqProofs!Spec
  BY PTL DEF IrqProofs!AckSpec, IrqProofs!Spec, IrqProofs!Next
<1>4. IrqProofs!NoStuckInterrupt /\ ~IrqProofs!LeftBehind =>
        (INTREG # Irq!NoBits => Irq!PollAhead \/ Irq!AckOwed)
  BY DEF IrqProofs!NoStuckInterrupt, Irq!NoBits, Irq!PollAhead, Irq!AckOwed, Irq!Channels,
         IrqProofs!NoBits, IrqProofs!PollAhead, IrqProofs!AckOwed, IrqProofs!Channels
<1> QED
  BY <1>1, <1>2, <1>3, <1>4, ImplementsInterrupts, SameInterrupts, PTL
-----------------------------------------------------------------------------
(* What a notifier reports reaches the client of its channel.              *)

RegProofs == INSTANCE Notification_proofs
                WITH Notifiers <- {NotifierOf[c] : c \in Channels},
                     sent <- <<>>, answer <- NoAnswer

\* The parameters are as the registry assumes.
LEMMA RegistryParameters ==
  /\ Others \subseteq {"plain", "refused", "unknown"}
  /\ EmptyId \in ClientIds
  /\ {NotifierOf[c] : c \in Channels} \cap {"plain", "refused", "unknown", "none"} = {}
BY NotifierNamesAssumption, OthersAssumption DEF ClientIds

\* The registry's types, and: a notifier somebody is bound to has exactly one
\* connection.
RegistryInv == RegProofs!Lists /\ RegProofs!RegInv

\* What a REGISTER does to the registry.
LEMMA Registering ==
  ASSUME RegistryInv, NEW p \in Peers, NEW q, REGISTER(p, q),
         q \in {NotifierOf[c] : c \in Channels} \cup Others
  PROVE  LET w == [peer |-> p, id |-> IdOf[p]]
             next == Append(notifierRegisterNext, w)
         IN  /\ IdOf[p] \in ClientIds
             /\ w \in RegProofs!Waiting /\ next \in Seq(RegProofs!Waiting)
             /\ RegProofs!Range(next) = RegProofs!Range(notifierRegisterNext) \cup {w}
             /\ p \in open /\ UNCHANGED open
             /\ watched' \in {watched, watched \cup {p}}
             /\ \/ /\ q \in {NotifierOf[c] : c \in Channels}
                   /\ RegProofs!establishNewNotifier(q, next)
                   /\ watched' = watched \cup {p}
                \/ /\ q = "plain" /\ q \in Others
                   /\ notifierRegisterNext' = next /\ watched' = watched \cup {p}
                   /\ UNCHANGED <<notifierRegisterList, connections>>
                \/ UNCHANGED <<notifierRegisterNext, notifierRegisterList, connections>>
<1> DEFINE w == [peer |-> p, id |-> IdOf[p]]
           next == Append(notifierRegisterNext, w)
           Notifiers == {NotifierOf[c] : c \in Channels}
<1>1. IdOf[p] \in ClientIds
  BY DEF ClientIds
<1>2. /\ w \in RegProofs!Waiting /\ next \in Seq(RegProofs!Waiting)
      /\ RegProofs!Range(next) = RegProofs!Range(notifierRegisterNext) \cup {w}
      /\ RegProofs!takeBack(next) = notifierRegisterNext
  BY <1>1, RegProofs!Appended, RegistryParameters DEF RegistryInv
<1>3. PICK code : Reg(RegAnswer(p, "REGISTER", q, code))!m_RegisterNotifier(p, IdOf[p], q)
  BY DEF REGISTER
<1> DEFINE a == RegAnswer(p, "REGISTER", q, code)
<1>4. /\ p \in open /\ UNCHANGED open
      /\ watched' = IF q = "unknown" THEN watched ELSE watched \cup {p}
      /\ \/ q \in Notifiers /\ Reg(a)!establishNewNotifier(q, next)
         \/ /\ q = "plain" /\ notifierRegisterNext' = next
            /\ UNCHANGED <<notifierRegisterList, connections>>
         \/ /\ q = "refused" /\ notifierRegisterNext' = Reg(a)!takeBack(next)
            /\ UNCHANGED <<notifierRegisterList, connections>>
         \/ /\ q = "unknown"
            /\ UNCHANGED <<notifierRegisterNext, notifierRegisterList, connections>>
  BY <1>3 DEF Reg!m_RegisterNotifier
<1>5. /\ Reg(a)!takeBack(next) = RegProofs!takeBack(next)
      /\ Reg(a)!establishNewNotifier(q, next) => RegProofs!establishNewNotifier(q, next)
  BY DEF Reg!takeBack, Reg!establishNewNotifier, Reg!Bind,
         RegProofs!takeBack, RegProofs!establishNewNotifier, RegProofs!Bind
<1>6. q \in Notifiers => q # "unknown" /\ q # "plain"
  BY NotifierNamesAssumption
<1> HIDE DEF next, w, a, Notifiers
<1> QED
  BY <1>1, <1>2, <1>4, <1>5, <1>6 DEF next, w, Notifiers

\* The commands of the registry keep it, those of other parts leave the
\* registry alone.
LEMMA RegistryStep ==
  ASSUME RegistryInv, [Next]_vars
  PROVE  RegistryInv'
<1> USE DEF RegistryInv
<1>1. ASSUME UNCHANGED <<watched, notifierRegisterNext, notifierRegisterList, connections>>
      PROVE  RegistryInv'
  BY <1>1 DEF RegProofs!Lists, RegProofs!RegInv
<1>2. ASSUME NEW p \in Peers, NEW q \in {NotifierOf[c] : c \in Channels} \cup Others,
             REGISTER(p, q)
      PROVE  RegistryInv'
  <2> DEFINE w == [peer |-> p, id |-> IdOf[p]]
             next == Append(notifierRegisterNext, w)
  <2>1. /\ w \in RegProofs!Waiting /\ next \in Seq(RegProofs!Waiting)
        /\ RegProofs!Range(next) = RegProofs!Range(notifierRegisterNext) \cup {w}
        /\ watched \subseteq watched'
        /\ \/ /\ q \in {NotifierOf[c] : c \in Channels}
              /\ RegProofs!establishNewNotifier(q, next) /\ watched' = watched \cup {p}
           \/ /\ notifierRegisterNext' = next /\ watched' = watched \cup {p}
              /\ UNCHANGED <<notifierRegisterList, connections>>
           \/ UNCHANGED <<notifierRegisterNext, notifierRegisterList, connections>>
    BY <1>2, Registering
  <2>2. watched' = watched \cup {p} => \A v \in RegProofs!Range(next) : v.peer \in watched'
    BY <2>1 DEF RegProofs!RegInv
  <2> HIDE DEF next
  <2>3. CASE /\ q \in {NotifierOf[c] : c \in Channels}
             /\ RegProofs!establishNewNotifier(q, next) /\ watched' = watched \cup {p}
    BY <2>1, <2>2, <2>3, RegProofs!EstablishedInv, RegistryParameters
  <2>4. CASE /\ notifierRegisterNext' = next /\ watched' = watched \cup {p}
             /\ UNCHANGED <<notifierRegisterList, connections>>
    BY <2>1, <2>2, <2>4 DEF RegProofs!Lists, RegProofs!RegInv
  <2>5. CASE UNCHANGED <<notifierRegisterNext, notifierRegisterList, connections>>
    BY <2>1, <2>5 DEF RegProofs!Lists, RegProofs!RegInv
  <2> QED
    BY <2>1, <2>3, <2>4, <2>5
<1>3. ASSUME NEW p \in Peers, NEW c \in Channels, Query(p, c)
      PROVE  RegistryInv'
  <2>1. /\ RegProofs!establishNewNotifier(NotifierOf[c], notifierRegisterNext)
        /\ watched' = watched
    BY <1>3
    DEF Query, Reg!QueryINTREG, Reg!establishNewNotifier, Reg!Bind,
        RegProofs!establishNewNotifier, RegProofs!Bind
  <2> QED
    BY <2>1, RegProofs!EstablishedInv, RegistryParameters DEF RegProofs!Lists, RegProofs!RegInv
<1>4. ASSUME NEW p \in Peers, NEW id,
             notifierRegisterList' = RegProofs!Remaining(notifierRegisterList, p, id),
             UNCHANGED <<watched, notifierRegisterNext, connections>>
      PROVE  RegistryInv'
  BY <1>4, RegProofs!RemovedInv, RegistryParameters DEF RegProofs!doUnregisterNotifier
<1>5. ASSUME NEW p \in Peers, Lost(p) \/ UNREGISTER(p)
      PROVE  RegistryInv'
  <2>1. ASSUME NEW a, NEW id
        PROVE  Reg(a)!Remaining(notifierRegisterList, p, id)
                 = RegProofs!Remaining(notifierRegisterList, p, id)
    BY DEF Reg!Remaining, Reg!SameClient, RegProofs!Remaining, RegProofs!SameClient
  <2>2. ASSUME NEW a, NEW id, Reg(a)!doUnregisterNotifier(p, id),
               UNCHANGED <<watched, notifierRegisterNext, connections>>
        PROVE  RegistryInv'
    BY <1>4, <2>1, <2>2 DEF Reg!doUnregisterNotifier
  <2> QED
    BY <1>1, <1>5, <2>2
    DEF Lost, UNREGISTER, Reg!peerConnectionClosed, Reg!LostClient, Reg!m_UnregisterNotifier
<1>6. ASSUME NEW p \in Peers, Connect(p)
      PROVE  RegistryInv'
  BY <1>1, <1>6 DEF Connect, Reg!establishNewConnection
<1>7. ASSUME UNCHANGED regVars
      PROVE  RegistryInv'
  BY <1>1, <1>7 DEF regVars
<1>8. ASSUME Next,
             \A p \in Peers : /\ ~Lost(p) /\ ~UNREGISTER(p) /\ ~Connect(p)
                             /\ \A q \in {NotifierOf[c] : c \in Channels} \cup Others :
                                   ~REGISTER(p, q)
                             /\ \A c \in Channels : ~Query(p, c)
      PROVE  UNCHANGED regVars
  BY <1>8
  DEF Next, DeviceRaises, Signal, ReadPipe, ReadDevice, ResetWrites, ThrowNotifiers, Quiet,
      SET, FREE, START, STOP, INTACK
<1> QED
  BY <1>2, <1>3, <1>5, <1>6, <1>7, <1>8 DEF vars

THEOREM RegistryInvariant == Spec => []RegistryInv
<1>1. Init => RegistryInv
  <2>1. RegProofs!Range(<<>>) = {}
    BY DEF RegProofs!Range
  <2> QED
    BY <2>1 DEF Init, Reg!Init, RegistryInv, RegProofs!Lists, RegProofs!RegInv
<1> QED
  BY <1>1, RegistryStep, PTL DEF Spec

\* What a REGISTER does when nobody waits and "plain" is no parameter.
LEMMA RegistersOwn ==
  ASSUME "plain" \notin Others, RegistryInv, RegProofs!NobodyWaits,
         NEW p \in Peers, NEW q \in {NotifierOf[c] : c \in Channels} \cup Others, REGISTER(p, q)
  PROVE  /\ RegProofs!NobodyWaits'
         /\ \/ /\ q \in {NotifierOf[c] : c \in Channels}
               /\ RegProofs!Range(notifierRegisterList') =
                     RegProofs!Range(notifierRegisterList)
                        \cup {[peer |-> p, id |-> IdOf[p], notifier |-> q]}
            \/ UNCHANGED notifierRegisterList
<1> DEFINE next == Append(notifierRegisterNext, [peer |-> p, id |-> IdOf[p]])
           e == [peer |-> p, id |-> IdOf[p], notifier |-> q]
<1>1. /\ IdOf[p] \in ClientIds /\ p \in open /\ UNCHANGED open
      /\ \/ /\ q \in {NotifierOf[c] : c \in Channels}
            /\ RegProofs!establishNewNotifier(q, next)
         \/ UNCHANGED <<notifierRegisterNext, notifierRegisterList, connections>>
  BY Registering
<1>2. CASE /\ q \in {NotifierOf[c] : c \in Channels}
           /\ RegProofs!establishNewNotifier(q, next)
  <2>1. RegProofs!NobodyWaits' /\ notifierRegisterList' = Append(notifierRegisterList, e)
    BY <1>1, <1>2, RegProofs!BindsOwn, RegistryParameters DEF RegistryInv
  <2>2. e \in RegProofs!Entry /\ notifierRegisterList \in Seq(RegProofs!Entry)
    BY <1>1, <1>2 DEF RegProofs!Entry, RegistryInv, RegProofs!Lists
  <2> HIDE DEF e
  <2>3. RegProofs!Range(notifierRegisterList') = RegProofs!Range(notifierRegisterList) \cup {e}
    BY <2>1, <2>2, RegProofs!RangeFacts, RegistryParameters
  <2> QED
    BY <1>2, <2>1, <2>3 DEF e
<1>3. CASE UNCHANGED <<notifierRegisterNext, notifierRegisterList, connections>>
  BY <1>1, <1>3 DEF RegProofs!NobodyWaits
<1> QED
  BY <1>1, <1>2, <1>3

\* What the end of a connection, the loss of its client or an UNREGISTER leaves
\* in the registry, when nobody waits.
LEMMA Removing ==
  ASSUME RegistryInv, RegProofs!NobodyWaits, NEW p \in Peers, Lost(p) \/ UNREGISTER(p)
  PROVE  /\ RegProofs!NobodyWaits'
         /\ \/ UNCHANGED notifierRegisterList
            \/ \E id \in {IdOf[p], EmptyId} :
                  RegProofs!Range(notifierRegisterList') =
                     {e \in RegProofs!Range(notifierRegisterList) : ~RegProofs!SameClient(e, p, id)}
<1> USE DEF RegistryInv
<1>1. ASSUME NEW id, NEW a, Reg(a)!doUnregisterNotifier(p, id)
      PROVE  RegProofs!doUnregisterNotifier(p, id)
  BY <1>1
  DEF Reg!doUnregisterNotifier, Reg!Remaining, Reg!SameClient,
      RegProofs!doUnregisterNotifier, RegProofs!Remaining, RegProofs!SameClient
<1>2. ASSUME NEW id, RegProofs!doUnregisterNotifier(p, id)
      PROVE  RegProofs!Range(notifierRegisterList') =
                {e \in RegProofs!Range(notifierRegisterList) : ~RegProofs!SameClient(e, p, id)}
  BY <1>2, RegProofs!RemovedIs, RegistryParameters
<1>3. ASSUME UNCHANGED <<open, notifierRegisterNext>>,
             \/ UNCHANGED notifierRegisterList
             \/ \E id \in {IdOf[p], EmptyId} : \E a : Reg(a)!doUnregisterNotifier(p, id)
      PROVE  RegProofs!NobodyWaits'
  BY <1>1, <1>2, <1>3, RegProofs!RemovedLeavesNone, RegistryParameters DEF RegProofs!NobodyWaits
<1>4. ASSUME NEW a, Reg(a)!peerConnectionClosed(p)
      PROVE  /\ RegProofs!NobodyWaits'
             /\ UNCHANGED notifierRegisterList \/ Reg(a)!doUnregisterNotifier(p, EmptyId)
  <2>1. /\ open' = open \ {p} /\ UNCHANGED notifierRegisterNext
        /\ IF p \in watched THEN Reg(a)!doUnregisterNotifier(p, EmptyId)
           ELSE UNCHANGED notifierRegisterList
    BY <1>4 DEF Reg!peerConnectionClosed
  <2>2. IF p \in watched THEN RegProofs!doUnregisterNotifier(p, EmptyId)
        ELSE UNCHANGED notifierRegisterList
    BY <1>1, <2>1
  <2> QED
    BY <2>1, <2>2, RegProofs!ClosedLeavesNone, RegistryParameters
<1>5. CASE UNREGISTER(p)
  <2>1. PICK a : /\ UNCHANGED <<open, notifierRegisterNext>>
                 /\ Reg(a)!doUnregisterNotifier(p, IdOf[p]) \/ UNCHANGED notifierRegisterList
    BY <1>5 DEF UNREGISTER, Reg!m_UnregisterNotifier
  <2> QED
    BY <1>1, <1>2, <1>3, <2>1
<1>6. CASE Lost(p)
  <2>1. PICK a : \/ Reg(a)!peerConnectionClosed(p)
                 \/ /\ UNCHANGED <<open, notifierRegisterNext>>
                    /\ Reg(a)!doUnregisterNotifier(p, IdOf[p])
    BY <1>6 DEF Lost, Reg!LostClient
  <2> QED
    BY <1>1, <1>2, <1>3, <1>4, <2>1
<1> QED
  BY <1>5, <1>6

\* The remaining steps neither bind nor remove.
LEMMA RegistryIdle ==
  ASSUME RegProofs!NobodyWaits, [Next]_vars,
         \A p \in Peers : /\ ~Lost(p) /\ ~UNREGISTER(p)
                          /\ \A q \in {NotifierOf[c] : c \in Channels} \cup Others : ~REGISTER(p, q)
  PROVE  RegProofs!NobodyWaits' /\ UNCHANGED notifierRegisterList
<1>1. ASSUME open \subseteq open', UNCHANGED <<notifierRegisterNext, notifierRegisterList>>
      PROVE  RegProofs!NobodyWaits' /\ UNCHANGED notifierRegisterList
  BY <1>1 DEF RegProofs!NobodyWaits
<1>2. ASSUME NEW p \in Peers, NEW c \in Channels, Query(p, c)
      PROVE  UNCHANGED <<open, notifierRegisterNext, notifierRegisterList>>
  BY <1>2 DEF Query, Reg!QueryINTREG, Reg!establishNewNotifier, RegProofs!NobodyWaits
<1>3. ASSUME \A p \in Peers, c \in Channels : ~Query(p, c)
      PROVE  open \subseteq open' /\ UNCHANGED <<notifierRegisterNext, notifierRegisterList>>
  BY <1>3
  DEF Next, DeviceRaises, Signal, ReadPipe, ReadDevice, ResetWrites, ThrowNotifiers, Quiet,
      SET, FREE, START, STOP, INTACK, Connect, Reg!establishNewConnection, regVars, vars
<1> QED
  BY <1>1, <1>2, <1>3

\* As long as no client registers for something that is executed and names no
\* notifier ("plain"), no interrupt of the running server is reported to the peer
\* of a connection that is closed, and no registration waits for a notifier of
\* somebody else's.
THEOREM TellsTheLiving ==
  ASSUME "plain" \notin Others
  PROVE  Spec => []RegProofs!NobodyWaits
<1>1. Init => RegProofs!NobodyWaits
  BY RegProofs!RangeFacts, RegistryParameters DEF Init, Reg!Init, RegProofs!NobodyWaits
<1>2. RegistryInv /\ RegProofs!NobodyWaits /\ [Next]_vars => RegProofs!NobodyWaits'
  BY RegistersOwn, Removing, RegistryIdle
<1> QED
  BY <1>1, <1>2, RegistryInvariant, PTL DEF Spec

Bound == RegProofs!Range(notifierRegisterList)

\* An entry enters the list of bound registrations only in the REGISTER of its own
\* client for its own notifier, and leaves it only with an UNREGISTER, the loss or
\* the end of its own connection.
OnlyTheirClients ==
    [][ /\ \A e \in Bound' \ Bound : \E p \in Peers, c \in Channels :
               /\ REGISTER(p, NotifierOf[c])
               /\ e = [peer |-> p, id |-> IdOf[p], notifier |-> NotifierOf[c]]
        /\ \A e \in Bound \ Bound' : \E p \in Peers :
               /\ UNREGISTER(p) \/ Lost(p)
               /\ e.peer = p ]_vars

\* As long as no client registers for something that is executed and names no
\* notifier, whatever the interrupts and the arbitration do and whoever else comes
\* and goes, registrations are made and taken back by their own clients only.
THEOREM KeepsRegistrations ==
  ASSUME "plain" \notin Others
  PROVE  Spec => OnlyTheirClients
<1> DEFINE Enters == \A e \in Bound' \ Bound : \E p \in Peers, c \in Channels :
                         /\ REGISTER(p, NotifierOf[c])
                         /\ e = [peer |-> p, id |-> IdOf[p], notifier |-> NotifierOf[c]]
           Leaves == \A e \in Bound \ Bound' : \E p \in Peers :
                         /\ UNREGISTER(p) \/ Lost(p)
                         /\ e.peer = p
<1>1. RegistryInv /\ RegProofs!NobodyWaits /\ [Next]_vars => [Enters /\ Leaves]_vars
  <2> SUFFICES ASSUME RegistryInv, RegProofs!NobodyWaits, Next
               PROVE  Enters /\ Leaves
    OBVIOUS
  <2>1. ASSUME NEW p \in Peers, NEW q \in {NotifierOf[c] : c \in Channels} \cup Others,
               REGISTER(p, q)
        PROVE  Enters /\ Leaves
    <3>1. CASE UNCHANGED notifierRegisterList
      BY <3>1 DEF Bound
    <3>2. CASE /\ q \in {NotifierOf[c] : c \in Channels}
               /\ Bound' = Bound \cup {[peer |-> p, id |-> IdOf[p], notifier |-> q]}
      BY <2>1, <3>2
    <3> QED
      BY <2>1, <3>1, <3>2, RegistersOwn DEF Bound
  <2>2. ASSUME NEW p \in Peers, Lost(p) \/ UNREGISTER(p)
        PROVE  Enters /\ Leaves
    <3>1. CASE UNCHANGED notifierRegisterList
      BY <3>1 DEF Bound
    <3>2. ASSUME NEW id, Bound' = {e \in Bound : ~RegProofs!SameClient(e, p, id)}
          PROVE  Enters /\ Leaves
      BY <2>2, <3>2 DEF RegProofs!SameClient
    <3> QED
      BY <2>2, <3>1, <3>2, Removing DEF Bound
  <2>3. CASE UNCHANGED notifierRegisterList
    BY <2>3 DEF Bound
  <2> QED
    BY <2>1, <2>2, <2>3, RegistryIdle
<1> QED
  BY <1>1, RegistryInvariant, TellsTheLiving, PTL DEF Spec, OnlyTheirClients

\* A client that commands a channel and is registered for it gets a message of
\* whatever is reported of the channel (NeverPassedBy).
THEOREM NobodyPassedBy == Spec => NeverPassedBy
<1> DEFINE Told == \A p \in Peers, c \in Channels :
            /\ Commands(p, c) /\ Registered(p, c)
            /\ Commands(p, c)' /\ Registered(p, c)'
            => told'[c] \ told[c] \subseteq known'[c]
<1>1. IrqTypes /\ RegistryInv /\ [Next]_vars => [Told]_vars
  <2> SUFFICES ASSUME IrqTypes, RegistryInv, Next, NEW p \in Peers, NEW c \in Channels,
                      Commands(p, c), Registered(p, c)
               PROVE  told'[c] \ told[c] \subseteq known'[c]
    OBVIOUS
  <2>1. CASE ThrowNotifiers
    <3>1. PICK i \in DOMAIN notifierRegisterList :
             notifierRegisterList[i] = [peer |-> p, id |-> IdOf[p], notifier |-> NotifierOf[c]]
      BY DEF Registered, Reg!Bind
    <3>2. connections[NotifierOf[c]] = 1
      BY <3>1 DEF RegistryInv, RegProofs!RegInv, RegProofs!Range
    <3>3. Reg(0)!messagesFor(NotifierOf[c])[i] > 0
      BY <3>1, <3>2 DEF Reg!messagesFor
    <3>4. Reaches(c)
      BY <3>1, <3>3 DEF Reaches
    <3> QED
      BY <2>1, <3>4 DEF ThrowNotifiers, Irq!ThrowNotifiers, Irq!Channels, Channels
  <2>2. ASSUME NEW r \in Peers, NEW d \in Channels, NEW B \in SUBSET Bits, INTACK(r, d, B)
        PROVE  told'[c] \subseteq told[c]
    BY <2>2 DEF INTACK, Irq!ResetReads, IrqTypes
  <2>3. CASE /\ ~ThrowNotifiers
             /\ \A r \in Peers, d \in Channels, B \in SUBSET Bits : ~INTACK(r, d, B)
    <3>1. told' = told
      BY <2>3
      DEF Next, DeviceRaises, Signal, ReadPipe, ReadDevice, ResetWrites, Quiet, SET, FREE,
          REGISTER, UNREGISTER, Query, START, STOP, Connect, Lost, irqVars, Irq!DeviceRaises, Irq!Signal,
          Irq!ReadPipe, Irq!ReadDevice, Irq!ResetWrites
    <3> QED
      BY <3>1
  <2> QED
    BY <2>1, <2>2, <2>3
<1>2. HandoverInv => IrqTypes
  BY DEF HandoverInv
<1> QED
  BY <1>1, <1>2, HandoverInvariant, RegistryInvariant, PTL DEF Spec, NeverPassedBy
-----------------------------------------------------------------------------
(* What a client knows of.                                                 *)

\* Words that have been read and not yet reported hold all that is known: a bit
\* stays in the device from the message to the INTACK, so no poll misses it.
KnownInv ==
    /\ known \in [Channels -> SUBSET Bits]
    /\ KnownIsTrue
    /\ pc = "throw" => \A c \in Channels : c \in Irq!Polled => known[c] \subseteq interruptREGS[c]

\* Who gets to know of a channel: the client that commands it.
LEMMA Learns ==
  ASSUME RegistryInv, KnownInv, IrqTypes, Backed, ThrowNotifiers, NEW c \in Channels
  PROVE  /\ known'[c] \subseteq known[c] \cup interruptREGS[c]
         /\ c \notin Irq!Polled => known'[c] = known[c]
         /\ known'[c] # {} => \E p \in Peers : Commands(p, c)
<1>1. known'[c] = IF c \in Irq!Polled /\ Irq!Rises(c) /\ Reaches(c)
                  THEN known[c] \cup interruptREGS[c] ELSE known[c]
  BY DEF ThrowNotifiers, Irq!Nibble
<1>2. ASSUME Reaches(c)
      PROVE  \E p \in Peers : Commands(p, c)
  <2>1. PICK i \in DOMAIN notifierRegisterList : Commands(notifierRegisterList[i].peer, c)
    BY <1>2 DEF Reaches
  <2>2. notifierRegisterList[i] \in RegProofs!Entry
    BY <2>1 DEF RegistryInv, RegProofs!Lists
  <2>3. notifierRegisterList[i].peer \in Peers
    BY <2>2 DEF RegProofs!Entry
  <2> QED
    BY <2>1, <2>3
<1>3. known[c] # {} => \E p \in Peers : Commands(p, c)
  BY DEF KnownInv, KnownIsTrue
<1> QED
  BY <1>1, <1>2, <1>3

\* The steps of connection p that leave the interrupt path alone.
Serves(p) ==
    \/ Connect(p) \/ Lost(p) \/ FREE(p) \/ UNREGISTER(p)
    \/ \E n \in Requests : SET(p, n)
    \/ \E q : REGISTER(p, q)
    \/ \E c \in Channels : Query(p, c) \/ START(p, c) \/ STOP(p, c)

\* Commands and connections: what is known of a channel goes with the client
\* that commands it, or with its connection.
LEMMA KeepsOwner ==
  ASSUME KnownInv, NEW p \in Peers, Serves(p)
  PROVE  \A c \in Channels :
            /\ known'[c] \subseteq known[c] \cup notifier[c]
            /\ known'[c] # {} => (\E q \in Peers : Commands(q, c))'
<1> DEFINE Goal == \A c \in Channels :
            /\ known'[c] \subseteq known[c] \cup notifier[c]
            /\ known'[c] # {} => (\E q \in Peers : Commands(q, c))'
<1> USE DEF KnownInv, KnownIsTrue, Commands, Arb!authorized
<1>1. ASSUME NEW n \in Requests, SET(p, n)
      PROVE  Goal
  <2>1. /\ UNCHANGED open
        /\ \A c \in Channels : known'[c] = IF m_ClientId'[c] = m_ClientId[c] THEN known[c] ELSE {}
    BY <1>1 DEF SET, regVars
  <2> QED
    BY <2>1
<1>2. CASE FREE(p)
  <2>1. UNCHANGED <<open, known, m_ClientId>>
    BY <1>2 DEF FREE, regVars, Arb!m_FreeChannels, Arb!Refuse
  <2> QED
    BY <2>1
<1>3. ASSUME NEW q, REGISTER(p, q)
      PROVE  Goal
  <2>1. UNCHANGED <<open, known, m_ClientId>>
    BY <1>3 DEF REGISTER, arbVars, Reg!m_RegisterNotifier
  <2> QED
    BY <2>1
<1>4. CASE UNREGISTER(p)
  <2>1. UNCHANGED <<open, known, m_ClientId>>
    BY <1>4 DEF UNREGISTER, arbVars, Reg!m_UnregisterNotifier
  <2> QED
    BY <2>1
<1>5. ASSUME NEW c \in Channels, Query(p, c)
      PROVE  Goal
  <2>1. /\ UNCHANGED <<open, m_ClientId>>
        /\ known' = IF Commands(p, c) THEN [known EXCEPT ![c] = @ \cup notifier[c]] ELSE known
    BY <1>5 DEF Query, arbVars, Reg!QueryINTREG
  <2> QED
    BY <2>1
<1>6. CASE Connect(p)
  <2>1. UNCHANGED <<known, m_ClientId>> /\ open' = open \cup {p}
    BY <1>6 DEF Connect, arbVars, Reg!establishNewConnection
  <2> QED
    BY <2>1
<1>7. CASE Lost(p)
  <2>1. /\ UNCHANGED m_ClientId /\ open \ {p} \subseteq open'
        /\ \A c \in Channels : known'[c] = IF Commands(p, c) THEN {} ELSE known[c]
    BY <1>7 DEF Lost, arbVars, Reg!peerConnectionClosed, Reg!LostClient
  <2> QED
    BY <2>1
<1>8. ASSUME NEW c \in Channels, START(p, c) \/ STOP(p, c)
      PROVE  Goal
  <2>1. UNCHANGED <<open, known, m_ClientId>>
    BY <1>8 DEF START, STOP, arbVars, regVars
  <2> QED
    BY <2>1
<1> QED
  BY <1>1, <1>2, <1>3, <1>4, <1>5, <1>6, <1>7, <1>8 DEF Serves

LEMMA KnownStep ==
  ASSUME IrqTypes, Backed, RegistryInv, KnownInv, [Next]_vars
  PROVE  KnownInv'
<1> DEFINE Typed == known' \in [Channels -> SUBSET Bits]
           Backing == \A c \in Channels : known'[c] \subseteq INTREG'[c] /\ known'[c] \subseteq notifier'[c]
           Obeyed == \A c \in Channels : known'[c] # {} => (\E p \in Peers : Commands(p, c))'
           Read == pc' = "throw" =>
                     \A c \in Channels : c \in Irq!Polled => known'[c] \subseteq interruptREGS'[c]
<1>1. ASSUME Typed, Backing, Obeyed, Read
      PROVE  KnownInv'
  BY <1>1 DEF KnownInv, KnownIsTrue, Channels, Irq!Polled
<1>2. \A c \in Channels : known[c] \subseteq INTREG[c] /\ known[c] \subseteq notifier[c]
  BY DEF KnownInv, KnownIsTrue
<1>3. ASSUME UNCHANGED <<arbVars, regVars, known>>
      PROVE  Typed /\ Obeyed
  BY <1>3 DEF KnownInv, KnownIsTrue, Commands, Arb!authorized, arbVars, regVars
<1>4. ASSUME NEW c \in Channels, NEW b \in Bits, DeviceRaises(c, b)
      PROVE  KnownInv'
  BY <1>1, <1>2, <1>3, <1>4 DEF DeviceRaises, Quiet, Irq!DeviceRaises, IrqTypes, KnownInv
<1>5. CASE Signal \/ ReadPipe
  BY <1>1, <1>2, <1>3, <1>5 DEF Signal, ReadPipe, Quiet, Irq!Signal, Irq!ReadPipe, KnownInv
<1>6. CASE ReadDevice
  BY <1>1, <1>2, <1>3, <1>6 DEF ReadDevice, Quiet, Irq!ReadDevice, Irq!Channels, Channels
<1>7. CASE ResetWrites
  BY <1>1, <1>2, <1>3, <1>7
  DEF ResetWrites, Quiet, Irq!ResetWrites, IrqTypes, Backed
<1>8. CASE ThrowNotifiers
  <2>1. \A c \in Channels : /\ known'[c] \subseteq known[c] \cup interruptREGS[c]
                            /\ c \notin Irq!Polled => known'[c] = known[c]
                            /\ known'[c] # {} => \E p \in Peers : Commands(p, c)
    BY <1>8, Learns
  <2>2. /\ pc = "throw" /\ pc' = "eventLoop" /\ INTREG' = INTREG
        /\ notifier' = [c \in Channels |-> IF c \in Irq!Polled THEN interruptREGS[c] ELSE notifier[c]]
        /\ UNCHANGED <<open, m_ClientId>>
    BY <1>8 DEF ThrowNotifiers, Irq!ThrowNotifiers, Irq!Nibble, Irq!Channels, Channels, arbVars, regVars
  <2>3. Typed
    BY <1>8, <2>1 DEF ThrowNotifiers, KnownInv, IrqTypes, Irq!Nibble
  <2>4. Backing
    BY <1>2, <2>1, <2>2 DEF KnownInv, Backed
  <2>5. Obeyed
    BY <2>1, <2>2 DEF Commands, Arb!authorized
  <2> QED
    BY <1>1, <2>2, <2>3, <2>4, <2>5
<1>9. ASSUME NEW p \in Peers, NEW c \in Channels, NEW B \in SUBSET Bits, INTACK(p, c, B)
      PROVE  KnownInv'
  <2>1. /\ known' = [known EXCEPT ![c] = @ \ B] /\ notifier' = [notifier EXCEPT ![c] = @ \ B]
        /\ pc' = "reset" /\ UNCHANGED <<INTREG, open, m_ClientId>>
    BY <1>9 DEF INTACK, Irq!ResetReads, arbVars, regVars
  <2>2. Typed /\ Backing /\ Read
    BY <1>2, <2>1 DEF KnownInv, IrqTypes
  <2>3. Obeyed
    BY <2>1 DEF KnownInv, KnownIsTrue, Commands, Arb!authorized
  <2> QED
    BY <1>1, <2>2, <2>3
<1>10. ASSUME NEW p \in Peers, Serves(p)
       PROVE  KnownInv'
  <2>1. pc = "eventLoop" /\ UNCHANGED irqVars
    BY <1>10 DEF Serves, Connect, Lost, FREE, UNREGISTER, SET, REGISTER, Query, START, STOP, Idle
  <2>2. Obeyed /\ \A c \in Channels : known'[c] \subseteq known[c] \cup notifier[c]
    BY <1>10, KeepsOwner
  <2>3. \E f : known' = [c \in Channels |-> f[c]]
    BY <1>10
    DEF Serves, Connect, Lost, FREE, UNREGISTER, SET, REGISTER, Query, START, STOP, KnownInv
  <2>4. Typed
    BY <2>2, <2>3 DEF KnownInv, IrqTypes
  <2>5. Backing /\ Read
    BY <1>2, <2>1, <2>2 DEF Backed, irqVars
  <2> QED
    BY <1>1, <2>2, <2>4, <2>5
<1>11. CASE UNCHANGED vars
  BY <1>1, <1>2, <1>3, <1>11 DEF vars, irqVars, KnownInv
<1> QED
  BY <1>4, <1>5, <1>6, <1>7, <1>8, <1>9, <1>10, <1>11 DEF Next, Serves

THEOREM KnownInvariant == Spec => []KnownInv
<1>1. Init => KnownInv
  BY DEF Init, KnownInv, KnownIsTrue, Irq!Init
<1>2. HandoverInv => IrqTypes /\ Backed
  BY DEF HandoverInv
<1> QED
  BY <1>1, <1>2, KnownStep, HandoverInvariant, RegistryInvariant, PTL DEF Spec

\* For any channels and clients, what the client of a channel knows of is
\* pending, and its INTACK will be carried out (KnownIsTrue).
THEOREM KnowsTruly == Spec => []KnownIsTrue
<1>1. KnownInv => KnownIsTrue
  BY DEF KnownInv
<1> QED
  BY <1>1, KnownInvariant, PTL

\* For an even number of channels and any clients, no pending interrupt waits
\* for nobody (SomebodyWillAct): ServerNeverStuck says that an INTACK is owed,
\* this, that there is a client to send it.
THEOREM NobodyWaitsInVain ==
  ASSUME NumChannels % 2 = 0
  PROVE  Spec => []SomebodyWillAct
<1>1. Backed /\ KnownInv /\ (INTREG # Irq!NoBits => Irq!PollAhead \/ Irq!AckOwed)
        => SomebodyWillAct
  <2> SUFFICES ASSUME Backed, KnownInv, Irq!AckOwed, pc # "throw", ~Orphaned
               PROVE  \E c \in Channels : known[c] # {} /\ \E p \in Peers : Commands(p, c)
    BY DEF SomebodyWillAct
  <2>1. PICK c \in Channels : (told[c] \cup interruptREGS[c]) \cap INTREG[c] # {}
    BY DEF Irq!AckOwed, Irq!Channels, Channels
  <2>2. interruptREGS[c] = {}
    BY DEF Backed, Irq!NoBits, Irq!Channels, Channels
  <2>3. told[c] # {} /\ told[c] \subseteq known[c]
    BY <2>1, <2>2 DEF Orphaned
  <2> QED
    BY <2>3 DEF KnownInv, KnownIsTrue
<1>2. HandoverInv => Backed
  BY DEF HandoverInv
<1> QED
  BY <1>1, <1>2, ServerNeverStuck, HandoverInvariant, KnownInvariant, PTL
=============================================================================
