------------------------- MODULE Interrupts_proofs -------------------------
(***************************************************************************)
(* Proofs about Interrupts, for every number of channels, every set of     *)
(* bits and every size of the pipe.                                        *)
(***************************************************************************)
EXTENDS Interrupts, TLAPS

\* What SECIntHandler read is used up when it returns and is still pending
\* while it runs (only commands clear bits, and none is served meanwhile).
Snapshots ==
    /\ pc # "throw" => interruptREGS = NoBits
    /\ \A c \in Channels : interruptREGS[c] \subseteq INTREG[c]

\* Between the poll and the notifiers, a notifier that was left behind is no
\* excuse: what is pending has been read or will be polled again.
ThrowAttended == pc = "throw" /\ INTREG # NoBits => PollAhead \/ AckOwed

\* A client owes an INTACK only for bits that are pending and that the notifier
\* holds; the copies the handlers work with have them, too.
ToldAgrees ==
    \A c \in Channels :
        /\ told[c] \subseteq INTREG[c] /\ told[c] \subseteq notifier[c]
        /\ pc = "throw" /\ c \in Polled => told[c] \subseteq interruptREGS[c]
        /\ pc = "reset" /\ reset.chan = c => told[c] \subseteq reset.reg \ reset.bits

\* The edge that goes with a rising bit leaves sigio a truth value and takes no
\* pending signal away.
LEMMA EdgeKeeps ==
  ASSUME sigio \in BOOLEAN, Edge
  PROVE  sigio' \in BOOLEAN /\ (sigio => sigio') /\ (INTREG = NoBits => sigio')
BY DEF Edge

\* The state variables keep their types (Interrupts.tla, TypeOK).
THEOREM TypeCorrect == Spec => []TypeOK
<1>1. Init => TypeOK
  <2> SUFFICES ASSUME Init
               PROVE  TypeOK
    OBVIOUS
  <2>1. NoBits \in [Channels -> SUBSET Bits]
    BY DEF NoBits
  <2>2. pipe \in 0 .. PipeCapacity
    BY PipeCapacityAssumption DEF Init
  <2>3. NoReset \in [chan : Nat, bits : SUBSET Bits, reg : SUBSET Bits]
    BY DEF NoReset
  <2> QED
    BY <2>1, <2>2, <2>3 DEF Init, TypeOK
<1>2. TypeOK /\ [Next]_vars => TypeOK'
  <2> SUFFICES ASSUME TypeOK, [Next]_vars
               PROVE  TypeOK'
    OBVIOUS
  <2> USE PipeCapacityAssumption, NumChannelsAssumption DEF TypeOK, Channels
  <2>1. ASSUME NEW c \in Channels, NEW b \in Bits, DeviceRaises(c, b)
        PROVE  TypeOK'
    <3>1. sigio' \in BOOLEAN
      BY <2>1, EdgeKeeps DEF DeviceRaises
    <3> QED
      BY <2>1, <3>1 DEF DeviceRaises
  <2>2. CASE Signal
    <3>1. pipe' \in 0 .. PipeCapacity
      BY <2>2 DEF Signal, SigHandler
    <3>2. sigio' \in BOOLEAN
      BY <2>2 DEF Signal
    <3> QED
      BY <2>2, <3>1, <3>2 DEF Signal
  <2>3. CASE ReadPipe
    BY <2>3 DEF ReadPipe
  <2>4. CASE ReadDevice
    BY <2>4 DEF ReadDevice
  <2>5. CASE ThrowNotifiers
    BY <2>5 DEF ThrowNotifiers, Nibble, NoBits
  <2>6. ASSUME NEW c \in Channels, NEW B \in SUBSET Bits, ResetReads(c, B)
        PROVE  TypeOK'
    <3>1. reset' \in [chan : Nat, bits : SUBSET Bits, reg : SUBSET Bits] /\ reset'.chan \in Channels
      BY <2>6 DEF ResetReads
    <3> QED
      BY <2>6, <3>1 DEF ResetReads
  <2>7. CASE ResetWrites
    BY <2>7 DEF ResetWrites, SigHandler, NoReset
  <2>8. ASSUME NEW c \in Channels, NEW B \in SUBSET Bits, WriteINTREG(c, B)
        PROVE  TypeOK'
    <3>1. sigio' \in BOOLEAN
      BY <2>8, EdgeKeeps DEF WriteINTREG
    <3> QED
      BY <2>8, <3>1 DEF WriteINTREG
  <2>9. CASE UNCHANGED vars
    BY <2>9 DEF vars
  <2> QED
    BY <2>1, <2>2, <2>3, <2>4, <2>5, <2>6, <2>7, <2>8, <2>9 DEF Next, AckNext
<1> QED
  BY <1>1, <1>2, PTL DEF Spec

\* Snapshots is an invariant (SECIntHandler runs to its end within one turn of
\* the event loop, sec1000d.cpp).
THEOREM SnapshotsInvariant == Spec => []Snapshots
<1>1. Init => Snapshots
  BY DEF Init, Snapshots, NoBits
<1>2. TypeOK /\ Snapshots /\ [Next]_vars => Snapshots'
  <2> SUFFICES ASSUME TypeOK, Snapshots, [Next]_vars
               PROVE  Snapshots'
    OBVIOUS
  <2> USE DEF TypeOK, Snapshots
  <2>1. ASSUME NEW c \in Channels, NEW b \in Bits, DeviceRaises(c, b)
        PROVE  Snapshots'
    BY <2>1 DEF DeviceRaises
  <2>2. CASE Signal
    BY <2>2 DEF Signal
  <2>3. CASE ReadPipe
    BY <2>3 DEF ReadPipe
  <2>4. CASE ReadDevice
    BY <2>4 DEF ReadDevice
  <2>5. CASE ThrowNotifiers
    BY <2>5 DEF ThrowNotifiers, NoBits
  <2>6. ASSUME NEW c \in Channels, NEW B \in SUBSET Bits, ResetReads(c, B)
        PROVE  Snapshots'
    BY <2>6 DEF ResetReads
  <2>7. CASE ResetWrites
    <3>1. \A c \in Channels : interruptREGS'[c] = {}
      BY <2>7 DEF ResetWrites, NoBits
    <3> QED
      BY <2>7, <3>1 DEF ResetWrites
  <2>8. ASSUME NEW c \in Channels, NEW B \in SUBSET Bits, WriteINTREG(c, B)
        PROVE  Snapshots'
    BY <2>8 DEF WriteINTREG, NoBits
  <2>9. CASE UNCHANGED vars
    BY <2>9 DEF vars
  <2> QED
    BY <2>1, <2>2, <2>3, <2>4, <2>5, <2>6, <2>7, <2>8, <2>9 DEF Next, AckNext
<1> QED
  BY <1>1, <1>2, TypeCorrect, PTL DEF Spec

\* Every reported bit was pending when it was reported (NoSpuriousIRQ).
THEOREM ReportsAreReal == Spec => NoSpuriousIRQ
<1>1. TypeOK /\ Snapshots /\ [Next]_vars =>
        [\A c \in Channels : told'[c] \ told[c] \subseteq INTREG[c]]_vars
  <2> SUFFICES ASSUME TypeOK, Snapshots, Next, NEW c \in Channels
               PROVE  told'[c] \ told[c] \subseteq INTREG[c]
    OBVIOUS
  <2>1. CASE ThrowNotifiers
    BY <2>1 DEF ThrowNotifiers, Nibble, TypeOK, Snapshots
  <2>2. ASSUME NEW d \in Channels, NEW B \in SUBSET Bits, ResetReads(d, B)
        PROVE  told'[c] \subseteq told[c]
    BY <2>2 DEF ResetReads, TypeOK
  <2>3. ASSUME NEW d \in Channels, NEW B \in SUBSET Bits, WriteINTREG(d, B)
        PROVE  told'[c] \subseteq told[c]
    BY <2>3 DEF WriteINTREG, TypeOK
  <2>4. CASE UNCHANGED told
    BY <2>4
  <2> QED
    BY <2>1, <2>2, <2>3, <2>4
    DEF Next, AckNext, DeviceRaises, Signal, ReadPipe, ReadDevice, ResetWrites
<1> QED
  BY <1>1, TypeCorrect, SnapshotsInvariant, PTL DEF Spec, NoSpuriousIRQ

\* ToldAgrees is an invariant (the read-modify-write of m_resetInterrupt never
\* wipes a bit that has been reported, ecalcchannel.cpp).
THEOREM ToldInvariant == Spec => []ToldAgrees
<1>1. Init => ToldAgrees
  BY DEF Init, ToldAgrees, NoBits
<1>2. TypeOK /\ Snapshots /\ ToldAgrees /\ [Next]_vars => ToldAgrees'
  <2> SUFFICES ASSUME TypeOK, Snapshots, ToldAgrees, [Next]_vars
               PROVE  ToldAgrees'
    OBVIOUS
  <2> USE DEF TypeOK, ToldAgrees
  <2> Polled = Polled'
    BY DEF Polled
  <2>1. ASSUME NEW c \in Channels, NEW b \in Bits, DeviceRaises(c, b)
        PROVE  ToldAgrees'
    BY <2>1 DEF DeviceRaises
  <2>2. CASE Signal
    BY <2>2 DEF Signal
  <2>3. CASE ReadPipe
    BY <2>3 DEF ReadPipe
  <2>4. CASE ReadDevice
    BY <2>4 DEF ReadDevice
  <2>5. CASE ThrowNotifiers
    BY <2>5 DEF ThrowNotifiers, Nibble, Snapshots
  <2>6. ASSUME NEW c \in Channels, NEW B \in SUBSET Bits, ResetReads(c, B)
        PROVE  ToldAgrees'
    BY <2>6 DEF ResetReads
  <2>7. CASE ResetWrites
    BY <2>7 DEF ResetWrites
  <2>8. ASSUME NEW c \in Channels, NEW B \in SUBSET Bits, WriteINTREG(c, B)
        PROVE  ToldAgrees'
    BY <2>8 DEF WriteINTREG
  <2>9. CASE UNCHANGED vars
    BY <2>9 DEF vars
  <2> QED
    BY <2>1, <2>2, <2>3, <2>4, <2>5, <2>6, <2>7, <2>8, <2>9 DEF Next, AckNext
<1> QED
  BY <1>1, <1>2, TypeCorrect, SnapshotsInvariant, PTL DEF Spec

\* What has been reported is pending until a client takes it back
\* (ReportedStays).
THEOREM ReportedBitsStay == Spec => []ReportedStays
<1>1. ToldAgrees => ReportedStays
  BY DEF ToldAgrees, ReportedStays
<1> QED
  BY <1>1, ToldInvariant, PTL

\* The division by two in SECIntHandler loses no channel of an even number.
LEMMA EvenPolled ==
  ASSUME NumChannels % 2 = 0
  PROVE  Polled = Channels
BY NumChannelsAssumption DEF Polled, Channels

\* Clients that acknowledge by INTACK only never leave a notifier behind, so
\* that for them NoStuckInterrupt has no exception.
THEOREM NeverLeftBehind == AckSpec => []~LeftBehind
<1> DEFINE Kept == \A c \in Channels : notifier[c] \subseteq told[c]
<1> DEFINE Types == notifier \in [Channels -> SUBSET Bits] /\ told \in [Channels -> SUBSET Bits]
                    /\ interruptREGS \in [Channels -> SUBSET Bits]
<1>1. Init => Kept
  BY DEF Init, NoBits
<1>2. TypeOK /\ Kept /\ [AckNext]_vars => Kept'
  <2> SUFFICES ASSUME Types, Kept, [AckNext]_vars, NEW c \in Channels
               PROVE  notifier'[c] \subseteq told'[c]
    BY DEF TypeOK
  <2>1. CASE ThrowNotifiers
    BY <2>1 DEF ThrowNotifiers, Nibble, Rises
  <2>2. ASSUME NEW d \in Channels, NEW B \in SUBSET Bits, ResetReads(d, B)
        PROVE  notifier'[c] \subseteq told'[c]
    BY <2>2 DEF ResetReads
  <2>3. CASE UNCHANGED <<notifier, told>>
    BY <2>3
  <2> QED
    BY <2>1, <2>2, <2>3
    DEF AckNext, DeviceRaises, Signal, ReadPipe, ReadDevice, ResetWrites, vars
<1>3. AckSpec => Spec
  BY PTL DEF AckSpec, Spec, Next
<1>4. Kept <=> ~LeftBehind
  BY DEF LeftBehind
<1> HIDE DEF Kept
<1> QED
  BY <1>1, <1>2, <1>3, <1>4, TypeCorrect, PTL DEF AckSpec

\* With an even number of channels no interrupt is ever stuck: pending bits
\* are polled again or wait for an INTACK, unless a raw write has left a
\* notifier behind (NoStuckInterrupt).
THEOREM NoStuck ==
  ASSUME NumChannels % 2 = 0
  PROVE  Spec => []NoStuckInterrupt
<1> DEFINE Inv == NoStuckInterrupt /\ ThrowAttended
<1>1. Init => Inv
  BY DEF Init, NoStuckInterrupt, ThrowAttended
<1>2. TypeOK /\ Snapshots /\ ToldAgrees /\ Inv /\ [Next]_vars => Inv'
  <2> SUFFICES ASSUME TypeOK, Snapshots, ToldAgrees, Inv, [Next]_vars
               PROVE  Inv'
    OBVIOUS
  <2> USE DEF NoStuckInterrupt, ThrowAttended
  <2>1. ASSUME NEW c \in Channels, NEW b \in Bits, DeviceRaises(c, b)
        PROVE  Inv'
    <3>1. (sigio => sigio') /\ (INTREG = NoBits => sigio')
      BY <2>1, EdgeKeeps DEF DeviceRaises, TypeOK
    <3>2. PollAhead => PollAhead'
      BY <2>1, <3>1 DEF DeviceRaises, PollAhead
    <3>3. AckOwed => AckOwed'
      BY <2>1 DEF DeviceRaises, AckOwed, TypeOK
    <3>4. LeftBehind => LeftBehind'
      BY <2>1 DEF DeviceRaises, LeftBehind
    <3>5. CASE INTREG = NoBits
      BY <3>1, <3>5 DEF PollAhead
    <3>6. CASE INTREG # NoBits
      BY <2>1, <3>2, <3>3, <3>4, <3>6 DEF DeviceRaises
    <3> QED
      BY <3>5, <3>6
  <2>2. CASE Signal
    BY <2>2, PipeCapacityAssumption DEF Signal, SigHandler, PollAhead, TypeOK
  <2>3. CASE ReadPipe
    BY <2>3 DEF ReadPipe, PollAhead
  <2>4. CASE ReadDevice
    <3>1. ASSUME INTREG # NoBits
          PROVE  \E c \in Channels : INTREG[c] # {}
      BY <3>1 DEF NoBits, TypeOK
    <3>2. ASSUME NEW c \in Channels, INTREG[c] # {}
          PROVE  AckOwed'
      BY <2>4, <3>2, EvenPolled DEF ReadDevice, AckOwed, TypeOK
    <3> QED
      BY <2>4, <3>1, <3>2 DEF ReadDevice, NoBits
  <2>5. CASE ThrowNotifiers
    <3>1. PollAhead => PollAhead'
      BY <2>5 DEF ThrowNotifiers, PollAhead
    <3>2. ASSUME NEW c \in Channels
          PROVE  told[c] \subseteq told'[c] /\ notifier'[c] = interruptREGS[c]
      BY <2>5, <3>2, EvenPolled DEF ThrowNotifiers, Nibble, TypeOK
    <3>3. AckOwed => AckOwed' \/ LeftBehind'
      BY <2>5, <3>2 DEF ThrowNotifiers, AckOwed, LeftBehind
    <3> QED
      BY <2>5, <3>1, <3>3 DEF ThrowNotifiers, NoBits
  <2>6. ASSUME NEW c \in Channels, NEW B \in SUBSET Bits, ResetReads(c, B)
        PROVE  Inv'
    BY <2>6 DEF ResetReads, PollAhead
  <2>7. CASE ResetWrites
    BY <2>7, PipeCapacityAssumption DEF ResetWrites, SigHandler, PollAhead, TypeOK
  <2>8. ASSUME NEW c \in Channels, NEW B \in SUBSET Bits, WriteINTREG(c, B)
        PROVE  Inv'
    <3> USE <2>8 DEF WriteINTREG
    <3>1. sigio => sigio'
      BY EdgeKeeps DEF TypeOK
    <3>2. PollAhead => PollAhead'
      BY <3>1 DEF PollAhead
    <3>3. LeftBehind => LeftBehind'
      BY DEF LeftBehind, TypeOK
    <3>4. CASE INTREG = NoBits
      <4>1. CASE B \subseteq INTREG[c]
        BY <3>4, <4>1 DEF NoBits, TypeOK
      <4>2. CASE ~(B \subseteq INTREG[c])
        BY <3>4, <4>2, EdgeKeeps DEF PollAhead, TypeOK
      <4> QED
        BY <4>1, <4>2
    <3>5. CASE INTREG # NoBits /\ AckOwed
      BY <3>5 DEF AckOwed, LeftBehind, TypeOK, Snapshots, ToldAgrees, NoBits
    <3> QED
      BY <3>2, <3>3, <3>4, <3>5
  <2>9. CASE UNCHANGED vars
    BY <2>9 DEF vars, PollAhead, AckOwed, LeftBehind, NoBits
  <2> QED
    BY <2>1, <2>2, <2>3, <2>4, <2>5, <2>6, <2>7, <2>8, <2>9 DEF Next, AckNext
<1> QED
  BY <1>1, <1>2, TypeCorrect, SnapshotsInvariant, ToldInvariant, PTL DEF Spec

-----------------------------------------------------------------------------
(* An odd number of channels.                                              *)

Last == NumChannels - 1

\* The division by two in SECIntHandler loses the last channel of an odd number.
LEMMA OddPolled ==
  ASSUME NumChannels % 2 = 1
  PROVE  Last \in Channels /\ Polled = Channels \ {Last}
BY NumChannelsAssumption DEF Polled, Channels, Last

\* With an odd number of channels the last one is deaf: whatever it raises, its
\* notifier never changes and nobody is ever told (the finding on
\* NoStuckInterrupt, for every odd number and every behaviour).
THEOREM LastNeverHeard ==
  ASSUME NumChannels % 2 = 1
  PROVE  Spec => [](told[Last] = {} /\ notifier[Last] = {})
<1> DEFINE Deaf == told[Last] = {} /\ notifier[Last] = {}
<1>1. Last \in Channels /\ Last \notin Polled
  BY OddPolled
<1>2. Init => Deaf
  BY <1>1 DEF Init, NoBits
<1>3. TypeOK /\ Deaf /\ [Next]_vars => Deaf'
  <2> SUFFICES ASSUME TypeOK, told[Last] = {}, notifier[Last] = {}, [Next]_vars
               PROVE  told'[Last] = {} /\ notifier'[Last] = {}
    BY DEF Last
  <2>1. CASE ThrowNotifiers
    BY <1>1, <2>1 DEF ThrowNotifiers
  <2>2. ASSUME NEW c \in Channels, NEW B \in SUBSET Bits, ResetReads(c, B)
        PROVE  told'[Last] = {} /\ notifier'[Last] = {}
    BY <1>1, <2>2 DEF ResetReads, TypeOK
  <2>3. ASSUME NEW c \in Channels, NEW B \in SUBSET Bits, WriteINTREG(c, B)
        PROVE  told'[Last] = {} /\ notifier'[Last] = {}
    BY <1>1, <2>3 DEF WriteINTREG, TypeOK
  <2>4. CASE UNCHANGED <<told, notifier>>
    BY <2>4
  <2> QED
    BY <2>1, <2>2, <2>3, <2>4
    DEF Next, AckNext, DeviceRaises, Signal, ReadPipe, ReadDevice, ResetWrites, vars
<1> QED
  BY <1>2, <1>3, TypeCorrect, PTL DEF Spec
=============================================================================
