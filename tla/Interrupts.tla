----------------------------- MODULE Interrupts -----------------------------
(***************************************************************************)
(* The way of an interrupt from an error calculator to the notifiers       *)
(* (sec1000d.cpp: SigHandler, SECIntHandler; ecalcchannel.cpp: setIntReg,  *)
(* m_resetInt, m_resetInterrupt, the raw write of INTREG).  Three actors   *)
(* interleave: the device, which raises bits at any time; the signal       *)
(* handler, which may interrupt the program anywhere; and the event loop,  *)
(* which serves the self-pipe and the commands of clients one after the    *)
(* other.  The event loop's handlers are split wherever they touch the     *)
(* pipe or the device.                                                     *)
(*                                                                         *)
(* The device is not part of the repository.  As the code uses it: INTREG  *)
(* stores what is written to it, the collection words show the INTREG of   *)
(* every channel, and an edge (SIGIO) is certain only when the first bit   *)
(* rises -- that is why m_resetInt acts "as if the interrupt handler had   *)
(* seen another edge".                                                     *)
(***************************************************************************)
EXTENDS Naturals

CONSTANTS
    NumChannels,    \* configured number of error calculators
    Bits,           \* interrupt bits of a channel (4 in the device)
    PipeCapacity    \* bytes the non-blocking self-pipe holds

ASSUME NumChannelsAssumption == NumChannels \in Nat
ASSUME PipeCapacityAssumption == PipeCapacity \in Nat \ {0}

VARIABLES
    INTREG,         \* device: the pending bits of each channel
    sigio,          \* a SIGIO is pending (it does not queue)
    pipe,           \* bytes in the self-pipe
    pc,             \* what the event loop is doing
    interruptREGS,  \* SECIntHandler: the collection words as read
    reset,          \* m_resetInterrupt: channel, named bits, INTREG as read
    notifier,       \* value of each channel's notifierECalcChannelIntReg
    told            \* history: the bits of each channel that a rising edge has
                    \* reported and no client has taken back since

vars == <<INTREG, sigio, pipe, pc, interruptREGS, reset, notifier, told>>

Channels == 0 .. NumChannels - 1
NoBits == [c \in Channels |-> {}]
NoReset == [chan |-> 0, bits |-> {}, reg |-> {}]

TypeOK ==
    /\ INTREG \in [Channels -> SUBSET Bits]
    /\ sigio \in BOOLEAN
    /\ pipe \in 0 .. PipeCapacity
    /\ pc \in {"eventLoop", "poll", "throw", "reset"}
    /\ interruptREGS \in [Channels -> SUBSET Bits]
    /\ reset \in [chan : Nat, bits : SUBSET Bits, reg : SUBSET Bits]
    /\ pc = "reset" => reset.chan \in Channels
    /\ notifier \in [Channels -> SUBSET Bits]
    /\ told \in [Channels -> SUBSET Bits]

-----------------------------------------------------------------------------
(* The device and the signal handler.                                      *)

\* The edge that goes with a bit that rises.
Edge == IF INTREG = NoBits THEN sigio' = TRUE ELSE sigio' \in {sigio, TRUE}

DeviceRaises(c, b) ==
    /\ b \notin INTREG[c]
    /\ INTREG' = [INTREG EXCEPT ![c] = @ \cup {b}]
    /\ Edge
    /\ UNCHANGED <<pipe, pc, interruptREGS, reset, notifier, told>>

\* One byte into the pipe; the write fails when the pipe is full.
SigHandlerUnbounded == pipe' = pipe + 1          \* mutant: the write never fails
SigHandler == pipe' = IF pipe < PipeCapacity THEN pipe + 1 ELSE pipe

Signal ==
    /\ sigio
    /\ sigio' = FALSE
    /\ SigHandler
    /\ UNCHANGED <<INTREG, pc, interruptREGS, reset, notifier, told>>

-----------------------------------------------------------------------------
(* SECIntHandler: the pipe, then the device, then the notifiers.           *)

ReadPipe ==
    /\ pc = "eventLoop"
    /\ pipe > 0
    /\ pipe' = pipe - 1
    /\ pc' = "poll"
    /\ UNCHANGED <<INTREG, sigio, interruptREGS, reset, notifier, told>>

\* A byte holds two channels and NumChannels / 2 bytes are read.
Polled == 0 .. 2 * (NumChannels \div 2) - 1

ReadDevice ==
    /\ pc = "poll"
    /\ interruptREGS' = [c \in Channels |-> IF c \in Polled THEN INTREG[c] ELSE {}]
    /\ pc' = "throw"
    /\ UNCHANGED <<INTREG, sigio, pipe, reset, notifier, told>>

\* The nibble of channel c in the words that were read.
NibbleSwapped(c) ==                              \* mutant: the byte's other half
    interruptREGS[IF c % 2 = 0 THEN c + 1 ELSE c - 1]
Nibble(c) == interruptREGS[c]

\* cNotificationValue (external): setValue throws risingEdge with the new value
\* when a bit of it was not set before.
Rises(c) == ~(Nibble(c) \subseteq notifier[c])

ThrowAndDrain ==                                 \* mutant: drains the pipe late
    /\ pc = "throw"
    /\ notifier' = [c \in Channels |-> IF c \in Polled THEN Nibble(c) ELSE notifier[c]]
    /\ told' = [c \in Channels |->
                  IF c \in Polled /\ Rises(c) THEN told[c] \cup Nibble(c) ELSE told[c]]
    /\ interruptREGS' = NoBits
    /\ pc' = "eventLoop"
    /\ pipe' = 0
    /\ UNCHANGED <<INTREG, sigio, reset>>
ThrowNotifiers ==
    /\ pc = "throw"
    /\ notifier' = [c \in Channels |-> IF c \in Polled THEN Nibble(c) ELSE notifier[c]]
    /\ told' = [c \in Channels |->
                  IF c \in Polled /\ Rises(c) THEN told[c] \cup Nibble(c) ELSE told[c]]
    /\ interruptREGS' = NoBits
    /\ pc' = "eventLoop"
    /\ UNCHANGED <<INTREG, sigio, pipe, reset>>

-----------------------------------------------------------------------------
(* INTACK of an authorized client: clrValue and a read-modify-write of     *)
(* INTREG, between whose halves the device may raise another bit.          *)

ResetReadsKeeps(c, B) ==                         \* mutant: clrValue missing
    /\ pc = "eventLoop"
    /\ told' = [told EXCEPT ![c] = @ \ B]
    /\ reset' = [chan |-> c, bits |-> B, reg |-> INTREG[c]]
    /\ pc' = "reset"
    /\ UNCHANGED <<INTREG, sigio, pipe, interruptREGS, notifier>>
ResetReads(c, B) ==
    /\ pc = "eventLoop"
    /\ notifier' = [notifier EXCEPT ![c] = @ \ B]
    /\ told' = [told EXCEPT ![c] = @ \ B]
    /\ reset' = [chan |-> c, bits |-> B, reg |-> INTREG[c]]
    /\ pc' = "reset"
    /\ UNCHANGED <<INTREG, sigio, pipe, interruptREGS>>

ResetWritesZero ==                               \* mutant: takes every bit back
    /\ pc = "reset"
    /\ INTREG' = [INTREG EXCEPT ![reset.chan] = {}]
    /\ SigHandler
    /\ reset' = NoReset
    /\ pc' = "eventLoop"
    /\ UNCHANGED <<sigio, interruptREGS, notifier, told>>
ResetWritesSilently ==                           \* mutant: no further edge faked
    /\ pc = "reset"
    /\ INTREG' = [INTREG EXCEPT ![reset.chan] = reset.reg \ reset.bits]
    /\ reset' = NoReset
    /\ pc' = "eventLoop"
    /\ UNCHANGED <<pipe, sigio, interruptREGS, notifier, told>>
ResetWrites ==
    /\ pc = "reset"
    /\ INTREG' = [INTREG EXCEPT ![reset.chan] = reset.reg \ reset.bits]
    /\ SigHandler
    /\ reset' = NoReset
    /\ pc' = "eventLoop"
    /\ UNCHANGED <<sigio, interruptREGS, notifier, told>>

\* R4 of an authorized client: the word replaces INTREG, and neither the
\* notifier nor the pipe learns of it.
WriteINTREG(c, B) ==
    /\ pc = "eventLoop"
    /\ INTREG' = [INTREG EXCEPT ![c] = B]
    /\ IF B \subseteq INTREG[c] THEN UNCHANGED sigio ELSE Edge
    /\ told' = [told EXCEPT ![c] = @ \cap B]
    /\ UNCHANGED <<pipe, pc, interruptREGS, reset, notifier>>

-----------------------------------------------------------------------------
\* The constructor of cECalculatorInterface stops every channel and resets its
\* interrupts; a channel that is stopped raises none, and commands are served
\* only after SetFASync.
Init ==
    /\ INTREG = NoBits
    /\ sigio = FALSE
    /\ pipe = 0
    /\ pc = "eventLoop"
    /\ interruptREGS = NoBits
    /\ reset = NoReset
    /\ notifier = NoBits
    /\ told = NoBits

\* Clients that acknowledge by INTACK only.
AckNext ==
    \/ \E c \in Channels, b \in Bits : DeviceRaises(c, b)
    \/ Signal
    \/ ReadPipe
    \/ ReadDevice
    \/ ThrowNotifiers
    \/ \E c \in Channels, B \in SUBSET Bits : ResetReads(c, B)
    \/ ResetWrites

AckSpec == Init /\ [][AckNext]_vars

Next == AckNext \/ \E c \in Channels, B \in SUBSET Bits : WriteINTREG(c, B)

Spec == Init /\ [][Next]_vars

\* A pending signal is delivered and a handler that has begun runs on.  The
\* event loop does not starve the pipe, however many commands arrive (strong:
\* every command makes it busy for a while).  Clients acknowledge what they
\* were told.
Fairness ==
    /\ WF_vars(Signal)
    /\ WF_vars(ReadDevice)
    /\ WF_vars(ThrowNotifiers)
    /\ WF_vars(ResetWrites)
    /\ SF_vars(ReadPipe)
    /\ \A c \in Channels :
          SF_vars(told[c] # {} /\ ResetReads(c, told[c]))

FairSpec == Spec /\ Fairness

-----------------------------------------------------------------------------
(* Properties.                                                             *)

\* The device will still be read: a wake-up is under way, a handler has not
\* come to its read, or an INTACK will fake an edge at its end.
PollAhead == sigio \/ pipe > 0 \/ pc \in {"poll", "reset"}

\* Some pending bit has been reported, or is about to be, and its INTACK will
\* cause another poll.
AckOwed ==
    \E c \in Channels : (told[c] \cup interruptREGS[c]) \cap INTREG[c] # {}

\* A notifier holds a bit that no client will acknowledge any more: a raw write
\* has taken the bit back behind its back.
LeftBehind == \E c \in Channels : ~(notifier[c] \subseteq told[c])

\* No interrupt is stuck: while any bit is pending in the device, either the
\* device will be polled again or a client owes the INTACK that makes the
\* server poll again.  This is what the order pipe - device - notifiers and
\* the faked edge of m_resetInt are for.  Only raw writes of INTREG, which
\* leave notifiers behind, can break it.
NoStuckInterrupt == INTREG # NoBits => PollAhead \/ AckOwed \/ LeftBehind

\* A client is told only of bits that are pending in its own channel at that
\* moment, however old the words are they were taken from (SECIntHandler).
NoSpuriousIRQ == [][ \A c \in Channels : told'[c] \ told[c] \subseteq INTREG[c] ]_vars

\* A bit that has been reported stays in the device until a client takes it
\* back, however INTACKs of other bits, new bits and polls interleave: the
\* read-modify-write of m_resetInterrupt may wipe a bit that rises meanwhile,
\* but never one that somebody has been told of.
ReportedStays == \A c \in Channels : told[c] \subseteq INTREG[c]

\* Every bit that is and stays pending is reported in the end, unless a raw
\* write leaves a notifier behind.
EveryInterruptSeen ==
    \A c \in Channels, b \in Bits :
        b \in INTREG[c] ~> b \in told[c] \/ b \notin INTREG[c] \/ LeftBehind
=============================================================================
