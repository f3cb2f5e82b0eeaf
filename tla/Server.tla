------------------------------- MODULE Server -------------------------------
(***************************************************************************)
(* The running server: arbitration, interrupt path and registry together,  *)
(* with clients that come, compete for channels and are lost at any time.  *)
(* A client is given a channel, registers for its interrupts, is told of   *)
(* them by IRQ messages and acknowledges what it knows of.  The event loop *)
(* serves commands and closed connections when no other handler runs; the  *)
(* device and the signal handler interleave with all of them.              *)
(*                                                                         *)
(* Of all clients four things are assumed: they ask for channels only      *)
(* while they have none and free channels only while they have some; they  *)
(* leave the registers to START, STOP and INTACK; each uses one connection *)
(* at a time; and of the parameters of REGISTER that are no INTREG query   *)
(* they use those in Others.  The clients in Tidy besides start only       *)
(* channels they have been given, and before a FREE they stop each of them *)
(* and then acknowledge all its bits.  The server checks none of it.       *)
(* Nothing is assumed of the order of SET, REGISTER and START, nor of how  *)
(* often a client registers, and it may be lost whatever it has left       *)
(* undone.  Of the device it is assumed that only a started channel raises *)
(* interrupts.                                                             *)
(***************************************************************************)
EXTENDS Naturals, Sequences

CONSTANTS
    NumChannels,    \* configured number of error calculators
    Bits,           \* interrupt bits of a channel
    PipeCapacity,   \* bytes the self-pipe holds
    Peers,          \* connections
    IdOf,           \* connection -> id of the client that uses it
    EmptyId,        \* the id of old style clients
    Nobody,         \* no client
    NotifierOf,     \* channel -> its notifier
    Others,         \* parameters of REGISTER besides INTREG queries
    Tidy,           \* clients that leave nothing pending behind
    Requests,       \* parameters of ECALCULATOR:SET
    MaxEntries      \* bound: registrations kept at the same time

ClientIds == {IdOf[p] : p \in Peers} \cup {EmptyId}
Channels == 0 .. NumChannels - 1

ASSUME NumChannelsAssumption == NumChannels \in Nat
ASSUME PipeCapacityAssumption == PipeCapacity \in Nat \ {0}
ASSUME NobodyAssumption == Nobody \notin ClientIds
\* Each channel has a notifier of its own.
ASSUME NotifierOfAssumption == \A c, d \in Channels : NotifierOf[c] = NotifierOf[d] => c = d
ASSUME NotifierNamesAssumption ==
    {NotifierOf[c] : c \in Channels} \cap {"plain", "refused", "unknown", "none"} = {}
ASSUME RequestsAssumption == Requests \subseteq Nat
ASSUME OthersAssumption == Others \subseteq {"plain", "refused", "unknown"}

VARIABLES
    m_bSet, m_ClientId, m_ClientECalcHash, held,            \* arbitration
    INTREG, sigio, pipe, pc, interruptREGS, reset,          \* interrupt path
    notifier, told,
    open, closed, watched, notifierRegisterNext,            \* registry
    notifierRegisterList, connections,
    mode,           \* per channel: started ("running"), stopped since, or
                    \* all its bits acknowledged since the stop ("quiet")
    known           \* history: per channel, the bits its client knows of from
                    \* IRQ messages and queries and has not acknowledged

arbVars == <<m_bSet, m_ClientId, m_ClientECalcHash, held>>
irqVars == <<INTREG, sigio, pipe, pc, interruptREGS, reset, notifier, told>>
regVars == <<open, closed, watched, notifierRegisterNext, notifierRegisterList, connections>>
vars == <<arbVars, irqVars, regVars, mode, known>>

\* The answers are hidden: a step gives some answer.
NoAnswer == [op |-> "none"]
Arb(answer) == INSTANCE ECalcInterface
Irq == INSTANCE Interrupts
Reg(answer) == INSTANCE Notification
         WITH Notifiers <- {NotifierOf[c] : c \in Channels}, sent <- <<>>

ArbAnswer(p, op, arg, code, chans) ==
    [to |-> IdOf[p], op |-> op, arg |-> arg, code |-> code, chans |-> chans]
RegAnswer(p, op, arg, code) ==
    [peer |-> p, id |-> IdOf[p], op |-> op, arg |-> arg, code |-> code]
RegGone(op, p, id) == Reg(0)!Gone(op, p, id)

\* Commands are served between two handlers.
Idle == pc = "eventLoop"

\* The client of connection p commands channel c.
Commands(p, c) == p \in open /\ Arb(0)!authorized(IdOf[p], c)

\* Connection p is registered for the interrupts of channel c.
Registered(p, c) ==
    \E i \in DOMAIN notifierRegisterList :
        notifierRegisterList[i] = Reg(0)!Bind([peer |-> p, id |-> IdOf[p]], NotifierOf[c])

-----------------------------------------------------------------------------
(* Steps of the interrupt path.  The notifiers' rising edges run           *)
(* asyncHandler, which sends the whole value to those registered.          *)

Quiet(A) == A /\ UNCHANGED <<arbVars, regVars, mode, known>>

DeviceRaises(c, b) == mode[c] = "running" /\ Quiet(Irq!DeviceRaises(c, b))
Signal == Quiet(Irq!Signal)
ReadPipe == Quiet(Irq!ReadPipe)
ReadDevice == Quiet(Irq!ReadDevice)
ResetWrites == Quiet(Irq!ResetWrites)

\* The client that commands channel c gets a message when the notifier rises.
Reaches(c) ==
    \E i \in DOMAIN notifierRegisterList :
        /\ Reg(0)!messagesFor(NotifierOf[c])[i] > 0
        /\ Commands(notifierRegisterList[i].peer, c)

ThrowNotifiers ==
    /\ Irq!ThrowNotifiers
    /\ UNCHANGED <<arbVars, regVars, mode>>
    /\ known' = [c \in Channels |->
                   IF c \in Irq!Polled /\ Irq!Rises(c) /\ Reaches(c)
                   THEN known[c] \cup Irq!Nibble(c) ELSE known[c]]

\* INTACK.  One that is not authorized changes nothing.  A stopped channel is
\* quiet once it has been asked to take back all.
INTACK(p, c, B) ==
    /\ Commands(p, c)
    /\ Irq!ResetReads(c, B)
    /\ known' = [known EXCEPT ![c] = @ \ B]
    /\ mode' = IF B = Bits /\ mode[c] = "stopped" THEN [mode EXCEPT ![c] = "quiet"] ELSE mode
    /\ UNCHANGED <<arbVars, regVars>>

\* The client may start a channel it has given back (its id is still there).
START(p, c) ==
    /\ Idle /\ Commands(p, c)
    /\ IdOf[p] \in Tidy => c \in held[IdOf[p]]
    /\ mode' = [mode EXCEPT ![c] = "running"]
    /\ UNCHANGED <<arbVars, irqVars, regVars, known>>

STOP(p, c) ==
    /\ Idle /\ Commands(p, c)
    /\ mode' = [mode EXCEPT ![c] = IF @ = "running" THEN "stopped" ELSE @]
    /\ UNCHANGED <<arbVars, irqVars, regVars, known>>

-----------------------------------------------------------------------------
(* Commands of the arbitration.  The new client of a channel knows nothing *)
(* of it.                                                                  *)

SET(p, n) ==
    /\ Idle /\ p \in open
    /\ held[IdOf[p]] = {}
    /\ \E code \in {"nak", "busy", "list"}, S \in {{}, Arb(0)!scan(n).sel} :
          Arb(ArbAnswer(p, "SET", n, code, S))!m_SetChannels(IdOf[p], n)
    /\ known' = [c \in Channels |-> IF m_ClientId'[c] = m_ClientId[c] THEN known[c] ELSE {}]
    /\ UNCHANGED <<irqVars, regVars, mode>>

FREE(p) ==
    /\ Idle /\ p \in open
    /\ held[IdOf[p]] # {}
    /\ IdOf[p] \in Tidy => \A c \in held[IdOf[p]] : mode[c] = "quiet"
    /\ \E code \in {"nak", "ack"} :
          Arb(ArbAnswer(p, "FREE", 0, code, {}))!m_FreeChannels(IdOf[p])
    /\ UNCHANGED <<irqVars, regVars, mode, known>>

-----------------------------------------------------------------------------
(* Commands of the registry, and connections.                              *)

\* A client registers for any channel, its own or not, as often as it likes, or
\* for something that names no notifier.
REGISTER(p, q) ==
    /\ Idle
    /\ \E code \in {"ack", "nak"} :
          Reg(RegAnswer(p, "REGISTER", q, code))!m_RegisterNotifier(p, IdOf[p], q)
    /\ UNCHANGED <<arbVars, irqVars, mode, known>>

UNREGISTER(p) ==
    /\ Idle
    /\ \E code \in {"ack", "nak"} :
          Reg(RegAnswer(p, "UNREGISTER", "none", code))!m_UnregisterNotifier(p, IdOf[p])
    /\ UNCHANGED <<arbVars, irqVars, mode, known>>

\* Any client may query any channel: the answer is the value of the notifier.
Query(p, c) ==
    /\ Idle /\ p \in open
    /\ Reg(Reg(0)!Queried(NotifierOf[c]))!QueryINTREG(NotifierOf[c])
    /\ known' = IF Commands(p, c) THEN [known EXCEPT ![c] = @ \cup notifier[c]] ELSE known
    /\ UNCHANGED <<arbVars, irqVars, mode>>

\* A client uses one connection at a time.
Connect(p) ==
    /\ Idle
    /\ \A q \in open : IdOf[q] # IdOf[p]
    /\ Reg(NoAnswer)!establishNewConnection(p)
    /\ UNCHANGED <<arbVars, irqVars, mode, known>>

\* The connection is closed, or the client behind it is reported lost: its
\* registrations go.  The arbitration is not told, its channels stay occupied.
Lost(p) ==
    /\ Idle
    /\ \/ Reg(RegGone("CLOSED", p, EmptyId))!peerConnectionClosed(p)
       \/ Reg(RegGone("LOST", p, IdOf[p]))!LostClient(p, IdOf[p])
    /\ known' = [c \in Channels |-> IF Commands(p, c) THEN {} ELSE known[c]]
    /\ UNCHANGED <<arbVars, irqVars, mode>>

-----------------------------------------------------------------------------
Init ==
    /\ Arb([to |-> EmptyId, op |-> "none", arg |-> 0, code |-> "ack", chans |-> {}])!Init
    /\ Irq!Init
    /\ Reg(NoAnswer)!Init
    /\ mode = [c \in Channels |-> "quiet"]
    /\ known = [c \in Channels |-> {}]

Next ==
    \/ \E c \in Channels, b \in Bits : DeviceRaises(c, b)
    \/ Signal
    \/ ReadPipe
    \/ ReadDevice
    \/ ResetWrites
    \/ ThrowNotifiers
    \/ \E p \in Peers :
        \/ Connect(p) \/ Lost(p)
        \/ FREE(p) \/ \E n \in Requests : SET(p, n)
        \/ UNREGISTER(p)
        \/ \E q \in Others : REGISTER(p, q)
        \/ \E c \in Channels :
            \/ REGISTER(p, NotifierOf[c])
            \/ START(p, c) \/ STOP(p, c)
            \/ Query(p, c)
            \/ \E B \in SUBSET Bits : INTACK(p, c, B)

Spec == Init /\ [][Next]_vars

\* As in Interrupts; a client acknowledges what it knows of.
Fairness ==
    /\ WF_vars(Signal)
    /\ WF_vars(ReadDevice \/ ThrowNotifiers \/ ResetWrites)
    /\ SF_vars(ReadPipe)
    /\ \A c \in Channels : SF_vars(known[c] # {} /\ \E p \in Peers : INTACK(p, c, known[c]))

FairSpec == Spec /\ Fairness

-----------------------------------------------------------------------------
(* Properties.                                                             *)

\* A client that commands a channel and is registered for it is never passed
\* by: whatever rising edges report of the channel, it gets a message of (the
\* poll, the one signal of establishNewNotifier, the entries of all clients in
\* one list, some of which come and go, and the arbitration).
NeverPassedBy ==
    [][ \A p \in Peers, c \in Channels :
            /\ Commands(p, c) /\ Registered(p, c)
            /\ Commands(p, c)' /\ Registered(p, c)'
            => told'[c] \ told[c] \subseteq known'[c] ]_vars

\* A channel that was stopped and then had all its bits acknowledged is given
\* away with no bit of its former client, neither in the device nor in its
\* notifier, where the next client's first interrupt would not be seen to rise:
\* FREE resets nothing, so a client that only frees leaves them, and this rests
\* on m_resetInt taking back all that has been raised and polled before, and on
\* no word read earlier bringing any of it back.
CleanHandover ==
    [][ \A c \in Channels :
            ~m_bSet[c] /\ m_bSet'[c] /\ mode[c] = "quiet" =>
                INTREG[c] = {} /\ notifier[c] = {} /\ told[c] = {} ]_vars

\* A bit has been reported, is pending, and the client of its channel does not
\* know of it: the client was lost, or has got the channel since, or was not
\* registered when the bit was reported.  Nobody will acknowledge it unless the
\* client queries.
Orphaned == \E c \in Channels : ~(told[c] \subseteq known[c])

\* What a client knows of a channel is true and it can act on it: the bits are
\* pending in the device and held by the notifier, so that the INTACK they call
\* for takes something back, and the client is connected and commands the
\* channel, though it was told by words read earlier, and channels are given to
\* others and clients are lost meanwhile.
KnownIsTrue ==
    \A c \in Channels : known[c] # {} =>
        /\ known[c] \subseteq INTREG[c] /\ known[c] \subseteq notifier[c]
        /\ \E p \in Peers : Commands(p, c)

\* No interrupt waits for nobody: while a bit is pending in any channel, the
\* device will be polled again, what was polled is about to be reported, or some
\* client that is connected and obeyed knows of a bit to acknowledge, which makes
\* the server poll again -- unless a bit is orphaned, which no client that only
\* waits for messages takes back (m_resetInt, and all that ThrowNotifiers brings
\* together).
SomebodyWillAct ==
    INTREG # Irq!NoBits =>
        \/ Irq!PollAhead
        \/ pc = "throw"
        \/ \E c \in Channels : known[c] # {} /\ \E p \in Peers : Commands(p, c)
        \/ Orphaned

\* No bit stays pending that the client of its channel does not get to know,
\* however clients compete, register, leave and are lost -- unless a bit is
\* orphaned, its client having been lost, replaced or not registered when it was
\* reported: that bit stays, and holds the interrupt line of all channels up.
ReachesClient ==
    \A c \in Channels, b \in Bits :
        []<>(b \in INTREG[c] => b \in known[c] \/ Orphaned)
=============================================================================
