---------------------------- MODULE ECalcChannel ----------------------------
(***************************************************************************)
(* The registers of one error calculator channel and the commands that     *)
(* write them (ecalcchannel.cpp).  A 32 bit word is the set of the         *)
(* positions of its one bits.  CONF is shared by three commands, SYNC, MUX *)
(* and CMDID, each of which reads it, replaces its own bits and writes it  *)
(* back; a raw register write replaces the whole word.  Of the other       *)
(* registers INTREG is in Interrupts, and the presets of the measurement   *)
(* are the device's own: a write passes through.                           *)
(***************************************************************************)
EXTENDS InputSettings

CONSTANTS
    NumChannels,    \* configured number of error calculators
    InputParams,    \* names clients use in MUX
    SyncParams,     \* channel numbers clients name in SYNC
    RawWords        \* words clients write to a register by its number

ASSUME NumChannelsAssumption == NumChannels \in Nat
ASSUME SyncParamsAssumption == SyncParams \subseteq Nat
ASSUME RawWordsAssumption == RawWords \subseteq SUBSET (0 .. 31)

VARIABLES
    CMD, CONF,      \* device: command and configuration register
    answer,         \* the last command and its answer
    wanted          \* history: what the last accepted SYNC, MUX and CMDID
                    \* have asked for ({} if none has), forgotten at a raw
                    \* write of CONF

channelVars == <<CMD, CONF, answer, wanted>>
vars == <<settingsVars, channelVars>>

Word == 0 .. 31
WordOf(n) == {i \in 0 .. 15 : (n \div 2^i) % 2 = 1}     \* n below 2^16
LeftShift(S, k) == {i + k : i \in S} \cap Word

Answer == [op : {"SYNC", "MUX", "CMDID", "START", "STOP", "RAW", "none"}, arg : Nat,
           code : {"ack", "nak", "erraut", "errval"}]

TypeOK ==
    /\ SettingsTypeOK
    /\ CMD \subseteq Word
    /\ CONF \subseteq Word
    /\ answer \in Answer
    /\ wanted \in [{"SYNC", "MUX", "CMDID"} -> SUBSET Nat]

-----------------------------------------------------------------------------
(* The bits of CONF.                                                       *)

en_n == 8
direction == 15
bitSingle == 16
sssto == 17
ssarm == 19
cnt2carryPastWord == 32                          \* mutant: no bit of the word
cnt2carry == 23

SyncBits == 0 .. 7
MuxBits == 10 .. 14
ModeBits == Word \ (SyncBits \cup MuxBits)

\* Measuring modes: single, continuous, voltage / current counter.
CMDIDList ==
    [k \in 0 .. 2 |->
        CASE k = 0 -> {en_n, bitSingle, cnt2carry}
          [] k = 1 -> {en_n, cnt2carry}
          [] k = 2 -> {en_n, direction, bitSingle}
                         \cup LeftShift(WordOf(3), sssto) \cup LeftShift(WordOf(2), ssarm)]

maskSyncNibble(word) == word \ (0 .. 3)          \* mutant: 0xFFFFFFF0
maskSync(word) == word \ SyncBits                \* 0xFFFFFF00
maskMux(word) == word \ MuxBits                  \* 0xFFFF83FF
maskCmdid(word) == word \cap (SyncBits \cup MuxBits)    \* 0x00007CFF

-----------------------------------------------------------------------------
(* Commands.  auth: does the client's id agree with the channel's?         *)

Reply(op, arg, code) == answer' = [op |-> op, arg |-> arg, code |-> code]

Refuse(op, arg, code) == Reply(op, arg, code) /\ UNCHANGED <<CMD, CONF, wanted>>

Malformed(op) == Refuse(op, 0, "nak")

acceptsSync(k) == k <= NumChannels

m_setSync(auth, k) ==
    \/ ~auth /\ Refuse("SYNC", k, "erraut")
    \/ auth /\ ~acceptsSync(k) /\ Refuse("SYNC", k, "errval")
    \/ /\ auth /\ acceptsSync(k)
       /\ CONF' = maskSync(CONF) \cup WordOf(k + 1)
       /\ wanted' = [wanted EXCEPT !.SYNC = {k + 1}]
       /\ Reply("SYNC", k, "ack")
       /\ UNCHANGED CMD

m_setMux(auth, inp) ==
    \/ ~auth /\ Refuse("MUX", 0, "erraut")
    \/ auth /\ ~hasInput(inp) /\ Refuse("MUX", 0, "errval")
    \/ /\ auth /\ hasInput(inp)
       /\ CONF' = maskMux(CONF) \cup LeftShift(WordOf(mux(inp)), 10)
       /\ wanted' = [wanted EXCEPT !.MUX = {mux(inp)}]
       /\ Reply("MUX", 0, "ack")
       /\ UNCHANGED CMD

m_setCmdId(auth, k) ==
    \/ ~auth /\ Refuse("CMDID", k, "erraut")
    \/ auth /\ k >= 3 /\ Refuse("CMDID", k, "errval")
    \/ /\ auth /\ k < 3
       /\ CONF' = maskCmdid(CONF) \cup CMDIDList[k]
       /\ wanted' = [wanted EXCEPT !.CMDID = {k}]
       /\ Reply("CMDID", k, "ack")
       /\ UNCHANGED CMD

m_start(auth) ==
    \/ ~auth /\ Refuse("START", 0, "erraut")
    \/ auth /\ CMD' = WordOf(128) /\ Reply("START", 0, "ack") /\ UNCHANGED <<CONF, wanted>>

\* The stop bit is written and taken back.
m_stop(auth) ==
    \/ ~auth /\ Refuse("STOP", 0, "erraut")
    \/ auth /\ CMD' = {} /\ Reply("STOP", 0, "ack") /\ UNCHANGED <<CONF, wanted>>

\* ECALCREG: the registers with a command; the others are only read.
Registers == [CMD |-> 0, CONF |-> 1, INTMASK |-> 3, INTREG |-> 4, MTCNTin |-> 5,
              MTPULSin |-> 12, MTPAUSEin |-> 13, MTPULS |-> 14, MTPAUSE |-> 15]

\* m_ReadWriteRegister.
WriteRegister(auth, regInd, reg) ==
    \/ ~auth /\ Refuse("RAW", 0, "erraut")
    \/ /\ auth
       /\ CMD' = IF regInd = Registers.CMD THEN reg ELSE CMD
       /\ CONF' = IF regInd = Registers.CONF THEN reg ELSE CONF
       /\ wanted' = IF regInd = Registers.CONF THEN [f \in DOMAIN wanted |-> {}] ELSE wanted
       /\ Reply("RAW", 0, "ack")

-----------------------------------------------------------------------------
\* The constructor of cECalculatorInterface stops every channel; nobody resets
\* CONF, so it holds whatever the device held.
Init ==
    /\ SettingsInit
    /\ CMD = {}
    /\ CONF \in RawWords
    /\ answer = [op |-> "none", arg |-> 0, code |-> "ack"]
    /\ wanted = [f \in {"SYNC", "MUX", "CMDID"} |-> {}]

Command ==
    \/ \E auth \in BOOLEAN :
        \/ \E k \in SyncParams : m_setSync(auth, k)
        \/ \E inp \in InputParams : m_setMux(auth, inp)
        \/ \E k \in 0 .. 3 : m_setCmdId(auth, k)
        \/ m_start(auth)
        \/ m_stop(auth)
        \/ \E r \in DOMAIN Registers, reg \in RawWords : WriteRegister(auth, Registers[r], reg)
    \/ \E op \in {"SYNC", "MUX", "CMDID", "START", "STOP", "RAW"} : Malformed(op)

\* The configuration is read before the channels exist.
Next ==
    \/ (configXMLInfo \/ finishedParsingXML) /\ UNCHANGED channelVars
    \/ configured /\ Command /\ UNCHANGED settingsVars

Spec == Init /\ [][Next]_vars

-----------------------------------------------------------------------------
(* Properties.                                                             *)

\* Whatever the order in which they arrive, SYNC, MUX and CMDID each keep what
\* the others have set: every field of CONF still holds what was last accepted
\* for it (the masks of the three read-modify-writes).
FieldsAsWanted ==
    /\ \A k \in wanted.SYNC : CONF \cap SyncBits = WordOf(k)
    /\ \A m \in wanted.MUX : CONF \cap MuxBits = LeftShift(WordOf(m), 10)
    /\ \A k \in wanted.CMDID : CONF \cap ModeBits = CMDIDList[k]

\* "errval: command understood, but the parameter is faulty" (zeraglobal.h): a
\* SYNC is acknowledged only when it names a channel that exists.
SyncNamesChannel ==
    [][ answer'.op = "SYNC" /\ answer'.code = "ack" => answer'.arg < NumChannels ]_vars
=============================================================================
