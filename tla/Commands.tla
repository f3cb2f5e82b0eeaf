------------------------------ MODULE Commands ------------------------------
(***************************************************************************)
(* From a message of a client to its answer (pcbserver.cpp), over the      *)
(* command objects of all parts of the server (the initSCPIConnection of   *)
(* each).  How a command changes the state of its part is in the module of *)
(* that part; here it is only recorded which effects its handler has had.  *)
(* A message is handled to its end in one turn of the event loop, so it is *)
(* one step.                                                               *)
(***************************************************************************)
EXTENDS Naturals, Sequences, FiniteSets

CONSTANTS
    Peers,          \* connections
    ClientIds,      \* client ids of messages that carry one
    EmptyId,        \* the empty QByteArray
    Numbers         \* message numbers

VARIABLES
    msg,            \* the last message
    replies,        \* what was sent because of it
    effects,        \* history: what the handlers did because of it
    named           \* history: the command the parameter of its REGISTER names

vars == <<msg, replies, effects, named>>

-----------------------------------------------------------------------------
(* Command objects, each standing for all that share handler and types.    *)

\* The part of the server an object belongs to.
part == [
    REGISTER   |-> "server",    UNREGISTER |-> "server",
    DEVICE     |-> "status",
    SYSTEM     |-> "system",    \* VERSION:SERVER, DEVICE, FPGA; INTERFACE:READ
    PCB        |-> "system",    \* VERSION:PCB and SERIAL
    VERSION    |-> "interface", \* VERSION and CHANNEL:CATALOG
    SET        |-> "interface", FREE       |-> "interface",
    INTREG     |-> "channel",   \* the register a notifier stands for
    RegRW      |-> "channel",   \* CMD, CONF, INTMASK, MTCNTin, ...
    RegRO      |-> "channel",   \* STATUS, MTCNTfin, MTCNTact
    SYNC       |-> "channel",   \* SYNC, MUX and CMDID
    START      |-> "channel",   \* START and STOP
    INTACK     |-> "channel" ]

Objects == DOMAIN part

\* Types of the register objects, the only ones whose handler looks at them.
getType(object) == IF object = "RegRO" THEN {"isQuery"} ELSE {"isQuery", "isCmdwP"}

\* Shapes of the input: a query, a command without a parameter, with one (that
\* the handler can use, cannot use, or that is empty), or anything else.
Forms == {"query", "cmd0", "good", "bad", "empty", "other"}
isQuery(form) == form = "query"
isCommand0(form) == form = "cmd0"
isCommand1(form) == form \in {"good", "bad", "empty"}

\* The separator ends a parameter, so a command that is named in one has none.
NamedForms == {"query", "cmd0", "other"}
NamedCommand == [object : Objects, form : NamedForms]
NoCommand == [object |-> "none", form |-> "none"]

\* New style commands, other messages with a client id, old style commands.
Message ==
    [peer : Peers, id : ClientIds, nr : Numbers,
     kind : {"numbered"}, object : Objects \cup {"unknown"}, form : Forms]
    \cup [peer : Peers, id : ClientIds, nr : {0},
          kind : {"netcommand", "unnumbered"}, object : {"unknown"}, form : {"other"}]
    \cup [peer : Peers, id : {EmptyId}, nr : {0},
          kind : {"old"}, object : Objects \cup {"unknown"}, form : Forms]

Outputs == {"", "value", "ack", "nak", "nak;", "busy", "erraut", "errval"}
\* Only new style answers have a type.
Reply ==
    [peer : Peers, id : ClientIds, nr : Numbers, rtype : {"ACK", "NACK", "ERROR"}, body : Outputs]
    \cup [peer : Peers, id : {EmptyId}, nr : {0}, rtype : {"none"}, body : Outputs]
NoMessage == [kind |-> "none"]

\* What a handler can do: read, emit valNotifier, or change something (register
\* a notifier, leave one waiting, withdraw, set a channel, write a register ...).
Effects ==
    {"read", "emitted", "bound", "waiting", "withdrawn", "stored",
     "taken", "freed", "written", "configured", "started", "acknowledged"}

TypeOK ==
    /\ msg \in Message \cup {NoMessage}
    /\ replies \in Seq(Reply)
    /\ effects \in SUBSET Effects
    /\ named \in NamedCommand \cup {NoCommand}

-----------------------------------------------------------------------------
(* Handlers: the possible outcomes, an output and the effects the handler  *)
(* had on the way to it.  auth: does the channel belong to the client?     *)

Outcome(output, did) == [output |-> output, effects |-> did]

Read(form) == IF isQuery(form) THEN {Outcome("value", {"read"})} ELSE {Outcome("nak", {})}

\* The writes are "todo" in the source.
ReadWritePCB(form) == IF isCommand1(form) THEN {Outcome("ack", {})} ELSE Read(form)

SetChannels(form) ==
    IF form = "good" THEN {Outcome("value", {"taken"}), Outcome("busy", {})}
                     ELSE {Outcome("nak", {})}

FreeChannels(form) ==
    IF isCommand0(form) THEN {Outcome("ack", {"freed"}), Outcome("nak", {})}
                        ELSE {Outcome("nak", {})}

\* Only the query of INTREG has a notifier to emit.
QueryRegister(object) ==
    Outcome("value", IF object = "INTREG" THEN {"read", "emitted"} ELSE {"read"})

ReadWriteRegister(object, types, form, auth) ==
    CASE isQuery(form) /\ "isQuery" \in types -> {QueryRegister(object)}
      [] isCommand1(form) /\ "isCmdwP" \in types ->
            IF ~auth THEN {Outcome("erraut", {})}
            ELSE IF form = "good" THEN {Outcome("ack", {"written"})} ELSE {Outcome("nak", {})}
      [] OTHER -> {Outcome("nak", {})}

SetField(form, auth) ==
    CASE ~isCommand1(form) -> {Outcome("nak", {})}
      [] isCommand1(form) /\ ~auth -> {Outcome("erraut", {})}
      [] OTHER -> IF form = "good" THEN {Outcome("ack", {"configured"})}
                                   ELSE {Outcome("errval", {})}

StartStop(form, auth) ==
    CASE ~isCommand0(form) -> {Outcome("nak", {})}
      [] OTHER -> IF auth THEN {Outcome("ack", {"started"})} ELSE {Outcome("erraut", {})}

\* An INTACK that is carried out leaves the answer empty.
resetInt(form, auth) ==
    CASE ~isCommand1(form) -> {Outcome("nak", {})}
      [] isCommand1(form) /\ ~auth -> {Outcome("erraut", {})}
      [] OTHER -> IF form = "good" THEN {Outcome("", {"acknowledged"})}
                                   ELSE {Outcome("nak", {})}

UnregisterNotifier(form) ==
    IF form = "empty" THEN {Outcome("ack", {"withdrawn"})} ELSE {Outcome("nak", {})}

\* A REGISTER that names no object; one without exactly one parameter leaves the
\* answer empty.
RegisterNothing(form) == Outcome(IF isCommand1(form) THEN "nak" ELSE "", {})

\* A REGISTER whose parameter has been executed: its entry waits for a notifier
\* unless the inner handler has emitted one, and ack takes the place of the inner
\* answer.  (With entries of earlier REGISTERs still waiting: module Notification.)
registered(inner) ==
    inner.effects \cup {IF "emitted" \in inner.effects THEN "bound" ELSE "waiting"}
RegisterNotifierKeeps(inner) == Outcome(inner.output, registered(inner)) \* mutant: inner answer
RegisterNotifier(inner) == Outcome("ack", registered(inner))

Outcomes(object, types, form, auth) ==
    CASE object \in {"DEVICE", "SYSTEM", "VERSION"} -> Read(form)
      [] object = "PCB" -> ReadWritePCB(form)
      [] object = "SET" -> SetChannels(form)
      [] object = "FREE" -> FreeChannels(form)
      [] object \in {"INTREG", "RegRW", "RegRO"} ->
            ReadWriteRegister(object, types, form, auth)
      [] object = "SYNC" -> SetField(form, auth)
      [] object = "START" -> StartStop(form, auth)
      [] object = "INTACK" -> resetInt(form, auth)
      [] object = "UNREGISTER" -> UnregisterNotifier(form)
      [] object = "REGISTER" -> {RegisterNothing(form)}

-----------------------------------------------------------------------------
(* Answers.                                                                *)

\* The parts whose cmdExecutionDone is connected to sendAnswer; a channel's is
\* passed on by the interface it belongs to.
scpiConnectionList == {"server", "status", "system", "interface"}
passesOn == [channel |-> "interface"]

slots(p) ==
    {q \in scpiConnectionList : q = p \/ (p \in DOMAIN passesOn /\ q = passesOn[p])}

\* sendAnswer looks for an error text in the output, and for none finds ACK.
ReplyType(output) ==
    CASE output \in {"nak", "nak;"} -> "NACK"
      [] output \in {"busy", "erraut", "errval"} -> "ERROR"
      [] OTHER -> "ACK"

sendAnswerNewStyle(m, output) ==                 \* mutant: one style for all
    [peer |-> m.peer, id |-> m.id, nr |-> m.nr, rtype |-> ReplyType(output), body |-> output]
sendAnswer(m, output) ==
    [peer |-> m.peer, id |-> m.id, nr |-> m.nr,
     rtype |-> IF m.kind = "old" THEN "none" ELSE ReplyType(output), body |-> output]

\* The mark m_bwithOutput: set in a command that came as a message, not in the
\* copy REGISTER makes of it for the object it names.
bwithOutputCopied == [outer |-> TRUE, inner |-> TRUE]     \* mutant: stays as copied
bwithOutput == [outer |-> TRUE, inner |-> FALSE]

\* cmdExecutionDone of part p, if the mark is set: one answer per connected slot.
emitDone(m, p, output, withOutput) ==
    IF withOutput THEN [i \in 1 .. Cardinality(slots(p)) |-> sendAnswer(m, output)]
                  ELSE <<>>

-----------------------------------------------------------------------------
(* Dispatch.                                                               *)

IsCommand(m) == m.kind \in {"numbered", "old"}

\* The NetCommand of a lost client; a message without a number is ignored.
Unanswered(m) ==
    /\ ~IsCommand(m)
    /\ replies' = <<>>
    /\ effects' = (IF m.kind = "netcommand" THEN {"withdrawn"} ELSE {})
    /\ named' = NoCommand

\* No object of that name, or executeSCPI says no.
Reject(m) ==
    /\ IsCommand(m)
    /\ replies' = emitDone(m, "server", IF m.kind = "old" THEN "nak;" ELSE "nak", TRUE)
    /\ effects' = {}
    /\ named' = NoCommand

\* The answer of the object's handler, and what it did.
Finish(m, outcome) ==
    /\ replies' = emitDone(m, part[m.object], outcome.output, bwithOutput.outer)
    /\ effects' = outcome.effects

\* The handler runs.
Execute(m) ==
    /\ IsCommand(m)
    /\ m.object \in Objects
    /\ ~(m.object = "REGISTER" /\ m.form = "good")
    /\ \E auth \in BOOLEAN :
        \E outcome \in Outcomes(m.object, getType(m.object), m.form, auth) :
            Finish(m, outcome)
    /\ named' = NoCommand

\* The handler of REGISTER runs the object its parameter names as a query of the
\* same client, if executeSCPI does not say no.
Register(m) ==
    /\ IsCommand(m)
    /\ m.object = "REGISTER" /\ m.form = "good"
    /\ \E cmd \in NamedCommand :
        /\ named' = cmd
        /\ \/ Finish(m, RegisterNothing(m.form))
           \/ \E auth \in BOOLEAN :
               \E inner \in Outcomes(cmd.object, {"isQuery"}, cmd.form, auth) :
                /\ replies' =
                      emitDone(m, part[cmd.object], inner.output, bwithOutput.inner)
                      \o emitDone(m, part[m.object], RegisterNotifier(inner).output,
                                  bwithOutput.outer)
                /\ effects' = RegisterNotifier(inner).effects

\* executeCommand of a message.
executeCommand(m) ==
    /\ msg' = m
    /\ Unanswered(m) \/ Reject(m) \/ Execute(m) \/ Register(m)

Init == msg = NoMessage /\ replies = <<>> /\ effects = {} /\ named = NoCommand

Next == \E m \in Message : executeCommand(m)

Spec == Init /\ [][Next]_vars

-----------------------------------------------------------------------------
(* Properties.                                                             *)

\* A command is answered exactly once, on its own connection and under its own
\* id and number, whatever part of the server handles it and whatever other
\* command it runs on the way; other messages are not answered (the chain of
\* cmdExecutionDone signals, m_bwithOutput).
AnsweredOnce ==
    IF IsCommand(msg)
    THEN /\ Len(replies) = 1
         /\ <<replies[1].peer, replies[1].id, replies[1].nr>> = <<msg.peer, msg.id, msg.nr>>
    ELSE replies = <<>>

\* What a command asks for.
purpose(object, form) ==
    IF isQuery(form) THEN "read"
    ELSE CASE object \in {"DEVICE", "SYSTEM", "VERSION", "RegRO"} -> "read"
           [] object = "REGISTER" -> "bound"
           [] object = "UNREGISTER" -> "withdrawn"
           [] object = "PCB" -> "stored"
           [] object = "SET" -> "taken"
           [] object = "FREE" -> "freed"
           [] object \in {"INTREG", "RegRW"} -> "written"
           [] object = "SYNC" -> "configured"
           [] object = "START" -> "started"
           [] object = "INTACK" -> "acknowledged"

\* Where the code does not keep the promise of ACK: PCB and SERIAL, whose writes
\* are still to do; a REGISTER without exactly one parameter; and a REGISTER for
\* anything but the query of INTREG, which leaves its entry waiting, even if what
\* it names was answered nak.
ToldOnly(m, cmd) ==
    \/ m.object = "PCB" /\ isCommand1(m.form)
    \/ m.object = "REGISTER" /\ ~isCommand1(m.form)
    \/ m.object = "REGISTER" /\ ~(cmd.object = "INTREG" /\ isQuery(cmd.form))

\* "Dependent on rtype caller can see ack, nak, error" (pcbserver.cpp): what is
\* refused has had no effect whatever, and what is acknowledged has had the one
\* it asked for, but for the three exceptions, though sendAnswer only has the text
\* of the answer to tell.
RtypeTellsOutcome ==
    \A i \in DOMAIN replies :
        /\ replies[i].rtype \in {"NACK", "ERROR"} => effects = {}
        /\ replies[i].rtype = "ACK" =>
              purpose(msg.object, msg.form) \in effects \/ ToldOnly(msg, named)
=============================================================================
