# sec1000d: models, checks and proofs

`sec1000d` is the server of the error calculators of a ZERA meter test bench. It reads an XML
file, opens the FPGA device, listens on a TCP port and answers SCPI-like commands: clients ask for
error calculator channels, set them up, start and stop them, and register for the interrupts of
their channels. This directory holds TLA+ modules of the server, TLC runs that check them on small
instances, and proofs that TLAPS checks for every instance.

The program is one Qt event loop and one POSIX signal handler. A command, a closed connection, a
timer or a byte in the self-pipe is handled to its end before the next; only the device and the
signal handler interleave with a handler in the middle. That decides the grain of the actions: one
step per handler, except in `Interrupts` and `Server`, where the handlers are split at each access
to the pipe or the device.

## 1. The system

| component | state | operations | interacts with |
|---|---|---|---|
| initialization machine (`cSEC1000dServer`, sec1000d.cpp) | state of the `QStateMachine`, `m_nerror`, `m_nRetryRMConnect`, timer | one slot per state; abort | XML reader, device, resource manager, all parts it creates |
| interrupt path (`SigHandler`, `SECIntHandler`, `setIntReg`, `m_resetInt`) | self-pipe, `interruptREGS`, values of the notifiers, `INTREG` in the device | signal, poll, INTACK | device; registry (rising edges) |
| arbitration (`cECalculatorInterface`, half of `cECalculatorChannel`) | `m_bSet` and `m_ClientId` of each channel, `m_ClientECalcHash` | SET, FREE, CATALOG, VERSION, `authorized` | every writing command of a channel |
| channel registers (`cECalculatorChannel`) | `CMD`, `CONF`, measuring registers in the device | SYNC, MUX, CMDID, START, STOP, raw registers | arbitration (authorization), input table |
| input table (`cInputSettings`) | `m_nCount`, `actName`, `muxInfoHash` | `configXMLInfo` per XML element, `hasInput`, `mux` | XML reader; MUX |
| notification registry (`cPCBServer`) | `notifierRegisterNext`, `notifierRegisterList`, signal connections | REGISTER, UNREGISTER, lost client, closed connection, `asyncHandler` | every query that emits a notifier; peers |
| command dispatch (`cPCBServer::executeCommand`, `sendAnswer`) | none between messages | dispatch, answer | command objects of all parts |
| resource registration (`cResource`) | `msgNrList`, message counter | register, acknowledge | resource manager |
| system and status commands | none | queries of constants | dispatch |
| plain settings (Ethernet, error calculators, FPGA, debug) | one field per XML element | assignments | read by the others |

What is hard in it, and for each component what makes it correct:

* **Arbitration.** The occupation mark, the client id of a channel and the hash are three records of
  one fact, kept apart: FREE trusts the hash, which is never cleared, `free()` leaves the client
  id. Correct: what a client was given is occupied in its name and nothing else is; grants are all
  or nothing; "busy" is true; a mark is removed by its owner only; authorization agrees with
  ownership.
* **Interrupts.** Bits rise at any time, an edge is certain for the first bit only, signals
  coalesce, the pipe is bounded, and INTACK is a read-modify-write that fakes a further edge.
  Correct: a pending bit is never left with nobody about to look; only pending bits are reported,
  to their own channel; a bit that stays is reported in the end.
* **Registry.** A registration waits in a list until "the" notifier is emitted by executing the
  query named in it; rejected queries take their entry back from the other end; connections are
  shared by several ids. Correct: each acknowledged REGISTER enters its client once, an edge sends
  one message per registration, closing and withdrawing remove exactly the client's own.
* **Registers.** Three commands share the bits of CONF. Correct: none destroys another's field;
  parameters name what exists.
* **Input table.** A name read in one call is used by the next. Correct: no name gets the muxer of
  another.
* **Startup.** Failures are events queued behind others, one variable prepares the exit code, retries
  are chained by a timer. Correct: the exit code names a step that failed; exactly 100 attempts;
  starting ends.
* **Resource registration.** One message under a number, any acknowledgements back, as often as the
  resource manager likes. Correct: `registerRdy` comes once, for the acknowledgement of that number.
* **All together.** A client is given a channel, registers for its interrupts, is told and
  acknowledges, while others do the same on other channels, take over channels that were given
  back, and are lost without giving anything back. Correct: who commands a channel and is registered
  for it is told of everything that is reported of it; a channel that was stopped and acknowledged
  changes hands without bits of its former client; a bit that stays gets to know to the client of its
  channel.
* **Dispatch.** The answer travels along signals; REGISTER executes another command on the way; the
  reply type is guessed from the text. Correct: one answer per command, with its number; what the type
  refuses has had no effect, what it acknowledges has had the one that was asked for.

`PROJECT.json` lists every hazard with its line and the properties that watch it.

## 2. Modules

| module | models |
|---|---|
| `ChannelAllocation` | abstract: an allocator with one owner per channel |
| `ECalcInterface` | arbitration; shown to implement `ChannelAllocation` |
| `ECalcInterface_proofs` | its theorems |
| `Interrupts` | device, signal handler, self-pipe, poll, INTACK, raw writes of INTREG |
| `Interrupts_proofs` | its theorems |
| `Subscriptions` | abstract: subscriptions that begin and end by requests of their clients |
| `Notification` | registry; shown to implement `Subscriptions` |
| `Notification_proofs` | its theorems |
| `Server` | `ECalcInterface`, `Interrupts` and `Notification` composed, with clients |
| `Server_proofs` | its theorems |
| `InputSettings` | the table of inputs as the XML file is read |
| `ECalcChannel` | extends `InputSettings`: the words CMD and CONF and the commands that write them |
| `ECalcChannel_proofs` | theorems of both |
| `Resource` | the registration of the resource: number, list, acknowledgements |
| `Startup` | extends `Resource`: initialization machine, exit codes, retries |
| `Startup_proofs` | its theorems |
| `Commands` | dispatch over the command objects of all parts, answers |
| `Commands_proofs` | its theorems |
| `MC...` | model values, small sets and symmetry for TLC |

Names follow the source. How state and actions correspond to the code:

* `ECalcInterface`. `m_bSet`, `m_ClientId` and `m_ClientECalcHash` are the members of these names;
  `answer` is the last command and what was answered; `held` is history: what a client was given
  and has not had a FREE acknowledged for. Actions: `m_SetChannels`, `m_FreeChannels`,
  `MalformedFree`, and `ChannelCommand`, which stands for the test of the client id in every
  writing command. An old style message carries no id, so `EmptyId` is a client.
* `Interrupts`. `INTREG` is the device; `sigio` a pending signal; `pipe` the bytes in the self-pipe;
  `pc`, `interruptREGS` and `reset` the locals of the handler that is running; `notifier` the values
  held by the channels' notifiers; `told` is history. `ReadPipe`, `ReadDevice` and `ThrowNotifiers`
  are `SECIntHandler`, in its order; `ResetReads` and `ResetWrites` are INTACK; `WriteINTREG` is the
  raw write of R4. `AckNext` and `AckSpec` are the path without raw writes: clients that acknowledge
  by INTACK only. `ReadDevice` takes the device as it is; that the read gets the words it seeks to is
  the driver's affair.
* `Notification`. The two lists are the members; `connections` counts the connected `risingEdge`
  signals of a notifier; `sent` is what the last edge has sent. A REGISTER is one step with the
  execution of its query in it. `Remaining` is the loop of `doUnregisterNotifier`.
* `Subscriptions`. A request that was acknowledged makes its client one subscription richer in
  `owed`; a notifier that is named begins a subscription of somebody who is owed one. Nothing else
  begins one, and only a request or the loss of its client ends one. `owed` maps to the counts of
  the clients in `notifierRegisterNext`, `request` to the last answer. `PromptSpec` is the promise
  without the reservation: nobody is ever owed anything, so an acknowledged request begins the very
  subscription it asks for.
* `Server`. The variables of the three modules, with the answers hidden (a step gives some answer;
  `sent` is left out), and `known`: for each channel the bits its client has had in a message or in
  the answer of a query, and has not acknowledged. Commands and closed connections are served in
  `eventLoop`; the device and the signal handler interleave with everything. `ThrowNotifiers` is the
  point where the three meet: a notifier that rises runs `asyncHandler`, which sends to the
  registrations in the registry's list, and the message counts if it gets to the client the
  arbitration has given the channel to. Of clients four things are assumed, which the server does
  not check: SET only while they hold nothing and FREE only while they hold something; registers are
  left to START, STOP and INTACK; each uses one connection at a time; and of the parameters of
  REGISTER that are no INTREG query only those in the constant `Others` are used. They register for
  any channel, query any channel, and as often as they like. Only a started channel raises bits
  (`mode`: started, stopped since, or "quiet" once an INTACK of all bits has followed the stop). The
  clients in `Tidy` stop and acknowledge before they free, and start only what they hold; the others
  free whenever they hold something, and may start a channel they have given back, since its client id
  is still theirs. A client that is lost has stopped and acknowledged nothing: its registrations
  go (`Lost`), its channels and its pending bits stay.
* `InputSettings` / `ECalcChannel`. A 32 bit word is the set of its one bits. The run of a channel
  begins with reading the XML elements one by one; commands come after it. A raw write
  (`WriteRegister`) of CMD or CONF replaces the word; the presets of a measurement pass through to
  the device. `wanted` is history.
* `Startup`. `events` is the queue of the state machine; an event is handled in the state the
  machine has reached by then. Entering the last state sends the registration (`registerResource`),
  and `RMAck` is an acknowledgement that arrives, of this number or any other. `failed`, `failures`
  and `acked` are history.
* `Commands`. A message is one step; command objects that share a handler and types are one. Each
  handler's outcome is an output and the set of effects it had before it put the output there;
  `effects` collects them and `named` is the command the parameter of a REGISTER names, both history.
  REGISTER runs the handler of that command as a query of the same client, on a copy marked as one
  without output (`bwithOutput`), and replaces its answer by ack. What a command asks for (`purpose`)
  is stated apart from the handlers, with the property.

The external parts are modelled as the code uses them and marked external in `PROJECT.json`:
`cNotificationValue::setValue` throws a rising edge when a bit is new; `INTREG` stores what is
written and the collection words show all `INTREG`s; `executeSCPI` of a known object may reject;
the XML reader reports elements in document order, names before muxers, as the schema orders them,
and its `finishedParsingXML(bool)` may or may not be emitted for a file that does not parse; a
`QStateMachine` queues signals and drops those without a transition; `cSCPICommand` classifies an
input as a query or as a command with so many parameters, and the separator ends a parameter, so a
command named in the parameter of a REGISTER has none of its own.

## 3. Runs

Passing runs:

* **arbitration** (3 channels, two ids and the empty one, requests 0 to 5, where 0 and 5
  are refused as such and 4 is more than there are channels; `DisciplinedSpec`). Three clients and
  three channels let one client be refused while
  two hold channels, let channels change hands, and make a request of exactly, less and more than
  what is free. `HeldIsOccupied` and `SetChannelsInHash` relate the three records; `GrantIsExact`
  and `BusyIsHonest` say what SET does: its scan (`visit` for each channel, with the code's counter)
  decides, the properties count free channels; `OnlyOwnerFrees` and `WriteAuthority` that nobody touches
  another's channel; `ImplementsAllocation` is the refinement. `DisciplinedSpec` restricts clients
  to ask only while they hold nothing and to give back only what they hold; they may address any
  channel and send malformed commands. The restriction is needed: see the findings.
* **interrupts** (2 channels of 2 bits, pipe of 2 bytes). Two bits per channel make a bit rise
  beside one that is pending, two channels share the interrupt line, two bytes make the pipe full.
  The device has 4 bits and a pipe of 64 KiB; what matters is one bit or more than one, full or
  not. `NoStuckInterrupt`, `ReportedStays`, `NoSpuriousIRQ`, `EveryInterruptSeen`. Raw writes of
  INTREG leave a notifier that holds a bit nobody will acknowledge (`LeftBehind`): that bit does not
  rise again for the notifier, and the line may stay up. The two properties about being stuck except
  it by name; `Interrupts_proofs!NeverLeftBehind` shows that nothing but a raw write brings it about.
* **registry** (2 connections, two ids and the empty one, 2 notifiers, 3 entries, all kinds of
  REGISTER parameters; ids, peers and notifiers symmetric). Three entries are enough for two of one
  client and one of another, and for one waiting beside two others. `MaxEntries` is a bound of the
  model only. `EdgeTellsEachOnce`, `RegistersAskerOnce`, `LostPeerLeavesNothing`,
  `ImplementsSubscriptions`: with all parameters of REGISTER the registry keeps the promise that every
  subscription belongs to a client that was owed one, but not the plain one (see registry_plain).
* **channel** (254 channels; documents with left out numbers, a repeated name, an `n` that cuts the
  list). Every field of CONF takes several values over others that are set. 254 is the largest
  number of channels for which SYNC fits the eight bits of its field, since the code accepts the
  number of channels itself and adds 1. `MuxAsConfigured`, `FieldsAsWanted`.
* **startup** (`RetryLimit` = 100, the value of the code). Every outcome of every slot, the
  connection lost at any time. The run says CHECK_DEADLOCK FALSE: the process exits.
  `ExitNamesFailure`, `GivesUpAfterAllRetries`, `RegistersOrExits`, and `StartShortens`: a bound on the
  steps that are left falls with every step. The resource manager acknowledges
  0, 1 or 2, in any order and any number of times: the number that was sent, one below and one
  above it (`RegisterRdyIsTrue`).
* **server** (2 channels of 1 bit, pipe of 1 byte, 2 connections, one with an id and one with the
  empty id, both tidy, 2 registrations, requests for 1 channel, `Others` = refused and unknown;
  `FairSpec`). Two clients and two channels let a channel change hands while the other raises
  interrupts, let one client be told and the other not, and let a client be lost while it holds a
  channel and a pending bit; the wildcard of the empty id and an id that is compared are both there;
  more than one bit per channel is the matter of the run "interrupts". A closed connection does not
  come back and connections are used up in the end: CHECK_DEADLOCK FALSE. `NeverPassedBy` and
  `CleanHandover` relate the three parts; `KnownIsTrue` says that what a client has been told is still
  pending and that its INTACK will be obeyed, `SomebodyWillAct` that a pending bit is about to be polled
  or known to a client that is there. `CleanHandover` is about a channel whose client has stopped it and
  then sent an INTACK of all bits, while polls read before that may still be on their way; FREE itself
  tests and resets nothing. `ReachesClient` is liveness, and like `SomebodyWillAct` up to `Orphaned`: a
  bit that was reported when its client was lost, replaced or not registered stays pending, with
  nobody to acknowledge it. The parameter that is executed and names no notifier ("plain") is left
  out of this run and its clients are tidy, because liveness over the larger state space takes too
  long. The safety properties were also checked once with `Tidy` = {} and all three kinds in `Others`
  (12,908,581 states, 5 minutes with four workers, no error), and the theorems about them hold for any
  `Tidy`, and for any `Others` where section 4 does not say otherwise.
* **commands** (2 connections, two ids, two numbers). All objects with all forms of input, and for
  REGISTER all commands its parameter can name. `AnsweredOnce`. `RtypeTellsOutcome` compares the type
  of the answer with the effects of the handlers. It holds but for three exceptions it names
  (`ToldOnly`): writes of the PCB version and serial number, REGISTER without exactly one parameter,
  and REGISTER for anything but an INTREG query, which is acknowledged though it registers nothing
  (what comes of that is registry_plain).

Runs that show a disagreement between the code and what the repository says of it (findings):

* **arbitration_stale_free**: the hash entry survives a FREE, so a second FREE takes the mark from a
  channel that somebody else has been given meanwhile, and the channel is given out twice.
* **arbitration_second_set**: a second SET of a client overwrites the entry; the channels of the first
  stay occupied, and no FREE finds them.
* **interrupts_odd**: with an odd number of channels the last is never polled.
* **registry_plain**: a REGISTER for something that emits no notifier is acknowledged and leaves its
  entry; the next client's REGISTER binds that entry instead of its own.
* **channel_sync**: SYNC accepts the number of channels as a channel.

Seen while modelling, and not listed as findings, because nothing in the repository says otherwise
or says it is still to do: writing the PCB version or the serial number is acknowledged and does
nothing ("todo"); a REGISTER without exactly one parameter is answered with an empty body, which
counts as ACK (both are exceptions `RtypeTellsOutcome` names); a REGISTER carries out whatever
command its parameter names, a FREE or START too, since only the register handlers look at the type
it is given, and hides its answer; an entry that still waits when
its connection closes is bound later, to a deleted object; a bit that rises between the read and
the write of INTACK is wiped (`ReportedStays` shows that it is never one somebody has been told of);
if the parser signals the end of a file that does not parse, the
machine goes on to the device, and a failure there replaces the exit code; a client that is lost
without a FREE keeps its channels, and with a bit it has not acknowledged it keeps the interrupt
line of all channels up, so that no other channel's interrupt gets an edge of its own (`Orphaned` in
`Server`).

### Fairness

Three specifications have any. `Interrupts!FairSpec`: a pending signal is delivered and a
handler that has begun runs on (weak); the event loop does not starve the self-pipe, though each
command makes it busy for a while (strong: the loop serves all ready sockets in a round); clients
acknowledge what they were told (strong, because the loop may be busy each time) - the code needs
this, since a bit nobody acknowledges keeps the line up and later bits get no edge.
`Server!FairSpec`: the same, but a client acknowledges only what has come to it (`known`); nothing
makes it register, query, ask, give back or stay.
`Startup!FairSpec`: the loop handles its events, an attempt to connect ends either way, a timer
expires (weak; nothing disables these but their happening). Nothing is assumed of a connection
staying open.

## 4. Proofs

| theorem | what it says | assumes |
|---|---|---|
| `ECalcInterface_proofs!TypeCorrect` | types, for any clients | the constants' assumptions |
| `GrantsExactly`, `BusyIsTrue` | `GrantIsExact`, `BusyIsHonest`, for any clients | the constants' assumptions |
| `NothingLost`, `HashComplete` | `HeldIsOccupied`, `SetChannelsInHash` | disciplined clients |
| `FreesOwnOnly`, `AuthorityRespected` | `OnlyOwnerFrees`, `WriteAuthority` | disciplined clients |
| `Implements` | `DisciplinedSpec` implements `ChannelAllocation` | disciplined clients |
| `Interrupts_proofs!TypeCorrect` | types | the constants' assumptions |
| `ReportsAreReal`, `ReportedBitsStay` | `NoSpuriousIRQ`, `ReportedStays` | the constants' assumptions |
| `NeverLeftBehind` | without raw writes no notifier is left behind | `AckSpec` |
| `NoStuck` | `NoStuckInterrupt` | even number of channels |
| `LastNeverHeard` | the last channel is never reported | odd number of channels |
| `Notification_proofs!TypeCorrect` | types | the constants' assumptions |
| `TellsEachOnce`, `RegistersOnce`, `LeavesNothing` | `EdgeTellsEachOnce`, `RegistersAskerOnce`, `LostPeerLeavesNothing` | the constants' assumptions |
| `Implements` | the registry implements `Subscriptions!SubsSpec` | the constants' assumptions |
| `KeepsPromise` | the registry implements `Subscriptions!PromptSpec` | no REGISTER for what is executed and emits no notifier |
| `NeverDangling` | no registration waits, all belong to open connections | the same |
| `OneEach` | `OneNotifierPerCommand` | the same |
| `Server_proofs!ImplementsInterrupts` | the composition implements `Interrupts!AckSpec` | the clients of `Server` |
| `ServerNeverStuck` | no interrupt of the running server is stuck | even number of channels |
| `HandsOverClean`, `NobodyPassedBy` | `CleanHandover`, `NeverPassedBy` | the clients of `Server` |
| `KnowsTruly` | `KnownIsTrue` | the clients of `Server` |
| `NobodyWaitsInVain` | `SomebodyWillAct` | even number of channels |
| `ImplementsAllocation` | the composition implements `ChannelAllocation` | the clients of `Server` |
| `TellsTheLiving` | no interrupt is sent to the peer of a closed connection | the clients of `Server`, "plain" not in `Others` |
| `KeepsRegistrations` | `OnlyTheirClients`: a registration begins with a REGISTER of its client for its notifier and ends with its client's UNREGISTER or loss | the clients of `Server`, "plain" not in `Others` |
| `ECalcChannel_proofs!TypeCorrect` | types | the constants' assumptions |
| `TableAsConfigured` | `MuxAsConfigured`, for every file the schema admits | the constants' assumptions |
| `FieldsKept` | `FieldsAsWanted` | at most 254 channels |
| `Startup_proofs!TypeCorrect` | types | `RetryLimit` > 0 |
| `ExitCodeIsTrue`, `GivesUpExactly` | `ExitNamesFailure`, `GivesUpAfterAllRetries` | `RetryLimit` > 0 |
| `StartEnds` | `StartShortens` | `RetryLimit` > 0 |
| `StartGoesOn` | until it has ended, starting has 1 to 5 * `RetryLimit` + 6 steps left and one ahead | `RetryLimit` > 0 |
| `AnnouncesTruly` | `RegisterRdyIsTrue`, for any acknowledgements | `RetryLimit` > 0 |
| `Commands_proofs!TypeCorrect` | types | nothing |
| `AlwaysAnsweredOnce`, `RtypeIsTrue` | `AnsweredOnce`, `RtypeTellsOutcome` | nothing |

For arbitration `HeldIsOccupied` is not inductive: FREE works from the hash, so the invariant needs
to know that the hash entry of a client that holds something is what it holds (`HashNamesHeld`).
`HeldInv` is both; `DisciplinedSteps` shows that a disciplined step maps to an `Acquire` of what
SET selects, a `Release`, or a stutter. `SelectsFree` is the lemma about the scan of SET.
`GrantIsExact` counts: the number of free channels before a channel is an injection of the free
channels into an initial interval of the numbers (`FreeNumbered`), so the scan that stops at n has
selected n (`SelectsExactly`). The scan is a recursive function of the place in the channel list, which
counts down from n; `BusyIsTrue` needs what its counter and list hold at every place, which is shown
by hand from the smallest place where it would fail, as for the registry below.

For interrupts the poll's copy of the collection words may be old. `Snapshots` says that the copy
holds only bits that are pending still, which is true because only INTACK clears bits and the
loop runs it after the poll, and likewise for the copy INTACK writes back. `NoStuck` adds
that, as long as something is pending, the device will be read again or a client that was told of a
pending bit owes an INTACK; the number of channels must be even for the poll to see all of them
(`EvenPolled`), which is where the odd run fails. `ToldAgrees` is behind `ReportedStays`: what a
client was told of is in the device, in the notifier, in the copy of the poll and in the word INTACK
is about to write. `LastNeverHeard` is the other half of the odd run: an odd number of channels polls
all but the last (`OddPolled`), whose notifier therefore never changes.

For the registry two things are needed. `RegInv` relates the lists to the signals: a notifier
somebody is bound to has exactly one connection, and whoever is registered or waiting belongs to a
connection whose closing is noticed. And `RemainingIs` says what the loop of
`doUnregisterNotifier` leaves of any list, exactly the entries of other clients; since induction is
out of reach as a rule with an operator for its parameter, it is done by hand with sets, from the
smallest number for which it would fail (`Smallest`, `UpTo`). `RegistersOnce` counts places in both
lists through append, take-first and take-back (`CountAppend`, `CountTail`), and the refinement of
`Subscriptions` rests on the same counts: `owed` is what a client has in the waiting list.
`NeverDangling`, `OneEach` and `KeepsPromise` bound the finding on waiting registrations: without the one kind of
parameter that is executed and emits nothing, `NobodyWaits` is inductive (with `RegInv`), every
REGISTER binds its own notifier, nobody is owed anything, and no message goes to a peer that has been deleted.

For the channel registers `Table` says, for every position in the file, which inputs are in the table
and that between the two elements of an input the name read last is its own (`ReadElement`,
`TableStep`). `FieldsKept` rests on that: muxers of the table fit their five bits, channel numbers
their eight (`LowBits`, `FieldsFit`), and the three masks are apart (`FieldsApart`).

For the composition each step either leaves the interrupt path alone or is one of its own
(`InterruptSteps`), which makes it an implementation of `Interrupts!AckSpec`; `SameInterrupts`
carries `NoStuck` and `NeverLeftBehind` over. `CleanHandover` needs `Backed` (what handlers,
notifiers and clients hold of a channel is pending in it) and `QuietIsClean`: a channel that was stopped
and then acknowledged has nothing pending, since nothing rises in it and only `ResetReads` of all
bits makes it quiet (`QuietStep`). That a FREE is preceded by a stop and an INTACK is used nowhere, so
the theorem is about all clients. `NeverPassedBy` needs the registry's `RegInv`, kept by the commands the
composition adds (`RegistryStep`, from the lemmas of `Notification_proofs`); so do `TellsTheLiving`
and `KeepsRegistrations` with `NobodyWaits`. Each step grants one client channels that are free (`Grants`), gives back all
of one client's (`Frees`), or leaves ownership alone (`ArbEffects`), which is the refinement of
`ChannelAllocation`; it needs `NobodyAssumption`, that the mark for no owner is no client's id.
`KnownInv` adds to `KnownIsTrue` that the words of a poll which are about to be reported hold all that
is known of the channels polled: a bit stays in the device from the message to the INTACK.
`NobodyWaitsInVain` puts it together with `ServerNeverStuck`: an INTACK is owed, and unless the bit
is orphaned somebody is there who knows of it.

For the initialization machine the invariant is `Phase`: for each state of the machine, what can be
queued, whether an attempt or the timer is under way, and how failures and remaining retries add
up. It shows that an `abortInit` is at the front of the queue or behind the one event that
`doConfiguration` may have emitted, so that no slot presets `m_nerror` between the failure and the
exit, and that a failed attempt is counted once. `Registering` adds where the one message number is:
not drawn, in the list, or acknowledged. `ShortQueues` are the facts about queues of one and
two events. `StepsLeft` is a variant function: an attempt that fails takes at most five steps, the
steps before and after it are counted by the state (`StepsOfPhase`), and each step lowers it
(`PhaseShortens`). (TLC agrees that `Phase` is an invariant; the proof shows that with `TypeOK` it is
inductive.)

For the dispatch, `OneSlot` shows that the signal of each part reaches `sendAnswer` along one path,
`OutcomesHonest` that every outcome of every handler has a text that counts as the effects it had,
`RegisterHonest` the same of a REGISTER around any other command, and `HonestReplies` that a step
sends exactly that.

Only model-checked: liveness (`EveryInterruptSeen`, `RegistersOrExits`, `ReachesClient`), which is
out of the prover's reach. Every other property of the passing runs is proved. For two of the three
the part that is safety is proved for all constants as well: `StartEnds` and `StartGoesOn` leave of
`RegistersOrExits` only that fairness takes the step that is ahead; `NobodyWaitsInVain` says for
`ReachesClient` that there is always somebody to act, though not that the acting ends.

Two cautions for whoever changes the proofs. Zenon accepts some false obligations with `A \subseteq
B \cap C` and with a bounded `CHOOSE` over an equality; the modules avoid both, by two inclusions and
by a quantifier. And a lemma of an INSTANCEd module is only usable when the facts its module
assumes of its constants are cited with it (`RegistryParameters`, `ArbParameters`).

## 5. Not modelled

* The plain settings (Ethernet, error calculators, FPGA, debug): one assignment per XML element, no
  interaction; their values are the modules' constants.
* `samplerange.cpp`: not in the build, and its header is missing.
* The measuring registers and INTMASK: storage of the device that no property depends on; the
  commands that write them pass the value through.
* `unregisterResource`: called nowhere. The server has one resource, which it registers once, so
  message numbers do not wrap and at most one is outstanding.
* The fork of builds without systemd.
* Network, SCPI parser, XML reader, resource manager connection, kernel driver: not in the
  repository; what the code expects of them is in the modules that use them.

## 6. Plan

Done, in this order: arbitration with its abstract allocator and proofs; interrupts with proofs;
registry with abstract subscriptions; channel registers and input table; startup and dispatch with
their proofs; raw writes of INTREG and what they break; resource registration; the composition of
arbitration, interrupts and registry with lost clients; proofs of the registry, of the registers and
the table, of the counting of SET, and of the composition; the termination of starting; what clients
know and who will act; the refinement and the registrations of the composition; the exact reach of
two findings
(waiting registrations, odd number of channels).

Possible next:

1. The reach of the findings of the arbitration: which single rule of `DisciplinedSpec` each of its
   theorems needs.
2. Proofs of what is left after a client is lost: that an orphaned bit stays, and that nothing of the
   other channels is wiped by it.
3. Raw writes of INTREG and undisciplined clients in the composition, to see which of its properties
   they take away; the state space of `Server` is the limit.
4. A larger instance of `Server`: two bits, or a third client that takes over a channel.
