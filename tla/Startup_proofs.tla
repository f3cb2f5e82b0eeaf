--------------------------- MODULE Startup_proofs ---------------------------
(* Theorems about Startup, for every number of retries.                    *)
EXTENDS Startup, SequenceTheorems, TLAPS

\* What is queued, and what is under way, in each state of the machine.  An
\* abortInit comes at once, or after the one event that doConfiguration may
\* have queued before it: no slot that presets m_nerror runs in between.
Configuring ==
    /\ state = "xmlConfiguration"
    /\ rm = "closed" /\ ~timer /\ failures = 0 /\ Running
    /\ \/ events = <<"finishedParsingXML">>
       \/ events \in {<<"abortInit">>, <<"finishedParsingXML", "abortInit">>} /\ m_nerror \in failed

SettingUp ==
    /\ state = "setupServer"
    /\ rm = "closed" /\ ~timer /\ failures = 0 /\ Running
    /\ \/ events = <<"serverSetup">> /\ m_nRetryRMConnect = RetryLimit
       \/ events \in {<<"abortInit">>, <<"abortInit", "abortInit">>, <<"abortInit", "serverSetup">>}
          /\ m_nerror \in failed

\* The failure of the attempt under way is counted when its event is handled.
Connecting ==
    /\ state = "connect2RM"
    /\ ~timer /\ Running
    /\ m_nRetryRMConnect > 0
    /\ m_nerror = "rmConnectionError"
    /\ \/ /\ failures + m_nRetryRMConnect = RetryLimit
          /\ \/ rm = "connecting" /\ events = <<>>
             \/ rm = "open" /\ events = <<"connected">>
             \/ rm = "closed" /\ events = <<"connected", "connectionRMError">>
       \/ /\ failures + m_nRetryRMConnect = RetryLimit + 1
          /\ rm = "closed" /\ events = <<"connectionRMError">>

Retrying ==
    /\ state = "connect2RMError"
    /\ rm = "closed" /\ Running
    /\ failures + m_nRetryRMConnect = RetryLimit
    /\ m_nerror = "rmConnectionError"
    /\ \/ m_nRetryRMConnect > 0 /\ timer /\ events = <<>>
       \/ m_nRetryRMConnect > 0 /\ ~timer /\ events = <<"serverSetup">>
       \/ /\ m_nRetryRMConnect = 0 /\ ~timer /\ events = <<"abortInit">>
          /\ "rmConnectionError" \in failed

Registered ==
    /\ state = "sendRMIdentandRegister"
    /\ rm \in {"open", "closed"} /\ ~timer /\ Running
    /\ failures < RetryLimit
    /\ \/ events = <<>>
       \/ rm = "closed" /\ events = <<"connectionRMError">>

Finished ==
    /\ state = "FINISH"
    /\ rm = "closed" /\ ~timer
    /\ exited \in failed
    /\ failures \in {0, RetryLimit}
    /\ exited = "rmConnectionError" => failures = RetryLimit

Starting ==
    /\ state = "start"
    /\ events = <<>> /\ rm = "closed" /\ ~timer /\ failures = 0 /\ Running

\* "rmConnectionError" is blamed for nothing else than the last failed attempt.
Phase ==
    /\ Starting \/ Configuring \/ SettingUp \/ Connecting \/ Retrying \/ Registered \/ Finished
    /\ state \in {"start", "xmlConfiguration", "setupServer"} => "rmConnectionError" \notin failed

\* The queues that occur are short: what is in front of them, what is behind it.
LEMMA ShortQueues ==
  ASSUME NEW a \in Signals, NEW b \in Signals
  PROVE  /\ Head(<<a>>) = a /\ Tail(<<a>>) = <<>>
         /\ Head(<<a, b>>) = a /\ Tail(<<a, b>>) = <<b>>
         /\ Append(<<>>, a) = <<a>> /\ Append(<<a>>, b) = <<a, b>>
<1>1. Head(<<a>>) = a /\ Head(<<a, b>>) = a
  OBVIOUS
<1>2. Tail(<<a>>) = <<>> /\ Tail(<<a, b>>) = <<b>>
  OBVIOUS
<1>3. Append(<<>>, a) = <<a>>
  OBVIOUS
<1>4. Append(<<a>>, b) = <<a, b>>
  <2>1. <<a>> \in Seq(Signals) /\ <<a, b>> \in Seq(Signals)
    OBVIOUS
  <2>2. /\ Append(<<a>>, b) \in Seq(Signals) /\ Len(Append(<<a>>, b)) = 2
        /\ Append(<<a>>, b)[1] = a /\ Append(<<a>>, b)[2] = b
    BY <2>1, AppendProperties
  <2>3. Len(<<a, b>>) = 2 /\ <<a, b>>[1] = a /\ <<a, b>>[2] = b
    OBVIOUS
  <2>4. \A i \in 1 .. 2 : Append(<<a>>, b)[i] = <<a, b>>[i]
    BY <2>2, <2>3
  <2>5. QED
    BY <2>1, <2>2, <2>3, <2>4, SeqEqual
<1>5. QED
  BY <1>1, <1>2, <1>3, <1>4

\* The machine goes from one phase to the next by handling the event in front.
LEMMA HandleEventPhase ==
  ASSUME StartTypeOK, Phase, HandleEvent
  PROVE  Phase'
<1> USE RetryLimitAssumption
<1>1. events # <<>> /\ Running
  BY DEF HandleEvent
<1>2. CASE Configuring
  <2>1. CASE events = <<"finishedParsingXML">>
    <3>1. Head(events) = "finishedParsingXML" /\ Tail(events) = <<>>
      BY <2>1
    <3>2. state' = "setupServer" /\ doSetupServer(<<>>)
      BY <1>2, <3>1 DEF HandleEvent, Enter, successor, Configuring
    <3>3. SettingUp'
      BY <1>2, <3>2, ShortQueues
         DEF doSetupServer, Abort, Blame, SettingUp, Configuring, Running, Signals
    <3>4. QED
      BY <1>2, <3>2, <3>3 DEF Phase, doSetupServer, Abort, Blame, Configuring, SettingUp
  <2>2. CASE events = <<"abortInit">> /\ m_nerror \in failed
    <3>1. state' = "FINISH" /\ doCloseServer(Tail(events))
      BY <1>2, <2>2 DEF HandleEvent, Enter, successor, Configuring
    <3>2. QED
      BY <1>2, <2>2, <3>1 DEF Phase, doCloseServer, Finished, Configuring
  <2>3. CASE events = <<"finishedParsingXML", "abortInit">> /\ m_nerror \in failed
    <3>1. Head(events) = "finishedParsingXML" /\ Tail(events) = <<"abortInit">>
      BY <2>3
    <3>2. state' = "setupServer" /\ doSetupServer(<<"abortInit">>)
      BY <1>2, <3>1 DEF HandleEvent, Enter, successor, Configuring
    <3>3. SettingUp'
      BY <1>2, <2>3, <3>2, ShortQueues
         DEF doSetupServer, Abort, Blame, SettingUp, Configuring, Running, Signals
    <3>4. QED
      BY <1>2, <3>2, <3>3 DEF Phase, doSetupServer, Abort, Blame, Configuring, SettingUp
  <2>4. QED
    BY <1>2, <2>1, <2>2, <2>3 DEF Configuring
<1>3. CASE SettingUp
  <2>1. CASE events = <<"serverSetup">> /\ m_nRetryRMConnect = RetryLimit
    <3>1. Head(events) = "serverSetup" /\ Tail(events) = <<>>
      BY <2>1
    <3>2. state' = "connect2RM" /\ doConnect2RM(<<>>)
      BY <1>3, <3>1 DEF HandleEvent, Enter, successor, SettingUp
    <3>3. QED
      BY <1>3, <2>1, <3>2 DEF Phase, doConnect2RM, Connecting, SettingUp, Running
  <2>2. CASE Head(events) = "abortInit" /\ m_nerror \in failed
    <3>1. state' = "FINISH" /\ doCloseServer(Tail(events))
      BY <1>3, <2>2 DEF HandleEvent, Enter, successor, SettingUp
    <3>2. QED
      BY <1>3, <2>2, <3>1 DEF Phase, doCloseServer, Finished, SettingUp
  <2>3. QED
    BY <1>3, <2>1, <2>2 DEF SettingUp
<1>4. CASE Connecting
  <2>1. CASE Head(events) = "connected"
    <3>1. state' = "sendRMIdentandRegister" /\ doIdentAndRegister(Tail(events))
      BY <1>4, <2>1 DEF HandleEvent, Enter, successor, Connecting
    <3>2. \/ rm = "open" /\ Tail(events) = <<>>
          \/ rm = "closed" /\ Tail(events) = <<"connectionRMError">>
      <4>1. Head(<<"connectionRMError">>) = "connectionRMError"
        OBVIOUS
      <4>2. \/ rm = "open" /\ events = <<"connected">>
            \/ rm = "closed" /\ events = <<"connected", "connectionRMError">>
        BY <1>1, <1>4, <2>1, <4>1 DEF Connecting
      <4>3. Tail(<<"connected">>) = <<>>
        OBVIOUS
      <4>4. Tail(<<"connected", "connectionRMError">>) = <<"connectionRMError">>
        BY ShortQueues DEF Signals
      <4>5. QED
        BY <4>2, <4>3, <4>4
    <3>3. failures < RetryLimit
      BY <1>1, <1>4, <2>1 DEF Connecting, StartTypeOK
    <3>4. QED
      BY <1>4, <3>1, <3>2, <3>3 DEF Phase, doIdentAndRegister, Registered, Connecting, Running
  <2>2. CASE /\ events = <<"connectionRMError">> /\ rm = "closed"
             /\ failures + m_nRetryRMConnect = RetryLimit + 1
    <3>1. Head(events) = "connectionRMError" /\ Tail(events) = <<>>
      BY <2>2
    <3>2. state' = "connect2RMError" /\ connect2RMError(<<>>)
      BY <1>4, <3>1 DEF HandleEvent, Enter, successor, Connecting
    <3>3. Append(<<>>, "abortInit") = <<"abortInit">>
      BY ShortQueues DEF Signals
    <3>4. Retrying'
      BY <1>4, <2>2, <3>2, <3>3
         DEF connect2RMError, Blame, Connecting, Retrying, Running, StartTypeOK
    <3>5. QED
      BY <3>2, <3>4 DEF Phase
  <2>3. QED
    BY <1>1, <1>4, <2>1, <2>2 DEF Connecting
<1>5. CASE Retrying
  <2>1. CASE events = <<"serverSetup">> /\ m_nRetryRMConnect > 0 /\ ~timer
    <3>1. Head(events) = "serverSetup" /\ Tail(events) = <<>>
      BY <2>1
    <3>2. state' = "connect2RM" /\ doConnect2RM(<<>>)
      BY <1>5, <3>1 DEF HandleEvent, Enter, successor, Retrying
    <3>3. QED
      BY <1>5, <2>1, <3>2 DEF Phase, doConnect2RM, Connecting, Retrying, Running
  <2>2. CASE /\ events = <<"abortInit">> /\ ~timer /\ m_nRetryRMConnect = 0
             /\ "rmConnectionError" \in failed
    <3>1. state' = "FINISH" /\ doCloseServer(Tail(events))
      BY <1>5, <2>2 DEF HandleEvent, Enter, successor, Retrying
    <3>2. QED
      BY <1>5, <2>2, <3>1 DEF Phase, doCloseServer, Finished, Retrying, StartTypeOK
  <2>3. QED
    BY <1>1, <1>5, <2>1, <2>2 DEF Retrying
<1>6. CASE Registered
  <2>1. events = <<"connectionRMError">> /\ rm = "closed"
    BY <1>1, <1>6 DEF Registered
  <2>2. Head(events) = "connectionRMError" /\ Tail(events) = <<>>
    BY <2>1
  <2>3. /\ events' = <<>>
        /\ UNCHANGED <<state, timer, rm, exited, failed, failures>>
    BY <1>6, <2>2 DEF HandleEvent, successor, Registered
  <2>4. QED
    BY <1>6, <2>3 DEF Phase, Registered, Running
<1>7. ~Starting
  BY <1>1 DEF Starting
<1>8. ~Finished
  BY <1>1 DEF Finished, Running, StartTypeOK, ServerErrors, ConfigErrors
<1>9. QED
  BY <1>2, <1>3, <1>4, <1>5, <1>6, <1>7, <1>8 DEF Phase

\* What happens around the machine adds the event the phase allows for.
LEMMA SurroundingsPhase ==
  ASSUME StartTypeOK, Phase, Start \/ RMAnswers \/ RMLost \/ TimerFires
  PROVE  Phase'
<1> USE RetryLimitAssumption
<1>1. CASE Start
  <2>1. Starting
    BY <1>1 DEF Start, Phase, Configuring, SettingUp, Connecting, Retrying, Registered, Finished
  <2>2. state' = "xmlConfiguration" /\ doConfiguration(<<>>)
    BY <1>1 DEF Start, Enter
  <2>3. UNCHANGED <<rm, timer, failures, exited>>
    BY <2>2 DEF doConfiguration
  <2>4. \/ events' = <<"finishedParsingXML">> /\ failed' = failed
        \/ /\ events' \in {<<"abortInit">>, <<"finishedParsingXML", "abortInit">>}
           /\ m_nerror' \in failed'
           /\ failed' \subseteq failed \cup ConfigErrors \cup {"xmlfileError"}
    <3>1. /\ Append(<<>>, "abortInit") = <<"abortInit">>
          /\ Append(<<>>, "finishedParsingXML") = <<"finishedParsingXML">>
          /\ Append(<<"finishedParsingXML">>, "abortInit") = <<"finishedParsingXML", "abortInit">>
      BY ShortQueues DEF Signals
    <3>2. QED
      BY <2>2, <3>1 DEF doConfiguration, Abort, Blame
  <2>5. QED
    BY <2>1, <2>2, <2>3, <2>4 DEF Phase, Starting, Configuring, ConfigErrors, Running
<1>2. CASE RMAnswers
  <2>1. Connecting /\ rm = "connecting" /\ events = <<>>
    BY <1>2 DEF RMAnswers, Running, Phase, Starting, Configuring, SettingUp, Connecting,
                Retrying, Registered, Finished
  <2>2. /\ Append(<<>>, "connected") = <<"connected">>
        /\ Append(<<>>, "connectionRMError") = <<"connectionRMError">>
    BY ShortQueues DEF Signals
  <2>3. <<>> # <<"connectionRMError">>
    OBVIOUS
  <2>4. Connecting'
    BY <1>2, <2>1, <2>2, <2>3 DEF RMAnswers, Connecting, Running, StartTypeOK
  <2>5. QED
    BY <2>4 DEF Phase, Connecting
<1>3. CASE RMLost
  <2>1. Append(<<>>, "connectionRMError") = <<"connectionRMError">>
    BY ShortQueues DEF Signals
  <2>2. Append(<<"connected">>, "connectionRMError") = <<"connected", "connectionRMError">>
    BY ShortQueues DEF Signals
  <2>3. CASE Connecting
    <3>1. Connecting'
      BY <1>3, <2>2, <2>3 DEF RMLost, Connecting, Running
    <3>2. QED
      BY <3>1 DEF Phase, Connecting
  <2>4. CASE Registered
    BY <1>3, <2>1, <2>4 DEF RMLost, Phase, Registered, Running
  <2>5. QED
    BY <1>3, <2>3, <2>4 DEF RMLost, Phase, Starting, Configuring, SettingUp, Retrying, Finished
<1>4. CASE TimerFires
  <2>1. Retrying /\ timer /\ events = <<>> /\ m_nRetryRMConnect > 0
    BY <1>4 DEF TimerFires, Phase, Starting, Configuring, SettingUp, Connecting, Retrying,
                Registered, Finished
  <2>2. Append(<<>>, "serverSetup") = <<"serverSetup">>
    BY ShortQueues DEF Signals
  <2>3. QED
    BY <1>4, <2>1, <2>2 DEF TimerFires, Phase, Retrying, Running
<1>5. QED
  BY <1>1, <1>2, <1>3, <1>4

\* The steps that concern the machine, and the one that does not.
MachineNext == Start \/ HandleEvent \/ RMAnswers \/ RMLost \/ TimerFires

LEMMA NextSplits == Next => MachineNext \/ \E msgnr \in AckNumbers : RMAck(msgnr)
BY DEF Next, MachineNext

\* Every slot keeps the types; the counter is not below zero because a failed
\* attempt is handled only while retries are left.
LEMMA TypeStep ==
  ASSUME StartTypeOK, Phase, MachineNext
  PROVE  StartTypeOK'
<1> USE RetryLimitAssumption
<1>1. \A q \in Seq(Signals), a \in Signals : Append(q, a) \in Seq(Signals)
  OBVIOUS
<1>2. ASSUME NEW next \in States, NEW rest \in Seq(Signals), Enter(next, rest),
             next = "connect2RMError" => m_nRetryRMConnect > 0
      PROVE  StartTypeOK'
  <2>1. state' \in States
    BY <1>2 DEF Enter
  <2>2. CASE next = "xmlConfiguration" /\ doConfiguration(rest)
    BY <1>1, <1>2, <2>1, <2>2
       DEF StartTypeOK, doConfiguration, Abort, Blame, Signals, ServerErrors, ConfigErrors
  <2>3. CASE next = "setupServer" /\ doSetupServer(rest)
    BY <1>1, <1>2, <2>1, <2>3 DEF StartTypeOK, doSetupServer, Abort, Blame, Signals, ServerErrors
  <2>4. CASE next = "connect2RM" /\ doConnect2RM(rest)
    BY <1>2, <2>1, <2>4 DEF StartTypeOK, doConnect2RM, ServerErrors
  <2>5. CASE next = "connect2RMError" /\ connect2RMError(rest)
    <3>1. events' \in Seq(Signals)
      BY <1>1, <1>2, <2>5 DEF connect2RMError, Signals
    <3>2. m_nRetryRMConnect' \in 0 .. RetryLimit
      BY <1>2, <2>5 DEF StartTypeOK, connect2RMError
    <3>3. failed' \subseteq ServerErrors
      BY <2>5 DEF StartTypeOK, connect2RMError, Blame, ServerErrors
    <3>4. UNCHANGED <<m_nerror, rm, exited, failures>> /\ timer' \in BOOLEAN
      BY <2>5 DEF StartTypeOK, connect2RMError
    <3>5. QED
      BY <2>1, <3>1, <3>2, <3>3, <3>4 DEF StartTypeOK
  <2>6. CASE next = "sendRMIdentandRegister" /\ doIdentAndRegister(rest)
    BY <1>2, <2>1, <2>6 DEF StartTypeOK, doIdentAndRegister
  <2>7. CASE next = "FINISH" /\ doCloseServer(rest)
    BY <1>2, <2>1, <2>7 DEF StartTypeOK, doCloseServer
  <2>8. QED
    BY <1>2, <2>2, <2>3, <2>4, <2>5, <2>6, <2>7 DEF Enter
<1>3. CASE Start
  <2>1. <<>> \in Seq(Signals)
    OBVIOUS
  <2>2. "xmlConfiguration" \in States
    BY DEF States
  <2>3. QED
    BY <1>2, <1>3, <2>1, <2>2 DEF Start
<1>4. CASE HandleEvent
  <2>1. Tail(events) \in Seq(Signals)
    BY <1>4 DEF HandleEvent, StartTypeOK
  <2>2. CASE successor(Head(events)) = state
    BY <1>4, <2>1, <2>2 DEF HandleEvent, StartTypeOK
  <2>3. CASE successor(Head(events)) # state
    <3>1. Enter(successor(Head(events)), Tail(events))
      BY <1>4, <2>3 DEF HandleEvent
    <3>2. successor(Head(events)) \in States
      BY DEF successor, States, StartTypeOK
    <3>3. successor(Head(events)) = "connect2RMError" => Connecting
      BY <2>3 DEF successor, Phase, Starting, Configuring, SettingUp, Retrying, Registered, Finished
    <3>4. QED
      BY <1>2, <2>1, <3>1, <3>2, <3>3 DEF Connecting
  <2>4. QED
    BY <2>2, <2>3
<1>5. CASE RMAnswers
  BY <1>1, <1>5 DEF RMAnswers, StartTypeOK, Signals
<1>6. CASE RMLost
  BY <1>1, <1>6 DEF RMLost, StartTypeOK, Signals
<1>7. CASE TimerFires
  BY <1>1, <1>7 DEF TimerFires, StartTypeOK, Signals
<1>8. QED
  BY <1>3, <1>4, <1>5, <1>6, <1>7 DEF MachineNext

\* StartTypeOK and Phase together are inductive.
THEOREM PhaseInvariant == Spec => [](StartTypeOK /\ Phase)
<1>1. Init => StartTypeOK /\ Phase
  <2>1. <<>> \in Seq(Signals)
    OBVIOUS
  <2>2. QED
    <3>1. Init => StartTypeOK
      <4> SUFFICES ASSUME Init PROVE StartTypeOK
        OBVIOUS
      <4>1. state \in States /\ m_nerror \in ServerErrors
        BY DEF Init, States, ServerErrors
      <4>2. events \in Seq(Signals)
        BY <2>1 DEF Init
      <4>3. m_nRetryRMConnect \in 0 .. RetryLimit /\ failures \in Nat
        BY RetryLimitAssumption DEF Init
      <4>4. QED
        BY <4>1, <4>2, <4>3 DEF Init, StartTypeOK
    <3>2. Init => Phase
      BY DEF Init, Phase, Starting, Running
    <3>3. QED
      BY <3>1, <3>2
<1>2. StartTypeOK /\ Phase /\ [Next]_vars => (StartTypeOK /\ Phase)'
  <2> SUFFICES ASSUME StartTypeOK, Phase, [Next]_vars
               PROVE  (StartTypeOK /\ Phase)'
    OBVIOUS
  <2>1. CASE MachineNext
    BY <2>1, TypeStep, HandleEventPhase, SurroundingsPhase DEF MachineNext
  <2>2. CASE UNCHANGED startVars
    BY <2>2 DEF startVars, StartTypeOK, Phase, Starting, Configuring, SettingUp, Connecting, Retrying,
                Registered, Finished, Running
  <2>3. QED
    BY <2>1, <2>2, NextSplits DEF RMAck, vars
<1>3. QED
  BY <1>1, <1>2, PTL DEF Spec

-----------------------------------------------------------------------------
(* The registration at the resource manager.                               *)

\* Before the machine registers nothing has been sent.  Afterwards the message
\* is in the list or acknowledged.
Registering ==
    \/ /\ state # "sendRMIdentandRegister"
       /\ m_nMsgNr = 0 /\ msgNrList = {} /\ registerRdy = 0 /\ acked = {}
    \/ /\ state = "sendRMIdentandRegister"
       /\ m_nMsgNr = 1
       /\ \/ msgNrList = {1} /\ registerRdy = 0 /\ 1 \notin acked
          \/ msgNrList = {} /\ registerRdy = 1 /\ 1 \in acked

\* The machine does not leave the state in which it has registered.
LEMMA StaysRegistered ==
  ASSUME Phase, MachineNext, state = "sendRMIdentandRegister"
  PROVE  state' = state /\ UNCHANGED resourceVars
<1>1. Registered
  BY DEF Phase, Starting, Configuring, SettingUp, Connecting, Retrying, Finished
<1>2. CASE HandleEvent
  <2>1. events = <<"connectionRMError">>
    BY <1>1, <1>2 DEF HandleEvent, Registered
  <2>2. Head(events) = "connectionRMError"
    BY <2>1
  <2>3. QED
    BY <1>2, <2>2 DEF HandleEvent, successor
<1>3. CASE Start \/ RMAnswers \/ RMLost \/ TimerFires
  BY <1>3 DEF Start, RMAnswers, RMLost, TimerFires
<1>4. QED
  BY <1>2, <1>3 DEF MachineNext

\* A step of the machine registers when it enters that state, and only then.
LEMMA RegistersOnEntry ==
  ASSUME Phase, MachineNext, state # "sendRMIdentandRegister"
  PROVE  \/ state' = "sendRMIdentandRegister" /\ registerResource
         \/ state' # "sendRMIdentandRegister" /\ UNCHANGED resourceVars
<1>1. CASE Start
  BY <1>1 DEF Start, Enter
<1>2. CASE HandleEvent
  <2>1. CASE successor(Head(events)) = state
    BY <1>2, <2>1 DEF HandleEvent
  <2>2. CASE successor(Head(events)) # state
    <3>1. Enter(successor(Head(events)), Tail(events))
      BY <1>2, <2>2 DEF HandleEvent
    <3>2. QED
      BY <3>1 DEF Enter, doIdentAndRegister
  <2>3. QED
    BY <2>1, <2>2
<1>3. CASE RMAnswers \/ RMLost \/ TimerFires
  BY <1>3 DEF RMAnswers, RMLost, TimerFires
<1>4. QED
  BY <1>1, <1>2, <1>3 DEF MachineNext

THEOREM RegisteringInvariant == Spec => []Registering
<1>1. Init => Registering
  BY DEF Init, ResourceInit, Registering
<1>2. Phase /\ Registering /\ [Next]_vars => Registering'
  <2> SUFFICES ASSUME Phase, Registering, [Next]_vars
               PROVE  Registering'
    OBVIOUS
  <2>1. CASE MachineNext /\ state = "sendRMIdentandRegister"
    BY <2>1, StaysRegistered DEF Registering, resourceVars
  <2>2. CASE MachineNext /\ state # "sendRMIdentandRegister"
    BY <2>2, RegistersOnEntry DEF Registering, resourceVars, registerResource, getMsgNr
  <2>3. CASE \E msgnr \in AckNumbers : RMAck(msgnr)
    <3>1. PICK msgnr \in AckNumbers : RMAck(msgnr)
      BY <2>3
    <3>2. /\ state = "sendRMIdentandRegister" /\ state' = state
          /\ m_nMsgNr' = m_nMsgNr /\ acked' = acked \cup {msgnr}
          /\ msgNrList' = msgNrList \ {msgnr}
          /\ registerRdy' = IF msgnr \in msgNrList /\ msgNrList' = {}
                            THEN registerRdy + 1 ELSE registerRdy
      BY <3>1 DEF RMAck, startVars, resourceManagerAck, awaited
    <3>3. CASE msgNrList = {1} /\ registerRdy = 0 /\ 1 \notin acked
      BY <3>2, <3>3 DEF Registering
    <3>4. CASE msgNrList = {} /\ registerRdy = 1 /\ 1 \in acked
      BY <3>2, <3>4 DEF Registering
    <3>5. QED
      BY <3>2, <3>3, <3>4 DEF Registering
  <2>4. CASE UNCHANGED vars
    BY <2>4 DEF vars, startVars, resourceVars, Registering
  <2>5. QED
    BY <2>1, <2>2, <2>3, <2>4, NextSplits
<1>3. QED
  BY <1>1, <1>2, PhaseInvariant, PTL DEF Spec

\* The machine and the registration keep their types (TypeOK).
THEOREM TypeCorrect == Spec => []TypeOK
<1>1. Init => ResourceTypeOK
  BY DEF Init, ResourceInit, ResourceTypeOK
<1>2. Registering /\ ResourceTypeOK /\ [Next]_vars => ResourceTypeOK'
  <2> SUFFICES ASSUME Registering, ResourceTypeOK, [Next]_vars
               PROVE  ResourceTypeOK'
    OBVIOUS
  <2>1. ASSUME UNCHANGED resourceVars PROVE ResourceTypeOK'
    BY <2>1 DEF resourceVars, ResourceTypeOK
  <2>2. ASSUME registerResource PROVE ResourceTypeOK'
    BY <2>2 DEF registerResource, getMsgNr, ResourceTypeOK
  <2>3. ASSUME NEW msgnr \in AckNumbers, RMAck(msgnr) PROVE ResourceTypeOK'
    BY <2>3, AckNumbersAssumption DEF RMAck, resourceManagerAck, ResourceTypeOK
  <2>4. ASSUME HandleEvent PROVE UNCHANGED resourceVars \/ registerResource
    BY <2>4 DEF HandleEvent, Enter, doIdentAndRegister
  <2>5. QED
    BY <2>1, <2>2, <2>3, <2>4
       DEF Next, Start, Enter, RMAnswers, RMLost, TimerFires, vars, resourceVars
<1>3. QED
  BY <1>1, <1>2, PhaseInvariant, RegisteringInvariant, PTL DEF Spec, TypeOK

\* registerRdy is emitted once, when the number of the registration is
\* acknowledged, whatever numbers are (RegisterRdyIsTrue, resourceManagerAck).
THEOREM AnnouncesTruly == Spec => []RegisterRdyIsTrue
<1>1. Registering => RegisterRdyIsTrue
  BY DEF Registering, RegisterRdyIsTrue
<1>2. QED
  BY <1>1, RegisteringInvariant, PTL

\* The exit code names a step that has failed, whatever the retries
\* (ExitNamesFailure, doCloseServer).
THEOREM ExitCodeIsTrue == Spec => []ExitNamesFailure
<1>1. StartTypeOK /\ Phase => ExitNamesFailure
  BY DEF StartTypeOK, Phase, ExitNamesFailure, Running, Starting, Configuring, SettingUp, Connecting,
         Retrying, Registered, Finished
<1>2. QED
  BY <1>1, PhaseInvariant, PTL

\* However many retries are set, the server gives up after exactly that many
\* failed attempts and makes no further one (GivesUpAfterAllRetries,
\* connect2RMError).
THEOREM GivesUpExactly == Spec => []GivesUpAfterAllRetries
<1>1. StartTypeOK /\ Phase => GivesUpAfterAllRetries
  BY RetryLimitAssumption
     DEF StartTypeOK, Phase, GivesUpAfterAllRetries, Running, Starting, Configuring, SettingUp,
         Connecting, Retrying, Registered, Finished, ServerErrors, ConfigErrors
<1>2. QED
  BY <1>1, PhaseInvariant, PTL
-----------------------------------------------------------------------------
(* Starting ends.                                                          *)

\* In each phase StepsLeft is what the state of the machine says.
LEMMA StepsOfPhase ==
  ASSUME StartTypeOK, Phase
  PROVE  /\ StepsLeft \in 0 .. 5 * RetryLimit + 6
         /\ Starting => StepsLeft = 5 * RetryLimit + 6
         /\ Configuring => StepsLeft = 5 * RetryLimit + 5
         /\ SettingUp => StepsLeft = 5 * RetryLimit + 4
         /\ Connecting => StepsLeft = 5 * m_nRetryRMConnect
               + (IF rm = "connecting" THEN 3 ELSE IF rm = "open" THEN 2 ELSE 1)
         /\ Retrying => StepsLeft = 5 * m_nRetryRMConnect + (IF timer THEN 5 ELSE 4)
         /\ Registered \/ Finished => StepsLeft = 0
<1> USE RetryLimitAssumption DEF StartTypeOK, StepsLeft
<1>1. CASE Starting \/ Configuring \/ SettingUp \/ Registered \/ Finished
  BY <1>1 DEF Starting, Configuring, SettingUp, Registered, Finished, Connecting, Retrying
<1>2. CASE Connecting
  <2>1. StepsLeft = 5 * m_nRetryRMConnect
               + (IF rm = "connecting" THEN 3 ELSE IF rm = "open" THEN 2 ELSE 1)
    BY <1>2 DEF Connecting
  <2>2. QED
    BY <1>2, <2>1 DEF Starting, Configuring, SettingUp, Registered, Finished, Connecting, Retrying
<1>3. CASE Retrying
  BY <1>3 DEF Starting, Configuring, SettingUp, Registered, Finished, Connecting, Retrying
<1>4. QED
  BY <1>1, <1>2, <1>3 DEF Phase

\* What the steps of each phase lead to.
LEMMA PhaseShortens ==
  ASSUME StartTypeOK, Phase, MachineNext, ~Started
  PROVE  StepsLeft' \in Nat /\ StepsLeft' < StepsLeft
<1> USE RetryLimitAssumption
<1>1. StartTypeOK' /\ Phase'
  BY TypeStep, HandleEventPhase, SurroundingsPhase DEF MachineNext
<1>2. StepsLeft' \in Nat
  <2>1. /\ m_nRetryRMConnect' \in Nat /\ timer' \in BOOLEAN
        /\ rm' = "connecting" \/ rm' = "open" \/ rm' = "closed"
    BY <1>1 DEF StartTypeOK
  <2>2. 5 * m_nRetryRMConnect' \in Nat
    <3>1. \A n \in Nat : 5 * n \in Nat
      OBVIOUS
    <3>2. QED
      BY <2>1, <3>1
  <2>3. 5 * RetryLimit \in Nat
    OBVIOUS
  <2>4. QED
    BY <2>1, <2>2, <2>3 DEF StepsLeft
<1>3. CASE Starting
  <2>1. state' = "xmlConfiguration"
    BY <1>3 DEF MachineNext, Start, Enter, HandleEvent, RMAnswers, RMLost, TimerFires, Starting
  <2>2. QED
    BY <1>2, <1>3, <2>1 DEF StepsLeft, Starting
<1>4. CASE Configuring
  <2>1. HandleEvent
    BY <1>4 DEF MachineNext, Start, RMAnswers, RMLost, TimerFires, Configuring
  <2>2. Head(events) \in {"finishedParsingXML", "abortInit"}
    BY <1>4 DEF Configuring
  <2>3. state' \in {"setupServer", "FINISH"}
    BY <1>4, <2>1, <2>2 DEF HandleEvent, Enter, successor, Configuring
  <2>4. QED
    BY <1>2, <1>4, <2>3 DEF StepsLeft, Configuring
<1>5. CASE SettingUp
  <2>1. HandleEvent
    BY <1>5 DEF MachineNext, Start, RMAnswers, RMLost, TimerFires, SettingUp
  <2>2. \/ Head(events) = "serverSetup" /\ m_nRetryRMConnect = RetryLimit
        \/ Head(events) = "abortInit"
    BY <1>5 DEF SettingUp
  <2>3. \/ state' = "connect2RM" /\ doConnect2RM(Tail(events)) /\ m_nRetryRMConnect = RetryLimit
        \/ state' = "FINISH"
    BY <1>5, <2>1, <2>2 DEF HandleEvent, Enter, successor, SettingUp
  <2>4. QED
    BY <1>2, <1>5, <2>3 DEF StepsLeft, SettingUp, doConnect2RM
<1>6. CASE Connecting
  <2>1. \/ rm = "connecting" \/ rm = "open" \/ rm = "closed"
    BY DEF StartTypeOK
  <2>2. CASE RMAnswers \/ RMLost
    BY <1>2, <1>6, <2>2 DEF StepsLeft, RMAnswers, RMLost, Connecting, StartTypeOK
  <2>3. CASE HandleEvent
    <3>1. Head(events) \in {"connected", "connectionRMError"}
      BY <1>6, <2>3 DEF HandleEvent, Connecting
    <3>2. \/ state' = "sendRMIdentandRegister"
          \/ state' = "connect2RMError" /\ connect2RMError(Tail(events))
      BY <1>6, <2>3, <3>1 DEF HandleEvent, Enter, successor, Connecting
    <3>3. QED
      BY <1>2, <1>6, <2>1, <3>2 DEF StepsLeft, connect2RMError, Connecting, StartTypeOK
  <2>4. ~Start /\ ~TimerFires
    BY <1>6 DEF Start, TimerFires, Connecting
  <2>5. QED
    BY <2>2, <2>3, <2>4 DEF MachineNext
<1>7. CASE Retrying
  <2>1. CASE TimerFires
    BY <1>2, <1>7, <2>1 DEF StepsLeft, TimerFires, Retrying, StartTypeOK
  <2>2. CASE HandleEvent
    <3>1. Head(events) \in {"serverSetup", "abortInit"}
      BY <1>7, <2>2 DEF HandleEvent, Retrying
    <3>2. ~timer
      BY <1>7, <2>2 DEF HandleEvent, Retrying
    <3>3. \/ state' = "connect2RM" /\ doConnect2RM(Tail(events))
          \/ state' = "FINISH"
      BY <1>7, <2>2, <3>1 DEF HandleEvent, Enter, successor, Retrying
    <3>4. QED
      BY <1>2, <1>7, <3>2, <3>3 DEF StepsLeft, doConnect2RM, Retrying, StartTypeOK
  <2>3. ~Start /\ ~RMAnswers /\ ~RMLost
    BY <1>7 DEF Start, RMAnswers, RMLost, Retrying
  <2>4. QED
    BY <2>1, <2>2, <2>3 DEF MachineNext
<1>8. ~Registered /\ ~Finished
  BY DEF Started, Registered, Finished, Running, StartTypeOK, ServerErrors, ConfigErrors
<1>9. QED
  BY <1>3, <1>4, <1>5, <1>6, <1>7, <1>8 DEF Phase

\* However many retries are set, each step of starting brings its end nearer
\* (StartShortens, connect2RMError).
THEOREM StartEnds == Spec => StartShortens
<1>1. StartTypeOK /\ Phase /\ [Next]_vars =>
        [~Started => StepsLeft' \in Nat /\ StepsLeft' < StepsLeft]_vars
  <2> SUFFICES ASSUME StartTypeOK, Phase, Next, ~Started
               PROVE  StepsLeft' \in Nat /\ StepsLeft' < StepsLeft
    OBVIOUS
  <2>1. ~ \E msgnr \in AckNumbers : RMAck(msgnr)
    BY DEF RMAck, Started
  <2>2. QED
    BY <2>1, NextSplits, PhaseShortens
<1>2. QED
  BY <1>1, PhaseInvariant, PTL DEF Spec, StartShortens

\* Starting does not come to rest before its end: until the server has
\* registered or the process is gone there is a step to take that the event
\* loop, the timer or the end of an attempt to connect brings about.  With
\* StartEnds: after 5 * RetryLimit + 6 steps at the latest it has ended.
THEOREM StartGoesOn ==
  Spec => [](~Started =>
                /\ StepsLeft \in 1 .. 5 * RetryLimit + 6
                /\ state = "start" \/ events # <<>> \/ rm = "connecting" \/ timer)
<1> DEFINE GoesOn == ~Started =>
                /\ StepsLeft \in 1 .. 5 * RetryLimit + 6
                /\ state = "start" \/ events # <<>> \/ rm = "connecting" \/ timer
<1>1. StartTypeOK /\ Phase => GoesOn
  <2> SUFFICES ASSUME StartTypeOK, Phase, ~Started
               PROVE  /\ StepsLeft \in 1 .. 5 * RetryLimit + 6
                      /\ state = "start" \/ events # <<>> \/ rm = "connecting" \/ timer
    OBVIOUS
  <2>1. ~Registered /\ ~Finished
    BY DEF Started, Registered, Finished, Running, StartTypeOK, ServerErrors, ConfigErrors
  <2>2. StepsLeft \in 1 .. 5 * RetryLimit + 6
    BY <2>1, StepsOfPhase, RetryLimitAssumption DEF Phase, StartTypeOK
  <2>3. state = "start" \/ events # <<>> \/ rm = "connecting" \/ timer
    BY <2>1 DEF Phase, Starting, Configuring, SettingUp, Connecting, Retrying
  <2>4. QED
    BY <2>2, <2>3
<1>2. QED
  BY <1>1, PhaseInvariant, PTL

=============================================================================
