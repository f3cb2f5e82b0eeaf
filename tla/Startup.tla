------------------------------ MODULE Startup ------------------------------
(***************************************************************************)
(* From the start of the process to the registration at the resource       *)
(* manager, or to its exit (sec1000d.cpp, the initialization machine;      *)
(* main.cpp).  The machine is a QStateMachine: a signal that is emitted    *)
(* becomes an event in its queue and is handled in the state the machine   *)
(* is in by then; a state that is entered runs its slot at once.  An event *)
(* without a transition is dropped.                                        *)
(***************************************************************************)
EXTENDS Resource, Sequences

CONSTANTS
    RetryLimit,         \* connection attempts to the resource manager (100)
    AckNumbers          \* message numbers the resource manager acknowledges

ASSUME RetryLimitAssumption == RetryLimit \in Nat \ {0}
ASSUME AckNumbersAssumption == AckNumbers \subseteq Nat

VARIABLES
    state,              \* of the initialization machine
    events,             \* its event queue
    m_nerror,           \* the exit code prepared last
    m_nRetryRMConnect,  \* attempts that are left
    timer,              \* m_retryTimer is running
    rm,                 \* connection to the resource manager (external)
    exited,             \* exit code of the process
    failed,             \* history: the exit codes of the steps that have failed
    failures            \* history: failed connection attempts

startVars == <<state, events, m_nerror, m_nRetryRMConnect, timer, rm, exited, failed, failures>>
vars == <<startVars, resourceVars>>

States == {"start", "xmlConfiguration", "setupServer", "connect2RM", "connect2RMError",
           "sendRMIdentandRegister", "FINISH"}
Signals == {"abortInit", "finishedParsingXML", "serverSetup", "connected", "connectionRMError"}
ConfigErrors == {"parameterError", "pipeError", "xsdfileError"}
ServerErrors == ConfigErrors \cup {"noError", "xmlfileError", "secDeviceError", "rmConnectionError"}

StartTypeOK ==
    /\ state \in States
    /\ events \in Seq(Signals)
    /\ m_nerror \in ServerErrors
    /\ m_nRetryRMConnect \in 0 .. RetryLimit
    /\ timer \in BOOLEAN
    /\ rm \in {"closed", "connecting", "open"}
    /\ exited \in ServerErrors \cup {"running"}
    /\ failed \subseteq ServerErrors
    /\ failures \in Nat

TypeOK == StartTypeOK /\ ResourceTypeOK

Running == exited = "running"

Blame(error) == failed' = failed \cup {error}

-----------------------------------------------------------------------------
(* Slots that run when a state is entered.  rest: the events still queued. *)

Abort(error, rest) ==
    /\ m_nerror' = error
    /\ events' = Append(rest, "abortInit")
    /\ Blame(error)

\* finishedParsingXML carries a bool the machine ignores; the reader (external)
\* may emit it for a file that does not parse, too.
doConfiguration(rest) ==
    /\ \/ \E error \in ConfigErrors : Abort(error, rest)
       \/ \E signals \in BOOLEAN :
            Abort("xmlfileError", IF signals THEN Append(rest, "finishedParsingXML") ELSE rest)
       \/ /\ events' = Append(rest, "finishedParsingXML")
          /\ UNCHANGED <<m_nerror, failed>>
    /\ UNCHANGED <<m_nRetryRMConnect, timer, rm, exited, failures>>

\* The only way it fails is a device that cannot be opened.
doSetupServerNoCounter(rest) ==                  \* mutant: counter not set
    /\ \/ Abort("secDeviceError", rest)
       \/ /\ events' = Append(rest, "serverSetup")
          /\ UNCHANGED <<m_nerror, failed>>
    /\ UNCHANGED <<m_nRetryRMConnect, timer, rm, exited, failures>>
doSetupServer(rest) ==
    /\ \/ /\ Abort("secDeviceError", rest)
          /\ UNCHANGED m_nRetryRMConnect
       \/ /\ m_nRetryRMConnect' = RetryLimit
          /\ events' = Append(rest, "serverSetup")
          /\ UNCHANGED <<m_nerror, failed>>
    /\ UNCHANGED <<timer, rm, exited, failures>>

doConnect2RMNoPreset(rest) ==                    \* mutant: no error preset
    /\ rm' = "connecting"
    /\ events' = rest
    /\ UNCHANGED <<m_nerror, m_nRetryRMConnect, timer, exited, failed, failures>>
doConnect2RM(rest) ==
    /\ m_nerror' = "rmConnectionError"
    /\ rm' = "connecting"
    /\ events' = rest
    /\ UNCHANGED <<m_nRetryRMConnect, timer, exited, failed, failures>>

connect2RMErrorTests(rest) ==                    \* mutant: tests, then decrements
    /\ m_nRetryRMConnect' = m_nRetryRMConnect - 1
    /\ IF m_nRetryRMConnect = 0
       THEN events' = Append(rest, "abortInit") /\ Blame("rmConnectionError") /\ UNCHANGED timer
       ELSE events' = rest /\ timer' = TRUE /\ UNCHANGED failed
    /\ UNCHANGED <<m_nerror, rm, exited, failures>>
connect2RMErrorSilent(rest) ==                   \* mutant: timer not started
    /\ m_nRetryRMConnect' = m_nRetryRMConnect - 1
    /\ IF m_nRetryRMConnect' = 0
       THEN events' = Append(rest, "abortInit") /\ Blame("rmConnectionError")
       ELSE events' = rest /\ UNCHANGED failed
    /\ UNCHANGED <<m_nerror, timer, rm, exited, failures>>
connect2RMError(rest) ==
    /\ m_nRetryRMConnect' = m_nRetryRMConnect - 1
    /\ IF m_nRetryRMConnect' = 0
       THEN events' = Append(rest, "abortInit") /\ Blame("rmConnectionError") /\ UNCHANGED timer
       ELSE events' = rest /\ timer' = TRUE /\ UNCHANGED failed
    /\ UNCHANGED <<m_nerror, rm, exited, failures>>

\* Ident and RESOURCE:ADD are sent, READY is announced at once.
doIdentAndRegister(rest) ==
    /\ registerResource
    /\ events' = rest
    /\ UNCHANGED <<m_nerror, m_nRetryRMConnect, timer, rm, exited, failed, failures>>

doCloseServer(rest) ==
    /\ exited' = m_nerror
    /\ events' = rest
    /\ UNCHANGED <<m_nerror, m_nRetryRMConnect, timer, rm, failed, failures>>

-----------------------------------------------------------------------------
(* The machine and its surroundings.                                       *)

\* The state a signal leads to from the current one, the current one if it has
\* no transition for it.
successor(signal) ==
    CASE signal = "abortInit" /\ state # "FINISH" -> "FINISH"
      [] signal = "finishedParsingXML" /\ state = "xmlConfiguration" -> "setupServer"
      [] signal = "serverSetup" /\ state \in {"setupServer", "connect2RMError"} -> "connect2RM"
      [] signal = "connected" /\ state = "connect2RM" -> "sendRMIdentandRegister"
      [] signal = "connectionRMError" /\ state = "connect2RM" -> "connect2RMError"
      [] OTHER -> state

Enter(next, rest) ==
    /\ state' = next
    /\ \/ next = "xmlConfiguration" /\ doConfiguration(rest)
       \/ next = "setupServer" /\ doSetupServer(rest)
       \/ next = "connect2RM" /\ doConnect2RM(rest)
       \/ next = "connect2RMError" /\ connect2RMError(rest)
       \/ next = "sendRMIdentandRegister" /\ doIdentAndRegister(rest)
       \/ next = "FINISH" /\ doCloseServer(rest)
    /\ next # "sendRMIdentandRegister" => UNCHANGED resourceVars

Start ==
    /\ state = "start"
    /\ Enter("xmlConfiguration", <<>>)

HandleEvent ==
    /\ Running
    /\ events # <<>>
    /\ LET next == successor(Head(events))
       IN  IF next = state
           THEN /\ events' = Tail(events)
                /\ UNCHANGED <<state, m_nerror, m_nRetryRMConnect, timer, rm, exited, failed, failures>>
                /\ UNCHANGED resourceVars
           ELSE Enter(next, Tail(events))

\* An attempt to connect succeeds or fails.
RMAnswers ==
    /\ Running
    /\ rm = "connecting"
    /\ \/ rm' = "open" /\ events' = Append(events, "connected") /\ UNCHANGED failures
       \/ /\ rm' = "closed"
          /\ events' = Append(events, "connectionRMError")
          /\ failures' = failures + 1
    /\ UNCHANGED <<state, m_nerror, m_nRetryRMConnect, timer, exited, failed, resourceVars>>

\* A connection that was made is lost.
RMLost ==
    /\ Running
    /\ rm = "open"
    /\ rm' = "closed"
    /\ events' = Append(events, "connectionRMError")
    /\ UNCHANGED <<state, m_nerror, m_nRetryRMConnect, timer, exited, failed, failures>>
    /\ UNCHANGED resourceVars

TimerFires ==
    /\ Running
    /\ timer
    /\ timer' = FALSE
    /\ events' = Append(events, "serverSetup")
    /\ UNCHANGED <<state, m_nerror, m_nRetryRMConnect, rm, exited, failed, failures>>
    /\ UNCHANGED resourceVars

\* The signal rmAck, which is connected by doIdentAndRegister: a number may be
\* acknowledged twice, or be that of another message, such as the ident.
RMAck(msgnr) ==
    /\ Running
    /\ rm = "open" /\ state = "sendRMIdentandRegister"
    /\ resourceManagerAck(msgnr)
    /\ UNCHANGED startVars

Init ==
    /\ ResourceInit
    /\ state = "start"
    /\ events = <<>>
    /\ m_nerror = "noError"     \* not set by the constructor, and not read
    /\ m_nRetryRMConnect = 0    \* before it is set
    /\ timer = FALSE
    /\ rm = "closed"
    /\ exited = "running"
    /\ failed = {}
    /\ failures = 0

Next ==
    \/ Start
    \/ HandleEvent
    \/ RMAnswers
    \/ RMLost
    \/ TimerFires
    \/ \E msgnr \in AckNumbers : RMAck(msgnr)

Spec == Init /\ [][Next]_vars

\* The event loop runs on, an attempt to connect ends, the timer expires.
FairSpec ==
    Spec /\ WF_vars(Start) /\ WF_vars(HandleEvent) /\ WF_vars(RMAnswers) /\ WF_vars(TimerFires)

-----------------------------------------------------------------------------
(* Properties.                                                             *)

\* The exit code, from which main.cpp writes "Abort, xml file error" and the
\* like, names a step that has failed, though later steps overwrite m_nerror
\* and doConnect2RM sets it before anything is wrong.
ExitNamesFailure == ~Running => exited \in failed

\* The server gives up the resource manager after exactly RetryLimit failed
\* attempts, and makes no attempt after that (the counter that is decremented
\* before it is tested, retries that are started by timer).
GivesUpAfterAllRetries ==
    /\ failures <= RetryLimit
    /\ exited = "rmConnectionError" => failures = RetryLimit
    /\ failures = RetryLimit => rm = "closed" /\ ~timer

\* "We emit signal when all register or unregister action is done" (resource.h):
\* registerRdy comes once, and exactly when the resource manager has
\* acknowledged the number the registration was sent under -- whatever else it
\* acknowledges, however often.  And once the registration has been sent no late
\* event, of a connection that was lost or an abort, makes the machine leave.
RegisterRdyIsTrue ==
    /\ registerRdy = IF m_nMsgNr \in acked \ {0} THEN 1 ELSE 0
    /\ m_nMsgNr > 0 <=> state = "sendRMIdentandRegister"

\* Starting ends: the server registers or the process exits, whatever becomes
\* of the connection meanwhile.
RegistersOrExits == <>(state = "sendRMIdentandRegister" \/ ~Running)

\* The server has registered, or the process is gone.
Started == state = "sendRMIdentandRegister" \/ ~Running

\* A bound on the steps that are left of starting.  An attempt that fails takes
\* five at most: it starts, the connection is made and lost, the loss is
\* handled, the timer fires.
StepsLeft ==
    CASE state = "start" -> 5 * RetryLimit + 6
      [] state = "xmlConfiguration" -> 5 * RetryLimit + 5
      [] state = "setupServer" -> 5 * RetryLimit + 4
      [] state = "connect2RM" -> 5 * m_nRetryRMConnect +
            (CASE rm = "connecting" -> 3 [] rm = "open" -> 2 [] rm = "closed" -> 1)
      [] state = "connect2RMError" -> 5 * m_nRetryRMConnect + (IF timer THEN 5 ELSE 4)
      [] OTHER -> 0

\* Starting cannot go round for ever: whatever becomes of the files, the device
\* and the connection, each step of the machine, of the timer and of the
\* resource manager brings the end nearer, though the states connect2RM and
\* connect2RMError lead to each other and an event may be dropped or overtaken.
StartShortens ==
    [][ ~Started => StepsLeft' \in Nat /\ StepsLeft' < StepsLeft ]_vars
=============================================================================
