---------------------------- MODULE Notification ----------------------------
(***************************************************************************)
(* Registration for interrupt notifications and their delivery             *)
(* (pcbserver.cpp).  REGISTER names a query; the server executes the query *)
(* and binds the registration to the notifier the query emits, if it emits *)
(* one.  Commands, closed connections and rising edges are handled one     *)
(* after the other by the event loop, each to its end.                     *)
(***************************************************************************)
EXTENDS Naturals, Sequences, FiniteSets, Functions

CONSTANTS
    Peers,          \* connections (XiQNetPeer objects); a client that comes
                    \* back is a new one
    ClientIds,      \* client ids, EmptyId among them
    EmptyId,        \* the id of old style clients
    Notifiers,      \* the channels' INTREG notifiers
    Others,         \* kinds of parameters of REGISTER besides an INTREG query
    MaxEntries      \* bound: registrations kept at the same time

\* "plain":   a command or query the server executes but that emits no
\*            notifier, such as INTREG without its question mark;
\* "refused": a known command that executeSCPI rejects;
\* "unknown": a string no command object exists for.
ASSUME OthersAssumption == Others \subseteq {"plain", "refused", "unknown"}
ASSUME EmptyIdAssumption == EmptyId \in ClientIds
ASSUME NotifiersAssumption == Notifiers \cap {"plain", "refused", "unknown", "none"} = {}

VARIABLES
    open,                   \* connections that are open
    closed,                 \* connections that were closed
    watched,                \* those whose sigConnectionClosed is connected
    notifierRegisterNext,   \* registrations waiting for a notifier
    notifierRegisterList,   \* registrations bound to a notifier
    connections,            \* per notifier: risingEdge -> asyncHandler
    answer,                 \* the last command and its answer, or the last
                            \* event: who was lost, whose connection closed,
                            \* which notifier was queried or has risen
    sent                    \* per entry of notifierRegisterList: messages the
                            \* last step has sent for it

vars == <<open, closed, watched, notifierRegisterNext, notifierRegisterList,
          connections, answer, sent>>

Waiting == [peer : Peers, id : ClientIds]
Entry == [peer : Peers, id : ClientIds, notifier : Notifiers]
Answer == [peer : Peers, id : ClientIds, op : {"REGISTER", "UNREGISTER"},
           arg : Notifiers \cup Others \cup {"none"}, code : {"ack", "nak", "empty"}]
NoAnswer == [op |-> "none"]
Irq(n) == [op |-> "IRQ", arg |-> n]
Queried(n) == [op |-> "QUERY", arg |-> n]
Gone(op, p, id) == [op |-> op, peer |-> p, id |-> id]
Event == {NoAnswer} \cup {Irq(n) : n \in Notifiers} \cup {Queried(n) : n \in Notifiers}
            \cup [op : {"LOST", "CLOSED"}, peer : Peers, id : ClientIds]

TypeOK ==
    /\ open \subseteq Peers
    /\ closed \subseteq Peers
    /\ watched \subseteq Peers
    /\ notifierRegisterNext \in Seq(Waiting)
    /\ notifierRegisterList \in Seq(Entry)
    /\ connections \in [Notifiers -> Nat]
    /\ answer \in Answer \cup Event
    /\ sent \in [DOMAIN sent -> Nat]

Reply(p, id, op, arg, code) ==
    answer' = [peer |-> p, id |-> id, op |-> op, arg |-> arg, code |-> code]

Silent == sent' = <<>>

-----------------------------------------------------------------------------
(* Connections.                                                            *)

establishNewConnection(p) ==
    /\ p \notin open \cup closed
    /\ open' = open \cup {p}
    /\ answer' = NoAnswer
    /\ Silent
    /\ UNCHANGED <<closed, watched, notifierRegisterNext, notifierRegisterList, connections>>

\* Entries of the same connection go when the ids agree or one of them is empty.
SameIdOnly(e, p, id) == e.peer = p /\ e.id = id  \* mutant: empty ids are no wildcard
SameIdAnyPeer(e, p, id) ==                       \* mutant: connection not compared
    id = EmptyId \/ e.id = EmptyId \/ e.id = id
SameClient(e, p, id) == e.peer = p /\ (id = EmptyId \/ e.id = EmptyId \/ e.id = id)

\* The loop over the list: what is left of its first n entries.  (SelectSeq in
\* the form of a recursive function, which proofs can use.)
Remaining(list, p, id) ==
    LET left[n \in 0 .. Len(list)] ==
            IF n = 0 THEN <<>>
            ELSE IF SameClient(list[n], p, id) THEN left[n - 1]
            ELSE Append(left[n - 1], list[n])
    IN  left[Len(list)]

doUnregisterNotifier(p, id) ==
    notifierRegisterList' = Remaining(notifierRegisterList, p, id)

peerConnectionClosed(p) ==
    /\ p \in open
    /\ open' = open \ {p}
    /\ closed' = closed \cup {p}
    /\ IF p \in watched
       THEN doUnregisterNotifier(p, EmptyId)
       ELSE UNCHANGED notifierRegisterList
    /\ answer' = Gone("CLOSED", p, EmptyId)
    /\ Silent
    /\ UNCHANGED <<watched, notifierRegisterNext, connections>>

\* The NetCommand that reports a lost client of the connection.
LostClient(p, id) ==
    /\ p \in open
    /\ doUnregisterNotifier(p, id)
    /\ answer' = Gone("LOST", p, id)
    /\ Silent
    /\ UNCHANGED <<open, closed, watched, notifierRegisterNext, connections>>

-----------------------------------------------------------------------------
(* Binding and registering.                                                *)

BindNothing(waiting, n) == waiting               \* mutant: notValue not set
Bind(waiting, n) == [peer |-> waiting.peer, id |-> waiting.id, notifier |-> n]

\* valNotifier of notifier n while the registrations of next are waiting: the
\* first of them is bound, whoever it belongs to.
connectAgain(n, next) ==                         \* mutant: disconnect missing
    IF next # <<>>
    THEN /\ notifierRegisterNext' = Tail(next)
         /\ notifierRegisterList' = Append(notifierRegisterList, Bind(Head(next), n))
         /\ connections' = [connections EXCEPT ![n] = @ + 1]
    ELSE /\ notifierRegisterNext' = next
         /\ UNCHANGED <<notifierRegisterList, connections>>
connectFirst(n, next) ==                         \* mutant: connects, then disconnects
    IF next # <<>>
    THEN /\ notifierRegisterNext' = Tail(next)
         /\ notifierRegisterList' = Append(notifierRegisterList, Bind(Head(next), n))
         /\ connections' = [connections EXCEPT ![n] = 0]
    ELSE /\ notifierRegisterNext' = next
         /\ UNCHANGED <<notifierRegisterList, connections>>
bindsKept(n, next) ==                            \* mutant: first for takeFirst
    IF next # <<>>
    THEN /\ notifierRegisterNext' = next
         /\ notifierRegisterList' = Append(notifierRegisterList, Bind(Head(next), n))
         /\ connections' = [connections EXCEPT ![n] = 1]
    ELSE /\ notifierRegisterNext' = next
         /\ UNCHANGED <<notifierRegisterList, connections>>
establishNewNotifier(n, next) ==
    IF next # <<>>
    THEN /\ notifierRegisterNext' = Tail(next)
         /\ notifierRegisterList' = Append(notifierRegisterList, Bind(Head(next), n))
         /\ connections' = [connections EXCEPT ![n] = 1]
    ELSE /\ notifierRegisterNext' = next
         /\ UNCHANGED <<notifierRegisterList, connections>>

\* pop_back after a query that was rejected.
takeBackFirst(next) == Tail(next)                \* mutant: pop_front
takeBack(next) == SubSeq(next, 1, Len(next) - 1)

\* REGISTER with the parameter q.  The registration waits before the query is
\* executed; a query that is rejected takes it back.
m_RegisterNotifier(p, id, q) ==
    LET next == Append(notifierRegisterNext, [peer |-> p, id |-> id])
    IN  /\ p \in open
        /\ Len(next) + Len(notifierRegisterList) <= MaxEntries
        /\ watched' = IF q = "unknown" THEN watched ELSE watched \cup {p}
        /\ \/ q \in Notifiers /\ establishNewNotifier(q, next)
           \/ /\ q = "plain"
              /\ notifierRegisterNext' = next
              /\ UNCHANGED <<notifierRegisterList, connections>>
           \/ /\ q = "refused"
              /\ notifierRegisterNext' = takeBack(next)
              /\ UNCHANGED <<notifierRegisterList, connections>>
           \/ /\ q = "unknown"
              /\ UNCHANGED <<notifierRegisterNext, notifierRegisterList, connections>>
        /\ Reply(p, id, "REGISTER", q, IF q \in {"refused", "unknown"} THEN "nak" ELSE "ack")
        /\ Silent
        /\ UNCHANGED <<open, closed>>

\* A REGISTER without exactly one parameter leaves the answer empty.
MalformedRegister(p, id) ==
    /\ p \in open
    /\ Reply(p, id, "REGISTER", "none", "empty")
    /\ Silent
    /\ UNCHANGED <<open, closed, watched, notifierRegisterNext, notifierRegisterList, connections>>

m_UnregisterNotifier(p, id) ==
    /\ p \in open
    /\ \/ doUnregisterNotifier(p, id) /\ Reply(p, id, "UNREGISTER", "none", "ack")
       \/ UNCHANGED notifierRegisterList /\ Reply(p, id, "UNREGISTER", "none", "nak")
    /\ Silent
    /\ UNCHANGED <<open, closed, watched, notifierRegisterNext, connections>>

\* Any client reads INTREG of channel n (m_ReadWriteRegister): the query emits
\* the notifier whether somebody is registering or not.
QueryINTREG(n) ==
    /\ open # {}
    /\ establishNewNotifier(n, notifierRegisterNext)
    /\ answer' = Queried(n)
    /\ Silent
    /\ UNCHANGED <<open, closed, watched>>

\* A rising edge of n runs asyncHandler once per connected signal: the messages
\* it sends for each registration.
messagesFor(n) ==
    [i \in DOMAIN notifierRegisterList |->
        IF notifierRegisterList[i].notifier = n THEN connections[n] ELSE 0]

asyncHandler(n) ==
    /\ sent' = messagesFor(n)
    /\ answer' = Irq(n)
    /\ UNCHANGED <<open, closed, watched, notifierRegisterNext, notifierRegisterList, connections>>

-----------------------------------------------------------------------------
Init ==
    /\ open = {}
    /\ closed = {}
    /\ watched = {}
    /\ notifierRegisterNext = <<>>
    /\ notifierRegisterList = <<>>
    /\ connections = [n \in Notifiers |-> 0]
    /\ answer = NoAnswer
    /\ sent = <<>>

Next ==
    \/ \E p \in Peers :
        \/ establishNewConnection(p)
        \/ peerConnectionClosed(p)
        \/ \E id \in ClientIds :
            \/ \E q \in Notifiers \cup Others : m_RegisterNotifier(p, id, q)
            \/ MalformedRegister(p, id)
            \/ m_UnregisterNotifier(p, id)
            \/ LostClient(p, id)
    \/ \E n \in Notifiers : QueryINTREG(n) \/ asyncHandler(n)

Spec == Init /\ [][Next]_vars

-----------------------------------------------------------------------------
(* Properties.                                                             *)

\* "Registeres 1 notifier per command" (pcbserver.h): when the REGISTER of an
\* INTREG query is acknowledged, exactly one registration has been added, that
\* of this client for the notifier it asked for.  The code does not keep this
\* promise once a registration has been left waiting.
OneNotifierPerCommand ==
    [][ answer'.op = "REGISTER" /\ answer'.arg \in Notifiers =>
            notifierRegisterList' =
                Append(notifierRegisterList, Bind(answer', answer'.arg)) ]_vars

\* How many registrations, waiting or bound, client (p, id) has.
Count(list, p, id) == Cardinality({i \in DOMAIN list : list[i].peer = p /\ list[i].id = id})
Registrations(p, id, next, list) == Count(next, p, id) + Count(list, p, id)

\* A REGISTER enters its client exactly once when it is acknowledged and not at
\* all otherwise, and no other client gains or loses a registration, whatever
\* is waiting at that time (append, pop_back and takeFirst taken together).
RegistersAskerOnce ==
    [][ answer'.op = "REGISTER" =>
            \A p \in Peers, id \in ClientIds :
                Registrations(p, id, notifierRegisterNext', notifierRegisterList')
                    = Registrations(p, id, notifierRegisterNext, notifierRegisterList)
                        + (IF <<p, id, "ack">> = <<answer'.peer, answer'.id, answer'.code>>
                           THEN 1 ELSE 0) ]_vars

\* "In case of lost clients we delete registration for notification"
\* (pcbserver.cpp): when a client is reported lost nothing stays bound to it,
\* and when a connection is closed nothing stays bound to any client of it;
\* asyncHandler would send to a deleted object (the signal connected by
\* m_RegisterNotifier, the empty id peerConnectionClosed passes, and the
\* comparison of ids).
LostPeerLeavesNothing ==
    [][ answer'.op \in {"LOST", "CLOSED"} =>
            \A e \in Range(notifierRegisterList') :
                e.peer = answer'.peer => answer'.id \notin {e.id, EmptyId} ]_vars

\* "We only want 1 signal" (establishNewNotifier): a rising edge sends exactly
\* one message per registration for its notifier, however often clients have
\* registered, gone and come back.
EdgeTellsEachOnce ==
    [][ answer'.op = "IRQ" =>
            sent' = [i \in DOMAIN notifierRegisterList |->
                       IF notifierRegisterList[i].notifier = answer'.arg THEN 1 ELSE 0] ]_vars

Owed == [w \in Waiting |-> Count(notifierRegisterNext, w.peer, w.id)]

Subs == INSTANCE Subscriptions WITH
            subs <- Range(notifierRegisterList), owed <- Owed, request <- answer

\* The registry behaves like a set of subscriptions that begin only for clients
\* that have asked, once per acknowledged REGISTER, and end only by UNREGISTER,
\* the loss or the closed connection of the client they belong to.
ImplementsSubscriptions == Subs!SubsSpec
=============================================================================
