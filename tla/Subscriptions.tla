--------------------------- MODULE Subscriptions ---------------------------
(***************************************************************************)
(* What the registry of notifications promises its clients: a subscription *)
(* begins only for a client that has asked for one, once per request that  *)
(* was acknowledged, and ends only when that client withdraws, is lost or  *)
(* closes its connection.  Every step is tied to the request that causes   *)
(* it.                                                                     *)
(*                                                                         *)
(* A request need not be served at once: one that names no notifier leaves *)
(* the client owed a subscription, which begins with some notifier that is *)
(* named later.  As long as nobody is owed anything, a request begins the  *)
(* subscription it asks for, and no other.                                 *)
(***************************************************************************)
EXTENDS Naturals

CONSTANTS Peers, ClientIds, EmptyId, Notifiers

VARIABLES
    subs,       \* the subscriptions
    owed,       \* per client: acknowledged requests not served yet
    request     \* the last request or event, and who has made it

subsVars == <<subs, owed, request>>

Clients == [peer : Peers, id : ClientIds]
Subscription(c, n) == [peer |-> c.peer, id |-> c.id, notifier |-> n]

NothingOwed == owed = [c \in Clients |-> 0]

\* The request of this step is an op of client c.
By(c, op) == request'.op = op /\ request'.peer = c.peer /\ request'.id = c.id
Acknowledged(c, op) == By(c, op) /\ request'.code = "ack"

\* Notifier n is named while debts are owed: one of them is paid, if there are
\* any.
Serve(n, debts) ==
    \/ \E d \in Clients :
        /\ debts[d] > 0
        /\ subs' = subs \cup {Subscription(d, n)}
        /\ owed' = [debts EXCEPT ![d] = @ - 1]
    \/ /\ \A d \in Clients : debts[d] = 0
       /\ owed' = debts
       /\ UNCHANGED subs

OwedOneMore(c) == [d \in Clients |-> owed[d] + (IF d = c THEN 1 ELSE 0)]

Ask(c, n) ==
    /\ Acknowledged(c, "REGISTER") /\ request'.arg = n
    /\ Serve(n, OwedOneMore(c))

AskForNone(c) ==
    /\ Acknowledged(c, "REGISTER") /\ request'.arg \notin Notifiers
    /\ owed' = OwedOneMore(c)
    /\ UNCHANGED subs

Query(n) ==
    /\ request'.op = "QUERY" /\ request'.arg = n
    /\ Serve(n, owed)

\* What c certainly gives up, and what it may at most: old style clients
\* without an id cannot be told apart from the others of their connection.
Own(c) == {s \in subs : s.peer = c.peer /\ c.id \in {s.id, EmptyId}}
Indistinct(c) == {s \in subs : s.peer = c.peer /\ (c.id = EmptyId \/ s.id \in {c.id, EmptyId})}

Withdraw(c) ==
    /\ Acknowledged(c, "UNREGISTER") \/ By(c, "LOST") \/ By(c, "CLOSED")
    /\ \E gone \in SUBSET Indistinct(c) : Own(c) \subseteq gone /\ subs' = subs \ gone
    /\ UNCHANGED owed

\* Refused requests, new connections and interrupts change nothing.
Ignore ==
    /\ \/ request'.op \in {"none", "IRQ"}
       \/ request'.op \in {"REGISTER", "UNREGISTER"} /\ request'.code # "ack"
    /\ UNCHANGED <<subs, owed>>

SubsInit == subs = {} /\ NothingOwed /\ request.op = "none"

SubsNext ==
    \/ \E c \in Clients, n \in Notifiers : Ask(c, n)
    \/ \E c \in Clients : AskForNone(c) \/ Withdraw(c)
    \/ \E n \in Notifiers : Query(n)
    \/ Ignore

SubsSpec == SubsInit /\ [][SubsNext]_subsVars

\* The promise without its reservation: nobody is ever kept waiting, so every
\* request that is acknowledged begins its own subscription at once.
PromptSpec == SubsSpec /\ []NothingOwed
=============================================================================
