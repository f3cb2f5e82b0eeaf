------------------------ MODULE Notification_proofs ------------------------
(***************************************************************************)
(* Proofs about Notification, for any connections, clients, notifiers and  *)
(* any bound on the registrations.                                         *)
(*                                                                         *)
(* Two things make them more than a matter of expanding definitions.  What *)
(* the loop of doUnregisterNotifier leaves (RemainingIs) is an induction   *)
(* over the list, done with sets and smallest elements (Smallest, UpTo);   *)
(* and that an edge tells each registration once rests on an invariant of  *)
(* connections, lists and watched peers together (RegInv).                 *)
(***************************************************************************)
EXTENDS Notification, FiniteSetTheorems, TLAPS

\* A set of natural numbers has a smallest element.
LEMMA Smallest ==
  ASSUME NEW T \in SUBSET Nat, T # {}
  PROVE  \E m \in T : \A n \in T : m <= n
<1>1. PICK m \in T : \A n \in T : ~(<<n, m>> \in OpToRel(<, Nat))
  BY NatLessThanWellFounded, WFMin
<1>2. \A n \in T : ~(n < m)
  BY <1>1 DEF OpToRel
<1> QED
  BY <1>2

\* Induction in the form of sets.
LEMMA UpTo ==
  ASSUME NEW N \in Nat, NEW T, 0 \in T, \A n \in 0 .. N - 1 : n \in T => n + 1 \in T
  PROVE  \A n \in 0 .. N : n \in T
<1> DEFINE U == {n \in 0 .. N : n \notin T}
<1> SUFFICES ASSUME U # {}
             PROVE  FALSE
  OBVIOUS
<1>1. U \in SUBSET Nat
  OBVIOUS
<1>2. PICK m \in U : \A n \in U : m <= n
  <2> HIDE DEF U
  <2> QED
    BY <1>1, Smallest
<1>3. m # 0 /\ m \in 0 .. N /\ m \notin T
  OBVIOUS
<1>4. m - 1 \in 0 .. N - 1 /\ (m - 1) + 1 = m
  BY <1>3
<1>5. m - 1 \in U
  BY <1>3, <1>4
<1> QED
  BY <1>2, <1>4, <1>5

\* One turn of the loop of doUnregisterNotifier.
Turn(f, n, list, p, id) ==
    IF n = 0 THEN <<>>
    ELSE IF SameClient(list[n], p, id) THEN f[n - 1]
    ELSE Append(f[n - 1], list[n])

\* The elements of the empty sequence, of a longer and of a shorter one.
LEMMA RangeFacts ==
  /\ Range(<<>>) = {}
  /\ \A S : \A s \in Seq(S) : Range(s) \subseteq S
  /\ \A S : \A s \in Seq(S), e \in S : Range(Append(s, e)) = Range(s) \cup {e}
  /\ \A S : \A s \in Seq(S) : s # <<>> =>
        Tail(s) \in Seq(S) /\ Head(s) \in Range(s) /\ Range(Tail(s)) \subseteq Range(s)
<1>1. Range(<<>>) = {}
  BY DEF Range
<1>2. ASSUME NEW S, NEW s \in Seq(S)
      PROVE  Range(s) \subseteq S
  BY DEF Range
<1>3. ASSUME NEW S, NEW s \in Seq(S), NEW e \in S
      PROVE  Range(Append(s, e)) = Range(s) \cup {e}
  <2>1. /\ DOMAIN Append(s, e) = 1 .. Len(s) + 1 /\ DOMAIN s = 1 .. Len(s) /\ Len(s) \in Nat
        /\ Append(s, e)[Len(s) + 1] = e
        /\ \A i \in 1 .. Len(s) : Append(s, e)[i] = s[i]
    OBVIOUS
  <2>2. Range(Append(s, e)) \subseteq Range(s) \cup {e}
    BY <2>1 DEF Range
  <2>3. Range(s) \subseteq Range(Append(s, e)) /\ e \in Range(Append(s, e))
    BY <2>1 DEF Range
  <2> QED
    BY <2>2, <2>3
<1>4. ASSUME NEW S, NEW s \in Seq(S), s # <<>>
      PROVE  Tail(s) \in Seq(S) /\ Head(s) \in Range(s) /\ Range(Tail(s)) \subseteq Range(s)
  <2>1. /\ DOMAIN s = 1 .. Len(s) /\ Len(s) \in Nat /\ Len(s) > 0
        /\ DOMAIN Tail(s) = 1 .. Len(s) - 1 /\ Tail(s) \in Seq(S)
        /\ \A i \in 1 .. Len(s) - 1 : Tail(s)[i] = s[i + 1] /\ i + 1 \in 1 .. Len(s)
        /\ Head(s) = s[1]
    BY <1>4
  <2> QED
    BY <2>1 DEF Range
<1> QED
  BY <1>1, <1>2, <1>3, <1>4

\* Removing entries removes exactly those of the same client.
LEMMA RemainingIs ==
  ASSUME NEW S, NEW list \in Seq(S), NEW p, NEW id
  PROVE  /\ Remaining(list, p, id) \in Seq(S)
         /\ Range(Remaining(list, p, id)) = {e \in Range(list) : ~SameClient(e, p, id)}
<1> DEFINE N == Len(list)
           Rule(f, n) == Turn(f, n, list, p, id)
           Good(f, k) == f \in [0 .. k -> Seq(S)] /\ \A n \in 0 .. k : f[n] = Rule(f, n)
           Kept(n) == {e \in {list[i] : i \in 1 .. n} : ~SameClient(e, p, id)}
           T == {k \in 0 .. N : \E f : Good(f, k)}
<1>1. N \in Nat /\ DOMAIN list = 1 .. N /\ \A n \in 1 .. N : list[n] \in S
  OBVIOUS
<1> HIDE DEF N
<1>2. 0 \in T
  <2> DEFINE f == [n \in 0 .. 0 |-> <<>>]
  <2>1. f \in [0 .. 0 -> Seq(S)]
    OBVIOUS
  <2>2. \A n \in 0 .. 0 : n = 0 /\ f[n] = <<>>
    OBVIOUS
  <2> HIDE DEF f
  <2>3. Good(f, 0)
    BY <2>1, <2>2
  <2> HIDE DEF Good
  <2> QED
    BY <1>1, <2>3
<1>3. ASSUME NEW k \in 0 .. N - 1, k \in T
      PROVE  k + 1 \in T
  <2>1. PICK f : Good(f, k)
    BY <1>3
  <2> DEFINE g == [n \in 0 .. k + 1 |-> IF n = k + 1 THEN Rule(f, k + 1) ELSE f[n]]
  <2>2. /\ k + 1 \in 1 .. N /\ k \in 0 .. k /\ (k + 1) - 1 = k
        /\ \A n \in 0 .. k : n \in 0 .. k + 1 /\ n # k + 1 /\ (n # 0 => n - 1 \in 0 .. k)
        /\ \A n \in 0 .. k + 1 : n # k + 1 => n \in 0 .. k
    BY <1>1
  <2>3. Rule(f, k + 1) \in Seq(S)
    <3>1. f[k] \in Seq(S)
      BY <2>1, <2>2
    <3> QED
      BY <1>1, <2>2, <3>1 DEF Turn
  <2>4. /\ g \in [0 .. k + 1 -> Seq(S)] /\ \A n \in 0 .. k : g[n] = f[n]
        /\ g[k + 1] = Rule(f, k + 1)
    BY <1>1, <2>1, <2>2, <2>3
  <2> HIDE DEF g
  <2>5. ASSUME NEW n \in 0 .. k
        PROVE  g[n] = Rule(g, n)
    BY <2>1, <2>2, <2>4 DEF Turn
  <2>6. g[k + 1] = Rule(g, k + 1)
    BY <2>2, <2>4 DEF Turn
  <2>7. Good(g, k + 1)
    BY <2>2, <2>4, <2>5, <2>6
  <2> HIDE DEF Good
  <2> QED
    BY <1>1, <2>2, <2>7
<1>4. N \in T
  <2> HIDE DEF T
  <2>1. \A n \in 0 .. N : n \in T
    BY <1>1, <1>2, <1>3, UpTo
  <2> QED
    BY <1>1, <2>1
<1>5. PICK f : Good(f, N)
  <2> HIDE DEF Good
  <2> QED
    BY <1>4
<1>6. f = [n \in 0 .. N |-> Rule(f, n)]
  BY <1>5
<1> DEFINE Left == CHOOSE g : g = [n \in 0 .. N |-> Rule(g, n)]
<1>7. Left = [n \in 0 .. N |-> Rule(Left, n)]
  BY <1>6
<1>8. Remaining(list, p, id) = Left[N]
  BY DEF Remaining, N, Turn
<1> HIDE DEF Left
<1>9. \A n \in 0 .. N : Left[n] = Rule(Left, n)
  BY <1>7
<1>10. \A n \in 0 .. N : Left[n] \in Seq(S)
  <2> DEFINE L == {n \in 0 .. N : Left[n] \in Seq(S)}
  <2>1. 0 \in L
    <3>1. 0 \in 0 .. N /\ Left[0] = Rule(Left, 0)
      BY <1>1, <1>9
    <3>2. Left[0] \in Seq(S)
      BY <3>1 DEF Turn
    <3> QED
      BY <3>1, <3>2
  <2>2. ASSUME NEW n \in 0 .. N - 1, n \in L
        PROVE  n + 1 \in L
    <3>1. n + 1 \in 1 .. N /\ n + 1 \in 0 .. N /\ n + 1 # 0 /\ (n + 1) - 1 = n
      BY <1>1
    <3>2. Left[n] \in Seq(S)
      BY <2>2
    <3>3. Rule(Left, n + 1) \in Seq(S)
      BY <1>1, <3>1, <3>2 DEF Turn
    <3>4. Left[n + 1] = Rule(Left, n + 1)
      BY <1>9, <3>1
    <3> QED
      BY <3>1, <3>3, <3>4
  <2> HIDE DEF L
  <2>3. \A n \in 0 .. N : n \in L
    BY <1>1, <2>1, <2>2, UpTo
  <2> QED
    BY <2>3 DEF L
<1> DEFINE L == {n \in 0 .. N : Range(Left[n]) = Kept(n)}
<1>11. 0 \in L
  <2>1. 0 \in 0 .. N /\ Left[0] = Turn(Left, 0, list, p, id) /\ Kept(0) = {}
    BY <1>1, <1>9, <1>10
  <2> QED
    BY <2>1, RangeFacts DEF Turn
<1>12. ASSUME NEW n \in 0 .. N - 1, n \in L
      PROVE  n + 1 \in L
  <2>1. n \in 0 .. N /\ n + 1 \in 1 .. N /\ n + 1 \in 0 .. N /\ n + 1 # 0 /\ (n + 1) - 1 = n
    BY <1>1
  <2>2. Left[n] \in Seq(S) /\ Range(Left[n]) = Kept(n) /\ list[n + 1] \in S
    BY <1>1, <1>9, <1>10, <1>12, <2>1
  <2>3. Left[n + 1] = Turn(Left, n + 1, list, p, id)
    BY <1>9, <1>10, <2>1
  <2>4. 1 .. n + 1 = 1 .. n \cup {n + 1}
    BY <1>1
  <2>5. CASE SameClient(list[n + 1], p, id)
    <3>1. Left[n + 1] = Left[n]
      BY <2>1, <2>3, <2>5 DEF Turn
    <3>2. Kept(n + 1) = Kept(n)
      BY <2>4, <2>5
    <3> HIDE DEF Kept
    <3> QED
      BY <2>1, <2>2, <3>1, <3>2
  <2>6. CASE ~SameClient(list[n + 1], p, id)
    <3>1. Left[n + 1] = Append(Left[n], list[n + 1])
      BY <2>1, <2>3, <2>6 DEF Turn
    <3>2. Kept(n + 1) = Kept(n) \cup {list[n + 1]}
      BY <2>4, <2>6
    <3>3. Range(Append(Left[n], list[n + 1])) = Range(Left[n]) \cup {list[n + 1]}
      BY <2>2, RangeFacts
    <3> HIDE DEF Kept
    <3> QED
      BY <2>1, <2>2, <3>1, <3>2, <3>3
  <2> QED
    BY <2>5, <2>6
<1>13. N \in L
  <2> HIDE DEF L
  <2>1. \A n \in 0 .. N : n \in L
    BY <1>1, <1>11, <1>12, UpTo
  <2> QED
    BY <1>1, <2>1
<1>14. Kept(N) = {e \in Range(list) : ~SameClient(e, p, id)}
  BY <1>1 DEF Range
<1> HIDE DEF Kept
<1> QED
  BY <1>1, <1>8, <1>10, <1>13, <1>14

-----------------------------------------------------------------------------
(* Types.                                                                  *)

\* The part of TypeOK that is about registrations.
Lists ==
    /\ notifierRegisterNext \in Seq(Waiting)
    /\ notifierRegisterList \in Seq(Entry)
    /\ connections \in [Notifiers -> Nat]

\* TypeOK says so.
LEMMA TypedLists == TypeOK => Lists
BY DEF TypeOK, Lists

\* Binding a registration that waits keeps the types.
LEMMA Established ==
  ASSUME NEW n \in Notifiers, NEW next \in Seq(Waiting), establishNewNotifier(n, next), Lists
  PROVE  Lists'
<1> USE DEF Lists
<1>1. CASE next = <<>>
  BY <1>1 DEF establishNewNotifier
<1>2. CASE next # <<>>
  <2>1. Head(next) \in Waiting /\ Tail(next) \in Seq(Waiting)
    BY <1>2
  <2>2. Bind(Head(next), n) \in Entry
    BY <2>1 DEF Bind, Waiting, Entry
  <2>3. /\ notifierRegisterNext' = Tail(next)
        /\ notifierRegisterList' = Append(notifierRegisterList, Bind(Head(next), n))
        /\ connections' = [connections EXCEPT ![n] = 1]
    BY <1>2 DEF establishNewNotifier
  <2> QED
    BY <2>1, <2>2, <2>3
<1> QED
  BY <1>1, <1>2

\* Whatever clients send and however often they come back, the registry keeps
\* its types (TypeOK).
THEOREM TypeCorrect == Spec => []TypeOK
<1>1. Init => TypeOK
  BY DEF Init, TypeOK, Event
<1>2. TypeOK /\ [Next]_vars => TypeOK'
  <2> SUFFICES ASSUME TypeOK, [Next]_vars
               PROVE  TypeOK'
    OBVIOUS
  <2> USE DEF Lists
  <2> DEFINE Sent == sent \in [DOMAIN sent -> Nat]
             Conns == open \subseteq Peers /\ closed \subseteq Peers /\ watched \subseteq Peers
             Answers == answer \in Answer \cup Event
  <2>0. Lists /\ Sent /\ Conns /\ Answers
    BY DEF TypeOK
  <2> SUFFICES Lists' /\ Sent' /\ Conns' /\ Answers'
    BY DEF TypeOK
  <2>1. Silent => Sent'
    BY DEF Silent
  <2>2. ASSUME NEW p \in Peers, NEW id \in ClientIds, doUnregisterNotifier(p, id)
        PROVE  notifierRegisterList' \in Seq(Entry)
    BY <2>0, <2>2, RemainingIs DEF doUnregisterNotifier
  <2>3. ASSUME NEW p \in Peers, establishNewConnection(p)
        PROVE  Lists' /\ Sent' /\ Conns' /\ Answers'
    BY <2>0, <2>1, <2>3 DEF establishNewConnection, Event
  <2>4. ASSUME NEW p \in Peers, peerConnectionClosed(p)
        PROVE  Lists' /\ Sent' /\ Conns' /\ Answers'
    <3>1. Lists'
      BY <2>0, <2>2, <2>4, EmptyIdAssumption DEF peerConnectionClosed
    <3> QED
      BY <2>0, <2>1, <2>4, <3>1, EmptyIdAssumption DEF peerConnectionClosed, Gone, Event
  <2>5. ASSUME NEW p \in Peers, NEW id \in ClientIds, LostClient(p, id)
        PROVE  Lists' /\ Sent' /\ Conns' /\ Answers'
    BY <2>0, <2>1, <2>2, <2>5 DEF LostClient, Gone, Event
  <2>6. ASSUME NEW p \in Peers, NEW id \in ClientIds, NEW q \in Notifiers \cup Others,
               m_RegisterNotifier(p, id, q)
        PROVE  Lists' /\ Sent' /\ Conns' /\ Answers'
    <3> DEFINE w == [peer |-> p, id |-> id]
               next == Append(notifierRegisterNext, w)
    <3>1. w \in Waiting /\ next \in Seq(Waiting)
      BY <2>0 DEF Waiting
    <3>2. takeBack(next) \in Seq(Waiting)
      BY <2>0, <3>1 DEF takeBack
    <3>3. Lists'
      BY <2>0, <2>6, <3>1, <3>2, Established DEF m_RegisterNotifier
    <3>4. Conns'
      BY <2>0, <2>6 DEF m_RegisterNotifier
    <3>5. Answers'
      BY <2>6 DEF m_RegisterNotifier, Reply, Answer
    <3> QED
      BY <2>1, <2>6, <3>3, <3>4, <3>5 DEF m_RegisterNotifier
  <2>7. ASSUME NEW p \in Peers, NEW id \in ClientIds, MalformedRegister(p, id)
        PROVE  Lists' /\ Sent' /\ Conns' /\ Answers'
    BY <2>0, <2>1, <2>7 DEF MalformedRegister, Reply, Answer
  <2>8. ASSUME NEW p \in Peers, NEW id \in ClientIds, m_UnregisterNotifier(p, id)
        PROVE  Lists' /\ Sent' /\ Conns' /\ Answers'
    <3>1. Answers'
      BY <2>8 DEF m_UnregisterNotifier, Reply, Answer
    <3> QED
      BY <2>0, <2>1, <2>2, <2>8, <3>1 DEF m_UnregisterNotifier
  <2>9. ASSUME NEW n \in Notifiers, QueryINTREG(n)
        PROVE  Lists' /\ Sent' /\ Conns' /\ Answers'
    BY <2>0, <2>1, <2>9, Established DEF QueryINTREG, Event
  <2>10. ASSUME NEW n \in Notifiers, asyncHandler(n)
         PROVE  Lists' /\ Sent' /\ Conns' /\ Answers'
    <3>1. \A i \in DOMAIN notifierRegisterList : notifierRegisterList[i] \in Entry
      BY <2>0
    <3>2. messagesFor(n) \in [DOMAIN notifierRegisterList -> Nat]
      BY <2>0 DEF messagesFor
    <3>3. Sent'
      BY <2>10, <3>2 DEF asyncHandler
    <3> QED
      BY <2>0, <2>10, <3>3 DEF asyncHandler, Event
  <2>11. CASE UNCHANGED vars
    BY <2>0, <2>11 DEF vars
  <2> QED
    BY <2>3, <2>4, <2>5, <2>6, <2>7, <2>8, <2>9, <2>10, <2>11 DEF Next
<1> QED
  BY <1>1, <1>2, PTL DEF Spec

-----------------------------------------------------------------------------
(* Registrations and signals.                                              *)

\* One signal at most is connected per notifier, one is connected if somebody
\* is bound to it, and whoever is registered is watched.
RegInv ==
    /\ \A n \in Notifiers : connections[n] \in {0, 1}
    /\ \A e \in Range(notifierRegisterList) : connections[e.notifier] = 1 /\ e.peer \in watched
    /\ \A w \in Range(notifierRegisterNext) : w.peer \in watched

\* Binding a registration that waits keeps the invariant.
LEMMA EstablishedInv ==
  ASSUME Lists, RegInv, NEW n \in Notifiers, NEW next \in Seq(Waiting),
         establishNewNotifier(n, next), watched \subseteq watched',
         \A w \in Range(next) : w.peer \in watched'
  PROVE  Lists' /\ RegInv'
<1>1. Lists'
  BY Established
<1>2. CASE next = <<>>
  BY <1>1, <1>2 DEF establishNewNotifier, RegInv, Lists
<1>3. CASE next # <<>>
  <2> DEFINE e == Bind(Head(next), n)
  <2>1. Head(next) \in Waiting /\ Tail(next) \in Seq(Waiting) /\ Head(next) \in Range(next)
        /\ Range(Tail(next)) \subseteq Range(next)
    BY <1>3, RangeFacts
  <2>2. e \in Entry /\ e.notifier = n /\ e.peer \in watched'
    BY <2>1 DEF Bind, Waiting, Entry
  <2>3. /\ notifierRegisterNext' = Tail(next)
        /\ notifierRegisterList' = Append(notifierRegisterList, e)
        /\ connections' = [connections EXCEPT ![n] = 1]
    BY <1>3 DEF establishNewNotifier
  <2> HIDE DEF e
  <2>4. Range(notifierRegisterList') = Range(notifierRegisterList) \cup {e}
    BY <2>2, <2>3, RangeFacts DEF Lists
  <2>5. Range(notifierRegisterList) \subseteq Entry /\ connections \in [Notifiers -> Nat]
    BY RangeFacts DEF Lists
  <2>6. \A d \in Entry : d.notifier \in Notifiers
    BY DEF Entry
  <2> QED
    BY <1>1, <2>1, <2>2, <2>3, <2>4, <2>5, <2>6 DEF RegInv
<1> QED
  BY <1>2, <1>3

\* Taking entries away keeps the invariant.
LEMMA RemovedInv ==
  ASSUME Lists, RegInv, NEW p, NEW id, doUnregisterNotifier(p, id),
         UNCHANGED <<watched, notifierRegisterNext, connections>>
  PROVE  Lists' /\ RegInv'
<1>1. /\ Range(notifierRegisterList') \subseteq Range(notifierRegisterList)
      /\ notifierRegisterList' \in Seq(Entry)
  BY RemainingIs DEF doUnregisterNotifier, Lists
<1> QED
  BY <1>1 DEF RegInv, Lists

\* The entry of a REGISTER, put behind those that wait already.
LEMMA Appended ==
  ASSUME Lists, NEW p \in Peers, NEW id \in ClientIds
  PROVE  LET w == [peer |-> p, id |-> id]
             next == Append(notifierRegisterNext, w)
         IN  /\ w \in Waiting /\ next \in Seq(Waiting)
             /\ Range(next) = Range(notifierRegisterNext) \cup {w}
             /\ takeBack(next) = notifierRegisterNext
<1> DEFINE w == [peer |-> p, id |-> id]
           next == Append(notifierRegisterNext, w)
<1>1. w \in Waiting /\ notifierRegisterNext \in Seq(Waiting)
  BY DEF Waiting, Lists
<1> HIDE DEF w
<1>2. next \in Seq(Waiting) /\ Range(next) = Range(notifierRegisterNext) \cup {w}
  BY <1>1, RangeFacts
<1>3. takeBack(next) = notifierRegisterNext
  BY <1>1 DEF takeBack
<1> QED
  BY <1>1, <1>2, <1>3 DEF w

\* Whatever clients send and however often they come back, each notifier has
\* one connection if anybody is bound to it, and every registration belongs to
\* a connection whose closing will be noticed (RegInv).
THEOREM RegInvariant == Spec => []RegInv
<1>1. Init => RegInv
  BY RangeFacts DEF Init, RegInv
<1>2. TypeOK /\ RegInv /\ [Next]_vars => RegInv'
  <2> SUFFICES ASSUME TypeOK, RegInv, [Next]_vars
               PROVE  RegInv'
    OBVIOUS
  <2>1. ASSUME UNCHANGED <<watched, notifierRegisterNext, notifierRegisterList, connections>>
        PROVE  RegInv'
    BY <2>1 DEF RegInv
  <2>2. ASSUME NEW p \in Peers, establishNewConnection(p)
        PROVE  RegInv'
    BY <2>1, <2>2 DEF establishNewConnection
  <2>3. ASSUME NEW p \in Peers, peerConnectionClosed(p)
        PROVE  RegInv'
    BY <2>1, <2>3, RemovedInv, TypedLists DEF peerConnectionClosed
  <2>4. ASSUME NEW p \in Peers, NEW id \in ClientIds,
               LostClient(p, id) \/ m_UnregisterNotifier(p, id)
        PROVE  RegInv'
    BY <2>1, <2>4, RemovedInv, TypedLists DEF LostClient, m_UnregisterNotifier
  <2>5. ASSUME NEW p \in Peers, NEW id \in ClientIds, NEW q \in Notifiers \cup Others,
               m_RegisterNotifier(p, id, q)
        PROVE  RegInv'
    <3> DEFINE w == [peer |-> p, id |-> id]
               next == Append(notifierRegisterNext, w)
    <3>1. /\ w \in Waiting /\ next \in Seq(Waiting)
          /\ Range(next) = Range(notifierRegisterNext) \cup {w}
          /\ takeBack(next) = notifierRegisterNext
      BY Appended, TypedLists
    <3>2. watched \subseteq watched' /\ (q # "unknown" => p \in watched')
      BY <2>5 DEF m_RegisterNotifier
    <3>3. q # "unknown" => \A v \in Range(next) : v.peer \in watched'
      BY <3>1, <3>2 DEF RegInv
    <3>4. CASE q \in Notifiers /\ establishNewNotifier(q, next)
      <4>1. q # "unknown"
        BY <3>4, NotifiersAssumption
      <4> HIDE DEF next
      <4> QED
        BY <3>1, <3>2, <3>3, <3>4, <4>1, EstablishedInv, TypedLists
    <3>5. CASE /\ q # "unknown" /\ notifierRegisterNext' \in {next, takeBack(next)}
               /\ UNCHANGED <<notifierRegisterList, connections>>
      BY <3>1, <3>2, <3>3, <3>5 DEF RegInv
    <3>6. CASE /\ UNCHANGED <<notifierRegisterNext, notifierRegisterList, connections>>
      BY <3>2, <3>6 DEF RegInv
    <3> QED
      BY <2>5, <3>4, <3>5, <3>6 DEF m_RegisterNotifier
  <2>6. ASSUME NEW n \in Notifiers, QueryINTREG(n)
        PROVE  RegInv'
    BY <2>6, EstablishedInv, TypedLists DEF QueryINTREG, RegInv, TypeOK
  <2>7. ASSUME NEW p \in Peers, NEW id \in ClientIds, MalformedRegister(p, id)
        PROVE  RegInv'
    BY <2>1, <2>7 DEF MalformedRegister
  <2>8. ASSUME NEW n \in Notifiers, asyncHandler(n)
        PROVE  RegInv'
    BY <2>1, <2>8 DEF asyncHandler
  <2>9. CASE UNCHANGED vars
    BY <2>1, <2>9 DEF vars
  <2> QED
    BY <2>2, <2>3, <2>4, <2>5, <2>6, <2>7, <2>8, <2>9 DEF Next
<1> QED
  BY <1>1, <1>2, TypeCorrect, PTL DEF Spec

\* A rising edge sends one message per registration (EdgeTellsEachOnce).
THEOREM TellsEachOnce == Spec => EdgeTellsEachOnce
<1> DEFINE Once == answer'.op = "IRQ" =>
              sent' = [i \in DOMAIN notifierRegisterList |->
                         IF notifierRegisterList[i].notifier = answer'.arg THEN 1 ELSE 0]
<1>1. TypeOK /\ RegInv /\ [Next]_vars => [Once]_vars
  <2> SUFFICES ASSUME TypeOK, RegInv, Next
               PROVE  Once
    OBVIOUS
  <2>1. ASSUME NEW n \in Notifiers, asyncHandler(n)
        PROVE  Once
    <3>1. answer'.arg = n /\ sent' = messagesFor(n)
      BY <2>1 DEF asyncHandler, Irq
    <3>2. \A i \in DOMAIN notifierRegisterList :
             connections[notifierRegisterList[i].notifier] = 1
      BY DEF RegInv, Range
    <3> QED
      BY <3>1, <3>2 DEF messagesFor
  <2>2. ASSUME ~\E n \in Notifiers : asyncHandler(n)
        PROVE  answer'.op # "IRQ"
    <3>1. ASSUME NEW p \in Peers, NEW id \in ClientIds, NEW q, m_RegisterNotifier(p, id, q)
          PROVE  answer'.op = "REGISTER"
      BY <3>1 DEF m_RegisterNotifier, Reply
    <3>2. ASSUME NEW p \in Peers, NEW id \in ClientIds,
                 MalformedRegister(p, id) \/ m_UnregisterNotifier(p, id)
          PROVE  answer'.op \in {"REGISTER", "UNREGISTER"}
      BY <3>2 DEF MalformedRegister, m_UnregisterNotifier, Reply
    <3>3. ASSUME NEW p \in Peers, establishNewConnection(p) \/ peerConnectionClosed(p)
          PROVE  answer'.op \in {"none", "CLOSED"}
      BY <3>3 DEF establishNewConnection, peerConnectionClosed, NoAnswer, Gone
    <3>4. ASSUME NEW n \in Notifiers, QueryINTREG(n)
          PROVE  answer'.op = "QUERY"
      BY <3>4 DEF QueryINTREG, Queried
    <3>5. ASSUME NEW p \in Peers, NEW id \in ClientIds, LostClient(p, id)
          PROVE  answer'.op = "LOST"
      BY <3>5 DEF LostClient, Gone
    <3> QED
      BY <2>2, <3>1, <3>2, <3>3, <3>4, <3>5 DEF Next
  <2> QED
    BY <2>1, <2>2
<1> QED
  BY <1>1, TypeCorrect, RegInvariant, PTL DEF Spec, EdgeTellsEachOnce

\* Nothing stays bound to a client that is lost, nor to a closed connection
\* (LostPeerLeavesNothing).
THEOREM LeavesNothing == Spec => LostPeerLeavesNothing
<1> DEFINE Left == \A e \in Range(notifierRegisterList') :
                       e.peer = answer'.peer => answer'.id \notin {e.id, EmptyId}
<1>1. TypeOK /\ RegInv /\ [Next]_vars => [answer'.op \in {"LOST", "CLOSED"} => Left]_vars
  <2> SUFFICES ASSUME TypeOK, RegInv, Next, answer'.op \in {"LOST", "CLOSED"}
               PROVE  Left
    OBVIOUS
  <2>1. ASSUME NEW p \in Peers, NEW id \in ClientIds, doUnregisterNotifier(p, id),
               answer'.peer = p, answer'.id = id
        PROVE  Left
    BY <2>1, RemainingIs DEF doUnregisterNotifier, SameClient, TypeOK
  <2>2. ASSUME NEW p \in Peers, peerConnectionClosed(p)
        PROVE  Left
    <3>1. answer'.peer = p /\ answer'.id = EmptyId
      BY <2>2 DEF peerConnectionClosed, Gone
    <3>2. CASE p \in watched
      BY <2>1, <2>2, <3>1, <3>2, EmptyIdAssumption DEF peerConnectionClosed
    <3>3. CASE p \notin watched
      BY <2>2, <3>1, <3>3 DEF peerConnectionClosed, RegInv
    <3> QED
      BY <3>2, <3>3
  <2>3. ASSUME NEW p \in Peers, NEW id \in ClientIds, LostClient(p, id)
        PROVE  Left
    BY <2>1, <2>3 DEF LostClient, Gone
  <2>4. ASSUME NEW p \in Peers, NEW id \in ClientIds, NEW q,
               \/ m_RegisterNotifier(p, id, q) \/ MalformedRegister(p, id)
               \/ m_UnregisterNotifier(p, id)
        PROVE  FALSE
    BY <2>4 DEF m_RegisterNotifier, MalformedRegister, m_UnregisterNotifier, Reply
  <2>5. ASSUME NEW p \in Peers, establishNewConnection(p)
        PROVE  FALSE
    BY <2>5 DEF establishNewConnection, NoAnswer
  <2>6. ASSUME NEW n \in Notifiers, QueryINTREG(n) \/ asyncHandler(n)
        PROVE  FALSE
    BY <2>6 DEF QueryINTREG, asyncHandler, Queried, Irq
  <2> QED
    BY <2>2, <2>3, <2>4, <2>5, <2>6 DEF Next
<1> QED
  BY <1>1, TypeCorrect, RegInvariant, PTL DEF Spec, LostPeerLeavesNothing

-----------------------------------------------------------------------------
(* Counting registrations.                                                 *)

Match(e, p, id) == e.peer = p /\ e.id = id
Places(s, p, id) == {i \in DOMAIN s : Match(s[i], p, id)}
One(e, p, id) == IF Match(e, p, id) THEN 1 ELSE 0

\* What is counted is finite.
LEMMA PlacesFinite ==
  ASSUME NEW S, NEW s \in Seq(S), NEW p, NEW id
  PROVE  IsFiniteSet(Places(s, p, id)) /\ Cardinality(Places(s, p, id)) \in Nat
<1>1. Places(s, p, id) \in SUBSET (1 .. Len(s)) /\ Len(s) \in Nat
  BY DEF Places
<1>2. IsFiniteSet(1 .. Len(s))
  BY <1>1, FS_Interval
<1> QED
  BY <1>1, <1>2, FS_Subset, FS_CardinalityType

\* An entry that is appended counts for its client.
LEMMA CountAppend ==
  ASSUME NEW S, NEW s \in Seq(S), NEW e \in S, NEW p, NEW id
  PROVE  Cardinality(Places(Append(s, e), p, id))
           = Cardinality(Places(s, p, id)) + One(e, p, id)
<1> DEFINE N == Len(s)
<1>1. /\ N \in Nat /\ DOMAIN s = 1 .. N /\ DOMAIN Append(s, e) = 1 .. N + 1
      /\ \A i \in 1 .. N : Append(s, e)[i] = s[i]
      /\ Append(s, e)[N + 1] = e
  OBVIOUS
<1>2. N + 1 \notin Places(s, p, id)
  BY <1>1 DEF Places
<1>3. CASE Match(e, p, id)
  <2>1. Places(Append(s, e), p, id) = Places(s, p, id) \cup {N + 1}
    BY <1>1, <1>3 DEF Places
  <2> QED
    BY <1>2, <1>3, <2>1, PlacesFinite, FS_AddElement DEF One
<1>4. CASE ~Match(e, p, id)
  <2>1. Places(Append(s, e), p, id) = Places(s, p, id)
    BY <1>1, <1>4 DEF Places
  <2> QED
    BY <1>4, <2>1, PlacesFinite DEF One
<1> QED
  BY <1>3, <1>4

\* The entry that is taken from the front does not count any more.
LEMMA CountTail ==
  ASSUME NEW S, NEW s \in Seq(S), s # <<>>, NEW p, NEW id
  PROVE  Cardinality(Places(s, p, id))
           = Cardinality(Places(Tail(s), p, id)) + One(Head(s), p, id)
<1> DEFINE N == Len(s)
           I == Places(Tail(s), p, id)
           J == Places(s, p, id) \ {1}
           f == [i \in I |-> i + 1]
<1>1. /\ N \in Nat /\ N > 0 /\ DOMAIN s = 1 .. N /\ DOMAIN Tail(s) = 1 .. N - 1
      /\ \A i \in 1 .. N - 1 : Tail(s)[i] = s[i + 1]
      /\ Head(s) = s[1] /\ Tail(s) \in Seq(S)
  OBVIOUS
<1>2. \A i \in I : i \in Nat /\ i + 1 \in J
  BY <1>1 DEF Places
<1>3. \A j \in J : j - 1 \in I /\ (j - 1) + 1 = j
  BY <1>1 DEF Places
<1> HIDE DEF I, J
<1>4. f \in Bijection(I, J)
  <2>1. f \in Injection(I, J)
    BY <1>2 DEF Injection, IsInjective
  <2>2. f \in Surjection(I, J)
    BY <1>2, <1>3 DEF Surjection
  <2> QED
    BY <2>1, <2>2 DEF Bijection
<1>5. Cardinality(J) = Cardinality(I)
  <2>1. IsFiniteSet(I) /\ ExistsBijection(I, J)
    BY <1>1, <1>4, PlacesFinite DEF ExistsBijection, I
  <2> QED
    BY <2>1, FS_Bijection
<1>6. 1 \in Places(s, p, id) <=> Match(Head(s), p, id)
  BY <1>1 DEF Places
<1>7. /\ IsFiniteSet(Places(s, p, id)) /\ Cardinality(Places(s, p, id)) \in Nat
      /\ Cardinality(J) = IF 1 \in Places(s, p, id) THEN Cardinality(Places(s, p, id)) - 1
                          ELSE Cardinality(Places(s, p, id))
  BY PlacesFinite, FS_RemoveElement DEF J
<1> QED
  BY <1>5, <1>6, <1>7 DEF One, I

\* Registrations counts places in the two lists.
LEMMA RegistrationsIs ==
  ASSUME NEW p, NEW id, NEW next, NEW list
  PROVE  Registrations(p, id, next, list)
           = Cardinality(Places(next, p, id)) + Cardinality(Places(list, p, id))
BY DEF Registrations, Count, Places, Match

-----------------------------------------------------------------------------
(* Refinement of Subscriptions.                                            *)

\* What is owed while the registrations of next are waiting.
OwedTo(next) == [w \in Waiting |-> Count(next, w.peer, w.id)]

LEMMA OwedIs ==
  ASSUME NEW next \in Seq(Waiting), NEW w \in Waiting
  PROVE  /\ OwedTo(next)[w] = Cardinality(Places(next, w.peer, w.id))
         /\ OwedTo(next)[w] \in Nat
<1>1. OwedTo(next)[w] = Count(next, w.peer, w.id)
  BY DEF OwedTo
<1>2. Count(next, w.peer, w.id) = Cardinality(Places(next, w.peer, w.id))
  BY DEF Count, Places, Match
<1>3. Cardinality(Places(next, w.peer, w.id)) \in Nat
  BY PlacesFinite
<1> QED
  BY <1>1, <1>2, <1>3

\* Of two clients, one is counted for the other only if they are the same.
LEMMA CountsOwn ==
  ASSUME NEW v \in Waiting, NEW w \in Waiting
  PROVE  One(v, w.peer, w.id) = IF w = v THEN 1 ELSE 0
BY DEF One, Match, Waiting

\* A registration that begins to wait is owed one subscription more.
LEMMA OwedAppend ==
  ASSUME NEW next \in Seq(Waiting), NEW v \in Waiting
  PROVE  OwedTo(Append(next, v)) = [w \in Waiting |-> OwedTo(next)[w] + (IF w = v THEN 1 ELSE 0)]
<1> DEFINE longer == Append(next, v)
<1>1. longer \in Seq(Waiting)
  OBVIOUS
<1>2. ASSUME NEW w \in Waiting
      PROVE  OwedTo(longer)[w] = OwedTo(next)[w] + (IF w = v THEN 1 ELSE 0)
  <2>1. Cardinality(Places(longer, w.peer, w.id))
          = Cardinality(Places(next, w.peer, w.id)) + One(v, w.peer, w.id)
    BY CountAppend
  <2> HIDE DEF longer
  <2> QED
    BY <1>1, <2>1, OwedIs, CountsOwn
<1> HIDE DEF longer
<1>3. OwedTo(longer) = [w \in Waiting |-> OwedTo(longer)[w]]
  BY DEF OwedTo
<1> QED
  BY <1>2, <1>3 DEF longer

\* When a notifier is named, the first of those that wait is served.
LEMMA Serves ==
  ASSUME Lists, NEW n \in Notifiers, NEW next \in Seq(Waiting), establishNewNotifier(n, next)
  PROVE  Subs!Serve(n, OwedTo(next))
<1> USE DEF Lists
<1>1. Subs!Clients = Waiting
  BY DEF Subs!Clients, Waiting
<1>2. CASE next = <<>>
  <2>1. \A w \in Waiting : Places(next, w.peer, w.id) = {}
    BY <1>2 DEF Places
  <2>2. \A w \in Waiting : OwedTo(next)[w] = 0
    BY <2>1, OwedIs, FS_EmptySet
  <2>3. notifierRegisterNext' = next /\ UNCHANGED notifierRegisterList
    BY <1>2 DEF establishNewNotifier
  <2>4. Owed' = OwedTo(next)
    BY <2>3 DEF Owed, OwedTo
  <2> QED
    BY <1>1, <2>2, <2>3, <2>4 DEF Subs!Serve
<1>3. CASE next # <<>>
  <2> DEFINE d == Head(next)
             e == Bind(d, n)
             debts == OwedTo(next)
  <2>1. d \in Waiting /\ Tail(next) \in Seq(Waiting)
    BY <1>3
  <2>2. e \in Entry /\ e = Subs!Subscription(d, n)
    BY <2>1 DEF Bind, Waiting, Entry, Subs!Subscription
  <2>3. notifierRegisterNext' = Tail(next) /\ notifierRegisterList' = Append(notifierRegisterList, e)
    BY <1>3 DEF establishNewNotifier
  <2> HIDE DEF d, e
  <2>4. Range(notifierRegisterList') = Range(notifierRegisterList) \cup {e}
    BY <2>2, <2>3, RangeFacts
  <2>5. ASSUME NEW w \in Waiting
        PROVE  debts[w] = OwedTo(Tail(next))[w] + (IF w = d THEN 1 ELSE 0)
    <3>1. Cardinality(Places(next, w.peer, w.id))
            = Cardinality(Places(Tail(next), w.peer, w.id)) + One(d, w.peer, w.id)
      BY <1>3, CountTail DEF d
    <3> QED
      BY <2>1, <3>1, OwedIs, CountsOwn
  <2>6. \A w \in Waiting : OwedTo(Tail(next))[w] \in Nat
    BY <2>1, OwedIs
  <2>7. debts = [w \in Waiting |-> debts[w]] /\ Owed' = [w \in Waiting |-> OwedTo(Tail(next))[w]]
    BY <2>3 DEF Owed, OwedTo
  <2> HIDE DEF debts
  <2>8. debts[d] > 0 /\ Owed' = [debts EXCEPT ![d] = @ - 1]
    <3>1. debts[d] = OwedTo(Tail(next))[d] + 1
      BY <2>1, <2>5
    <3>2. \A w \in Waiting : OwedTo(Tail(next))[w] = IF w = d THEN debts[d] - 1 ELSE debts[w]
      BY <2>1, <2>5, <2>6
    <3>3. debts[d] > 0
      BY <2>1, <2>6, <3>1
    <3>4. [debts EXCEPT ![d] = @ - 1] = [w \in Waiting |-> IF w = d THEN debts[d] - 1 ELSE debts[w]]
      BY <2>1, <2>7
    <3> QED
      BY <2>7, <3>2, <3>3, <3>4
  <2> QED
    BY <1>1, <2>1, <2>2, <2>4, <2>8 DEF Subs!Serve, debts
<1> QED
  BY <1>2, <1>3

\* Entries are taken out by a withdrawal of the client that acts.
LEMMA Withdraws ==
  ASSUME Lists, NEW p \in Peers, NEW id \in ClientIds,
         Range(notifierRegisterList') = {e \in Range(notifierRegisterList) : ~SameClient(e, p, id)},
         UNCHANGED notifierRegisterNext, answer'.peer = p, answer'.id = id,
         \/ answer'.op = "UNREGISTER" /\ answer'.code = "ack"
         \/ answer'.op \in {"LOST", "CLOSED"}
  PROVE  Subs!SubsNext
<1> DEFINE gone == {e \in Range(notifierRegisterList) : SameClient(e, p, id)}
           c == [peer |-> p, id |-> id]
<1>1. Range(notifierRegisterList') = Range(notifierRegisterList) \ gone
  OBVIOUS
<1>2. gone \in SUBSET Subs!Indistinct(c) /\ Subs!Own(c) \subseteq gone
  BY DEF Subs!Indistinct, Subs!Own, SameClient
<1>3. Subs!Acknowledged(c, "UNREGISTER") \/ Subs!By(c, "LOST") \/ Subs!By(c, "CLOSED")
  BY DEF Subs!Acknowledged, Subs!By
<1>4. Owed' = Owed
  BY DEF Owed
<1> HIDE DEF gone
<1>5. Subs!Withdraw(c)
  BY <1>1, <1>2, <1>3, <1>4 DEF Subs!Withdraw
<1> QED
  BY <1>5 DEF Subs!SubsNext, Subs!Clients

\* A REGISTER is a request of its client, served, kept owed or ignored.
LEMMA Asks ==
  ASSUME Lists, NEW p \in Peers, NEW id \in ClientIds, NEW q \in Notifiers \cup Others,
         m_RegisterNotifier(p, id, q)
  PROVE  Subs!SubsNext
<1> DEFINE w == [peer |-> p, id |-> id]
           next == Append(notifierRegisterNext, w)
<1>1. /\ w \in Waiting /\ next \in Seq(Waiting) /\ takeBack(next) = notifierRegisterNext
      /\ notifierRegisterNext \in Seq(Waiting)
  BY Appended DEF Lists
<1>2. /\ answer'.op = "REGISTER" /\ answer'.peer = p /\ answer'.id = id /\ answer'.arg = q
      /\ answer'.code = IF q \in {"refused", "unknown"} THEN "nak" ELSE "ack"
  BY DEF m_RegisterNotifier, Reply
<1>3. Subs!Clients = Waiting
  BY DEF Subs!Clients, Waiting
<1>4. OwedTo(next) = Subs!OwedOneMore(w)
  <2>1. Owed = OwedTo(notifierRegisterNext)
    BY DEF Owed, OwedTo
  <2> HIDE DEF w
  <2> QED
    BY <1>1, <1>3, <2>1, OwedAppend DEF Subs!OwedOneMore
<1>5. answer'.code = "ack" => Subs!Acknowledged(w, "REGISTER")
  BY <1>2 DEF Subs!Acknowledged, Subs!By
<1> HIDE DEF next, w
<1>6. CASE q \in Notifiers /\ establishNewNotifier(q, next)
  <2>1. answer'.code = "ack"
    BY <1>2, <1>6, NotifiersAssumption
  <2>2. Subs!Serve(q, OwedTo(next))
    BY <1>1, <1>6, Serves
  <2>3. Subs!Ask(w, q)
    BY <1>2, <1>4, <1>5, <2>1, <2>2 DEF Subs!Ask
  <2> QED
    BY <1>1, <1>3, <1>6, <2>3 DEF Subs!SubsNext
<1>7. CASE q = "plain" /\ notifierRegisterNext' = next /\ UNCHANGED notifierRegisterList
  <2>1. answer'.code = "ack" /\ answer'.arg \notin Notifiers
    BY <1>2, <1>7, NotifiersAssumption
  <2>2. Owed' = OwedTo(next)
    BY <1>7 DEF Owed, OwedTo
  <2>3. Subs!AskForNone(w)
    BY <1>4, <1>5, <1>7, <2>1, <2>2 DEF Subs!AskForNone
  <2> QED
    BY <1>1, <1>3, <2>3 DEF Subs!SubsNext
<1>8. CASE /\ q \in {"refused", "unknown"}
           /\ notifierRegisterNext' = notifierRegisterNext /\ UNCHANGED notifierRegisterList
  <2>1. answer'.code = "nak" /\ Owed' = Owed
    BY <1>2, <1>8 DEF Owed
  <2>2. Subs!Ignore
    BY <1>2, <1>8, <2>1 DEF Subs!Ignore
  <2> QED
    BY <2>2 DEF Subs!SubsNext
<1> QED
  BY <1>1, <1>6, <1>7, <1>8 DEF m_RegisterNotifier, next, w

\* The registry implements the abstract subscriptions
\* (ImplementsSubscriptions): every subscription begins for a client whose
\* acknowledged request has not been served before, and ends by a request or
\* the loss of its own client.
THEOREM Implements == Spec => ImplementsSubscriptions
<1> DEFINE subsVars == <<Range(notifierRegisterList), Owed, answer>>
<1>1. Init => Subs!SubsInit
  <2> SUFFICES ASSUME Init
               PROVE  Subs!SubsInit
    OBVIOUS
  <2>1. Range(notifierRegisterList) = {} /\ answer.op = "none"
    BY RangeFacts DEF Init, NoAnswer
  <2>2. \A w \in Waiting : Count(notifierRegisterNext, w.peer, w.id) = 0
    <3>1. \A w \in Waiting : {i \in DOMAIN notifierRegisterNext :
             notifierRegisterNext[i].peer = w.peer /\ notifierRegisterNext[i].id = w.id} = {}
      BY DEF Init
    <3> QED
      BY <3>1, FS_EmptySet DEF Count
  <2>3. Owed = [w \in Subs!Clients |-> 0]
    BY <2>2 DEF Owed, Subs!Clients, Waiting
  <2> QED
    BY <2>1, <2>3 DEF Subs!SubsInit, Subs!NothingOwed
<1>2. TypeOK /\ RegInv /\ [Next]_vars => [Subs!SubsNext]_subsVars
  <2> SUFFICES ASSUME TypeOK, RegInv, [Next]_vars
               PROVE  [Subs!SubsNext]_subsVars
    OBVIOUS
  <2>0. Lists
    BY TypedLists
  <2>out. ASSUME NEW p \in Peers, NEW id \in ClientIds, doUnregisterNotifier(p, id)
         PROVE  Range(notifierRegisterList')
                  = {e \in Range(notifierRegisterList) : ~SameClient(e, p, id)}
    BY <2>0, <2>out, RemainingIs DEF doUnregisterNotifier, Lists
  <2>1. ASSUME UNCHANGED <<notifierRegisterList, notifierRegisterNext>>,
               \/ answer'.op \in {"none", "IRQ"}
               \/ answer'.op \in {"REGISTER", "UNREGISTER"} /\ answer'.code # "ack"
        PROVE  Subs!SubsNext
    <3>1. Subs!Ignore
      BY <2>1 DEF Subs!Ignore, Owed
    <3> QED
      BY <3>1 DEF Subs!SubsNext
  <2>2. ASSUME NEW p \in Peers, NEW id \in ClientIds, NEW q \in Notifiers \cup Others,
               m_RegisterNotifier(p, id, q)
        PROVE  Subs!SubsNext
    BY <2>0, <2>2, Asks
  <2>3. ASSUME NEW p \in Peers, peerConnectionClosed(p)
        PROVE  Subs!SubsNext
    <3>1. answer'.peer = p /\ answer'.id = EmptyId /\ answer'.op = "CLOSED"
      BY <2>3 DEF peerConnectionClosed, Gone
    <3>2. Range(notifierRegisterList')
            = {e \in Range(notifierRegisterList) : ~SameClient(e, p, EmptyId)}
      <4>1. CASE p \in watched
        BY <2>3, <2>out, <4>1, EmptyIdAssumption DEF peerConnectionClosed
      <4>2. CASE p \notin watched
        BY <2>3, <4>2 DEF peerConnectionClosed, RegInv, SameClient
      <4> QED
        BY <4>1, <4>2
    <3> QED
      BY <2>0, <2>3, <3>1, <3>2, EmptyIdAssumption, Withdraws DEF peerConnectionClosed
  <2>4. ASSUME NEW p \in Peers, NEW id \in ClientIds, LostClient(p, id)
        PROVE  Subs!SubsNext
    <3>1. answer'.peer = p /\ answer'.id = id /\ answer'.op = "LOST"
      BY <2>4 DEF LostClient, Gone
    <3> QED
      BY <2>0, <2>4, <2>out, <3>1, Withdraws DEF LostClient
  <2>5. ASSUME NEW p \in Peers, NEW id \in ClientIds, m_UnregisterNotifier(p, id)
        PROVE  Subs!SubsNext
    <3>1. answer'.peer = p /\ answer'.id = id /\ answer'.op = "UNREGISTER"
      BY <2>5 DEF m_UnregisterNotifier, Reply
    <3>2. CASE doUnregisterNotifier(p, id) /\ answer'.code = "ack"
      BY <2>0, <2>5, <2>out, <3>1, <3>2, Withdraws DEF m_UnregisterNotifier
    <3>3. CASE UNCHANGED notifierRegisterList /\ answer'.code = "nak"
      BY <2>1, <2>5, <3>1, <3>3 DEF m_UnregisterNotifier
    <3> QED
      BY <2>5, <3>2, <3>3 DEF m_UnregisterNotifier, Reply
  <2>6. ASSUME NEW n \in Notifiers, QueryINTREG(n)
        PROVE  Subs!SubsNext
    <3>1. answer'.op = "QUERY" /\ answer'.arg = n /\ establishNewNotifier(n, notifierRegisterNext)
      BY <2>6 DEF QueryINTREG, Queried
    <3>2. Subs!Serve(n, OwedTo(notifierRegisterNext))
      BY <2>0, <3>1, Serves DEF Lists
    <3>3. OwedTo(notifierRegisterNext) = Owed
      BY DEF Owed, OwedTo
    <3>4. Subs!Query(n)
      BY <3>1, <3>2, <3>3 DEF Subs!Query
    <3> QED
      BY <3>4 DEF Subs!SubsNext
  <2>7. ASSUME NEW p \in Peers, establishNewConnection(p)
        PROVE  Subs!SubsNext
    BY <2>1, <2>7 DEF establishNewConnection, NoAnswer
  <2>8. ASSUME NEW p \in Peers, NEW id \in ClientIds, MalformedRegister(p, id)
        PROVE  Subs!SubsNext
    BY <2>1, <2>8 DEF MalformedRegister, Reply
  <2>9. ASSUME NEW n \in Notifiers, asyncHandler(n)
        PROVE  Subs!SubsNext
    BY <2>1, <2>9 DEF asyncHandler, Irq
  <2>10. CASE UNCHANGED vars
    BY <2>10 DEF vars, Owed
  <2> QED
    BY <2>2, <2>3, <2>4, <2>5, <2>6, <2>7, <2>8, <2>9, <2>10 DEF Next
<1> QED
  BY <1>1, <1>2, TypeCorrect, RegInvariant, PTL
  DEF Spec, ImplementsSubscriptions, Subs!SubsSpec, Subs!subsVars

-----------------------------------------------------------------------------
(* Nothing but INTREG queries is registered for.                           *)

\* Nobody waits, and whoever is bound has an open connection.
NobodyWaits ==
    /\ notifierRegisterNext = <<>>
    /\ \A e \in Range(notifierRegisterList) : e.peer \in open

\* When nobody waits, a REGISTER is bound at once, and to its own notifier.
LEMMA BindsOwn ==
  ASSUME Lists, NobodyWaits, NEW p \in open, p \in Peers, NEW id \in ClientIds, NEW n \in Notifiers,
         establishNewNotifier(n, Append(notifierRegisterNext, [peer |-> p, id |-> id])),
         UNCHANGED open
  PROVE  /\ NobodyWaits'
         /\ notifierRegisterList' =
                Append(notifierRegisterList, [peer |-> p, id |-> id, notifier |-> n])
<1> DEFINE w == [peer |-> p, id |-> id]
           next == Append(notifierRegisterNext, w)
           e == [peer |-> p, id |-> id, notifier |-> n]
<1>1. next = <<w>> /\ next # <<>> /\ Head(next) = w /\ Tail(next) = <<>>
  BY DEF NobodyWaits
<1>2. notifierRegisterNext' = <<>> /\ notifierRegisterList' = Append(notifierRegisterList, e)
  BY <1>1 DEF establishNewNotifier, Bind
<1>3. e \in Entry /\ e.peer = p /\ notifierRegisterList \in Seq(Entry)
  BY DEF Entry, Lists
<1> HIDE DEF e, w, next
<1>4. Range(notifierRegisterList') = Range(notifierRegisterList) \cup {e}
  BY <1>2, <1>3, RangeFacts
<1> QED
  BY <1>2, <1>3, <1>4 DEF NobodyWaits, e

\* What is taken out of the registrations.
LEMMA RemovedIs ==
  ASSUME Lists, NEW p, NEW id, doUnregisterNotifier(p, id)
  PROVE  Range(notifierRegisterList') = {e \in Range(notifierRegisterList) : ~SameClient(e, p, id)}
BY RemainingIs DEF doUnregisterNotifier, Lists

\* What is taken out leaves nobody waiting.
LEMMA RemovedLeavesNone ==
  ASSUME Lists, NobodyWaits, NEW p, NEW id, doUnregisterNotifier(p, id),
         UNCHANGED <<open, notifierRegisterNext>>
  PROVE  NobodyWaits'
<1>1. Range(notifierRegisterList') \subseteq Range(notifierRegisterList)
  BY RemovedIs
<1> QED
  BY <1>1 DEF NobodyWaits

\* The connection of p is closed while it is watched, or has nothing bound.
LEMMA ClosedLeavesNone ==
  ASSUME Lists, RegInv, NobodyWaits, NEW p, open' = open \ {p}, UNCHANGED notifierRegisterNext,
         IF p \in watched THEN doUnregisterNotifier(p, EmptyId) ELSE UNCHANGED notifierRegisterList
  PROVE  NobodyWaits'
<1>1. CASE p \in watched
  <2>1. Range(notifierRegisterList') = {e \in Range(notifierRegisterList) : ~SameClient(e, p, EmptyId)}
    BY <1>1, RemovedIs
  <2> QED
    BY <2>1 DEF NobodyWaits, SameClient
<1>2. CASE p \notin watched
  BY <1>2 DEF NobodyWaits, RegInv
<1> QED
  BY <1>1, <1>2

\* A registration is left waiting only by a parameter of REGISTER that is
\* executed and emits no notifier.  As long as clients send none, no message is
\* ever sent to the peer of a closed connection: asyncHandler runs with entries
\* of open connections only.
THEOREM NeverDangling ==
  ASSUME "plain" \notin Others
  PROVE  Spec => []NobodyWaits
<1>1. Init => NobodyWaits
  BY RangeFacts DEF Init, NobodyWaits
<1>2. TypeOK /\ RegInv /\ NobodyWaits /\ [Next]_vars => NobodyWaits'
  <2> SUFFICES ASSUME TypeOK, RegInv, NobodyWaits, [Next]_vars
               PROVE  NobodyWaits'
    OBVIOUS
  <2>1. ASSUME UNCHANGED <<open, notifierRegisterNext, notifierRegisterList>>
        PROVE  NobodyWaits'
    BY <2>1 DEF NobodyWaits
  <2>2. ASSUME NEW p \in Peers, establishNewConnection(p)
        PROVE  NobodyWaits'
    BY <2>2 DEF establishNewConnection, NobodyWaits
  <2>3. ASSUME NEW p \in Peers, peerConnectionClosed(p)
        PROVE  NobodyWaits'
    BY <2>3, TypedLists, ClosedLeavesNone DEF peerConnectionClosed
  <2>4. ASSUME NEW p \in Peers, NEW id \in ClientIds,
               LostClient(p, id) \/ m_UnregisterNotifier(p, id)
        PROVE  NobodyWaits'
    BY <2>1, <2>4, TypedLists, RemovedLeavesNone DEF LostClient, m_UnregisterNotifier
  <2>5. ASSUME NEW p \in Peers, NEW id \in ClientIds, NEW q \in Notifiers \cup Others,
               m_RegisterNotifier(p, id, q)
        PROVE  NobodyWaits'
    <3> DEFINE next == Append(notifierRegisterNext, [peer |-> p, id |-> id])
    <3>1. takeBack(next) = notifierRegisterNext
      BY Appended, TypedLists
    <3>2. CASE q \in Notifiers /\ establishNewNotifier(q, next)
      BY <2>5, <3>2, TypedLists, BindsOwn DEF m_RegisterNotifier
    <3> HIDE DEF next
    <3>3. CASE notifierRegisterNext' \in {takeBack(next), notifierRegisterNext}
               /\ UNCHANGED notifierRegisterList
      BY <2>1, <2>5, <3>1, <3>3 DEF m_RegisterNotifier
    <3>4. q # "plain"
      BY NotifiersAssumption
    <3> QED
      BY <2>5, <3>2, <3>3, <3>4 DEF m_RegisterNotifier, next
  <2>6. ASSUME NEW n \in Notifiers, QueryINTREG(n)
        PROVE  NobodyWaits'
    BY <2>1, <2>6 DEF QueryINTREG, establishNewNotifier, NobodyWaits
  <2>7. ASSUME \/ \E p \in Peers, id \in ClientIds : MalformedRegister(p, id)
               \/ \E n \in Notifiers : asyncHandler(n)
               \/ UNCHANGED vars
        PROVE  NobodyWaits'
    BY <2>1, <2>7 DEF MalformedRegister, asyncHandler, vars
  <2> QED
    BY <2>2, <2>3, <2>4, <2>5, <2>6, <2>7 DEF Next
<1> QED
  BY <1>1, <1>2, TypeCorrect, RegInvariant, PTL DEF Spec

\* As long as clients register for nothing that is executed without a notifier,
\* the registry keeps the promise of Subscriptions without its reservation: it
\* owes nobody anything, so that each acknowledged REGISTER begins its own
\* subscription, and only its own.
THEOREM KeepsPromise ==
  ASSUME "plain" \notin Others
  PROVE  Spec => Subs!PromptSpec
<1>1. NobodyWaits => Subs!NothingOwed
  <2> SUFFICES ASSUME NobodyWaits
               PROVE  Subs!NothingOwed
    OBVIOUS
  <2>1. \A p, id : Places(notifierRegisterNext, p, id) = {}
    BY DEF NobodyWaits, Places
  <2>2. \A p, id : Count(notifierRegisterNext, p, id) = Cardinality(Places(notifierRegisterNext, p, id))
    BY DEF Count, Places, Match
  <2>3. \A w \in Waiting : Count(notifierRegisterNext, w.peer, w.id) = 0
    BY <2>1, <2>2, FS_EmptySet
  <2> QED
    BY <2>3 DEF Subs!NothingOwed, Owed, Subs!Clients, Waiting
<1> QED
  BY <1>1, Implements, NeverDangling, PTL DEF ImplementsSubscriptions, Subs!PromptSpec

\* As long as clients register for nothing but INTREG queries, a REGISTER adds
\* the registration it asked for and no other (OneNotifierPerCommand): the
\* parameter of the finding is the only way to break the promise.
THEOREM OneEach ==
  ASSUME "plain" \notin Others
  PROVE  Spec => OneNotifierPerCommand
<1> DEFINE Own == answer'.op = "REGISTER" /\ answer'.arg \in Notifiers =>
              notifierRegisterList' = Append(notifierRegisterList, Bind(answer', answer'.arg))
<1>1. TypeOK /\ NobodyWaits /\ [Next]_vars => [Own]_vars
  <2> SUFFICES ASSUME TypeOK, NobodyWaits, Next,
                      answer'.op = "REGISTER", answer'.arg \in Notifiers
               PROVE  notifierRegisterList' = Append(notifierRegisterList, Bind(answer', answer'.arg))
    OBVIOUS
  <2>1. ASSUME NEW p \in Peers, NEW id \in ClientIds, NEW q \in Notifiers \cup Others,
               m_RegisterNotifier(p, id, q)
        PROVE  notifierRegisterList' = Append(notifierRegisterList, Bind(answer', answer'.arg))
    <3>1. /\ answer'.peer = p /\ answer'.id = id /\ answer'.arg = q
          /\ p \in open /\ UNCHANGED open
      BY <2>1 DEF m_RegisterNotifier, Reply
    <3>2. q \in Notifiers /\ q \notin {"plain", "refused", "unknown"}
      BY <3>1, NotifiersAssumption
    <3>3. establishNewNotifier(q, Append(notifierRegisterNext, [peer |-> p, id |-> id]))
      BY <2>1, <3>2 DEF m_RegisterNotifier
    <3>4. notifierRegisterList' = Append(notifierRegisterList, [peer |-> p, id |-> id, notifier |-> q])
      BY <3>1, <3>2, <3>3, TypedLists, BindsOwn
    <3> QED
      BY <3>1, <3>4 DEF Bind
  <2>2. ASSUME NEW p \in Peers, NEW id \in ClientIds, MalformedRegister(p, id)
        PROVE  FALSE
    BY <2>2, NotifiersAssumption DEF MalformedRegister, Reply
  <2>3. ASSUME NEW p \in Peers, NEW id \in ClientIds,
               \/ establishNewConnection(p) \/ peerConnectionClosed(p)
               \/ LostClient(p, id) \/ m_UnregisterNotifier(p, id)
        PROVE  FALSE
    BY <2>3 DEF establishNewConnection, peerConnectionClosed, LostClient, m_UnregisterNotifier,
                NoAnswer, Gone, Reply
  <2>4. ASSUME NEW n \in Notifiers, QueryINTREG(n) \/ asyncHandler(n)
        PROVE  FALSE
    BY <2>4 DEF QueryINTREG, asyncHandler, Queried, Irq
  <2> QED
    BY <2>1, <2>2, <2>3, <2>4, EmptyIdAssumption DEF Next
<1> QED
  BY <1>1, TypeCorrect, NeverDangling, PTL DEF Spec, OneNotifierPerCommand

\* A REGISTER enters its client once, or not at all, and nobody else
\* (RegistersAskerOnce).
THEOREM RegistersOnce == Spec => RegistersAskerOnce
<1> DEFINE Exactly == answer'.op = "REGISTER" =>
              \A p \in Peers, id \in ClientIds :
                  Registrations(p, id, notifierRegisterNext', notifierRegisterList')
                      = Registrations(p, id, notifierRegisterNext, notifierRegisterList)
                          + (IF <<p, id, "ack">> = <<answer'.peer, answer'.id, answer'.code>>
                             THEN 1 ELSE 0)
<1>1. TypeOK /\ [Next]_vars => [Exactly]_vars
  <2> SUFFICES ASSUME TypeOK, Next, NEW p \in Peers, NEW id \in ClientIds, answer'.op = "REGISTER"
               PROVE  Registrations(p, id, notifierRegisterNext', notifierRegisterList')
                      = Registrations(p, id, notifierRegisterNext, notifierRegisterList)
                          + (IF <<p, id, "ack">> = <<answer'.peer, answer'.id, answer'.code>>
                             THEN 1 ELSE 0)
    OBVIOUS
  <2> DEFINE count(s) == Cardinality(Places(s, p, id))
             added == IF <<p, id, "ack">> = <<answer'.peer, answer'.id, answer'.code>>
                      THEN 1 ELSE 0
  <2>0. notifierRegisterNext \in Seq(Waiting) /\ notifierRegisterList \in Seq(Entry)
    BY DEF TypeOK
  <2>1. count(notifierRegisterNext) \in Nat /\ count(notifierRegisterList) \in Nat
    BY <2>0, PlacesFinite
  <2>2. SUFFICES count(notifierRegisterNext') + count(notifierRegisterList')
                   = count(notifierRegisterNext) + count(notifierRegisterList) + added
    BY RegistrationsIs
  <2>3. ASSUME NEW r \in Peers, NEW i \in ClientIds, MalformedRegister(r, i)
        PROVE  count(notifierRegisterNext') + count(notifierRegisterList')
                   = count(notifierRegisterNext) + count(notifierRegisterList) + added
    BY <2>1, <2>3 DEF MalformedRegister, Reply
  <2>4. ASSUME NEW r \in Peers, NEW i \in ClientIds, NEW q \in Notifiers \cup Others,
               m_RegisterNotifier(r, i, q)
        PROVE  count(notifierRegisterNext') + count(notifierRegisterList')
                   = count(notifierRegisterNext) + count(notifierRegisterList) + added
    <3> DEFINE w == [peer |-> r, id |-> i]
               next == Append(notifierRegisterNext, w)
    <3>1. /\ w \in Waiting /\ next \in Seq(Waiting) /\ next # <<>>
          /\ takeBack(next) = notifierRegisterNext
      BY <2>0, Appended, TypedLists
    <3>2. count(next) = count(notifierRegisterNext) + One(w, p, id)
      BY <2>0, <3>1, CountAppend
    <3>3. answer' = [peer |-> r, id |-> i, op |-> "REGISTER", arg |-> q,
                     code |-> IF q \in {"refused", "unknown"} THEN "nak" ELSE "ack"]
      BY <2>4 DEF m_RegisterNotifier, Reply
    <3>4. q \notin {"refused", "unknown"} => added = One(w, p, id)
      BY <3>3 DEF One, Match
    <3>5. q \in {"refused", "unknown"} => added = 0
      BY <3>3
    <3> HIDE DEF next, w, added
    <3>6. CASE q \in Notifiers /\ establishNewNotifier(q, next)
      <4> DEFINE e == Bind(Head(next), q)
      <4>1. Head(next) \in Waiting /\ Tail(next) \in Seq(Waiting)
        BY <3>1
      <4>2. e \in Entry /\ One(e, p, id) = One(Head(next), p, id)
        BY <3>6, <4>1 DEF Bind, Waiting, Entry, One, Match
      <4>3. notifierRegisterNext' = Tail(next) /\ notifierRegisterList' = Append(notifierRegisterList, e)
        BY <3>1, <3>6 DEF establishNewNotifier
      <4> HIDE DEF e
      <4>4. count(notifierRegisterList') = count(notifierRegisterList) + One(e, p, id)
        BY <2>0, <4>2, <4>3, CountAppend
      <4>5. count(next) = count(Tail(next)) + One(Head(next), p, id)
        BY <3>1, CountTail
      <4>6. count(Tail(next)) \in Nat /\ One(Head(next), p, id) \in Nat /\ One(w, p, id) \in Nat
        BY <4>1, PlacesFinite DEF One
      <4>7. q \notin {"refused", "unknown"}
        BY <3>6, NotifiersAssumption
      <4> QED
        <5>1. count(notifierRegisterNext') = count(Tail(next)) /\ added = One(w, p, id)
          BY <3>4, <4>3, <4>7
        <5>2. count(notifierRegisterList')
                = count(notifierRegisterList) + One(Head(next), p, id)
          BY <4>2, <4>4
        <5> HIDE DEF count
        <5> QED
          BY <2>1, <3>2, <4>5, <4>6, <5>1, <5>2
    <3>7. CASE q = "plain" /\ notifierRegisterNext' = next /\ UNCHANGED notifierRegisterList
      <4>1. One(w, p, id) \in Nat
        BY DEF One
      <4> QED
        BY <2>1, <3>2, <3>4, <3>7, <4>1
    <3>8. CASE /\ q \in {"refused", "unknown"}
               /\ notifierRegisterNext' = notifierRegisterNext /\ UNCHANGED notifierRegisterList
      BY <2>1, <3>5, <3>8
    <3> QED
      BY <2>4, <3>1, <3>6, <3>7, <3>8 DEF m_RegisterNotifier, next, w
  <2>5. \/ \E r \in Peers, i \in ClientIds : MalformedRegister(r, i)
        \/ \E r \in Peers, i \in ClientIds, q \in Notifiers \cup Others : m_RegisterNotifier(r, i, q)
    <3>1. ASSUME NEW r \in Peers, establishNewConnection(r) \/ peerConnectionClosed(r)
          PROVE  FALSE
      BY <3>1 DEF establishNewConnection, peerConnectionClosed, NoAnswer, Gone
    <3>2. ASSUME NEW n \in Notifiers, QueryINTREG(n) \/ asyncHandler(n)
          PROVE  FALSE
      BY <3>2 DEF QueryINTREG, asyncHandler, Queried, Irq
    <3>3. ASSUME NEW r \in Peers, NEW i \in ClientIds, LostClient(r, i) \/ m_UnregisterNotifier(r, i)
          PROVE  FALSE
      BY <3>3 DEF LostClient, m_UnregisterNotifier, Gone, Reply
    <3> QED
      BY <3>1, <3>2, <3>3 DEF Next
  <2> QED
    BY <2>3, <2>4, <2>5
<1> QED
  BY <1>1, TypeCorrect, PTL DEF Spec, RegistersAskerOnce
=============================================================================
