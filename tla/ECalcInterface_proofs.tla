----------------------- MODULE ECalcInterface_proofs -----------------------
(***************************************************************************)
(* Proofs about ECalcInterface, for every number of channels, every set of *)
(* clients and every set of requests.                                      *)
(***************************************************************************)
EXTENDS ECalcInterface, FiniteSetTheorems, TLAPS

(***************************************************************************)
(* What the scan of m_SetChannels selects (ScanSelects) is an induction    *)
(* over the list of channels.  It is done with sets and smallest elements  *)
(* (Smallest, UpTo): first the function that scan chooses is shown to      *)
(* exist (ScanRuns), then its values are bounded turn by turn.             *)
(***************************************************************************)

\* A set of natural numbers has a smallest element.
LEMMA Smallest ==
  ASSUME NEW T \in SUBSET Nat, T # {}
  PROVE  \E m \in T : \A n \in T : m <= n
<1>1. PICK m \in T : \A n \in T : ~(<<n, m>> \in OpToRel(<, Nat))
  BY NatLessThanWellFounded, WFMin
<1>2. \A n \in T : ~(n < m)
  BY <1>1 DEF OpToRel
<1> QED
  BY <1>2

\* Induction in the form of sets.
LEMMA UpTo ==
  ASSUME NEW N \in Nat, NEW T, 0 \in T, \A n \in 0 .. N - 1 : n \in T => n + 1 \in T
  PROVE  \A n \in 0 .. N : n \in T
<1> DEFINE U == {n \in 0 .. N : n \notin T}
<1> SUFFICES ASSUME U # {}
             PROVE  FALSE
  OBVIOUS
<1>1. U \in SUBSET Nat
  OBVIOUS
<1>2. PICK m \in U : \A n \in U : m <= n
  <2> HIDE DEF U
  <2> QED
    BY <1>1, Smallest
<1>3. m # 0 /\ m \in 0 .. N /\ m \notin T
  OBVIOUS
<1>4. m - 1 \in 0 .. N - 1 /\ (m - 1) + 1 = m
  BY <1>3
<1>5. m - 1 \in U
  BY <1>3, <1>4
<1> QED
  BY <1>2, <1>4, <1>5

\* One turn of the scan, as a rule for the function of its turns.
Turn(f, i, n) == IF i = 0 THEN [n |-> n, sel |-> {}] ELSE visit(f[i - 1], i - 1)

\* The scan can be run: its turns are a function that starts with nothing
\* selected and visits one channel after the other.
LEMMA ScanRuns ==
  ASSUME NEW n \in Nat
  PROVE  \E f : /\ f[0] = [n |-> n, sel |-> {}]
                /\ \A i \in 0 .. NumChannels - 1 : f[i + 1] = visit(f[i], i)
                /\ scan(n) = f[NumChannels]
<1> DEFINE N == NumChannels
           Good(f, k) == f = [i \in 0 .. k |-> f[i]] /\ \A i \in 0 .. k : f[i] = Turn(f, i, n)
           T == {k \in 0 .. N : \E f : Good(f, k)}
<1>1. N \in Nat
  BY NumChannelsAssumption
<1> HIDE DEF N
<1>2. 0 \in T
  <2> DEFINE f == [i \in 0 .. 0 |-> [n |-> n, sel |-> {}]]
  <2>1. \A i \in 0 .. 0 : i = 0 /\ f[i] = [n |-> n, sel |-> {}]
    OBVIOUS
  <2>2. Good(f, 0)
    BY <2>1 DEF Turn
  <2> HIDE DEF Good, f
  <2> QED
    BY <1>1, <2>2
<1>3. ASSUME NEW k \in 0 .. N - 1, k \in T
      PROVE  k + 1 \in T
  <2>1. PICK f : Good(f, k)
    BY <1>3
  <2> DEFINE g == [i \in 0 .. k + 1 |-> IF i = k + 1 THEN visit(f[k], k) ELSE f[i]]
  <2>2. /\ k + 1 \in 0 .. N /\ k \in 0 .. k /\ (k + 1) - 1 = k /\ k + 1 # 0
        /\ \A i \in 0 .. k : i \in 0 .. k + 1 /\ i # k + 1 /\ (i # 0 => i - 1 \in 0 .. k)
        /\ \A i \in 0 .. k + 1 : i # k + 1 => i \in 0 .. k
    BY <1>1
  <2>3. /\ g = [i \in 0 .. k + 1 |-> g[i]] /\ \A i \in 0 .. k : g[i] = f[i]
        /\ g[k + 1] = visit(f[k], k)
    BY <1>1, <2>2
  <2> HIDE DEF g
  <2>4. ASSUME NEW i \in 0 .. k
        PROVE  g[i] = Turn(g, i, n)
    BY <2>1, <2>2, <2>3 DEF Turn
  <2>5. g[k + 1] = Turn(g, k + 1, n)
    BY <2>2, <2>3 DEF Turn
  <2>6. Good(g, k + 1)
    BY <2>2, <2>3, <2>4, <2>5
  <2> HIDE DEF Good
  <2> QED
    BY <1>1, <2>2, <2>6
<1>4. N \in T
  <2> HIDE DEF T
  <2>1. \A k \in 0 .. N : k \in T
    BY <1>1, <1>2, <1>3, UpTo
  <2> QED
    BY <1>1, <2>1
<1>5. PICK f : Good(f, N)
  <2> HIDE DEF Good
  <2> QED
    BY <1>4
<1>6. f = [i \in 0 .. N |-> Turn(f, i, n)]
  BY <1>5
<1> DEFINE After == CHOOSE g : g = [i \in 0 .. N |-> Turn(g, i, n)]
<1>7. After = [i \in 0 .. N |-> Turn(After, i, n)]
  BY <1>6
<1>8. scan(n) = After[N]
  BY DEF scan, N, Turn
<1> HIDE DEF After
<1>9. \A i \in 0 .. N : After[i] = Turn(After, i, n)
  BY <1>7
<1>10. After[0] = [n |-> n, sel |-> {}]
  BY <1>1, <1>9 DEF Turn
<1>11. ASSUME NEW i \in 0 .. N - 1
       PROVE  After[i + 1] = visit(After[i], i)
  <2>1. i + 1 \in 0 .. N /\ i + 1 # 0 /\ (i + 1) - 1 = i
    BY <1>1
  <2> QED
    BY <1>9, <2>1 DEF Turn
<1> QED
  BY <1>8, <1>10, <1>11 DEF N

LEMMA ChannelsFinite ==
  ASSUME NEW S \in SUBSET Channels
  PROVE  IsFiniteSet(S) /\ Cardinality(S) \in Nat
<1>1. IsFiniteSet(Channels)
  BY NumChannelsAssumption, FS_Interval DEF Channels
<1> QED
  BY <1>1, FS_Subset, FS_CardinalityType

\* What the scan has selected, and how many are still wanted, when it has
\* visited the channels before i.
Scanned(s, i, n) ==
    /\ s.n \in Nat /\ s.sel \in SUBSET Channels
    /\ \A c \in s.sel : c < i /\ c \in FreeChannels
    /\ s.n + Cardinality(s.sel) = n
    /\ s.n # 0 => \A c \in FreeChannels : c < i => c \in s.sel
    /\ \A c \in s.sel, d \in FreeChannels : d < c => d \in s.sel

\* One turn of the scan keeps this.
LEMMA VisitSelects ==
  ASSUME NEW n \in Nat, NEW i \in Channels, NEW s, Scanned(s, i, n)
  PROVE  Scanned(visit(s, i), i + 1, n)
<1>1. i \in Nat /\ \A c \in Channels : c \in Nat
  BY NumChannelsAssumption DEF Channels
<1>2. \A c \in Channels : c < i + 1 <=> c < i \/ c = i
  BY <1>1
<1>3. FreeChannels \in SUBSET Channels
  BY DEF FreeChannels
<1>4. CASE s.n = 0 \/ ~isfree(i)
  <2>1. visit(s, i) = s
    BY <1>4 DEF visit
  <2>2. \A c \in s.sel : c < i + 1
    BY <1>2 DEF Scanned
  <2>3. s.n # 0 => \A c \in FreeChannels : c < i + 1 => c \in s.sel
    BY <1>2, <1>3, <1>4 DEF Scanned, FreeChannels, isfree
  <2> QED
    BY <2>1, <2>2, <2>3 DEF Scanned
<1>5. CASE s.n # 0 /\ isfree(i)
  <2> DEFINE t == visit(s, i)
  <2>1. t.n = s.n - 1 /\ t.sel = s.sel \cup {i}
    BY <1>5 DEF visit
  <2> HIDE DEF t
  <2>2. i \in FreeChannels /\ i \notin s.sel
    BY <1>1, <1>5 DEF FreeChannels, isfree, Scanned
  <2>3. IsFiniteSet(s.sel) /\ Cardinality(s.sel) \in Nat
    BY ChannelsFinite DEF Scanned
  <2>4. Cardinality(t.sel) = Cardinality(s.sel) + 1
    BY <2>1, <2>2, <2>3, FS_AddElement
  <2>5. t.n \in Nat /\ t.n + Cardinality(t.sel) = n
    BY <1>5, <2>1, <2>3, <2>4 DEF Scanned
  <2>6. t.sel \in SUBSET Channels /\ \A c \in t.sel : c < i + 1 /\ c \in FreeChannels
    BY <1>2, <2>1, <2>2 DEF Scanned
  <2>7. \A c \in FreeChannels : c < i + 1 => c \in t.sel
    BY <1>2, <1>3, <1>5, <2>1 DEF Scanned
  <2>8. ASSUME NEW c \in t.sel, NEW d \in FreeChannels, d < c
        PROVE  d \in t.sel
    <3>1. CASE c \in s.sel
      BY <2>1, <2>8, <3>1 DEF Scanned
    <3>2. CASE c = i
      BY <1>5, <2>1, <2>8, <3>2 DEF Scanned
    <3> QED
      BY <2>1, <3>1, <3>2
  <2> QED
    BY <2>5, <2>6, <2>7, <2>8 DEF Scanned, t
<1> QED
  BY <1>4, <1>5

\* The scan selects free channels only, none after one it leaves out, and comes
\* to n = 0 exactly when it has found as many as were asked for; otherwise it
\* has selected all that are free.
LEMMA ScanSelects ==
  ASSUME NEW n \in Nat
  PROVE  Scanned(scan(n), NumChannels, n)
<1>1. PICK f : /\ f[0] = [n |-> n, sel |-> {}]
               /\ \A i \in 0 .. NumChannels - 1 : f[i + 1] = visit(f[i], i)
               /\ scan(n) = f[NumChannels]
  BY ScanRuns
<1> DEFINE T == {i \in 0 .. NumChannels : Scanned(f[i], i, n)}
<1>2. 0 \in T
  <2>1. f[0].n = n /\ f[0].sel = {}
    BY <1>1
  <2>2. Cardinality({}) = 0 /\ \A c \in Channels : ~(c < 0)
    BY FS_EmptySet, NumChannelsAssumption DEF Channels
  <2>3. Scanned(f[0], 0, n)
    BY <2>1, <2>2 DEF Scanned, FreeChannels
  <2> QED
    BY <2>3, NumChannelsAssumption
<1>3. ASSUME NEW i \in 0 .. NumChannels - 1, i \in T
      PROVE  i + 1 \in T
  <2>1. Scanned(f[i + 1], i + 1, n)
    BY <1>1, <1>3, VisitSelects DEF Channels
  <2> QED
    BY <2>1, NumChannelsAssumption
<1>4. NumChannels \in T
  <2> HIDE DEF T
  <2>1. \A i \in 0 .. NumChannels : i \in T
    BY <1>2, <1>3, UpTo, NumChannelsAssumption
  <2> QED
    BY <2>1, NumChannelsAssumption
<1> QED
  BY <1>1, <1>4

\* The scan of m_SetChannels picks free channels only.
LEMMA SelectsFree ==
  ASSUME NEW n \in Nat
  PROVE  scan(n).sel \subseteq {c \in Channels : ~m_bSet[c]}
BY ScanSelects DEF Scanned, FreeChannels

\* A scan that comes to n = 0 has picked as many as were asked for, and no free
\* channel before one that it picks is left out.
LEMMA SelectsExactly ==
  ASSUME NEW n \in Nat, scan(n).n = 0
  PROVE  /\ Cardinality(scan(n).sel) = n
         /\ \A c \in scan(n).sel, d \in FreeChannels : d < c => d \in scan(n).sel
<1>1. Scanned(scan(n), NumChannels, n)
  BY ScanSelects
<1>2. Cardinality(scan(n).sel) \in Nat
  BY <1>1, ChannelsFinite DEF Scanned
<1> QED
  BY <1>1, <1>2 DEF Scanned

\* A scan comes to n = 0 exactly when enough channels are free.
LEMMA ScanFinds ==
  ASSUME NEW n \in Nat
  PROVE  scan(n).n # 0 <=> Cardinality(FreeChannels) < n
<1> DEFINE s == scan(n)
<1>1. Scanned(s, NumChannels, n) /\ FreeChannels \in SUBSET Channels
  BY ScanSelects DEF FreeChannels
<1> HIDE DEF s
<1>2. /\ s.n \in Nat /\ s.n + Cardinality(s.sel) = n /\ s.sel \subseteq FreeChannels
      /\ s.sel \in SUBSET Channels
  BY <1>1 DEF Scanned
<1>3. IsFiniteSet(FreeChannels) /\ Cardinality(s.sel) \in Nat /\ Cardinality(FreeChannels) \in Nat
  BY <1>1, <1>2, ChannelsFinite
<1>4. Cardinality(s.sel) <= Cardinality(FreeChannels)
  BY <1>2, <1>3, FS_Subset
<1>5. s.n # 0 => s.sel = FreeChannels
  <2>1. \A c \in FreeChannels : c < NumChannels
    BY NumChannelsAssumption DEF FreeChannels, Channels
  <2> QED
    BY <1>1, <1>2, <2>1 DEF Scanned
<1> QED
  BY <1>2, <1>3, <1>4, <1>5 DEF s

\* Whatever clients send, the arbitration state keeps its types (TypeOK).
THEOREM TypeCorrect == Spec => []TypeOK
<1> USE ClientAssumption, RequestsAssumption, NumChannelsAssumption
<1>1. Init => TypeOK
  BY DEF Init, TypeOK, Answer
<1>2. TypeOK /\ [Next]_vars => TypeOK'
  <2> SUFFICES ASSUME TypeOK, [Next]_vars
               PROVE  TypeOK'
    OBVIOUS
  <2>1. ASSUME NEW id \in ClientIds, NEW op \in {"SET", "FREE", "CHANNEL"}, NEW arg \in Nat,
               NEW code \in {"ack", "nak", "busy", "erraut"}, Refuse(id, op, arg, code)
        PROVE  TypeOK'
    BY <2>1 DEF Refuse, Reply, TypeOK, Answer
  <2>2. ASSUME NEW id \in ClientIds, NEW n \in Requests, m_SetChannels(id, n)
        PROVE  TypeOK'
    <3>1. CASE \E code \in {"nak", "busy"} : Refuse(id, "SET", n, code)
      BY <2>1, <3>1
    <3>2. CASE Grant(id, n, scan(n).sel)
      <4> DEFINE S == scan(n).sel
      <4>1. S \subseteq Channels
        BY SelectsFree
      <4>2. answer' \in Answer
        BY <3>2, <4>1 DEF Grant, Reply, Answer
      <4>3. m_bSet' \in [Channels -> BOOLEAN] /\ m_ClientId' \in [Channels -> ClientIds]
        BY <3>2 DEF Grant, set, TypeOK
      <4>4. /\ DOMAIN m_ClientECalcHash' \subseteq ClientIds
            /\ \A i \in DOMAIN m_ClientECalcHash' : m_ClientECalcHash'[i] \subseteq Channels
        BY <3>2, <4>1 DEF Grant, Remember, TypeOK
      <4>5. held' \in [ClientIds -> SUBSET Channels]
        BY <3>2, <4>1 DEF Grant, TypeOK
      <4> QED
        BY <4>2, <4>3, <4>4, <4>5 DEF TypeOK
    <3> QED
      BY <2>2, <3>1, <3>2 DEF m_SetChannels
  <2>3. ASSUME NEW id \in ClientIds, m_FreeChannels(id)
        PROVE  TypeOK'
    <3>1. CASE Refuse(id, "FREE", 0, "nak")
      BY <2>1, <3>1
    <3>2. CASE ~Refuse(id, "FREE", 0, "nak")
      <4>1. answer' \in Answer
        BY <2>3, <3>2 DEF m_FreeChannels, Reply, Answer
      <4>2. m_bSet' \in [Channels -> BOOLEAN] /\ held' \in [ClientIds -> SUBSET Channels]
        BY <2>3, <3>2 DEF m_FreeChannels, free, TypeOK
      <4>3. UNCHANGED <<m_ClientId, m_ClientECalcHash>>
        BY <2>3, <3>2 DEF m_FreeChannels
      <4> QED
        BY <4>1, <4>2, <4>3 DEF TypeOK
    <3> QED
      BY <3>1, <3>2
  <2>4. ASSUME NEW id \in ClientIds, MalformedFree(id)
        PROVE  TypeOK'
    BY <2>1, <2>4 DEF MalformedFree
  <2>5. ASSUME NEW id \in ClientIds, NEW c \in Channels, ChannelCommand(id, c)
        PROVE  TypeOK'
    BY <2>1, <2>5 DEF ChannelCommand, Channels
  <2>6. CASE UNCHANGED vars
    BY <2>6 DEF vars, TypeOK
  <2> QED
    BY <2>2, <2>3, <2>4, <2>5, <2>6 DEF Next
<1> QED
  BY <1>1, <1>2, PTL DEF Spec

-----------------------------------------------------------------------------
(* What SET hands out, whatever clients send.                              *)

\* A SET is all or nothing, and serves the first free channels of the list
\* (GrantIsExact), whatever clients send.
THEOREM GrantsExactly == Spec => GrantIsExact
<1> DEFINE Exact == Taken # {} \/ Answered("list") =>
              /\ answer'.chans = Taken
              /\ Cardinality(Taken) = answer'.arg
              /\ \A c \in Channels :
                    m_ClientId'[c] = IF c \in Taken THEN answer'.to ELSE m_ClientId[c]
              /\ \A c \in Taken, d \in Channels \ Taken : d < c => m_bSet[d]
<1>1. TypeOK /\ [Next]_vars => [Exact]_vars
  <2> SUFFICES ASSUME TypeOK, Next
               PROVE  Exact
    OBVIOUS
  <2>1. ASSUME NEW id, NEW op, NEW arg, NEW code \in {"ack", "nak", "busy", "erraut"},
               Refuse(id, op, arg, code)
        PROVE  Exact
    BY <2>1 DEF Refuse, Reply, Taken, Answered
  <2>2. ASSUME NEW id \in ClientIds, NEW n \in Nat, scan(n).n = 0, Grant(id, n, scan(n).sel)
        PROVE  Exact
    <3> DEFINE S == scan(n).sel
    <3>1. S \subseteq {c \in Channels : ~m_bSet[c]}
      BY SelectsFree
    <3>2. /\ Cardinality(S) = n
          /\ \A c \in S, d \in Channels : ~m_bSet[d] /\ d < c => d \in S
      BY <2>2, SelectsExactly DEF FreeChannels
    <3> HIDE DEF S
    <3>3. /\ m_bSet' = [c \in Channels |-> m_bSet[c] \/ c \in S]
          /\ m_ClientId' = [c \in Channels |-> IF c \in S THEN id ELSE m_ClientId[c]]
      BY <2>2, <3>1 DEF Grant, set, isfree, S
    <3>4. Taken = S
      BY <3>1, <3>3 DEF Taken
    <3>5. answer'.chans = S /\ answer'.arg = n /\ answer'.to = id
      BY <2>2 DEF Grant, Reply, S
    <3> QED
      BY <3>2, <3>3, <3>4, <3>5
  <2>3. ASSUME NEW id \in ClientIds, m_FreeChannels(id)
        PROVE  Exact
    <3>1. CASE Refuse(id, "FREE", 0, "nak")
      BY <2>1, <3>1
    <3>2. CASE ~Refuse(id, "FREE", 0, "nak")
      <4>1. \A c \in Channels : m_bSet'[c] => m_bSet[c]
        BY <2>3, <3>2 DEF m_FreeChannels, free, TypeOK
      <4>2. answer'.code = "ack"
        BY <2>3, <3>2 DEF m_FreeChannels, Reply
      <4> QED
        BY <4>1, <4>2 DEF Taken, Answered
    <3> QED
      BY <3>1, <3>2
  <2>4. ASSUME NEW id \in ClientIds, NEW n \in Requests, m_SetChannels(id, n)
        PROVE  Exact
    BY <2>1, <2>2, <2>4, RequestsAssumption DEF m_SetChannels
  <2>5. ASSUME NEW id \in ClientIds, NEW c \in Channels, ChannelCommand(id, c)
        PROVE  Exact
    BY <2>1, <2>5 DEF ChannelCommand
  <2>6. ASSUME NEW id \in ClientIds, MalformedFree(id)
        PROVE  Exact
    BY <2>1, <2>6 DEF MalformedFree
  <2> QED
    BY <2>3, <2>4, <2>5, <2>6 DEF Next
<1> QED
  BY <1>1, TypeCorrect, PTL DEF Spec, GrantIsExact

\* Busy is said exactly when too few channels are free, and changes nothing
\* (BusyIsHonest): what the counter of the scan comes to.
THEOREM BusyIsTrue == Spec => BusyIsHonest
<1> DEFINE Honest == answer' # answer /\ answer'.op = "SET" /\ answer'.code # "nak" =>
              /\ answer'.code = "busy" <=> Cardinality(FreeChannels) < answer'.arg
              /\ answer'.code = "busy" =>
                    UNCHANGED <<m_bSet, m_ClientId, m_ClientECalcHash>>
<1>1. [Next]_vars => [Honest]_vars
  <2> SUFFICES ASSUME Next
               PROVE  Honest
    OBVIOUS
  <2>1. ASSUME NEW id \in ClientIds, NEW n \in Requests, m_SetChannels(id, n)
        PROVE  Honest
    <3>1. n \in Nat /\ (scan(n).n # 0 <=> Cardinality(FreeChannels) < n)
      BY RequestsAssumption, ScanFinds
    <3>2. CASE scan(n).n # 0 /\ Refuse(id, "SET", n, "busy")
      BY <3>1, <3>2 DEF Refuse, Reply
    <3>3. CASE scan(n).n = 0 /\ Grant(id, n, scan(n).sel)
      BY <3>1, <3>3 DEF Grant, Reply
    <3>4. CASE Refuse(id, "SET", n, "nak")
      BY <3>4 DEF Refuse, Reply
    <3> QED
      BY <2>1, <3>2, <3>3, <3>4 DEF m_SetChannels
  <2> QED
    BY <2>1 DEF Next, m_FreeChannels, MalformedFree, ChannelCommand, Refuse, Reply
<1> QED
  BY <1>1, PTL DEF Spec, BusyIsHonest

-----------------------------------------------------------------------------
(* Disciplined clients.                                                    *)

\* A disciplined step is a step of the unrestricted system.
LEMMA DisciplinedTypeCorrect == DisciplinedSpec => []TypeOK
<1>1. [DisciplinedNext]_vars => [Next]_vars
  BY DEF DisciplinedNext, Next
<1> QED
  BY <1>1, TypeCorrect, PTL DEF DisciplinedSpec, Spec

\* The hash entry of a client that has channels names exactly those: what
\* makes HeldIsOccupied inductive, since FREE goes by the entry alone.
HashNamesHeld ==
    \A id \in ClientIds : held[id] # {} =>
        id \in DOMAIN m_ClientECalcHash /\ m_ClientECalcHash[id] = held[id]

HeldInv == HeldIsOccupied /\ HashNamesHeld

\* The two ways a disciplined step changes who holds what; every other step
\* leaves the arbitration state alone.
LEMMA DisciplinedSteps ==
  ASSUME TypeOK, [DisciplinedNext]_vars
  PROVE  \/ \E id \in ClientIds, n \in Requests :
               held[id] = {} /\ Grant(id, n, scan(n).sel)
         \/ \E id \in ClientIds :
               /\ held[id] # {} /\ id \in DOMAIN m_ClientECalcHash
               /\ m_FreeChannels(id)
         \/ UNCHANGED <<m_bSet, m_ClientId, m_ClientECalcHash, held>>
BY DEF DisciplinedNext, m_SetChannels, m_FreeChannels, MalformedFree, ChannelCommand,
       Refuse, vars

\* What clients hold is what is occupied in their names, and the hash names it.
THEOREM HeldInvariant == DisciplinedSpec => []HeldInv
<1>1. Init => HeldInv
  BY DEF Init, HeldInv, HeldIsOccupied, HashNamesHeld
<1>2. TypeOK /\ HeldInv /\ [DisciplinedNext]_vars => HeldInv'
  <2> SUFFICES ASSUME TypeOK, HeldInv, [DisciplinedNext]_vars
               PROVE  HeldInv'
    OBVIOUS
  <2> USE DEF HeldInv
  <2>1. ASSUME NEW id \in ClientIds, NEW n \in Requests, held[id] = {},
               Grant(id, n, scan(n).sel)
        PROVE  HeldInv'
    <3> DEFINE S == scan(n).sel
    <3>1. S \subseteq {c \in Channels : ~m_bSet[c]}
      BY SelectsFree, RequestsAssumption
    <3>2. \A c \in Channels :
             /\ m_bSet'[c] <=> m_bSet[c] \/ c \in S
             /\ m_ClientId'[c] = IF c \in S THEN id ELSE m_ClientId[c]
      BY <2>1, <3>1 DEF Grant, set, isfree
    <3>3. \A i \in ClientIds : held'[i] = IF i = id THEN S ELSE held[i]
      BY <2>1 DEF Grant, TypeOK
    <3>4. HeldIsOccupied'
      <4> SUFFICES ASSUME NEW i \in ClientIds
                   PROVE  held'[i] = {c \in Channels : m_bSet'[c] /\ m_ClientId'[c] = i}
        BY DEF HeldIsOccupied, Channels
      <4>1. held[i] = {c \in Channels : m_bSet[c] /\ m_ClientId[c] = i}
        BY DEF HeldIsOccupied
      <4> HIDE DEF S
      <4> QED
        BY <2>1, <3>1, <3>2, <3>3, <4>1
    <3>5. HashNamesHeld'
      BY <2>1, <3>3 DEF Grant, Remember, HashNamesHeld
    <3> QED
      BY <3>4, <3>5
  <2>2. ASSUME NEW id \in ClientIds, held[id] # {}, id \in DOMAIN m_ClientECalcHash,
               m_FreeChannels(id)
        PROVE  HeldInv'
    <3>1. m_ClientECalcHash[id] = held[id]
      BY <2>2 DEF HashNamesHeld
    <3>2. \A c \in Channels : m_bSet'[c] <=> m_bSet[c] /\ c \notin held[id]
      BY <2>2, <3>1 DEF m_FreeChannels, free
    <3>3. \A i \in ClientIds : held'[i] = IF i = id THEN {} ELSE held[i]
      BY <2>2 DEF m_FreeChannels, TypeOK
    <3>4. UNCHANGED <<m_ClientId, m_ClientECalcHash>>
      BY <2>2 DEF m_FreeChannels
    <3>5. HeldIsOccupied'
      <4> SUFFICES ASSUME NEW i \in ClientIds
                   PROVE  held'[i] = {c \in Channels : m_bSet'[c] /\ m_ClientId'[c] = i}
        BY DEF HeldIsOccupied, Channels
      <4>1. \A j \in ClientIds :
               held[j] = {c \in Channels : m_bSet[c] /\ m_ClientId[c] = j}
        BY DEF HeldIsOccupied
      <4> QED
        BY <3>2, <3>3, <3>4, <4>1
    <3>6. HashNamesHeld'
      BY <3>3, <3>4 DEF HashNamesHeld
    <3> QED
      BY <3>5, <3>6
  <2>3. CASE UNCHANGED <<m_bSet, m_ClientId, m_ClientECalcHash, held>>
    BY <2>3 DEF HeldIsOccupied, HashNamesHeld
  <2> QED
    BY <2>1, <2>2, <2>3, DisciplinedSteps
<1> QED
  BY <1>1, <1>2, DisciplinedTypeCorrect, PTL DEF DisciplinedSpec

\* What a client was given and has not given back is occupied in its name, and
\* nothing else is (HeldIsOccupied).
THEOREM NothingLost == DisciplinedSpec => []HeldIsOccupied
BY HeldInvariant, PTL DEF HeldInv

\* FREE always finds the channels a client was given (SetChannelsInHash).
THEOREM HashComplete == DisciplinedSpec => []SetChannelsInHash
<1>1. TypeOK /\ HeldInv => SetChannelsInHash
  BY DEF TypeOK, HeldInv, HeldIsOccupied, HashNamesHeld, SetChannelsInHash
<1> QED
  BY <1>1, DisciplinedTypeCorrect, HeldInvariant, PTL

\* Only a FREE of the client a channel was given to takes its mark away
\* (OnlyOwnerFrees).
THEOREM FreesOwnOnly == DisciplinedSpec => OnlyOwnerFrees
<1>1. TypeOK /\ HeldInv /\ [DisciplinedNext]_vars =>
        [\A c \in Channels : m_bSet[c] /\ ~m_bSet'[c] =>
            answer'.to = m_ClientId[c] /\ answer'.op = "FREE"]_vars
  <2> SUFFICES ASSUME TypeOK, HeldInv, [DisciplinedNext]_vars,
                      NEW c \in Channels, m_bSet[c], ~m_bSet'[c]
               PROVE  answer'.to = m_ClientId[c] /\ answer'.op = "FREE"
    OBVIOUS
  <2>1. ASSUME NEW id \in ClientIds, NEW n \in Requests, Grant(id, n, scan(n).sel)
        PROVE  FALSE
    BY <2>1 DEF Grant, set
  <2>2. ASSUME NEW id \in ClientIds, held[id] # {}, id \in DOMAIN m_ClientECalcHash,
               m_FreeChannels(id)
        PROVE  answer'.to = m_ClientId[c] /\ answer'.op = "FREE"
    <3>1. c \in m_ClientECalcHash[id]
      BY <2>2 DEF m_FreeChannels, free
    <3>2. m_ClientId[c] = id
      BY <2>2, <3>1 DEF HeldInv, HeldIsOccupied, HashNamesHeld
    <3> QED
      BY <2>2, <3>2 DEF m_FreeChannels, Reply
  <2> QED
    BY <2>1, <2>2, DisciplinedSteps
<1> QED
  BY <1>1, DisciplinedTypeCorrect, HeldInvariant, PTL DEF DisciplinedSpec, OnlyOwnerFrees

\* An accepted command never reaches a channel of somebody else and no client
\* is refused on its own (WriteAuthority).
THEOREM AuthorityRespected == DisciplinedSpec => WriteAuthority
<1>1. TypeOK /\ HeldInv /\ [DisciplinedNext]_vars =>
        [/\ Answered("ack") /\ answer'.op = "CHANNEL" =>
               \A id \in ClientIds \ {answer'.to} : answer'.arg \notin held[id]
         /\ Answered("erraut") => answer'.arg \notin held[answer'.to]]_vars
  <2> SUFFICES ASSUME TypeOK, HeldInv, DisciplinedNext
               PROVE  /\ Answered("ack") /\ answer'.op = "CHANNEL" =>
                            \A id \in ClientIds \ {answer'.to} : answer'.arg \notin held[id]
                      /\ Answered("erraut") => answer'.arg \notin held[answer'.to]
    BY DEF Answered, vars
  <2>1. ASSUME NEW id \in ClientIds, NEW c \in Channels, ChannelCommand(id, c)
        PROVE  /\ answer'.to = id /\ answer'.arg = c
               /\ answer'.code = "ack" => m_ClientId[c] = id
               /\ answer'.code = "erraut" => m_ClientId[c] # id
    BY <2>1 DEF ChannelCommand, Refuse, Reply, authorized
  <2>2. CASE \E id \in ClientIds, c \in Channels : ChannelCommand(id, c)
    BY <2>1, <2>2 DEF Answered, HeldInv, HeldIsOccupied
  <2>3. CASE \E id \in ClientIds, n \in Requests : m_SetChannels(id, n)
    BY <2>3 DEF m_SetChannels, Grant, Refuse, Reply, Answered
  <2>4. CASE \E id \in ClientIds : m_FreeChannels(id) \/ MalformedFree(id)
    BY <2>4 DEF m_FreeChannels, MalformedFree, Refuse, Reply, Answered
  <2> QED
    BY <2>2, <2>3, <2>4 DEF DisciplinedNext
<1> QED
  BY <1>1, DisciplinedTypeCorrect, HeldInvariant, PTL DEF DisciplinedSpec, WriteAuthority

\* Disciplined clients see the allocator of ChannelAllocation
\* (ImplementsAllocation).
THEOREM Implements == DisciplinedSpec => ImplementsAllocation
<1>1. Init => Alloc!AllocInit
  BY DEF Init, Alloc!AllocInit, Owner
<1>2. TypeOK /\ HeldInv /\ [DisciplinedNext]_vars => [Alloc!AllocNext]_Owner
  <2> SUFFICES ASSUME TypeOK, HeldInv, [DisciplinedNext]_vars
               PROVE  [Alloc!AllocNext]_Owner
    OBVIOUS
  <2>1. ASSUME NEW id \in ClientIds
        PROVE  Alloc!Owned(id) = held[id]
    BY <2>1, ClientAssumption DEF Alloc!Owned, Owner, HeldInv, HeldIsOccupied, TypeOK
  <2>2. Alloc!Owned(Nobody) = {c \in Channels : ~m_bSet[c]}
    BY ClientAssumption DEF Alloc!Owned, Owner, TypeOK
  <2>3. ASSUME NEW id \in ClientIds, NEW n \in Requests, held[id] = {},
               Grant(id, n, scan(n).sel)
        PROVE  [Alloc!AllocNext]_Owner
    <3> DEFINE S == scan(n).sel
    <3>1. S \subseteq {c \in Channels : ~m_bSet[c]}
      BY SelectsFree, RequestsAssumption
    <3> HIDE DEF S
    <3>2. Owner' = [c \in Channels |-> IF c \in S THEN id ELSE Owner[c]]
      BY <2>3, <3>1 DEF Grant, set, isfree, Owner, Channels, S
    <3>3. CASE S = {}
      BY <3>2, <3>3 DEF Owner
    <3>4. CASE S # {}
      <4>1. Alloc!Acquire(id, S)
        BY <2>1, <2>2, <2>3, <3>1, <3>2, <3>4 DEF Alloc!Acquire
      <4> QED
        BY <3>1, <4>1 DEF Alloc!AllocNext
    <3> QED
      BY <3>3, <3>4
  <2>4. ASSUME NEW id \in ClientIds, held[id] # {}, id \in DOMAIN m_ClientECalcHash,
               m_FreeChannels(id)
        PROVE  [Alloc!AllocNext]_Owner
    <3>1. m_ClientECalcHash[id] = Alloc!Owned(id)
      BY <2>1, <2>4 DEF HeldInv, HashNamesHeld
    <3>2. Owner' = [c \in Channels |-> IF Owner[c] = id THEN Nobody ELSE Owner[c]]
      BY <2>4, <3>1 DEF m_FreeChannels, free, Owner, Alloc!Owned, Channels
    <3>3. Alloc!Release(id)
      BY <2>1, <2>4, <3>2 DEF Alloc!Release
    <3> QED
      BY <3>3 DEF Alloc!AllocNext
  <2>5. CASE UNCHANGED <<m_bSet, m_ClientId, m_ClientECalcHash, held>>
    BY <2>5 DEF Owner, Channels
  <2> QED
    BY <2>3, <2>4, <2>5, DisciplinedSteps
<1> QED
  BY <1>1, <1>2, DisciplinedTypeCorrect, HeldInvariant, PTL
  DEF DisciplinedSpec, ImplementsAllocation, Alloc!AllocSpec
=============================================================================
