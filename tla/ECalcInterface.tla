-------------------------- MODULE ECalcInterface --------------------------
(***************************************************************************)
(* Arbitration of the error calculator channels (ecalcinterface.cpp and    *)
(* the arbitration half of ecalcchannel.cpp).  Clients are told apart only *)
(* by the client id of their message; old style messages carry none, so    *)
(* all of them act as the client EmptyId.  Every command runs to its end   *)
(* within one turn of the event loop, so each is one step.                 *)
(***************************************************************************)
EXTENDS Naturals, FiniteSets

CONSTANTS
    NumChannels,    \* configured number of error calculators
    ClientIds,      \* client ids, EmptyId among them
    EmptyId,        \* the empty QByteArray
    Nobody,         \* no client: the owner of a channel that is not set
    Requests        \* parameters of ECALCULATOR:SET; 0 stands for every
                    \* parameter that is not a number from 1 to MaxRequest

ASSUME NumChannelsAssumption == NumChannels \in Nat
ASSUME ClientAssumption == EmptyId \in ClientIds /\ Nobody \notin ClientIds
ASSUME RequestsAssumption == Requests \subseteq Nat

VARIABLES
    m_bSet,             \* per channel: is it occupied?
    m_ClientId,         \* per channel: the client it was last given to
    m_ClientECalcHash,  \* QHash: client id -> the channels of its last SET
    answer,             \* the last command and its answer
    held                \* history: the channels each client was given and
                        \* has not had a FREE acknowledged for since

vars == <<m_bSet, m_ClientId, m_ClientECalcHash, answer, held>>

Channels == 0 .. NumChannels - 1
MaxRequest == 4

Answer == [to : ClientIds, op : {"none", "SET", "FREE", "CHANNEL"}, arg : Nat,
           code : {"ack", "nak", "busy", "erraut", "list"}, chans : SUBSET Channels]

TypeOK ==
    /\ m_bSet \in [Channels -> BOOLEAN]
    /\ m_ClientId \in [Channels -> ClientIds]
    /\ DOMAIN m_ClientECalcHash \subseteq ClientIds
    /\ \A id \in DOMAIN m_ClientECalcHash : m_ClientECalcHash[id] \subseteq Channels
    /\ answer \in Answer
    /\ held \in [ClientIds -> SUBSET Channels]

Reply(id, op, arg, code, chans) ==
    answer' = [to |-> id, op |-> op, arg |-> arg, code |-> code, chans |-> chans]

-----------------------------------------------------------------------------
(* cECalculatorChannel: isfree, set, free.                                 *)

isfreeAlways(c) == TRUE                          \* mutant: occupation ignored
isfree(c) == ~m_bSet[c]

setRestamps(S, id) ==                            \* mutant: the old mark ignored
    /\ m_bSet' = [c \in Channels |-> m_bSet[c] \/ c \in S]
    /\ m_ClientId' = [c \in Channels |-> IF m_bSet[c] \/ c \in S THEN id ELSE m_ClientId[c]]
set(S, id) ==
    /\ m_bSet' = [c \in Channels |-> m_bSet[c] \/ c \in S]
    /\ m_ClientId' = [c \in Channels |-> IF c \in S /\ isfree(c) THEN id ELSE m_ClientId[c]]

freeAll(S) == m_bSet' = [c \in Channels |-> FALSE]   \* mutant: every channel
freeOne(S) ==                                    \* mutant: the loop stops early
    m_bSet' = [c \in Channels |-> m_bSet[c] /\ ~(c \in S /\ \A d \in S : c <= d)]
free(S) == m_bSet' = [c \in Channels |-> m_bSet[c] /\ c \notin S]

-----------------------------------------------------------------------------
(* cECalculatorInterface: SET and FREE.                                    *)

\* One turn of the scan over the channel list, at the channel of index i: sel is
\* selEChannels, and n the number still wanted, where the loop ends when it is 0.
visitNext(s, i) ==                               \* mutant: takes the next entry
    IF s.n = 0 \/ ~isfree(i) THEN s ELSE [n |-> s.n - 1, sel |-> s.sel \cup {i + 1}]
visit(s, i) ==
    IF s.n = 0 \/ ~isfree(i) THEN s ELSE [n |-> s.n - 1, sel |-> s.sel \cup {i}]

\* The scan for n channels: what is left of n and what has been selected after
\* the first i entries of the list, and at its end.
scanShort(n) ==                                  \* mutant: skips the last entry
    LET after[i \in 0 .. NumChannels] ==
            IF i = 0 THEN [n |-> n, sel |-> {}] ELSE visit(after[i - 1], i - 1)
    IN  IF NumChannels = 0 THEN after[0] ELSE after[NumChannels - 1]
scan(n) ==
    LET after[i \in 0 .. NumChannels] ==
            IF i = 0 THEN [n |-> n, sel |-> {}] ELSE visit(after[i - 1], i - 1)
    IN  after[NumChannels]

\* m_ClientECalcHash[id] = s: the earlier entry of the client is overwritten.
RememberFirst(id, S) ==                          \* mutant: insert only if absent
    m_ClientECalcHash' =
        [i \in DOMAIN m_ClientECalcHash \cup {id} |->
            IF i \in DOMAIN m_ClientECalcHash THEN m_ClientECalcHash[i] ELSE S]
Remember(id, S) ==
    m_ClientECalcHash' =
        [i \in DOMAIN m_ClientECalcHash \cup {id} |->
            IF i = id THEN S ELSE m_ClientECalcHash[i]]

Refuse(id, op, arg, code) ==
    /\ Reply(id, op, arg, code, {})
    /\ UNCHANGED <<m_bSet, m_ClientId, m_ClientECalcHash, held>>

Grant(id, n, S) ==
    /\ Reply(id, "SET", n, "list", S)
    /\ Remember(id, S)
    /\ set(S, id)
    /\ held' = [held EXCEPT ![id] = @ \cup S]

m_SetChannels(id, n) ==
    \/ n \notin 1 .. MaxRequest /\ Refuse(id, "SET", n, "nak")
    \/ n \in 1 .. MaxRequest /\ scan(n).n # 0 /\ Refuse(id, "SET", n, "busy")
    \/ n \in 1 .. MaxRequest /\ scan(n).n = 0 /\ Grant(id, n, scan(n).sel)

\* FREE looks its channels up under the client id and frees each of them; the
\* hash entry stays.
m_FreeChannels(id) ==
    \/ id \notin DOMAIN m_ClientECalcHash /\ Refuse(id, "FREE", 0, "nak")
    \/ /\ id \in DOMAIN m_ClientECalcHash
       /\ free(m_ClientECalcHash[id])
       /\ Reply(id, "FREE", 0, "ack", {})
       /\ held' = [held EXCEPT ![id] = {}]
       /\ UNCHANGED <<m_ClientId, m_ClientECalcHash>>

\* FREE with a parameter is not understood.
MalformedFree(id) == Refuse(id, "FREE", 0, "nak")

\* Every command that writes a channel's registers first compares client ids.
authorizedAnyone(id, c) == TRUE                  \* mutant: check dropped
authorized(id, c) == id = m_ClientId[c]

ChannelCommand(id, c) ==
    Refuse(id, "CHANNEL", c, IF authorized(id, c) THEN "ack" ELSE "erraut")

-----------------------------------------------------------------------------
Init ==
    /\ m_bSet = [c \in Channels |-> FALSE]
    /\ m_ClientId = [c \in Channels |-> EmptyId]
    /\ m_ClientECalcHash = [i \in {} |-> {}]
    /\ answer = [to |-> EmptyId, op |-> "none", arg |-> 0, code |-> "ack", chans |-> {}]
    /\ held = [id \in ClientIds |-> {}]

\* Any client may send any command at any time.
Next ==
    \E id \in ClientIds :
        \/ \E n \in Requests : m_SetChannels(id, n)
        \/ m_FreeChannels(id)
        \/ MalformedFree(id)
        \/ \E c \in Channels : ChannelCommand(id, c)

Spec == Init /\ [][Next]_vars

\* Clients that ask for channels only while they have none and give back only
\* what they have.  They may address any channel.
DisciplinedNext ==
    \E id \in ClientIds :
        \/ held[id] = {} /\ \E n \in Requests : m_SetChannels(id, n)
        \/ held[id] # {} /\ m_FreeChannels(id)
        \/ MalformedFree(id)
        \/ \E c \in Channels : ChannelCommand(id, c)

DisciplinedSpec == Init /\ [][DisciplinedNext]_vars

-----------------------------------------------------------------------------
(* Properties.                                                             *)

\* The command of this step was answered with code.
Answered(code) == answer' # answer /\ answer'.code = code

Taken == {c \in Channels : ~m_bSet[c] /\ m_bSet'[c]}

\* A SET is all or nothing: the channels of its answer are exactly those that
\* went from free to occupied, as many as were asked for, the first free ones
\* of the list, and only they change hands (the loops of m_SetChannels, and
\* the return value of set() that it ignores).
GrantIsExact ==
    [][ Taken # {} \/ Answered("list") =>
            /\ answer'.chans = Taken
            /\ Cardinality(Taken) = answer'.arg
            /\ \A c \in Channels :
                  m_ClientId'[c] = IF c \in Taken THEN answer'.to ELSE m_ClientId[c]
            /\ \A c \in Taken, d \in Channels \ Taken : d < c => m_bSet[d] ]_vars

FreeChannels == {c \in Channels : ~m_bSet[c]}

\* A SET is answered busy exactly when fewer channels are free than it asks
\* for, wherever in the list they are, and then leaves every mark alone (the
\* counter of the scan, which is decremented and tested in the same turn, and
\* the channels it has collected by then).
BusyIsHonest ==
    [][ answer' # answer /\ answer'.op = "SET" /\ answer'.code # "nak" =>
            /\ answer'.code = "busy" <=> Cardinality(FreeChannels) < answer'.arg
            /\ answer'.code = "busy" =>
                  UNCHANGED <<m_bSet, m_ClientId, m_ClientECalcHash>> ]_vars

\* What a client was given and has not given back is occupied in its name, and
\* a channel is occupied only for a client that still has it: no channel is
\* lost and none is given out twice (set, free and the hash taken together).
HeldIsOccupied ==
    \A id \in ClientIds : held[id] = {c \in Channels : m_bSet[c] /\ m_ClientId[c] = id}

\* "We hold the set ecalculators by clientid" (ecalcinterface.h): a channel
\* that is set is listed under its client, so that FREE can find it.
SetChannelsInHash ==
    \A c \in Channels : m_bSet[c] =>
        /\ m_ClientId[c] \in DOMAIN m_ClientECalcHash
        /\ c \in m_ClientECalcHash[m_ClientId[c]]

\* "We mark if the channel is occupied" (ecalcchannel.h): the mark of a channel
\* is taken away only by a FREE of the client the channel was given to.
OnlyOwnerFrees ==
    [][ \A c \in Channels : m_bSet[c] /\ ~m_bSet'[c] =>
            answer'.to = m_ClientId[c] /\ answer'.op = "FREE" ]_vars

\* Whether a channel obeys a client agrees with who was given it: an accepted
\* command never reaches a channel some other client has, and no client is
\* refused on a channel of its own (the comparison of client ids).
WriteAuthority ==
    [][ /\ Answered("ack") /\ answer'.op = "CHANNEL" =>
              \A id \in ClientIds \ {answer'.to} : answer'.arg \notin held[id]
        /\ Answered("erraut") => answer'.arg \notin held[answer'.to] ]_vars

Owner == [c \in Channels |-> IF m_bSet[c] THEN m_ClientId[c] ELSE Nobody]

Alloc == INSTANCE ChannelAllocation WITH owner <- Owner

\* Seen from outside, disciplined clients use an allocator in which each
\* channel has at most one owner and a release returns exactly the client's
\* own channels.
ImplementsAllocation == Alloc!AllocSpec
=============================================================================
