--------------------------- MODULE InputSettings ---------------------------
(***************************************************************************)
(* The table of inputs the channels' multiplexers can select               *)
(* (inputsettings.cpp), as it grows while the XML reader (external)        *)
(* reports the elements of the configuration file in their order.  The     *)
(* schema (sec1000d.xsd) puts n first, then the inputs it lists by         *)
(* number, each with its name before its muxer.                            *)
(***************************************************************************)
EXTENDS Naturals, Sequences

CONSTANT Documents      \* the inputs elements of possible configuration files

\* sec1000d.xsd: n from 1 to 32, inputs numbered upwards, muxers of five bits.
ASSUME DocumentsAssumption ==
    \A d \in Documents :
        /\ d.n \in 1 .. 32
        /\ d.inputs \in Seq([i : 1 .. 32, name : STRING, muxer : 0 .. 31])
        /\ \A k \in DOMAIN d.inputs, l \in DOMAIN d.inputs :
              l < k => d.inputs[l].i < d.inputs[k].i

VARIABLES
    document,       \* the inputs element being read
    pos,            \* its elements read so far: n, name, muxer, name, muxer ...
    configured,     \* the reader has finished
    m_nCount,       \* number of inputs; their keys are in m_ConfigXMLMap
    actName,        \* the name read last
    muxInfoHash     \* name -> muxer

settingsVars == <<document, pos, configured, m_nCount, actName, muxInfoHash>>

NoDocument == [n |-> 0, inputs |-> <<>>]
Size == 1 + 2 * Len(document.inputs)

SettingsTypeOK ==
    /\ document \in Documents \cup {NoDocument}
    /\ pos \in 0 .. Size
    /\ configured \in BOOLEAN
    /\ m_nCount \in 0 .. 32
    /\ \A name \in DOMAIN muxInfoHash : muxInfoHash[name] \in 0 .. 31

-----------------------------------------------------------------------------
setinputname1 == 16
setinputmuxer1 == 48

hasInput(name) == name \in DOMAIN muxInfoHash
mux(name) == muxInfoHash[name]

\* Which inputs have keys once n is known.
hasKeyShort(i) == i < m_nCount                   \* mutant: loop ends too early
hasKey(i) == i <= m_nCount

setNumber ==
    /\ m_nCount' = document.n
    /\ UNCHANGED <<actName, muxInfoHash>>

\* The element of an input: its command tells name from muxer.
setInput(input, cmd) ==
    /\ IF cmd >= setinputname1 /\ cmd < setinputname1 + 32
       THEN actName' = input.name /\ UNCHANGED muxInfoHash
       ELSE /\ muxInfoHash' =
                  [name \in DOMAIN muxInfoHash \cup {actName} |->
                      IF name = actName THEN input.muxer ELSE muxInfoHash[name]]
            /\ UNCHANGED actName
    /\ UNCHANGED m_nCount

\* The reader reports the next element.
configXMLInfo ==
    /\ ~configured
    /\ pos < Size
    /\ pos' = pos + 1
    /\ IF pos = 0
       THEN setNumber
       ELSE LET input == document.inputs[(pos + 1) \div 2]
                first == IF pos % 2 = 1 THEN setinputname1 ELSE setinputmuxer1
            IN  IF hasKey(input.i)
                THEN setInput(input, first + input.i - 1)
                ELSE UNCHANGED <<m_nCount, actName, muxInfoHash>>
    /\ UNCHANGED <<document, configured>>

finishedParsingXML ==
    /\ pos = Size /\ ~configured
    /\ configured' = TRUE
    /\ document' = NoDocument
    /\ pos' = 0
    /\ UNCHANGED <<m_nCount, actName, muxInfoHash>>

SettingsInit ==
    /\ document \in Documents
    /\ pos = 0
    /\ configured = FALSE
    /\ m_nCount = 0
    /\ actName = ""
    /\ muxInfoHash = [name \in {} |-> 0]

-----------------------------------------------------------------------------
\* When all has been read, the table has exactly the names of the first n
\* inputs, each with its own muxer, that of the last one when a name occurs
\* twice: no name is paired with the muxer of another input, whatever numbers
\* are left out and wherever n cuts the list (configXMLInfo, which keeps the
\* name of one call for the next).
MuxAsConfigured ==
    ~configured /\ pos = Size =>
        LET inputs == document.inputs
            used == {k \in DOMAIN inputs : inputs[k].i <= document.n}
        IN  /\ DOMAIN muxInfoHash = {inputs[k].name : k \in used}
            /\ \A k \in used :
                  (\A l \in used : l > k => inputs[l].name # inputs[k].name)
                      => mux(inputs[k].name) = inputs[k].muxer
=============================================================================
