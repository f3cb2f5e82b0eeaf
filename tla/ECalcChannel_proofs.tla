------------------------ MODULE ECalcChannel_proofs ------------------------
(* Theorems about the input table and the registers, for every             *)
(* configuration file the schema admits and every command.                 *)
EXTENDS ECalcChannel, TLAPS

-----------------------------------------------------------------------------
(* The input table.                                                        *)

Input == [i : 1 .. 32, name : STRING, muxer : 0 .. 31]

\* The inputs whose two elements have been read and were not cut off by n.
Done ==
    {k \in DOMAIN document.inputs : document.inputs[k].i <= document.n /\ 2 * k + 1 <= pos}

\* While the file is read: the table is right for the inputs done so far, and
\* between the two elements of an input actName is its name.
Table ==
    ~configured =>
        /\ document \in Documents
        /\ pos > 0 => m_nCount = document.n
        /\ DOMAIN muxInfoHash = {document.inputs[k].name : k \in Done}
        /\ \A k \in Done :
              (\A l \in Done : l > k => document.inputs[l].name # document.inputs[k].name)
                  => muxInfoHash[document.inputs[k].name] = document.inputs[k].muxer
        /\ \A k \in DOMAIN document.inputs :
              pos = 2 * k /\ document.inputs[k].i <= document.n
                  => actName = document.inputs[k].name

LEMMA DocumentTypes ==
  ASSUME SettingsTypeOK, document \in Documents
  PROVE  /\ document.n \in 1 .. 32
         /\ document.inputs \in Seq(Input)
         /\ Len(document.inputs) \in Nat
         /\ DOMAIN document.inputs = 1 .. Len(document.inputs)
         /\ \A k \in DOMAIN document.inputs :
               /\ k \in Nat \ {0}
               /\ document.inputs[k].i \in 1 .. 32
               /\ document.inputs[k].muxer \in 0 .. 31
         /\ pos \in Nat /\ pos <= 1 + 2 * Len(document.inputs)
<1>1. document.n \in 1 .. 32 /\ document.inputs \in Seq(Input)
  BY DocumentsAssumption DEF Input
<1>2. Len(document.inputs) \in Nat /\ DOMAIN document.inputs = 1 .. Len(document.inputs)
  BY <1>1
<1>3. \A k \in DOMAIN document.inputs : document.inputs[k] \in Input
  BY <1>1
<1>4. pos \in Nat /\ pos <= 1 + 2 * Len(document.inputs)
  BY <1>2 DEF SettingsTypeOK, Size
<1>5. QED
  BY <1>1, <1>2, <1>3, <1>4 DEF Input

\* What reading an element does: n, then the name and the muxer of each input
\* in turn.  An input whose number is above n has no key.
NumberRead == pos = 0 /\ m_nCount' = document.n /\ UNCHANGED <<actName, muxInfoHash>>

NameRead(j) ==
    /\ pos = 2 * j - 1
    /\ UNCHANGED <<m_nCount, muxInfoHash>>
    /\ document.inputs[j].i <= document.n => actName' = document.inputs[j].name

MuxerRead(j) ==
    /\ pos = 2 * j
    /\ UNCHANGED <<m_nCount, actName>>
    /\ IF document.inputs[j].i <= document.n
       THEN muxInfoHash' =
              [name \in DOMAIN muxInfoHash \cup {actName} |->
                 IF name = actName THEN document.inputs[j].muxer ELSE muxInfoHash[name]]
       ELSE muxInfoHash' = muxInfoHash

LEMMA ReadElement ==
  ASSUME SettingsTypeOK, Table, configXMLInfo
  PROVE  /\ document \in Documents /\ document' = document
         /\ ~configured /\ ~configured'
         /\ pos' = pos + 1 /\ pos' <= 1 + 2 * Len(document.inputs)
         /\ \/ NumberRead
            \/ \E j \in DOMAIN document.inputs : NameRead(j)
            \/ \E j \in DOMAIN document.inputs : MuxerRead(j)
<1>1. ~configured /\ document \in Documents
  BY DEF configXMLInfo, Table
<1>2. /\ pos \in Nat /\ Len(document.inputs) \in Nat
      /\ DOMAIN document.inputs = 1 .. Len(document.inputs)
  BY <1>1, DocumentTypes
<1>3. /\ document' = document /\ ~configured' /\ pos' = pos + 1
      /\ pos < 1 + 2 * Len(document.inputs)
  BY <1>1 DEF configXMLInfo, Size
<1>4. pos' <= 1 + 2 * Len(document.inputs)
  BY <1>2, <1>3
<1>5. ASSUME pos = 0 PROVE NumberRead
  BY <1>5 DEF configXMLInfo, setNumber, NumberRead
<1>6. ASSUME pos > 0
      PROVE  \/ \E k \in DOMAIN document.inputs : NameRead(k)
             \/ \E k \in DOMAIN document.inputs : MuxerRead(k)
  <2> DEFINE j == (pos + 1) \div 2
             first == IF pos % 2 = 1 THEN setinputname1 ELSE setinputmuxer1
             input == document.inputs[j]
  <2>1. j \in 1 .. Len(document.inputs)
    BY <1>2, <1>3, <1>6
  <2>2. \/ pos % 2 = 1 /\ pos = 2 * j - 1
        \/ pos % 2 = 0 /\ pos = 2 * j
    BY <1>2
  <2>3. input.i \in 1 .. 32 /\ m_nCount = document.n /\ document.n \in 1 .. 32
    BY <1>1, <1>2, <1>6, <2>1, DocumentTypes DEF Table
  <2>4. IF input.i <= document.n
        THEN setInput(input, first + input.i - 1)
        ELSE UNCHANGED <<m_nCount, actName, muxInfoHash>>
    BY <1>6, <2>3 DEF configXMLInfo, hasKey
  <2>5. CASE pos % 2 = 1 /\ pos = 2 * j - 1
    <3>1. first + input.i - 1 >= setinputname1 /\ first + input.i - 1 < setinputname1 + 32
      BY <2>3, <2>5 DEF setinputname1
    <3>2. NameRead(j)
      BY <2>3, <2>4, <2>5, <3>1 DEF setInput, NameRead
    <3>3. QED
      BY <1>2, <2>1, <3>2
  <2>6. CASE pos % 2 = 0 /\ pos = 2 * j
    <3>1. ~(first + input.i - 1 < setinputname1 + 32)
      BY <2>3, <2>6 DEF setinputname1, setinputmuxer1
    <3>2. MuxerRead(j)
      BY <2>3, <2>4, <2>6, <3>1 DEF setInput, MuxerRead
    <3>3. QED
      BY <1>2, <2>1, <3>2
  <2>7. QED
    BY <2>2, <2>5, <2>6
<1>7. QED
  BY <1>1, <1>2, <1>3, <1>4, <1>5, <1>6

LEMMA TableStep ==
  ASSUME SettingsTypeOK, Table, configXMLInfo
  PROVE  Table'
<1> DEFINE inputs == document.inputs
           n == document.n
<1>1. /\ document \in Documents /\ document' = document /\ ~configured /\ pos' = pos + 1
      /\ pos' <= 1 + 2 * Len(inputs)
  BY ReadElement
<1>2. /\ pos \in Nat /\ Len(inputs) \in Nat /\ DOMAIN inputs = 1 .. Len(inputs)
      /\ n \in Nat /\ \A k \in DOMAIN inputs : k \in Nat /\ k > 0 /\ inputs[k].i \in Nat
  <2>1. /\ pos \in Nat /\ Len(document.inputs) \in Nat
        /\ DOMAIN document.inputs = 1 .. Len(document.inputs)
    BY <1>1, DocumentTypes
  <2>2. \A k \in DOMAIN document.inputs : document.inputs[k].i \in 1 .. 32
    BY <1>1, DocumentTypes
  <2>3. \A k \in DOMAIN inputs : k \in Nat /\ k > 0
    BY <2>1
  <2>4. \A k \in DOMAIN inputs : inputs[k].i \in Nat
    BY <2>2
  <2>5. document.n \in Nat
    <3>1. document.n \in 1 .. 32
      BY <1>1, DocumentTypes
    <3>2. \A k \in 1 .. 32 : k \in Nat
      OBVIOUS
    <3>3. QED
      BY <3>1, <3>2, Zenon
  <2>6. QED
    BY <2>1, <2>3, <2>4, <2>5
<1>3. /\ Done = {k \in DOMAIN inputs : inputs[k].i <= n /\ 2 * k + 1 <= pos}
      /\ Done' = {k \in DOMAIN inputs : inputs[k].i <= n /\ 2 * k + 1 <= pos + 1}
  BY <1>1 DEF Done
<1>4. /\ pos > 0 => m_nCount = n
      /\ DOMAIN muxInfoHash = {inputs[k].name : k \in Done}
      /\ \A k \in Done :
            (\A l \in Done : l > k => inputs[l].name # inputs[k].name)
                => muxInfoHash[inputs[k].name] = inputs[k].muxer
      /\ \A k \in DOMAIN inputs : pos = 2 * k /\ inputs[k].i <= n => actName = inputs[k].name
  BY <1>1 DEF Table
<1>5. SUFFICES
      /\ m_nCount' = n
      /\ DOMAIN muxInfoHash' = {inputs[k].name : k \in Done'}
      /\ \A k \in Done' :
            (\A l \in Done' : l > k => inputs[l].name # inputs[k].name)
                => muxInfoHash'[inputs[k].name] = inputs[k].muxer
      /\ \A k \in DOMAIN inputs :
            pos + 1 = 2 * k /\ inputs[k].i <= n => actName' = inputs[k].name
  BY <1>1 DEF Table
<1> HIDE DEF inputs, n
<1>6. CASE NumberRead
  <2>1. Done = {} /\ Done' = {}
    BY <1>2, <1>3, <1>6 DEF NumberRead
  <2>2. \A k \in DOMAIN inputs : pos + 1 # 2 * k
    BY <1>2, <1>6 DEF NumberRead
  <2>3. QED
    BY <1>4, <1>6, <2>1, <2>2 DEF NumberRead, n
<1>7. CASE \E j \in DOMAIN inputs : NameRead(j)
  <2>1. PICK j \in DOMAIN inputs : NameRead(j)
    BY <1>7
  <2>2. /\ pos = 2 * j - 1 /\ m_nCount' = m_nCount /\ muxInfoHash' = muxInfoHash
        /\ inputs[j].i <= n => actName' = inputs[j].name
    BY <2>1 DEF NameRead, inputs, n
  <2>3. \A k \in DOMAIN inputs : 2 * k + 1 <= pos + 1 <=> 2 * k + 1 <= pos
    BY <1>2, <2>2
  <2>4. Done' = Done
    BY <1>3, <2>3
  <2>5. pos > 0 /\ \A k \in DOMAIN inputs : pos + 1 = 2 * k => k = j
    BY <1>2, <2>2
  <2>6. QED
    BY <1>4, <2>2, <2>4, <2>5
<1>8. CASE \E j \in DOMAIN inputs : MuxerRead(j)
  <2>1. PICK j \in DOMAIN inputs : MuxerRead(j)
    BY <1>8
  <2>2. pos = 2 * j /\ m_nCount' = m_nCount
    BY <2>1 DEF MuxerRead
  <2>3. pos > 0 /\ \A k \in DOMAIN inputs : pos + 1 # 2 * k
    BY <1>2, <2>2
  <2>4. \A k \in DOMAIN inputs : 2 * k + 1 <= pos + 1 <=> 2 * k + 1 <= pos \/ k = j
    BY <1>2, <2>2
  <2>5. \A k \in Done : k < j /\ k \in DOMAIN inputs
    BY <1>2, <1>3, <2>2
  <2>6. CASE inputs[j].i <= n
    <3>1. Done' = Done \cup {j}
      BY <1>3, <2>4, <2>6
    <3>2. actName = inputs[j].name
      BY <1>4, <2>2, <2>6
    <3>3. muxInfoHash' =
            [name \in DOMAIN muxInfoHash \cup {actName} |->
               IF name = actName THEN inputs[j].muxer ELSE muxInfoHash[name]]
      BY <2>1, <2>6 DEF MuxerRead, inputs, n
    <3>4. DOMAIN muxInfoHash' = {inputs[k].name : k \in Done'}
      BY <1>4, <3>1, <3>2, <3>3
    <3>5. ASSUME NEW k \in Done', \A l \in Done' : l > k => inputs[l].name # inputs[k].name
          PROVE  muxInfoHash'[inputs[k].name] = inputs[k].muxer
      <4>1. CASE k = j
        BY <3>2, <3>3, <4>1
      <4>2. CASE k # j
        <5>1. k \in Done /\ k < j
          BY <2>5, <3>1, <4>2
        <5>2. inputs[k].name # inputs[j].name
          BY <1>2, <3>1, <3>5, <5>1
        <5>3. muxInfoHash[inputs[k].name] = inputs[k].muxer
          BY <1>4, <3>1, <3>5, <5>1
        <5>4. inputs[k].name \in DOMAIN muxInfoHash
          BY <1>4, <5>1
        <5>5. QED
          BY <3>2, <3>3, <5>2, <5>3, <5>4
      <4>3. QED
        BY <4>1, <4>2
    <3>6. QED
      BY <1>4, <2>2, <2>3, <3>4, <3>5
  <2>7. CASE ~(inputs[j].i <= n)
    <3>1. Done' = Done
      BY <1>3, <2>4, <2>7
    <3>2. muxInfoHash' = muxInfoHash
      BY <2>1, <2>7 DEF MuxerRead, inputs, n
    <3>3. QED
      BY <1>4, <2>2, <2>3, <3>1, <3>2
  <2>8. QED
    BY <2>6, <2>7
<1>9. QED
  BY <1>6, <1>7, <1>8, ReadElement DEF inputs

LEMMA ElementTypes ==
  ASSUME SettingsTypeOK, Table, configXMLInfo
  PROVE  SettingsTypeOK'
<1>1. /\ document \in Documents /\ document' = document /\ ~configured'
      /\ pos' = pos + 1 /\ pos' <= 1 + 2 * Len(document.inputs)
  BY ReadElement
<1>2. pos' \in 0 .. Size'
  BY <1>1, DocumentTypes DEF Size
<1>3. document.n \in 1 .. 32 /\ m_nCount \in 0 .. 32
  BY <1>1, DocumentTypes DEF SettingsTypeOK
<1>4. m_nCount' \in 0 .. 32
  <2>1. m_nCount' = document.n \/ m_nCount' = m_nCount
    BY ReadElement DEF NumberRead, NameRead, MuxerRead
  <2>2. QED
    BY <1>3, <2>1
<1>5. \A name \in DOMAIN muxInfoHash' : muxInfoHash'[name] \in 0 .. 31
  <2>1. CASE muxInfoHash' = muxInfoHash
    BY <2>1 DEF SettingsTypeOK
  <2>2. CASE \E j \in DOMAIN document.inputs : MuxerRead(j) /\ muxInfoHash' # muxInfoHash
    <3>1. PICK j \in DOMAIN document.inputs :
                 muxInfoHash' = [name \in DOMAIN muxInfoHash \cup {actName} |->
                                   IF name = actName THEN document.inputs[j].muxer
                                   ELSE muxInfoHash[name]]
      BY <2>2 DEF MuxerRead
    <3>2. document.inputs[j].muxer \in 0 .. 31
      BY <1>1, <3>1, DocumentTypes
    <3>3. QED
      BY <3>1, <3>2 DEF SettingsTypeOK
  <2>3. QED
    BY <2>1, <2>2, ReadElement DEF NumberRead, NameRead
<1>6. document' \in Documents \cup {NoDocument} /\ configured' \in BOOLEAN
  BY <1>1 DEF configXMLInfo, SettingsTypeOK
<1>7. QED
  BY <1>2, <1>4, <1>5, <1>6 DEF SettingsTypeOK

LEMMA FinishedStep ==
  ASSUME SettingsTypeOK, finishedParsingXML
  PROVE  SettingsTypeOK' /\ Table'
<1>1. Size' = 1
  <2>1. document'.inputs = <<>>
    BY DEF finishedParsingXML, NoDocument
  <2>2. Len(<<>>) = 0
    OBVIOUS
  <2>3. QED
    BY <2>1, <2>2 DEF Size
<1>2. QED
  BY <1>1 DEF finishedParsingXML, SettingsTypeOK, Table

LEMMA TableInit ==
  ASSUME SettingsInit
  PROVE  SettingsTypeOK /\ Table
<1>1. /\ document \in Documents /\ pos = 0 /\ m_nCount = 0 /\ DOMAIN muxInfoHash = {}
      /\ configured \in BOOLEAN
  BY DEF SettingsInit
<1>2. document.inputs \in Seq(Input) /\ DOMAIN document.inputs = 1 .. Len(document.inputs)
      /\ Len(document.inputs) \in Nat
  BY <1>1, DocumentsAssumption DEF Input
<1>3. SettingsTypeOK
  <2>1. pos \in 0 .. Size
    BY <1>1, <1>2 DEF Size
  <2>2. QED
    BY <1>1, <2>1 DEF SettingsTypeOK
<1>4. Done = {} /\ \A k \in DOMAIN document.inputs : pos # 2 * k
  BY <1>1, <1>2 DEF Done
<1>5. QED
  BY <1>1, <1>3, <1>4 DEF Table

\* Commands leave the table alone.
LEMMA TableKept ==
  ASSUME SettingsTypeOK, Table, UNCHANGED settingsVars
  PROVE  SettingsTypeOK' /\ Table'
BY DEF settingsVars, SettingsTypeOK, Table, Done, Size

THEOREM TableInvariant == Spec => [](SettingsTypeOK /\ Table)
<1>1. Init => SettingsTypeOK /\ Table
  BY TableInit DEF Init
<1>2. SettingsTypeOK /\ Table /\ [Next]_vars => (SettingsTypeOK /\ Table)'
  BY TableStep, ElementTypes, FinishedStep, TableKept DEF Next, vars
<1>3. QED
  BY <1>1, <1>2, PTL DEF Spec

\* Whatever file the schema admits, the table of inputs is that of its first n
\* inputs (MuxAsConfigured, cInputSettings::configXMLInfo).
THEOREM TableAsConfigured == Spec => []MuxAsConfigured
<1>1. SettingsTypeOK /\ Table => MuxAsConfigured
  <2> SUFFICES ASSUME SettingsTypeOK, Table, ~configured, pos = Size
               PROVE  LET inputs == document.inputs
                          used == {k \in DOMAIN inputs : inputs[k].i <= document.n}
                      IN  /\ DOMAIN muxInfoHash = {inputs[k].name : k \in used}
                          /\ \A k \in used :
                                (\A l \in used : l > k => inputs[l].name # inputs[k].name)
                                    => mux(inputs[k].name) = inputs[k].muxer
    BY DEF MuxAsConfigured
  <2>1. document \in Documents
    BY DEF Table
  <2>2. \A k \in DOMAIN document.inputs : 2 * k + 1 <= pos
    BY <2>1, DocumentTypes DEF Size
  <2>3. Done = {k \in DOMAIN document.inputs : document.inputs[k].i <= document.n}
    BY <2>2 DEF Done
  <2>4. QED
    BY <2>3 DEF Table, mux
<1>2. QED
  BY <1>1, TableInvariant, PTL

-----------------------------------------------------------------------------
(* The fields of CONF.                                                     *)

\* A number below 2^8, or 2^5, has no higher bits.
LEMMA LowBits ==
  /\ \A n \in 0 .. 255 : WordOf(n) \subseteq 0 .. 7
  /\ \A n \in 0 .. 31 : WordOf(n) \subseteq 0 .. 4
<1>1. ASSUME NEW n \in 0 .. 255, NEW i \in 8 .. 15 PROVE n \div 2^i = 0
  <2>1. CASE i = 8
    BY <2>1
  <2>2. CASE i = 9
    BY <2>2
  <2>3. CASE i = 10
    BY <2>3
  <2>4. CASE i = 11
    BY <2>4
  <2>5. CASE i = 12
    BY <2>5
  <2>6. CASE i = 13
    BY <2>6
  <2>7. CASE i = 14
    BY <2>7
  <2>8. CASE i = 15
    BY <2>8
  <2>9. QED
    BY <2>1, <2>2, <2>3, <2>4, <2>5, <2>6, <2>7, <2>8
<1>2. ASSUME NEW n \in 0 .. 31, NEW i \in 5 .. 15 PROVE n \div 2^i = 0
  <2>1. CASE i = 5
    BY <2>1
  <2>2. CASE i = 6
    BY <2>2
  <2>3. CASE i = 7
    BY <2>3
  <2>4. CASE i \in 8 .. 15
    <3>1. n \in 0 .. 255
      OBVIOUS
    <3>2. QED
      BY <1>1, <2>4, <3>1, Zenon
  <2>5. QED
    BY <2>1, <2>2, <2>3, <2>4
<1>3. \A n \in 0 .. 255, i \in 8 .. 15 : i \notin WordOf(n)
  <2> SUFFICES ASSUME NEW n \in 0 .. 255, NEW i \in 8 .. 15, (n \div 2^i) % 2 = 1
               PROVE  FALSE
    BY DEF WordOf
  <2>1. 0 % 2 = 0
    OBVIOUS
  <2>2. (n \div 2^i) % 2 = 0
    BY <1>1, <2>1, Zenon
  <2>3. QED
    BY <2>2
<1>4. \A n \in 0 .. 31, i \in 5 .. 15 : i \notin WordOf(n)
  <2> SUFFICES ASSUME NEW n \in 0 .. 31, NEW i \in 5 .. 15, (n \div 2^i) % 2 = 1
               PROVE  FALSE
    BY DEF WordOf
  <2>1. 0 % 2 = 0
    OBVIOUS
  <2>2. (n \div 2^i) % 2 = 0
    BY <1>2, <2>1, Zenon
  <2>3. QED
    BY <2>2
<1>5. \A n : WordOf(n) \subseteq 0 .. 15
  BY DEF WordOf
<1>6. QED
  BY <1>3, <1>4, <1>5

LEMMA FieldsFit ==
  /\ \A n \in 0 .. 255 : WordOf(n) \subseteq SyncBits
  /\ \A n \in 0 .. 31 : LeftShift(WordOf(n), 10) \subseteq MuxBits
  /\ \A k \in 0 .. 2 : CMDIDList[k] \subseteq ModeBits
<1>1. \A n \in 0 .. 31 : LeftShift(WordOf(n), 10) \subseteq MuxBits
  BY LowBits DEF LeftShift, MuxBits, Word
<1>2. \A n \in 0 .. 255 : WordOf(n) \subseteq SyncBits
  BY LowBits DEF SyncBits
<1>3. {en_n, bitSingle, cnt2carry} \subseteq ModeBits /\ {en_n, direction, bitSingle} \subseteq ModeBits
  BY DEF ModeBits, Word, SyncBits, MuxBits, en_n, bitSingle, cnt2carry, direction
<1>4. LeftShift(WordOf(3), sssto) \subseteq ModeBits /\ LeftShift(WordOf(2), ssarm) \subseteq ModeBits
  BY LowBits DEF LeftShift, ModeBits, Word, SyncBits, MuxBits, sssto, ssarm
<1>5. /\ CMDIDList[0] = {en_n, bitSingle, cnt2carry}
      /\ CMDIDList[1] = {en_n, cnt2carry}
      /\ CMDIDList[2] = {en_n, direction, bitSingle}
                          \cup LeftShift(WordOf(3), sssto) \cup LeftShift(WordOf(2), ssarm)
  BY DEF CMDIDList
<1>6. CMDIDList[0] \subseteq ModeBits /\ CMDIDList[1] \subseteq ModeBits
      /\ CMDIDList[2] \subseteq ModeBits
  BY <1>3, <1>4, <1>5
<1>7. QED
  <2>1. \A k \in 0 .. 2 : k = 0 \/ k = 1 \/ k = 2
    OBVIOUS
  <2>2. QED
    BY <1>1, <1>2, <1>6, <2>1

LEMMA FieldsApart ==
  /\ SyncBits \cap MuxBits = {} /\ SyncBits \cap ModeBits = {} /\ MuxBits \cap ModeBits = {}
BY DEF SyncBits, MuxBits, ModeBits, Word

\* Each command replaces its own field and keeps the two others.
LEMMA FieldsStep ==
  ASSUME NumChannels \in 0 .. 254, SettingsTypeOK, TypeOK, FieldsAsWanted, Command
  PROVE  FieldsAsWanted'
<1> USE DEF FieldsAsWanted
<1>1. ASSUME NEW auth \in BOOLEAN, NEW k \in SyncParams, m_setSync(auth, k)
      PROVE  FieldsAsWanted'
  <2>1. CASE UNCHANGED <<CONF, wanted>>
    BY <2>1
  <2>2. CASE /\ k <= NumChannels
             /\ CONF' = maskSync(CONF) \cup WordOf(k + 1)
             /\ wanted' = [wanted EXCEPT !.SYNC = {k + 1}]
    <3>1. k + 1 \in 0 .. 255
      BY <2>2, SyncParamsAssumption
    <3>2. CONF' = (CONF \ SyncBits) \cup WordOf(k + 1) /\ WordOf(k + 1) \subseteq SyncBits
      BY <2>2, <3>1, FieldsFit DEF maskSync
    <3>3. /\ CONF' \cap SyncBits = WordOf(k + 1)
          /\ CONF' \cap MuxBits = CONF \cap MuxBits
          /\ CONF' \cap ModeBits = CONF \cap ModeBits
      BY <3>2, FieldsApart
    <3>4. wanted'.SYNC = {k + 1} /\ wanted'.MUX = wanted.MUX /\ wanted'.CMDID = wanted.CMDID
      BY <2>2 DEF TypeOK
    <3>5. QED
      BY <3>3, <3>4
  <2>3. QED
    BY <1>1, <2>1, <2>2 DEF m_setSync, Refuse, acceptsSync
<1>2. ASSUME NEW auth \in BOOLEAN, NEW inp \in InputParams, m_setMux(auth, inp)
      PROVE  FieldsAsWanted'
  <2>1. CASE UNCHANGED <<CONF, wanted>>
    BY <2>1
  <2>2. CASE /\ hasInput(inp)
             /\ CONF' = maskMux(CONF) \cup LeftShift(WordOf(mux(inp)), 10)
             /\ wanted' = [wanted EXCEPT !.MUX = {mux(inp)}]
    <3>1. mux(inp) \in 0 .. 31
      BY <2>2 DEF hasInput, mux, SettingsTypeOK
    <3> DEFINE F == LeftShift(WordOf(mux(inp)), 10)
    <3>2. CONF' = (CONF \ MuxBits) \cup F /\ F \subseteq MuxBits
      BY <2>2, <3>1, FieldsFit DEF maskMux
    <3> HIDE DEF F
    <3>3. /\ CONF' \cap MuxBits = F
          /\ CONF' \cap SyncBits = CONF \cap SyncBits
          /\ CONF' \cap ModeBits = CONF \cap ModeBits
      BY <3>2, FieldsApart
    <3>4. wanted'.MUX = {mux(inp)} /\ wanted'.SYNC = wanted.SYNC /\ wanted'.CMDID = wanted.CMDID
      BY <2>2 DEF TypeOK
    <3>5. QED
      BY <3>3, <3>4 DEF F
  <2>3. QED
    BY <1>2, <2>1, <2>2 DEF m_setMux, Refuse
<1>3. ASSUME NEW auth \in BOOLEAN, NEW k \in 0 .. 3, m_setCmdId(auth, k)
      PROVE  FieldsAsWanted'
  <2>1. CASE UNCHANGED <<CONF, wanted>>
    BY <2>1
  <2>2. CASE /\ k < 3
             /\ CONF' = maskCmdid(CONF) \cup CMDIDList[k]
             /\ wanted' = [wanted EXCEPT !.CMDID = {k}]
    <3>1. k \in 0 .. 2
      BY <2>2
    <3>2. CMDIDList[k] \subseteq ModeBits
      BY <3>1, FieldsFit
    <3>3. CONF' = (CONF \cap (SyncBits \cup MuxBits)) \cup CMDIDList[k]
      BY <2>2 DEF maskCmdid
    <3>4. /\ CONF' \cap ModeBits = CMDIDList[k]
          /\ CONF' \cap SyncBits = CONF \cap SyncBits
          /\ CONF' \cap MuxBits = CONF \cap MuxBits
      BY <3>2, <3>3, FieldsApart
    <3>5. wanted'.CMDID = {k} /\ wanted'.SYNC = wanted.SYNC /\ wanted'.MUX = wanted.MUX
      BY <2>2 DEF TypeOK
    <3>6. QED
      BY <3>4, <3>5
  <2>3. QED
    BY <1>3, <2>1, <2>2 DEF m_setCmdId, Refuse
<1>4. ASSUME NEW auth \in BOOLEAN, m_start(auth) \/ m_stop(auth)
      PROVE  FieldsAsWanted'
  <2>1. UNCHANGED <<CONF, wanted>>
    BY <1>4 DEF m_start, m_stop, Refuse
  <2>2. QED
    BY <2>1
<1>5. ASSUME NEW auth \in BOOLEAN, NEW r \in DOMAIN Registers, NEW reg \in RawWords,
             WriteRegister(auth, Registers[r], reg)
      PROVE  FieldsAsWanted'
  <2>1. CASE UNCHANGED <<CONF, wanted>>
    BY <2>1
  <2>2. CASE wanted' = [f \in DOMAIN wanted |-> {}]
    <3>1. wanted'.SYNC = {} /\ wanted'.MUX = {} /\ wanted'.CMDID = {}
      BY <2>2 DEF TypeOK
    <3>2. QED
      BY <3>1
  <2>3. QED
    BY <1>5, <2>1, <2>2 DEF WriteRegister, Refuse
<1>6. ASSUME NEW op, Malformed(op)
      PROVE  FieldsAsWanted'
  <2>1. UNCHANGED <<CONF, wanted>>
    BY <1>6 DEF Malformed, Refuse
  <2>2. QED
    BY <2>1
<1>7. QED
  BY <1>1, <1>2, <1>3, <1>4, <1>5, <1>6 DEF Command

\* Every bit a command sets is a bit of the word.
LEMMA ChannelTypes ==
  ASSUME SettingsTypeOK, TypeOK, Command, UNCHANGED settingsVars
  PROVE  TypeOK'
<1> DEFINE Fields == {"SYNC", "MUX", "CMDID"}
           Types == /\ CMD \subseteq Word /\ CONF \subseteq Word
                    /\ wanted \in [Fields -> SUBSET Nat]
<1>1. Types
  BY DEF TypeOK
<1>2. ASSUME UNCHANGED <<CMD, CONF, wanted>> PROVE Types'
  BY <1>1, <1>2
<1>3. ASSUME NEW op \in {"SYNC", "MUX", "CMDID", "START", "STOP", "RAW"}, NEW arg \in Nat,
             NEW code \in {"ack", "nak", "erraut", "errval"}, Reply(op, arg, code)
      PROVE  answer' \in Answer
  BY <1>3 DEF Reply, Answer
<1>4. /\ WordOf(128) \subseteq Word
      /\ \A n, k : LeftShift(WordOf(n), k) \subseteq Word
      /\ \A n : WordOf(n) \subseteq Word
  BY DEF WordOf, LeftShift, Word
<1>5. ASSUME NEW auth \in BOOLEAN, NEW k \in SyncParams, m_setSync(auth, k)
      PROVE  Types' /\ answer' \in Answer
  <2>1. k \in Nat /\ k + 1 \in Nat
    BY SyncParamsAssumption
  <2>2. answer' \in Answer
    BY <1>3, <1>5, <2>1 DEF m_setSync, Refuse
  <2>3. Types'
    BY <1>1, <1>2, <1>4, <1>5, <2>1 DEF m_setSync, Refuse, maskSync
  <2>4. QED
    BY <2>2, <2>3
<1>6. ASSUME NEW auth \in BOOLEAN, NEW inp \in InputParams, m_setMux(auth, inp)
      PROVE  Types' /\ answer' \in Answer
  <2>1. answer' \in Answer
    BY <1>3, <1>6 DEF m_setMux, Refuse
  <2>2. hasInput(inp) => mux(inp) \in Nat
    BY DEF hasInput, mux, SettingsTypeOK
  <2>3. Types'
    BY <1>1, <1>2, <1>4, <1>6, <2>2 DEF m_setMux, Refuse, maskMux
  <2>4. QED
    BY <2>1, <2>3
<1>7. ASSUME NEW auth \in BOOLEAN, NEW k \in 0 .. 3, m_setCmdId(auth, k)
      PROVE  Types' /\ answer' \in Answer
  <2>1. k \in Nat
    OBVIOUS
  <2>2. answer' \in Answer
    BY <1>3, <1>7, <2>1 DEF m_setCmdId, Refuse
  <2>3. k < 3 => CMDIDList[k] \subseteq Word
    <3>1. k < 3 => k \in 0 .. 2
      OBVIOUS
    <3>2. QED
      BY <3>1, FieldsFit DEF ModeBits
  <2>4. Types'
    BY <1>1, <1>2, <1>7, <2>1, <2>3 DEF m_setCmdId, Refuse, maskCmdid
  <2>5. QED
    BY <2>2, <2>4
<1>8. ASSUME NEW auth \in BOOLEAN, m_start(auth) \/ m_stop(auth)
      PROVE  Types' /\ answer' \in Answer
  <2>1. answer' \in Answer
    BY <1>3, <1>8 DEF m_start, m_stop, Refuse
  <2>2. Types'
    BY <1>1, <1>2, <1>4, <1>8 DEF m_start, m_stop, Refuse
  <2>3. QED
    BY <2>1, <2>2
<1>9. ASSUME NEW auth \in BOOLEAN, NEW r \in DOMAIN Registers, NEW reg \in RawWords,
             WriteRegister(auth, Registers[r], reg)
      PROVE  Types' /\ answer' \in Answer
  <2>1. answer' \in Answer
    BY <1>3, <1>9 DEF WriteRegister, Refuse
  <2>2. reg \subseteq Word
    BY RawWordsAssumption DEF Word
  <2>3. UNCHANGED <<CMD, CONF, wanted>> => Types'
    BY <1>2
  <2>4. ASSUME /\ CMD' = CMD \/ CMD' = reg
               /\ CONF' = CONF \/ CONF' = reg
               /\ wanted' = wanted \/ wanted' = [f \in DOMAIN wanted |-> {}]
        PROVE  Types'
    <3>1. CMD' \subseteq Word /\ CONF' \subseteq Word
      BY <1>1, <2>2, <2>4
    <3>2. wanted' \in [Fields -> SUBSET Nat]
      BY <1>1, <2>4
    <3>3. QED
      BY <3>1, <3>2
  <2>5. \/ UNCHANGED <<CMD, CONF, wanted>>
        \/ /\ CMD' = CMD \/ CMD' = reg
           /\ CONF' = CONF \/ CONF' = reg
           /\ wanted' = wanted \/ wanted' = [f \in DOMAIN wanted |-> {}]
    <3>1. CASE Refuse("RAW", 0, "erraut")
      BY <3>1 DEF Refuse
    <3>2. CASE /\ CMD' = IF Registers[r] = Registers.CMD THEN reg ELSE CMD
               /\ CONF' = IF Registers[r] = Registers.CONF THEN reg ELSE CONF
               /\ wanted' = IF Registers[r] = Registers.CONF
                            THEN [f \in DOMAIN wanted |-> {}] ELSE wanted
      BY <3>2, Zenon
    <3>3. QED
      BY <1>9, <3>1, <3>2, Zenon DEF WriteRegister
  <2>6. Types'
    BY <2>3, <2>4, <2>5
  <2>7. QED
    BY <2>1, <2>6
<1>10. ASSUME NEW op \in {"SYNC", "MUX", "CMDID", "START", "STOP", "RAW"}, Malformed(op)
       PROVE  Types' /\ answer' \in Answer
  BY <1>2, <1>3, <1>10 DEF Malformed, Refuse
<1>11. Types' /\ answer' \in Answer
  BY <1>5, <1>6, <1>7, <1>8, <1>9, <1>10 DEF Command
<1>12. SettingsTypeOK'
  BY DEF settingsVars, SettingsTypeOK, Size
<1>13. QED
  BY <1>11, <1>12 DEF TypeOK

\* The types of the input table, the registers and the answers (TypeOK) hold
\* whatever the file and the commands.
THEOREM TypeCorrect == Spec => []TypeOK
<1>1. Init => TypeOK
  <2> SUFFICES ASSUME Init PROVE TypeOK
    OBVIOUS
  <2>1. CMD \subseteq Word /\ CONF \subseteq Word
    BY RawWordsAssumption DEF Init, Word
  <2>2. answer \in Answer
    BY DEF Init, Answer
  <2>3. wanted \in [{"SYNC", "MUX", "CMDID"} -> SUBSET Nat]
    BY DEF Init
  <2>4. QED
    BY <2>1, <2>2, <2>3, TableInit DEF Init, TypeOK
<1>2. SettingsTypeOK' /\ TypeOK /\ SettingsTypeOK /\ [Next]_vars => TypeOK'
  <2> SUFFICES ASSUME SettingsTypeOK', TypeOK, SettingsTypeOK, [Next]_vars PROVE TypeOK'
    OBVIOUS
  <2>1. CASE UNCHANGED channelVars
    BY <2>1 DEF channelVars, TypeOK
  <2>2. CASE Command /\ UNCHANGED settingsVars
    BY <2>2, ChannelTypes
  <2>3. QED
    BY <2>1, <2>2 DEF Next, vars
<1>3. QED
  BY <1>1, <1>2, TableInvariant, PTL DEF Spec

\* Of up to 254 channels SYNC, MUX and CMDID each keep what the others have
\* set in CONF, in whatever order they arrive (FieldsAsWanted).
THEOREM FieldsKept ==
  ASSUME NumChannels \in 0 .. 254
  PROVE  Spec => []FieldsAsWanted
<1>1. Init => FieldsAsWanted
  BY DEF Init, FieldsAsWanted
<1>2. SettingsTypeOK /\ TypeOK /\ FieldsAsWanted /\ [Next]_vars => FieldsAsWanted'
  <2> SUFFICES ASSUME SettingsTypeOK, TypeOK, FieldsAsWanted, [Next]_vars
               PROVE  FieldsAsWanted'
    OBVIOUS
  <2>1. CASE UNCHANGED channelVars
    BY <2>1 DEF channelVars, FieldsAsWanted
  <2>2. CASE Command
    BY <2>2, FieldsStep
  <2>3. QED
    BY <2>1, <2>2 DEF Next, vars
<1>3. QED
  BY <1>1, <1>2, TableInvariant, TypeCorrect, PTL DEF Spec
=============================================================================
