--------------------------- MODULE MCECalcChannel ---------------------------
(* Instances of ECalcChannel for the model checker.                        *)
EXTENDS ECalcChannel

Input(i, name, muxer) == [i |-> i, name |-> name, muxer |-> muxer]

\* A part of sec1000d.xml: muxers without a bit, with three and with four.
MCPlain == [n |-> 3, inputs |-> <<Input(1, "fi0", 0), Input(2, "t1ms", 7), Input(3, "fo3", 30)>>]

\* Every list of up to two inputs with numbers left out, a name given twice and
\* n anywhere; and the longest list the schema allows.
MCTwoInputs ==
    {[n |-> n, inputs |-> <<Input(1, name1, 7), Input(i, name2, 30)>>] :
        n \in 1 .. 3, i \in 2 .. 3, name1 \in {"fi0", "fo3"}, name2 \in {"fi0", "fo3"}}
MCLongest ==
    {[n |-> n, inputs |-> [k \in 1 .. 32 |->
                             Input(k, IF k = 32 THEN "fo3" ELSE "fi0", k - 1)]] : n \in {31, 32}}
MCDocuments == {MCPlain} \cup MCTwoInputs \cup MCLongest
MCPlainOnly == {MCPlain}
MCInputParams == {"fi0", "t1ms", "fo3"}

\* Around the number of channels, and the largest that fits the field.
MCSyncParams == {0, 6, 7, 8, 9}
MCWideSyncParams == {0, 7, 253, 254, 255}

MCRawWords == {{}, 0 .. 31, {6, 9, 10}}
=============================================================================
