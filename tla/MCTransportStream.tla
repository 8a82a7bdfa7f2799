-------------------------- MODULE MCTransportStream --------------------------
(* The three parts of the demultiplexer, each against every input that the   *)
(* part before it can give: chunks cut into packets of 4 bytes, the tables   *)
(* of a stream with two programs, frames of up to two packets.               *)
EXTENDS TsFraming, TsTable, TsPes

VARIABLE part       \* which part is run

MCChunks == 1..9
\* The last byte of every packet, and all but the first of every third.
MCFalseSyncs == {o \in 3..100 : (o - 3) % 4 = 3 \/ (o - 3) % 12 \in {1, 2}}

Pat(v, c) == [version |-> v, current |-> c,
              programs |-> <<[number |-> 0, pid |-> 16], [number |-> 1, pid |-> 32],
                             [number |-> 2, pid |-> 48]>>]
MCPats == {Pat(2, TRUE), Pat(2, FALSE), Pat(4, TRUE)}

Pmt(n, v, c, s) == [number |-> n, pid |-> 16 * (n + 1), version |-> v, current |-> c, streams |-> s]
MCPmts == {Pmt(1, 2, TRUE, <<33>>), Pmt(1, 4, TRUE, <<33, 34>>), Pmt(1, 6, FALSE, <<33, 34, 35>>),
           Pmt(2, 2, FALSE, <<49>>), Pmt(2, 4, TRUE, <<49, 50>>)}

Init == part \in {"framing", "table", "pes"} /\ FramingInit /\ TableInit /\ PesInit

Framing == part = "framing" /\ FramingNext /\ UNCHANGED <<part, tableVars, pesVars>>
Table == part = "table" /\ TableNext /\ UNCHANGED <<part, framingVars, pesVars>>
Pes == part = "pes" /\ PesNext /\ UNCHANGED <<part, framingVars, tableVars>>
PacketsGoOn == part = "pes" /\ Send /\ UNCHANGED <<part, framingVars, tableVars>>

Next == Framing \/ Table \/ Pes

Spec == Init /\ [][Next]_<<part, framingVars, tableVars, pesVars>>
             /\ WF_<<part, framingVars, tableVars, pesVars>>(PacketsGoOn)
=============================================================================
