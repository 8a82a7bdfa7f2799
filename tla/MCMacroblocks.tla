------------------------------ MODULE MCMacroblocks ------------------------------
(* Macroblocks of every type, with some of every kind of coefficients.       *)
EXTENDS MacroblockSyntax

Mb(type, mode, pdir, cbp, seed) ==
    [mb_type |-> type, b8mode |-> [k \in 0..3 |-> mode[k + 1]], b8pdir |-> [k \in 0..3 |-> pdir[k + 1]], cbp |-> cbp, seed |-> seed]
Same(v) == <<v, v, v, v>>

Intra4(cbp, seed) == Mb(I4MB, Same(IBLOCK), Same(-1), cbp, seed)
Intra16(cbp, seed) == Mb(I16MB, Same(0), Same(-1), cbp, seed)
InterP(type, cbp, seed) == Mb(type, Same(type), Same(0), cbp, seed)
Split(mode, pdir, cbp, seed) == Mb(P8x8, mode, pdir, cbp, seed)
SkipP == Mb(0, Same(0), Same(0), 0, 0)
DirectB(cbp) == Mb(0, Same(0), Same(2), cbp, 1)

IntraContents == {Intra4(0, 0), Intra4(15, 1), Intra4(41, 2), Intra16(0, 3), Intra16(15, 0), Intra16(16, 1), Intra16(47, 2), Intra16(31, 3), Intra16(32, 4)}

Halves == (0..2) \X (0..2)

MCMbContents ==
    [I |-> IntraContents,
     P |-> {Intra4(6, 3), Intra16(0, 2), Intra16(47, 1), SkipP, InterP(1, 0, 0), InterP(1, 15, 1), InterP(1, 33, 2), InterP(2, 16, 3), InterP(3, 8, 4),
            Split(<<4, 5, 6, 7>>, Same(0), 0, 0), Split(<<7, 7, 4, 5>>, Same(0), 9, 1)},
     B |-> {Intra4(6, 3), Intra16(0, 2), Intra16(47, 1), DirectB(0), DirectB(18)}
           \cup {Mb(1, Same(1), Same(d), 5 * d, d) : d \in 0..2}
           \cup {Mb(2, Same(2), <<d[1], d[1], d[2], d[2]>>, 0, d[1]) : d \in Halves}
           \cup {Mb(3, Same(3), <<d[1], d[2], d[1], d[2]>>, 32, d[2]) : d \in Halves}
           \cup {Split(<<0, 4, 4, 4>>, <<2, 0, 1, 2>>, 1, 0), Split(<<5, 6, 5, 6>>, <<0, 0, 1, 1>>, 0, 1),
                 Split(<<5, 6, 7, 7>>, <<2, 2, 0, 1>>, 2, 2), Split(<<7, 0, 0, 4>>, <<2, 2, 2, 1>>, 0, 3)},
     PFew |-> {Intra4(6, 3), Intra16(47, 1), SkipP, InterP(1, 15, 1), Split(<<4, 5, 6, 7>>, Same(0), 0, 0)},
     PRate |-> {Intra4(0, 3), Intra16(0, 2), SkipP, InterP(1, 0, 0), InterP(2, 16, 3)},
     IFew |-> {Intra4(41, 2), Intra16(0, 3), Intra16(47, 2)},
     PSplit |-> {Intra4(15, 1), Split(<<4, 4, 4, 4>>, Same(0), 47, 0), Split(<<7, 5, 4, 6>>, Same(0), 9, 1)},
     BFew |-> {Intra4(6, 3), Intra16(47, 1), DirectB(0), Mb(1, Same(1), Same(2), 10, 2),
               Mb(2, Same(2), <<0, 0, 2, 2>>, 0, 1), Split(<<5, 6, 7, 7>>, <<2, 2, 0, 1>>, 2, 2)},
     BMixed |-> {DirectB(0), Mb(3, Same(3), <<1, 2, 1, 2>>, 10, 2), Split(<<5, 0, 7, 6>>, <<2, 2, 0, 1>>, 2, 2)}]

MCOtherContents ==
    [I |-> {Intra4(47, 4), Intra16(15, 3)},
     P |-> {InterP(1, 0, 1), Split(<<5, 4, 7, 6>>, Same(0), 47, 2), Intra4(15, 0)},
     B |-> {DirectB(0), Split(<<6, 0, 4, 7>>, <<1, 2, 2, 0>>, 17, 2)},
     PFew |-> {InterP(1, 0, 1), Intra4(15, 0)},
     PRate |-> {InterP(1, 0, 1), InterP(3, 8, 4)},
     IFew |-> {Intra4(47, 4), Intra16(31, 3)},
     PSplit |-> {InterP(1, 47, 1)},
     BFew |-> {DirectB(18), Intra16(15, 3)},
     BMixed |-> {DirectB(18)}]

Configured(type, contents, l0, l1, constrained, rate) ==
    [type |-> type, contents |-> contents, listXsize |-> (0 :> l0) @@ (1 :> l1), constrained |-> constrained, rate |-> rate,
     cavlc |-> FALSE, partitioned |-> FALSE]
WithoutCabac(setting, partitioned) == [setting EXCEPT !.cavlc = TRUE, !.partitioned = partitioned]

MCDeltaQps == {0, 1, -2}
MCSyntaxSettings ==
    {Configured("I", "I", 1, 1, FALSE, FALSE), Configured("P", "P", 3, 1, FALSE, FALSE), Configured("P", "PFew", 1, 1, TRUE, FALSE),
     Configured("P", "PRate", 2, 1, FALSE, TRUE), Configured("B", "B", 3, 2, FALSE, FALSE), Configured("B", "BFew", 1, 1, TRUE, FALSE),
     WithoutCabac(Configured("I", "IFew", 1, 1, FALSE, FALSE), FALSE), WithoutCabac(Configured("P", "PFew", 3, 1, FALSE, FALSE), TRUE),
     WithoutCabac(Configured("P", "PSplit", 2, 1, TRUE, FALSE), FALSE), WithoutCabac(Configured("B", "BMixed", 2, 3, FALSE, FALSE), FALSE)}
=============================================================================
