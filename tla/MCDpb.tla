-------------------------------- MODULE MCDpb --------------------------------
(* Small instances of the decoded picture buffer: streams of two kinds.      *)
EXTENDS Dpb

SlidingWindow == [Adaptive |-> FALSE, Gaps |-> 2]
Commands == [Adaptive |-> TRUE, Gaps |-> 0]
Both == {SlidingWindow, Commands}
=============================================================================
