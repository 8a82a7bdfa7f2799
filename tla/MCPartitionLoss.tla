---------------------------- MODULE MCPartitionLoss ----------------------------
(* A network that loses single partitions of a slice. *)
EXTENDS SliceReader

MCSpsContents == {[size |-> 1, pic_order_cnt_type |-> 0]}

Spec == ReaderSpec
=============================================================================
