------------------------------ MODULE MCImproved ------------------------------
EXTENDS RhtImprovedReplication

(* Every factor is 1, so the sums of a row are 1, 2, ..., Cols.            *)
MCProduct == [i \in RowIdx |-> [j \in ColIdx |-> 1]]
MCPartialSum == [i \in RowIdx |-> [j \in 0 .. Cols |-> j]]

(* A soft error that leaves a sum one too small or one too large.          *)
MCCorruptions == {-1, 1}

=============================================================================
