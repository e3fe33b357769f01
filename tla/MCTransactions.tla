--------------------------- MODULE MCTransactions ---------------------------
(* Enough writes for a statement, a nested insert of two batches and one more. *)
EXTENDS Transactions

Yes == {TRUE}
AllFaults == FaultKinds
DriverObeys == {"begin", "batch"}
OnlyCommit == {"commit"}
=============================================================================
