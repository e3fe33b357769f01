----------------------------- MODULE MCFetchRows -----------------------------
(* Up to three result sets of up to two rows, so that a rowset can end inside,  *)
(* at and after the end of a result set, and an empty one can come anywhere.    *)
EXTENDS FetchRows

MCChunks == {-1, 0, 2}
AllFaults == FaultKinds
=============================================================================
