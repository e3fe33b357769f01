----------------------------- MODULE MCReadCells -----------------------------
(* Every type alone, a long column before and after one with a buffer, and two    *)
(* long ones.  A cell of length 1 fits everywhere; one of length 3 takes three    *)
(* pieces of text, two of bytes, and passes the buffer of unknown types.  BIGINTs *)
(* are of the last length that fits each mapping and of the first that does not.  *)
EXTENDS ReadCells

MCSqlServer == [dbms |-> "Microsoft SQL Server", driver |-> "msodbcsql"]
MCFreeTDS == [dbms |-> "Microsoft SQL Server", driver |-> "other"]
MCSettings ==
  {<<MCSqlServer, FALSE, "integer64">>, <<MCSqlServer, TRUE, "string">>,
   <<MCFreeTDS, TRUE, "integer">>, <<MCFreeTDS, FALSE, "double">>}
MCLayouts == {<<t>> : t \in SqlTypes}
             \cup {<<"int", "longchar">>, <<"longchar", "int">>, <<"binary", "longchar">>}
MCSizes == {1, 3}
MCNumbers == 1..4
MCFitting == [integer |-> 1, double |-> 2, string |-> 3, integer64 |-> 3]
AllFaults == FaultKinds
=============================================================================
