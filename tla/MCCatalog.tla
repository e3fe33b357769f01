------------------------------- MODULE MCCatalog -------------------------------
EXTENDS Catalog

\* A NULL in any one column, or in all that may be NULL; every answer for NULLABLE.
MCRows ==
  {[null |-> n, nullable |-> 1] :
     n \in {{c} : c \in 0..17} \cup {{0, 1, 8, 9, 11, 12, 14, 15, 17}}}
  \cup {[null |-> {}, nullable |-> v] : v \in 0..2}
\* dbListTables, a search for one table, and one that the driver takes for an enumeration.
MCSearches ==
  {Search("null", "null", "%", "null"), Search("null", "name", "name", "name"),
   Search("%", "", "", "")}
MCLongSets == {{}, {11}, {4, 11, 12}, {1, 2}, {17}}
MCDrivers ==
  {[attrs |-> a, closed |-> c, cut |-> FALSE] :
     a \in {<<>>, <<"pair">>, <<"pair", "pair">>, <<"pair", "bare">>}, c \in BOOLEAN}
  \cup {[attrs |-> <<"pair">>, closed |-> TRUE, cut |-> TRUE]}
================================================================================
