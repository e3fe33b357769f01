-------------------------- MODULE MCBindParameters --------------------------
(* Two parameters.  Every vector type first and second, with a batch of one row,  *)
(* with three rows in batches of two (the last is shorter) and in one batch; NAs   *)
(* in every position; data frames without rows, with one and with two rows.        *)
EXTENDS BindParameters

Vector(t, vs) == [type |-> t, vals |-> vs]
Table(cs) == [type |-> "dataframe", cols |-> cs]
Bind(xs, n) == [x |-> xs, batch_rows |-> n]

Patterns == {<<1, 2, 3>>, <<0, 2, 0>>}
Vectors ==
  {Bind(<<Vector(t, vs), Vector(u, <<1, 0, 3>>)>>, n) :
     t \in VectorTypes \ {"other"}, u \in {"string", "datetime"}, vs \in Patterns, n \in {2, 3}}
Scalars == {Bind(<<Vector(t, <<v>>), Vector("raw", <<0>>)>>, 1) :
              t \in VectorTypes, v \in {0, 1}}
           \cup {Bind(<<Vector("direct", <<>>), Vector("raw", <<>>)>>, 1), Bind(<<Vector("raw", <<1>>)>>, 1)}
Frames ==
  {Table(<<Vector("string", vs)>>) : vs \in {<<>>, <<1>>, <<0>>, <<0, 2>>}}
  \cup {Table(<<Vector("direct", vs), Vector("buffered", vs)>>) : vs \in {<<>>, <<0>>, <<1, 0>>}}
  \cup {Table(<<Vector("raw", <<1>>), Vector("datetime", <<1>>), Vector("direct", <<1>>)>>),
        Table(<<Vector("other", <<1>>)>>)}
WithTables ==
  {Bind(<<Vector(t, <<1>>), f>>, 1) : t \in {"direct", "string"}, f \in Frames}
  \cup {Bind(<<f, Vector("datetime", <<1>>)>>, 1) : f \in Frames}
  \cup {Bind(<<Table(<<Vector("string", <<1, 2>>)>>), f>>, 1) : f \in Frames}

MCCalls == Vectors \cup Scalars \cup WithTables
MCParamTypes == {<<"plain", "plain">>, <<"plain", "table">>, <<"table", "plain">>,
                 <<"table", "table">>}
=============================================================================
