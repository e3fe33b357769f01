--------------------------- MODULE MCConnectionSetup ---------------------------
EXTENDS OpenConnection

MCBerlin == Named("Europe/Berlin")
MCRequests ==
  {[encoding |-> "other", name_encoding |-> "other", timezone |-> UTC, timezone_out |-> UTC,
    given |-> Attributes],
   [encoding |-> "", name_encoding |-> "other", timezone |-> MCBerlin, timezone_out |-> MCBerlin,
    given |-> {"azure_token"}],
   [encoding |-> "UTF-8", name_encoding |-> "", timezone |-> UTC, timezone_out |-> Named("Nowhere"),
    given |-> {}],
   [encoding |-> "other", name_encoding |-> "unknown", timezone |-> MCBerlin, timezone_out |-> UTC,
    given |-> {"timeout"}]}
MCEtc == {Etc("-", 1, <<>>), Etc("+", 12, <<>>), Etc("+", 1, <<>>)}
MCInstalled == {{}, {MCBerlin}, {MCBerlin} \cup MCEtc}
MCNamedOff == "Europe/Berlin" :> 3600 @@ "Nowhere" :> 0
\* Whole hours each way, a half hour, and less than an hour.
MCOffsets == {<<0, 0>>, <<1, 0>>, <<-12, 0>>, <<5, 30>>, <<0, -30>>}
\* Texts of at most three bytes.
MCTexts == UNION {[1..n -> Bytes] : n \in 0..2}
           \cup {<<"out", "char", "in">>, <<"base", "out", "bad">>, <<"char", "base", "char">>}
================================================================================
