-------------------------------- MODULE MCForms -------------------------------
(* Instances of Forms for TLC: texts with carries, a half-typed number, a   *)
(* negative price (an oil contract had one) and a text that is no number.   *)
EXTENDS Forms

MCPrices == {Text("", <<1>>, TRUE, <<>>), Text("", <<9>>, TRUE, <<9, 5>>), Text("-", <<>>, TRUE, <<1, 5>>)}
MCVolumes == {Text("", <<9>>, TRUE, <<9, 5>>)}
MCPercents == {Text("", <<1, 2>>, TRUE, <<5>>), Text("-", <<>>, FALSE, <<>>)}
===============================================================================
