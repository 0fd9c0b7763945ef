---------------------------- MODULE MCExecution ----------------------------
(* Every line of up to four characters is executed, with every set of three  *)
(* names that start with one another or differ at a later character; a       *)
(* fourth name is too long. ATZ, ATS and a voice call have handlers; AT&Z,   *)
(* ATD without a semicolon and the others have none.                         *)
EXTENDS Lines

Harmless == <<>>
MCNames == {<<"+", "Z">>, <<"+", "Z", "S">>, <<"+", "S", "1">>, <<"+", "Z", "S", "D">>}
MCBasics == {<<"Z">>, <<"S">>, <<"D", ";">>}
=============================================================================
