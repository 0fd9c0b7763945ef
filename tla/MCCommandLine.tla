--------------------------- MODULE MCCommandLine ---------------------------
(* Every line of up to four characters; what follows the literal " ;" in     *)
(* memory is harmless (Nothing), or the start of the name of a command.      *)
EXTENDS CommandLine

Nothing == <<>>
Something == <<"+", "Z">>
=============================================================================
