---- MODULE MCSelection ----
(* A short name over a long one, and a first modem that is neither. *)
EXTENDS Selection

MCNames == <<<<"c">>, <<"a", "b">>, <<"d">>>>
====
