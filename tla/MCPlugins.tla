----------------------------- MODULE MCPlugins -----------------------------
(* Modems that share the plugins; they are interchangeable.                  *)
EXTENDS Plugins, TLC

ModemSymmetry == Permutations(Modems)
=============================================================================
