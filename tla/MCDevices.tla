----------------------------- MODULE MCDevices -----------------------------
(* Modems are interchangeable.                                               *)
EXTENDS Devices, TLC

ModemSymmetry == Permutations(Modems)

MCTerminals == {{"CS8", "CLOCAL"} \cup s : s \in SUBSET {"CSTOPB", "PARODD"}}
=============================================================================
