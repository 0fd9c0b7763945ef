------------------------------ MODULE MCModem ------------------------------
(* The modem on one reader thread, one plugin thread and one callback thread. *)
EXTENDS Modem
=============================================================================
