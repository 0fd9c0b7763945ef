----------------------------- MODULE MCPolling -----------------------------
(* Four bytes from the terminal, one from the other side: an escape sequence, a byte before or *)
(* after it, and reads of one to three bytes.                                                   *)
EXTENDS Polling

MCMaxSent == [i \in {0, 1} |-> IF i = 0 THEN 4 ELSE 1]
=============================================================================
