------------------------------ MODULE Dialogue ------------------------------
(***************************************************************************)
(* What a terminal may rely on, whatever goes on inside the modem:         *)
(*   - messages are whole: nobody starts one inside another;               *)
(*   - a command line is answered before the next one is taken;            *)
(*   - in data mode no message is started or in progress, for the data     *)
(*     stream is the connection's alone;                                   *)
(*   - a closed modem does not speak for itself; plugin threads may, until *)
(*     they are told to go, unless the modem was closed in data mode.      *)
(* Module Modem implements it (run modem of MCModem).                     *)
(***************************************************************************)
EXTENDS FiniteSets

CONSTANTS Modem,    \* the modem itself
          Others    \* the threads that send unsolicited messages

VARIABLES mode,     \* "closed", "command", "busy" (a line is being run) or "data"
          cut,      \* the connection was cut: closed while in data mode
          talking   \* those that have begun a message and not ended it

vars == <<mode, cut, talking>>

Init == mode = "closed" /\ cut = FALSE /\ talking = {}

\* A new session may start in the middle of no message.
Open ==
  /\ mode = "closed"
  /\ mode' = "command" /\ cut' = FALSE
  /\ UNCHANGED talking

Begin(t) ==
  /\ talking = {}
  /\ mode # "data" /\ ~cut
  /\ t = Modem => mode \in {"command", "busy"}
  /\ talking' = {t}
  /\ UNCHANGED <<mode, cut>>

\* A message ends, or is abandoned with its thread.
End(t) ==
  /\ t \in talking
  /\ talking' = talking \ {t}
  /\ UNCHANGED <<mode, cut>>

Take ==
  /\ mode = "command" /\ mode' = "busy"
  /\ Modem \notin talking
  /\ UNCHANGED <<cut, talking>>

\* The line is over: its last message ends, or there is none (ATQ1).
Answer ==
  /\ mode = "busy" /\ mode' = "command"
  /\ talking' = talking \ {Modem}
  /\ UNCHANGED cut

Connect ==
  /\ mode = "busy" /\ mode' = "data"
  /\ talking = {}
  /\ UNCHANGED <<cut, talking>>

Disconnect ==
  /\ mode = "data" /\ mode' = "busy"
  /\ UNCHANGED <<cut, talking>>

Close ==
  /\ mode # "closed" /\ mode' = "closed"
  /\ cut' = (mode = "data")
  /\ talking' = talking \ {Modem}

Next ==
  \/ Open \/ Take \/ Answer \/ Connect \/ Disconnect \/ Close
  \/ \E t \in {Modem} \cup Others : Begin(t) \/ End(t)

Spec == Init /\ [][Next]_vars
=============================================================================
