------------------------------ MODULE Polling ------------------------------
(* The two loops around poll() that move what others send: the thread of the *)
(* D-Bus connection and the relay of data mode. They share nothing, so each  *)
(* behaviour is one of the connection or one of the relay.                   *)
EXTENDS DBusLoop

CONSTANTS Alphabet, Mtu, MaxSent, HangsUp    \* those of DataRelay

VARIABLES part, relay_revents, buf, quiet, why, sent, queue, got, line

relayVars == <<relay_revents, buf, quiet, why, sent, queue, got, line>>
allVars == <<part, vars, relayVars>>

Relay == INSTANCE DataRelay WITH revents <- relay_revents

ASSUME RelayConstants == Relay!RelayAssumption

AllInit == part \in {"bus", "relay"} /\ Init /\ Relay!Init

AllNext ==
  \/ part = "bus" /\ Next /\ UNCHANGED <<part, relayVars>>
  \/ part = "relay" /\ Relay!Next /\ UNCHANGED <<part, vars>>

AllSpec ==
  /\ AllInit /\ [][AllNext]_allVars
  /\ WF_allVars(part = "bus" /\ Thread /\ UNCHANGED <<part, relayVars>>)
  /\ \A c \in Clients : WF_allVars(part = "bus" /\ Wakes(c) /\ UNCHANGED <<part, relayVars>>)
  /\ WF_allVars(part = "relay" /\ Relay!Poll /\ UNCHANGED <<part, vars>>)
  /\ \A i \in {0, 1} :
       /\ SF_allVars(part = "relay" /\ Relay!Reads(i) /\ UNCHANGED <<part, vars>>)
       /\ SF_allVars(part = "relay" /\ Relay!Writes(i) /\ UNCHANGED <<part, vars>>)
       /\ SF_allVars(part = "relay" /\ Relay!PollRoom(i) /\ UNCHANGED <<part, vars>>)

\* The properties of the relay, stated in its module.
StreamsIntact == Relay!StreamsIntact
EndDelivers == Relay!EndDelivers
EndEnds == Relay!EndEnds
=============================================================================
