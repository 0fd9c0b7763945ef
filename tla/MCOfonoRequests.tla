-------------------------- MODULE MCOfonoRequests --------------------------
(* Every command but for some that go the same way as another: the first     *)
(* call stands for all in AT+CHLD=1x, reason 0 for 1 and 3 in AT+CCFC.       *)
EXTENDS OfonoRequests

At(name) == [at |-> name]
MCCommands ==
  {At("A"), At("H"), At("+CTFR"), At("+CHUP"), At("+CHLD=0"), At("+CHLD=1"), At("+CHLD=2"), At("+COPS=0")}
  \cup {[at |-> "+CHLD=1x", id |-> 1]}
  \cup {[at |-> "+CCFC=3", reason |-> r, number |-> n, time |-> t] : r \in {0, 2, 4, 5}, n \in Numbers, t \in Times}
  \cup {[at |-> "+CCFC=4", reason |-> r] : r \in {0, 2, 4, 5}}
  \cup {[at |-> "+CFUN", fun |-> f, rst |-> r] : f \in {0, 1, 4}, r \in BOOLEAN}
  \cup {[at |-> "+CGATT", on |-> on] : on \in BOOLEAN}
  \cup {[at |-> "+COPS=1", oper |-> oper] : oper \in Operators}
=============================================================================
