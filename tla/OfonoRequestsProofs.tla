------------------------ MODULE OfonoRequestsProofs ------------------------
(* Proofs about OfonoRequests, for any number of voice calls, commands,       *)
(* changes by others and faults.                                              *)
EXTENDS OfonoRequests, FiniteSetTheorems, TLAPS

-----------------------------------------------------------------------------
(* The D-Bus calls of a command, as a set and in their order.               *)
Calls(s) == {s[i] : i \in DOMAIN s}

Reason(c) == CASE c.reason = 4 -> 0..3 [] c.reason = 5 -> 1..3 [] OTHER -> {c.reason}

Timeout == "VoiceNoReplyTimeout"
PowerOff == Set("Powered", FALSE)
PowerOn == Set("Powered", TRUE)
OnLine(c) == Set("Online", c.fun = 1)
Hangup(id) == Method("Hangup", id)

\* The calls that a command may make.
Steps(c) ==
  CASE c.at = "A"       -> {GetCalls} \cup {Method("Answer", id) : id \in Ids}
    [] c.at = "+CTFR"   -> {GetCalls} \cup {Method("Deflect", id) : id \in Ids}
    [] c.at \in {"+CHUP", "+CHLD=0"} -> {GetCalls} \cup {Hangup(id) : id \in Ids}
    [] c.at = "H"        -> {Method("HangupAll", 0)}
    [] c.at = "+CHLD=1x" -> {Hangup(c.id)}
    [] c.at = "+CHLD=1"  -> {Method("ReleaseAndAnswer", 0)}
    [] c.at = "+CHLD=2"  -> {Method("SwapCalls", 0)}
    [] c.at = "+CCFC=3"  -> {Set(Property(r), c.number) : r \in Reason(c)}
                            \cup (IF 2 \in Reason(c) THEN {Set(Timeout, c.time)} ELSE {})
    [] c.at = "+CCFC=4"  -> IF c.reason < 4 THEN {Set(Property(c.reason), Off)}
                            ELSE {Method("DisableAll", IF c.reason = 4 THEN "all" ELSE "conditional")}
    [] c.at = "+CFUN"    -> IF c.fun = 0 THEN {PowerOff} ELSE {PowerOff, PowerOn, OnLine(c)}
    [] c.at = "+CGATT"   -> {Set("RoamingAllowed", TRUE), Set("Gprs", c.on)}
    [] c.at = "+COPS=0"  -> {Method("Register", "auto")}
    [] c.at = "+COPS=1"  -> {Method("GetOperators", c.oper), Method("Scan", c.oper), Method("Register", c.oper)}
    [] OTHER             -> {}

\* No call is made twice in a row of calls; what takes but one call has no other after it;
\* the modem is put on line last, and powered off before it is powered on; the time of
\* "no reply" is set before its number.
Before(c, d) ==
  /\ c # d
  /\ c.do \in {"set", "Hangup"}
  /\ c.do = "set" =>
       /\ c.prop \notin {"Online", "Gprs"}
       /\ c.prop = "VoiceNoReply" => d.prop # Timeout
       /\ c = PowerOn => d # PowerOff

Ordered(s) == \A i, j \in DOMAIN s : i < j => Before(s[i], s[j])

\* What Head and Tail do to the calls and to their order.
LEMMA TailCalls ==
  ASSUME NEW S, NEW s \in Seq(S), s # <<>>
  PROVE  /\ Head(s) \in S /\ Tail(s) \in Seq(S)
         /\ Calls(s) = {Head(s)} \cup Calls(Tail(s))
         /\ Ordered(s) => Ordered(Tail(s)) /\ \A d \in Calls(Tail(s)) : Before(Head(s), d)
<1>1. /\ Len(s) \in Nat /\ Len(s) > 0 /\ Head(s) = s[1] /\ Head(s) \in S
      /\ Tail(s) \in Seq(S) /\ Len(Tail(s)) = Len(s) - 1
      /\ DOMAIN s = 1..Len(s) /\ DOMAIN Tail(s) = 1..(Len(s) - 1)
      /\ \A i \in 1..(Len(s) - 1) : Tail(s)[i] = s[i + 1]
  OBVIOUS
<1>2. Calls(s) = {Head(s)} \cup Calls(Tail(s))
  <2>1. ASSUME NEW i \in DOMAIN s PROVE s[i] \in {Head(s)} \cup Calls(Tail(s))
    <3>1. CASE i = 1
      BY <1>1, <3>1
    <3>2. CASE i # 1
      <4>1. i - 1 \in DOMAIN Tail(s) /\ Tail(s)[i - 1] = s[i]
        BY <1>1, <3>2
      <4>2. QED
        BY <4>1 DEF Calls
    <3>3. QED
      BY <3>1, <3>2
  <2>2. ASSUME NEW i \in DOMAIN Tail(s) PROVE Tail(s)[i] \in Calls(s)
    <3>1. i + 1 \in DOMAIN s /\ Tail(s)[i] = s[i + 1]
      BY <1>1
    <3>2. QED
      BY <3>1 DEF Calls
  <2>3. Head(s) \in Calls(s)
    BY <1>1 DEF Calls
  <2>4. QED
    BY <2>1, <2>2, <2>3 DEF Calls
<1>3. ASSUME Ordered(s)
      PROVE  Ordered(Tail(s)) /\ \A d \in Calls(Tail(s)) : Before(Head(s), d)
  <2>1. ASSUME NEW i \in DOMAIN Tail(s) PROVE i + 1 \in DOMAIN s /\ Tail(s)[i] = s[i + 1] /\ 1 < i + 1 /\ i \in Nat
    BY <1>1
  <2>2. 1 \in DOMAIN s
    BY <1>1
  <2>3. ASSUME NEW i \in DOMAIN Tail(s), NEW j \in DOMAIN Tail(s), i < j PROVE Before(Tail(s)[i], Tail(s)[j])
    <3>1. i + 1 < j + 1
      BY <2>1, <2>3
    <3>2. QED
      BY <3>1, <2>1, <1>3 DEF Ordered
  <2>4. ASSUME NEW i \in DOMAIN Tail(s) PROVE Before(Head(s), Tail(s)[i])
    BY <2>1, <2>2, <1>1, <1>3 DEF Ordered
  <2>5. QED
    BY <2>3, <2>4 DEF Ordered, Calls
<1>4. QED
  BY <1>1, <1>2, <1>3

\* What concatenation does to them.
LEMMA ConcatCalls ==
  ASSUME NEW S, NEW s \in Seq(S), NEW t \in Seq(S)
  PROVE  /\ s \o t \in Seq(S)
         /\ Calls(s \o t) = Calls(s) \cup Calls(t)
         /\ (Ordered(s) /\ Ordered(t) /\ \A c \in Calls(s), d \in Calls(t) : Before(c, d)) => Ordered(s \o t)
<1> DEFINE u == s \o t
<1>1. /\ Len(s) \in Nat /\ Len(t) \in Nat /\ u \in Seq(S) /\ Len(u) = Len(s) + Len(t)
      /\ DOMAIN s = 1..Len(s) /\ DOMAIN t = 1..Len(t) /\ DOMAIN u = 1..(Len(s) + Len(t))
      /\ \A i \in 1..Len(s) : u[i] = s[i]
      /\ \A i \in 1..Len(t) : u[Len(s) + i] = t[i]
  OBVIOUS
<1> HIDE DEF u
<1>2. ASSUME NEW i \in DOMAIN u
      PROVE  \/ i \in DOMAIN s /\ u[i] = s[i]
             \/ i > Len(s) /\ i - Len(s) \in DOMAIN t /\ u[i] = t[i - Len(s)]
  <2>1. CASE i <= Len(s)
    BY <1>1, <2>1
  <2>2. CASE i > Len(s)
    <3>1. i - Len(s) \in 1..Len(t) /\ i = Len(s) + (i - Len(s))
      BY <1>1, <2>2
    <3>2. QED
      BY <1>1, <3>1, <2>2
  <2>3. QED
    BY <1>1, <2>1, <2>2
<1>3. ASSUME NEW i \in DOMAIN s PROVE i \in DOMAIN u /\ u[i] = s[i]
  BY <1>1
<1>4. ASSUME NEW i \in DOMAIN t PROVE Len(s) + i \in DOMAIN u /\ u[Len(s) + i] = t[i]
  BY <1>1
<1>5. Calls(u) = Calls(s) \cup Calls(t)
  <2>1. ASSUME NEW i \in DOMAIN u PROVE u[i] \in Calls(s) \cup Calls(t)
    BY <1>2 DEF Calls
  <2>2. ASSUME NEW i \in DOMAIN s PROVE s[i] \in Calls(u)
    BY <1>3 DEF Calls
  <2>3. ASSUME NEW i \in DOMAIN t PROVE t[i] \in Calls(u)
    BY <1>4 DEF Calls
  <2>4. QED
    BY <2>1, <2>2, <2>3 DEF Calls
<1>6. ASSUME Ordered(s), Ordered(t), \A c \in Calls(s), d \in Calls(t) : Before(c, d)
      PROVE  Ordered(u)
  <2>1. SUFFICES ASSUME NEW i \in DOMAIN u, NEW j \in DOMAIN u, i < j PROVE Before(u[i], u[j])
    BY DEF Ordered
  <2>2. i \in Nat /\ j \in Nat
    BY <1>1
  <2>3. CASE i \in DOMAIN s /\ j \in DOMAIN s
    BY <2>1, <2>3, <1>3, <1>6 DEF Ordered
  <2>4. CASE i \in DOMAIN s /\ j > Len(s)
    <3>1. u[i] \in Calls(s) /\ u[j] \in Calls(t)
      BY <2>4, <1>1, <1>2, <1>3 DEF Calls
    <3>2. QED
      BY <3>1, <1>6
  <2>5. CASE i > Len(s) /\ j > Len(s)
    <3>1. i - Len(s) \in DOMAIN t /\ j - Len(s) \in DOMAIN t /\ i - Len(s) < j - Len(s)
      BY <2>1, <2>2, <2>5, <1>1
    <3>2. u[i] = t[i - Len(s)] /\ u[j] = t[j - Len(s)]
      BY <1>1, <1>2, <2>2, <2>5
    <3>3. QED
      BY <3>1, <3>2, <1>6 DEF Ordered
  <2>6. QED
    BY <2>1, <2>2, <2>3, <2>4, <2>5, <1>1
<1>7. QED
  BY <1>1, <1>5, <1>6 DEF u


\* The calls C, which are of S, each once and in order.
Lists(S, s, C) == s \in Seq(S) /\ Ordered(s) /\ Calls(s) = C

LEMMA NoCalls ==
  ASSUME NEW S PROVE Lists(S, <<>>, {})
BY DEF Lists, Calls, Ordered

LEMMA OneCall ==
  ASSUME NEW S, NEW c \in S
  PROVE  Lists(S, <<c>>, {c})
<1>1. DOMAIN <<c>> = {1} /\ <<c>>[1] = c /\ <<c>> \in Seq(S)
  OBVIOUS
<1>2. QED
  BY <1>1 DEF Lists, Ordered, Calls

LEMMA TwoCalls ==
  ASSUME NEW S, NEW c \in S, NEW d \in S, Before(c, d)
  PROVE  Lists(S, <<c, d>>, {c, d})
<1> DEFINE s == <<c, d>>
<1>1. DOMAIN s = {1, 2} /\ s[1] = c /\ s[2] = d /\ s \in Seq(S)
  OBVIOUS
<1>2. QED
  BY <1>1 DEF Lists, Ordered, Calls

LEMMA MoreCalls ==
  ASSUME NEW S, NEW s, NEW C, NEW t, NEW D, Lists(S, s, C), Lists(S, t, D),
         \A c \in C, d \in D : Before(c, d)
  PROVE  Lists(S, s \o t, C \cup D)
<1>1. s \in Seq(S) /\ t \in Seq(S) /\ Ordered(s) /\ Ordered(t) /\ Calls(s) = C /\ Calls(t) = D
  BY DEF Lists
<1>2. \A c \in Calls(s), d \in Calls(t) : Before(c, d)
  BY <1>1
<1>3. QED
  BY <1>1, <1>2, ConcatCalls DEF Lists

\* A list without calls is empty.
LEMMA EmptyList ==
  ASSUME NEW S, NEW s \in Seq(S), Calls(s) = {} PROVE s = <<>>
<1>1. s # <<>> => 1 \in DOMAIN s
  OBVIOUS
<1>2. QED
  BY <1>1 DEF Calls

\* reason_to_prop(), the names of the properties.
LEMMA PropertyNames ==
  /\ Property(0) = "VoiceUnconditional" /\ Property(1) = "VoiceBusy"
  /\ Property(2) = "VoiceNoReply" /\ Property(3) = "VoiceNotReachable"
  /\ \A r \in 0..3 : Property(r) = Forward[r + 1] /\ Property(r) \in Names /\ Property(r) \notin Booleans \cup {Timeout}
  /\ \A r, s \in 0..3 : Property(r) = Property(s) => r = s
<1>1. /\ Property(0) = "VoiceUnconditional" /\ Property(1) = "VoiceBusy"
      /\ Property(2) = "VoiceNoReply" /\ Property(3) = "VoiceNotReachable"
  BY DEF Property, Forward
<1>2. 0..3 = {0, 1, 2, 3} /\ 1..4 = {1, 2, 3, 4}
  OBVIOUS
<1>3. \A r \in 0..3 : Property(r) = Forward[r + 1]
  BY DEF Property
<1>4. \A r \in 0..3 : Forward[r + 1] \in Names
  BY DEF Names
<1>5. QED
  BY <1>1, <1>2, <1>3, <1>4 DEF Booleans, Timeout

LEMMA ReasonsKnown ==
  ASSUME NEW c \in Known, c.at \in {"+CCFC=3", "+CCFC=4"}
  PROVE  /\ c.reason \in 0..5 /\ Reason(c) \subseteq 0..3
         /\ c.reason < 4 => Reason(c) = {c.reason}
         /\ c.reason = 4 => Reason(c) = 0..3
         /\ c.reason = 5 => Reason(c) = 1..3
BY DEF Known, Reason

\* What a handler calls first: each once, and in order.
LEMMA Handled ==
  ASSUME NEW c \in Commands
  PROVE  \E C :
         /\ Lists(Steps(c), Handle(c), C) /\ C # {}
         /\ c.at \in {"A", "+CTFR", "+CHUP", "+CHLD=0"} => C = {GetCalls}
         /\ c.at = "+CCFC=3" => C = Steps(c)
         /\ c.at = "+CFUN" => C = IF c.fun = 0 THEN {PowerOff}
                                  ELSE (IF c.rst THEN {PowerOff} ELSE {}) \cup {PowerOn, OnLine(c)}
         /\ c.at = "+CGATT" => Set("Gprs", c.on) \in C
<1>1. c \in Known
  BY RequestAssumption
<1>2. CASE c.at \in {"A", "+CTFR", "+CHUP", "+CHLD=0"}
  <2>1. GetCalls \in Steps(c) /\ Handle(c) = <<GetCalls>>
    BY <1>2 DEF Steps, Handle
  <2>2. Lists(Steps(c), Handle(c), {GetCalls})
    BY <2>1, OneCall
  <2>3. QED
    BY <1>2, <2>2
<1>3. CASE c.at \in {"H", "+CHLD=1x", "+CHLD=1", "+CHLD=2", "+COPS=0", "+COPS=1", "+CCFC=4"}
  <2>1. \E q \in Steps(c) : Handle(c) = <<q>>
    <3>1. CASE c.at # "+CCFC=4"
      BY <1>3, <3>1 DEF Steps, Handle, Hangup
    <3>2. CASE c.at = "+CCFC=4"
      BY <3>2 DEF Steps, Handle, cf_erase
    <3>3. QED
      BY <3>1, <3>2
  <2>2. PICK q : q \in Steps(c) /\ Handle(c) = <<q>>
    BY <2>1
  <2>3. Lists(Steps(c), Handle(c), {q})
    BY <2>2, OneCall
  <2>4. QED
    BY <1>3, <2>3
<1>4. CASE c.at = "+CGATT"
  <2>1. PICK q, r, first : /\ q = Set("Gprs", c.on) /\ r = Set("RoamingAllowed", TRUE)
                           /\ first = IF c.on THEN <<r>> ELSE <<>>
    OBVIOUS
  <2>2. q \in Steps(c) /\ r \in Steps(c) /\ Handle(c) = first \o <<q>>
    BY <1>4, <2>1 DEF Steps, Handle, set_attach
  <2>3. Before(r, q)
    BY <2>1 DEF Before, Set, Timeout, PowerOn
  <2>4. Lists(Steps(c), <<q>>, {q})
    BY <2>2, OneCall
  <2>5. \E C \in {{}, {r}} : Lists(Steps(c), first, C)
    BY <2>1, <2>2, OneCall, NoCalls
  <2>6. \E C \in {{}, {r}} : Lists(Steps(c), Handle(c), C \cup {q})
    BY <2>2, <2>3, <2>4, <2>5, MoreCalls
  <2>7. QED
    BY <1>4, <2>1, <2>6
<1>5. CASE c.at = "+CFUN"
  <2>1. CASE c.fun = 0
    <3>1. PowerOff \in Steps(c) /\ Handle(c) = <<PowerOff>>
      BY <1>5, <2>1 DEF Steps, Handle, set_cfun, PowerOff
    <3>2. Lists(Steps(c), Handle(c), {PowerOff})
      BY <3>1, OneCall
    <3>3. QED
      BY <1>5, <2>1, <3>2
  <2>2. CASE c.fun # 0
    <3>1. PICK first : first = IF c.rst THEN <<PowerOff>> ELSE <<>>
      OBVIOUS
    <3>2. /\ PowerOff \in Steps(c) /\ PowerOn \in Steps(c) /\ OnLine(c) \in Steps(c)
          /\ Handle(c) = first \o <<PowerOn, OnLine(c)>>
      BY <1>5, <2>2, <3>1 DEF Steps, Handle, set_cfun, PowerOff, PowerOn, OnLine
    <3>3. Before(PowerOn, OnLine(c)) /\ Before(PowerOff, PowerOn) /\ Before(PowerOff, OnLine(c))
      BY DEF Before, PowerOn, PowerOff, OnLine, Set, Timeout
    <3>4. Lists(Steps(c), first, IF c.rst THEN {PowerOff} ELSE {})
      BY <3>1, <3>2, OneCall, NoCalls
    <3>5. Lists(Steps(c), <<PowerOn, OnLine(c)>>, {PowerOn, OnLine(c)})
      BY <3>2, <3>3, TwoCalls
    <3>6. Lists(Steps(c), Handle(c), (IF c.rst THEN {PowerOff} ELSE {}) \cup {PowerOn, OnLine(c)})
      BY <3>2, <3>3, <3>4, <3>5, MoreCalls
    <3>7. QED
      BY <1>5, <2>2, <3>6
  <2>3. QED
    BY <2>1, <2>2
<1>6. CASE c.at = "+CCFC=3"
  <2> DEFINE S == Steps(c)
             q(r) == Set(Property(r), c.number)
             t == Set(Timeout, c.time)
             one(r) == cf_one(r, c.number, c.time)
             all(r) == {q(r)} \cup (IF r = 2 THEN {t} ELSE {})
  <2>1. S = {q(r) : r \in Reason(c)} \cup (IF 2 \in Reason(c) THEN {t} ELSE {})
    BY <1>6 DEF Steps
  <2>2. /\ c.reason \in 0..5
        /\ c.reason < 4 => Reason(c) = {c.reason}
        /\ c.reason = 4 => Reason(c) = {0, 1, 2, 3}
        /\ c.reason = 5 => Reason(c) = {1, 2, 3}
    <3>1. 0..3 = {0, 1, 2, 3} /\ 1..3 = {1, 2, 3}
      OBVIOUS
    <3>2. QED
      BY <1>1, <1>6, <3>1, ReasonsKnown
  <2>3. \A r, s \in {0, 1, 2, 3} : r # s => Before(q(r), q(s))
    <3>1. \A r \in {0, 1, 2, 3} : q(r).do = "set" /\ q(r).prop = Property(r)
      BY DEF Set
    <3>2. \A r, s \in {0, 1, 2, 3} : r # s => Property(r) # Property(s)
      BY PropertyNames
    <3>3. QED
      BY <3>1, <3>2, PropertyNames DEF Before, Booleans, PowerOn, Set
  <2>4. Before(t, q(2)) /\ Before(q(0), t) /\ Before(q(1), t) /\ Before(t, q(3))
    BY PropertyNames DEF Before, PowerOn, Set, Timeout
  <2>5. ASSUME NEW r \in Reason(c) PROVE Lists(S, one(r), all(r))
    <3>1. q(r) \in S
      BY <2>1
    <3>2. CASE r = 2
      <4>1. t \in S
        BY <2>1, <3>2
      <4>2. one(r) = <<t>> \o <<q(r)>>
        BY <3>2 DEF cf_one, Timeout
      <4>3. Before(t, q(r))
        BY <2>4, <3>2
      <4> HIDE DEF S, q, t, one
      <4>4. Lists(S, <<t>> \o <<q(r)>>, {t} \cup {q(r)})
        BY <3>1, <4>1, <4>3, OneCall, MoreCalls
      <4>5. QED
        BY <3>2, <4>2, <4>4
    <3>3. CASE r # 2
      <4>1. one(r) = <<>> \o <<q(r)>>
        BY <3>3 DEF cf_one
      <4> HIDE DEF S, q, t, one
      <4>2. Lists(S, <<>> \o <<q(r)>>, {} \cup {q(r)})
        BY <3>1, OneCall, NoCalls, MoreCalls
      <4>3. QED
        BY <3>3, <4>1, <4>2
    <3>4. QED
      BY <3>2, <3>3
  <2>6. Handle(c) = cf_register(c.reason, c.number, c.time)
    BY <1>6 DEF Handle
  <2>7. CASE c.reason < 4
    <3>1. Handle(c) = one(c.reason)
      BY <2>6, <2>7 DEF cf_register
    <3> HIDE DEF q, t, one
    <3>2. all(c.reason) = S /\ all(c.reason) # {} /\ c.reason \in Reason(c)
      BY <2>1, <2>2, <2>7
    <3> HIDE DEF S, all
    <3>3. Lists(S, Handle(c), S)
      BY <2>5, <3>1, <3>2
    <3>4. QED
      BY <1>6, <3>2, <3>3 DEF S
  <2>8. CASE c.reason \in {4, 5}
    <3>1. PICK first : first = IF c.reason = 4 THEN one(0) ELSE <<>>
      OBVIOUS
    <3>2. Handle(c) = first \o one(1) \o one(2) \o one(3)
      <4>1. ~(c.reason < 4)
        BY <2>8
      <4>2. CASE c.reason = 4
        BY <2>6, <4>1, <4>2, <3>1 DEF cf_register
      <4>3. CASE c.reason = 5
        BY <2>6, <4>1, <4>3, <3>1 DEF cf_register
      <4>4. QED
        BY <2>8, <4>2, <4>3
    <3> HIDE DEF q, t, one
    <3>3. PICK C : C = IF c.reason = 4 THEN all(0) ELSE {}
      OBVIOUS
    <3>4. \A a \in C : a = q(0)
      BY <3>3
    <3>5. Lists(S, first, C)
      BY <2>2, <2>5, <2>8, <3>1, <3>3, NoCalls
    <3>6. Lists(S, one(1), all(1)) /\ Lists(S, one(2), all(2)) /\ Lists(S, one(3), all(3))
      BY <2>2, <2>5, <2>8
    <3>7. all(1) = {q(1)} /\ all(2) = {q(2), t} /\ all(3) = {q(3)}
      OBVIOUS
    <3>8. S = C \cup all(1) \cup all(2) \cup all(3) /\ S # {}
      BY <2>1, <2>2, <2>8, <3>3
    <3> HIDE DEF S, all
    <3>9. Lists(S, first \o one(1), C \cup all(1))
      <4>1. \A a \in C, b \in all(1) : Before(a, b)
        BY <2>3, <3>4, <3>7
      <4>2. QED
        BY <4>1, <3>5, <3>6, MoreCalls
    <3>10. Lists(S, first \o one(1) \o one(2), C \cup all(1) \cup all(2))
      <4>1. \A a \in C \cup all(1), b \in all(2) : Before(a, b)
        BY <2>3, <2>4, <3>4, <3>7
      <4>2. QED
        BY <4>1, <3>6, <3>9, MoreCalls
    <3>11. Lists(S, first \o one(1) \o one(2) \o one(3), C \cup all(1) \cup all(2) \cup all(3))
      <4>1. \A a \in C \cup all(1) \cup all(2), b \in all(3) : Before(a, b)
        BY <2>3, <2>4, <3>4, <3>7
      <4>2. QED
        BY <4>1, <3>6, <3>10, MoreCalls
    <3>12. Lists(S, Handle(c), S)
      BY <3>2, <3>8, <3>11
    <3>13. QED
      BY <1>6, <3>8, <3>12 DEF S
  <2>9. QED
    BY <2>2, <2>7, <2>8
<1>7. QED
  BY <1>1, <1>2, <1>3, <1>4, <1>5, <1>6 DEF Known

-----------------------------------------------------------------------------
(* The inductive invariant.                                                 *)
TypeOK ==
  /\ calls \in [Ids -> States]
  /\ props = [prop \in Names |-> props[prop]]
  /\ \A prop \in Names : props[prop] \in Values(prop)
  /\ networks \subseteq Operators
  /\ cmd \in Commands \cup {[at |-> "none"]}
  /\ todo \in Seq(Steps(cmd))
  /\ res \in {"OK", "failed", "other", "NO CARRIER"}
  /\ before = [calls |-> before.calls, props |-> before.props] /\ before.calls \in [Ids -> States]
  /\ disturbed \in BOOLEAN /\ failed \in BOOLEAN
  /\ count \in [commands : 0..MaxCommands, changes : 0..MaxChanges, faults : 0..MaxFaults]

TodoOK == Ordered(todo) /\ (Running => res = "OK")

ToDo(q) == q \in Calls(todo)

\* The calls that are to be hung up are still those that the command is for.
HangupsOK ==
  (~disturbed /\ cmd.at \in {"+CHUP", "+CHLD=0"}) =>
    \A id \in Ids : ToDo(Hangup(id)) => Touches(id)

\* The time is set, or is going to be, before the number.
TimeOK ==
  (~disturbed /\ cmd.at = "+CCFC=3" /\ 2 \in Reasons /\ ToDo(Set("VoiceNoReply", cmd.number))) =>
    ToDo(Set(Timeout, cmd.time)) \/ props[Timeout] = cmd.time

\* What a command stands for is done, but for the calls that it has still to make.
Rest ==
  CASE cmd.at = "+CHUP" -> ToDo(GetCalls) \/ ~There("active")
    [] cmd.at = "+CHLD=0" ->
         IF ToDo(GetCalls) THEN calls = before.calls /\ \A id \in Ids : ~ToDo(Hangup(id))
         ELSE /\ \A id \in Ids : calls[id] = "waiting" => ToDo(Hangup(id))
              /\ \/ \E id \in Ids : before.calls[id] = "waiting"
                 \/ \A id \in Ids : calls[id] = "held" => ToDo(Hangup(id))
    [] cmd.at = "+CCFC=3" ->
         /\ \A r \in Reasons : ToDo(Set(Property(r), cmd.number)) \/ props[Property(r)] = cmd.number
         /\ 2 \in Reasons => ToDo(Set(Timeout, cmd.time)) \/ props[Timeout] = cmd.time
    [] cmd.at = "+CFUN" ->
         IF cmd.fun = 0 THEN ToDo(PowerOff) \/ (~props["Powered"] /\ ~props["Online"])
         ELSE /\ ToDo(PowerOn) \/ (props["Powered"] /\ ~ToDo(PowerOff))
              /\ ToDo(OnLine(cmd)) \/ (~Running /\ props["Online"] = (cmd.fun = 1))
    [] cmd.at = "+CGATT" -> ToDo(Set("Gprs", cmd.on)) \/ props["Gprs"] = cmd.on
    [] OTHER -> Running \/ Fulfilled

RestOK == (res = "OK" /\ ~disturbed /\ (cmd.at \in {"H", "+CHUP"} => ~failed)) => Rest

Inv == TypeOK /\ TodoOK /\ Legal(calls) /\ HangupsOK /\ TimeOK /\ RestOK /\ OnlyNamedSettings

-----------------------------------------------------------------------------
(* What a call of a command can be, and what it does.                       *)
LEMMA StepForms ==
  ASSUME NEW c \in Known \cup {[at |-> "none"]}, NEW q \in Steps(c)
  PROVE  /\ c \in Known
         /\ \/ c.at \in {"A", "+CTFR", "+CHUP", "+CHLD=0"} /\ q = GetCalls
            \/ c.at = "A" /\ \E id \in Ids : q = Method("Answer", id)
            \/ c.at = "+CTFR" /\ \E id \in Ids : q = Method("Deflect", id)
            \/ c.at \in {"+CHUP", "+CHLD=0", "+CHLD=1x"} /\ \E id \in Ids : q = Hangup(id) /\ (c.at = "+CHLD=1x" => id = c.id)
            \/ c.at = "H" /\ q = Method("HangupAll", 0)
            \/ c.at = "+CHLD=1" /\ q = Method("ReleaseAndAnswer", 0)
            \/ c.at = "+CHLD=2" /\ q = Method("SwapCalls", 0)
            \/ c.at = "+CCFC=3" /\ \E r \in Reason(c) : q = Set(Property(r), c.number)
            \/ c.at = "+CCFC=3" /\ 2 \in Reason(c) /\ q = Set(Timeout, c.time)
            \/ c.at = "+CCFC=4" /\ c.reason < 4 /\ q = Set(Property(c.reason), Off)
            \/ c.at = "+CCFC=4" /\ c.reason = 4 /\ q = Method("DisableAll", "all")
            \/ c.at = "+CCFC=4" /\ c.reason = 5 /\ q = Method("DisableAll", "conditional")
            \/ c.at = "+CFUN" /\ q = PowerOff
            \/ c.at = "+CFUN" /\ c.fun # 0 /\ q \in {PowerOn, OnLine(c)}
            \/ c.at = "+CGATT" /\ q \in {Set("RoamingAllowed", TRUE), Set("Gprs", c.on)}
            \/ c.at = "+COPS=0" /\ q = Method("Register", "auto")
            \/ c.at = "+COPS=1" /\ q \in {Method("GetOperators", c.oper), Method("Scan", c.oper), Method("Register", c.oper)}
<1>1. c \in Known
  <2>1. CASE c = [at |-> "none"]
    <3>1. c.at = "none"
      BY <2>1
    <3>2. Steps(c) = {}
      BY <3>1 DEF Steps
    <3>3. QED
      BY <3>2
  <2>2. QED
    BY <2>1
<1>2. CASE c.at \in {"A", "+CTFR", "+CHUP", "+CHLD=0"}
  BY <1>1, <1>2 DEF Steps
<1>3. CASE c.at \in {"H", "+CHLD=1", "+CHLD=2", "+COPS=0", "+COPS=1"}
  BY <1>1, <1>3 DEF Steps
<1>4. CASE c.at = "+CHLD=1x"
  BY <1>1, <1>4 DEF Steps, Known
<1>5. CASE c.at = "+CCFC=3"
  BY <1>1, <1>5 DEF Steps
<1>6. CASE c.at = "+CCFC=4"
  <2>1. c.reason \in 0..5
    BY <1>1, <1>6, ReasonsKnown
  <2>2. QED
    BY <1>1, <1>6, <2>1 DEF Steps
<1>7. CASE c.at \in {"+CFUN", "+CGATT"}
  BY <1>1, <1>7 DEF Steps
<1>8. QED
  BY <1>1, <1>2, <1>3, <1>4, <1>5, <1>6, <1>7 DEF Known

\* A call that sets a property sets one that there is, to a value that it can have.
LEMMA SetForms ==
  ASSUME NEW c \in Known \cup {[at |-> "none"]}, NEW q \in Steps(c), q.do = "set"
  PROVE  /\ q = Set(q.prop, q.value) /\ q.prop \in Names /\ q.value \in Values(q.prop)
         /\ c.at \in {"+CCFC=3", "+CCFC=4", "+CFUN", "+CGATT"}
<1>1. c \in Known
  BY StepForms
<1>2. q \notin {GetCalls} \cup {Hangup(id) : id \in Ids}
  BY DEF GetCalls, Hangup, Method
<1>3. CASE \E r \in 0..3 : c.at \in {"+CCFC=3", "+CCFC=4"} /\ q.prop = Property(r) /\ q = Set(Property(r), q.value) /\ q.value \in Numbers \cup {Off}
  BY <1>3, PropertyNames DEF Values, Timeout
<1>4. CASE c.at = "+CCFC=3" /\ q = Set(Timeout, c.time)
  <2>1. c.time \in Times
    BY <1>1, <1>4 DEF Known
  <2>2. QED
    BY <1>4, <2>1 DEF Set, Timeout, Names, Values, Booleans
<1>5. CASE c.at \in {"+CFUN", "+CGATT"}
  <2>1. q \in {PowerOff, PowerOn, OnLine(c), Set("RoamingAllowed", TRUE), Set("Gprs", c.on)}
    BY <1>5, StepForms
  <2>2. c.at = "+CGATT" => c.on \in BOOLEAN
    BY <1>1 DEF Known
  <2>3. ASSUME NEW p \in Booleans, NEW v \in BOOLEAN, q = Set(p, v)
        PROVE  q = Set(q.prop, q.value) /\ q.prop \in Names /\ q.value \in Values(q.prop)
    <3>1. q.prop = p /\ q.value = v
      BY <2>3, Zenon DEF Set
    <3>2. p \in Names /\ Values(p) = BOOLEAN
      BY DEF Names, Values, Booleans
    <3>3. QED
      BY <2>3, <3>1, <3>2
  <2>4. \E p \in Booleans, v \in BOOLEAN : q = Set(p, v)
    <3>1. PICK b : b = (c.fun = 1)
      OBVIOUS
    <3>2. b \in BOOLEAN
      BY <3>1
    <3>3. OnLine(c) = Set("Online", b)
      BY <3>1, Zenon DEF OnLine
    <3>4. {"Powered", "Online", "RoamingAllowed", "Gprs"} = Booleans
      BY DEF Booleans
    <3> HIDE DEF Booleans
    <3>5. CASE q \in {PowerOff, PowerOn}
      BY <3>4, <3>5 DEF PowerOff, PowerOn
    <3>6. CASE q = OnLine(c)
      BY <3>2, <3>3, <3>4, <3>6
    <3>7. CASE c.at = "+CGATT" /\ q \in {Set("RoamingAllowed", TRUE), Set("Gprs", c.on)}
      BY <3>4, <3>7, <2>2
    <3>8. QED
      BY <1>5, <3>5, <3>6, <3>7, StepForms
  <2>5. QED
    BY <1>5, <2>3, <2>4
<1>6. CASE c.at = "+CCFC=3" /\ \E r \in Reason(c) : q = Set(Property(r), c.number)
  <2>1. c.number \in Numbers /\ Reason(c) \subseteq 0..3
    BY <1>1, <1>6, ReasonsKnown DEF Known
  <2>2. QED
    BY <1>3, <1>6, <2>1 DEF Set
<1>7. CASE c.at = "+CCFC=4" /\ c.reason < 4 /\ q = Set(Property(c.reason), Off)
  <2>1. c.reason \in 0..3
    BY <1>1, <1>7, ReasonsKnown
  <2>2. QED
    BY <1>3, <1>7, <2>1 DEF Set
<1>8. \A name, arg : q # Method(name, arg) \/ name = "set"
  BY DEF Method
<1>9. QED
  <2>1. \/ c.at = "+CCFC=3" /\ \E r \in Reason(c) : q = Set(Property(r), c.number)
        \/ c.at = "+CCFC=3" /\ q = Set(Timeout, c.time)
        \/ c.at = "+CCFC=4" /\ c.reason < 4 /\ q = Set(Property(c.reason), Off)
        \/ c.at \in {"+CFUN", "+CGATT"}
    <3>1. q # GetCalls /\ \A id \in Ids : q # Hangup(id)
      BY <1>2
    <3>2. \A arg : /\ q # Method("Answer", arg) /\ q # Method("Deflect", arg) /\ q # Method("HangupAll", arg)
                   /\ q # Method("ReleaseAndAnswer", arg) /\ q # Method("SwapCalls", arg)
                   /\ q # Method("DisableAll", arg) /\ q # Method("Register", arg)
                   /\ q # Method("GetOperators", arg) /\ q # Method("Scan", arg)
      BY <1>8
    <3>3. QED
      BY <3>1, <3>2, StepForms
  <2>2. QED
    BY <2>1, <1>4, <1>5, <1>6, <1>7

\* Which calls change a property, and which.
LEMMA DoProps ==
  ASSUME TypeOK, Running, Do
  PROVE  /\ Request.do = "set" =>
              /\ props'[Request.prop] = Request.value
              /\ Request.prop = "Powered" => props'["Online"] = (Request.value /\ props["Online"])
              /\ \A p \in Names \ {Request.prop} : (Request.prop = "Powered" => p # "Online") => props'[p] = props[p]
         /\ Request.do = "DisableAll" =>
              /\ \A r \in 0..3 : props'[Property(r)] = IF r = 0 /\ Request.arg # "all" THEN props[Property(r)] ELSE Off
              /\ \A p \in Names \ {Property(r) : r \in 0..3} : props'[p] = props[p]
         /\ Request.do \notin {"set", "DisableAll"} => props' = props
<1>1. Request \in Steps(cmd) /\ cmd \in Known \cup {[at |-> "none"]}
  BY TailCalls, RequestAssumption DEF TypeOK, Running, Request
<1>2. props' = [p \in Names |-> Changed(p)]
  BY DEF Do
<1>3. ASSUME Request.do = "set"
      PROVE  /\ props'[Request.prop] = Request.value
             /\ Request.prop = "Powered" => props'["Online"] = (Request.value /\ props["Online"])
             /\ \A p \in Names \ {Request.prop} : (Request.prop = "Powered" => p # "Online") => props'[p] = props[p]
  <2>1. Request.prop \in Names /\ "Online" \in Names
    BY <1>1, <1>3, SetForms DEF Names, Booleans
  <2>2. props'[Request.prop] = Request.value
    BY <1>2, <1>3, <2>1 DEF Changed
  <2>3. \A p \in Names \ {Request.prop} : (Request.prop = "Powered" => p # "Online") => props'[p] = props[p]
    BY <1>2, <1>3, <2>1 DEF Changed
  <2>4. ASSUME Request.prop = "Powered" PROVE props'["Online"] = (Request.value /\ props["Online"])
    <3>1. props'["Online"] = Changed("Online")
      BY <1>2, <2>1
    <3>2. "Online" # Request.prop
      BY <2>4
    <3>3. QED
      BY <1>3, <2>4, <3>1, <3>2 DEF Changed
  <2>5. QED
    BY <2>2, <2>3, <2>4
<1>4. ASSUME Request.do = "DisableAll"
      PROVE  /\ \A r \in 0..3 : props'[Property(r)] = IF r = 0 /\ Request.arg # "all" THEN props[Property(r)] ELSE Off
             /\ \A p \in Names \ {Property(r) : r \in 0..3} : props'[p] = props[p]
  <2>1. \A p \in Names : props'[p] = IF \E i \in (IF Request.arg = "all" THEN 1 ELSE 2)..4 : p = Forward[i] THEN Off ELSE props[p]
    BY <1>2, <1>4 DEF Changed
  <2>2. \A i \in 1..4 : i - 1 \in 0..3 /\ Forward[i] = Property(i - 1)
    BY DEF Property
  <2>3. 1..4 = {1, 2, 3, 4} /\ 2..4 = {2, 3, 4} /\ 0..3 = {0, 1, 2, 3}
    OBVIOUS
  <2>4. Forward[1] = Property(0) /\ Forward[2] = Property(1) /\ Forward[3] = Property(2) /\ Forward[4] = Property(3)
    BY DEF Property
  <2>5. \A r, s \in {0, 1, 2, 3} : Property(r) \in Names /\ (Property(r) = Property(s) => r = s)
    BY <2>3, PropertyNames
  <2>6. QED
    BY <2>1, <2>3, <2>4, <2>5
<1>5. ASSUME Request.do \notin {"set", "DisableAll"} PROVE props' = props
  <2>1. \A p \in Names : Changed(p) = props[p]
    BY <1>5 DEF Changed
  <2>2. QED
    BY <1>2, <2>1 DEF TypeOK
<1>6. QED
  BY <1>3, <1>4, <1>5

\* What the reply to a call leaves to do.
LEMMA RepliedTodo ==
  ASSUME TypeOK, TodoOK, Running, NEW r, Replied(r)
  PROVE  /\ Request \in Steps(cmd) /\ cmd \in Known
         /\ todo' \in Seq(Steps(cmd)) /\ Ordered(todo')
         /\ Calls(todo) = {Request} \cup Calls(Tail(todo))
         /\ \A d \in Calls(Tail(todo)) : Before(Request, d)
         /\ \/ todo' = Tail(todo) /\ res' = res /\ (r = "OK" \/ Ignored)
            \/ todo' = <<>> /\ res' = Result(r) /\ r # "OK" /\ ~Ignored
<1>1. /\ Request \in Steps(cmd) /\ Tail(todo) \in Seq(Steps(cmd)) /\ Ordered(Tail(todo))
      /\ Calls(todo) = {Request} \cup Calls(Tail(todo))
      /\ \A d \in Calls(Tail(todo)) : Before(Request, d)
  BY TailCalls DEF TypeOK, TodoOK, Running, Request
<1>2. cmd \in Known
  BY <1>1, StepForms, RequestAssumption DEF TypeOK
<1>3. Lists(Steps(cmd), <<>>, {})
  BY NoCalls
<1>4. QED
  BY <1>1, <1>2, <1>3 DEF Replied, Lists

-----------------------------------------------------------------------------
(* The types.                                                               *)
LEMMA InitInv == Init => Inv
<1> SUFFICES ASSUME Init PROVE Inv
  OBVIOUS
<1>1. todo = <<>> /\ ~Running /\ Calls(todo) = {} /\ Ordered(todo) /\ todo \in Seq(Steps(cmd))
  BY NoCalls DEF Init, Running, Lists
<1>2. \A prop \in Names : props[prop] \in Values(prop)
  BY DEF Init, Values, Names, Booleans
<1>3. TypeOK
  <2>1. /\ calls \in [Ids -> States] /\ before.calls = calls
        /\ before = [calls |-> before.calls, props |-> before.props]
    BY DEF Init, States
  <2>2. props = [prop \in Names |-> props[prop]]
    BY DEF Init
  <2>3. count \in [commands : 0..MaxCommands, changes : 0..MaxChanges, faults : 0..MaxFaults]
    BY RequestAssumption DEF Init
  <2>4. QED
    BY <1>1, <1>2, <2>1, <2>2, <2>3 DEF Init, TypeOK
<1>4. cmd.at = "none"
  BY DEF Init
<1>5. OnlyNamedSettings
  BY DEF Init, OnlyNamedSettings
<1>6. Fulfilled
  BY <1>4 DEF Fulfilled
<1>7. RestOK
  BY <1>4, <1>6 DEF RestOK, Rest
<1>8. QED
  BY <1>1, <1>3, <1>4, <1>5, <1>7 DEF Inv, TodoOK, HangupsOK, TimeOK, Init

\* A step of the commands: what its reply does to the service, and what is left to do.
Carried == Running /\ Simple /\ Do /\ (Replied("OK") \/ Replied("failed")) /\ UNCHANGED <<cmd, before, disturbed>>
Dropped == Running /\ Simple /\ (\E r \in {"failed", "other"} : Replied(r)) /\ failed' = TRUE /\ UNCHANGED <<service, cmd, before, disturbed>>
Changing == CallChanges \/ PropertyChanges \/ NetworkChanges

LEMMA Cases ==
  ASSUME [Next]_vars
  PROVE  \/ \E c \in Commands : Give(c)
         \/ List \/ Choose \/ ListFails
         \/ Carried /\ (Done \/ Lost)
         \/ Dropped /\ (Refused \/ Fails)
         \/ Changing
         \/ UNCHANGED vars
BY DEF Next, Step, Carried, Dropped, Changing, Done, Lost, Refused, Fails, Fault, Simple

\* The calls and the properties of oFono keep their types.
LEMMA ServiceTyped ==
  ASSUME TypeOK, [Next]_vars
  PROVE  /\ calls' \in [Ids -> States]
         /\ props' = [prop \in Names |-> props'[prop]] /\ \A prop \in Names : props'[prop] \in Values(prop)
         /\ networks' \subseteq Operators
<1>1. CASE UNCHANGED <<calls, props, networks>>
  BY <1>1 DEF TypeOK
<1>2. CASE Choose
  BY <1>2 DEF Choose, TypeOK
<1>3. CASE Carried
  <2>1. calls' = [id \in Ids |-> Becomes(id)] /\ props' = [prop \in Names |-> Changed(prop)] /\ networks' = networks
    BY <1>3 DEF Carried, Do
  <2>2. \A id \in Ids : Becomes(id) \in States
    BY DEF Becomes, TypeOK, States
  <2>3. Request \in Steps(cmd) /\ cmd \in Known \cup {[at |-> "none"]}
    BY <1>3, TailCalls, RequestAssumption DEF TypeOK, Running, Request, Carried
  <2>4. ASSUME NEW prop \in Names PROVE Changed(prop) \in Values(prop)
    <3>1. props[prop] \in Values(prop)
      BY DEF TypeOK
    <3>2. CASE Request.do = "set"
      <4>1. Request.prop \in Names /\ Request.value \in Values(Request.prop)
        BY <2>3, <3>2, SetForms
      <4>2. CASE prop = Request.prop
        BY <3>2, <4>1, <4>2 DEF Changed
      <4>3. CASE prop # Request.prop /\ Request.prop = "Powered" /\ prop = "Online"
        <5>1. Values("Powered") = BOOLEAN /\ Values("Online") = BOOLEAN
          BY DEF Values, Booleans
        <5>2. Changed(prop) = (Request.value /\ props[prop])
          BY <3>2, <4>3 DEF Changed
        <5>3. Request.value \in BOOLEAN /\ props[prop] \in BOOLEAN
          BY <3>1, <4>1, <4>3, <5>1
        <5>4. QED
          BY <4>3, <5>1, <5>2, <5>3
      <4>4. CASE prop # Request.prop /\ ~(Request.prop = "Powered" /\ prop = "Online")
        BY <3>1, <3>2, <4>4 DEF Changed
      <4>5. QED
        BY <4>2, <4>3, <4>4
    <3>3. CASE Request.do = "DisableAll"
      <4>1. \A i \in 1..4 : Off \in Values(Forward[i])
        <5>1. \A r \in 0..3 : Off \in Values(Forward[r + 1])
          BY PropertyNames DEF Values, Timeout
        <5>2. \A i \in 1..4 : i - 1 \in 0..3 /\ (i - 1) + 1 = i
          OBVIOUS
        <5>3. QED
          BY <5>1, <5>2
      <4>2. (IF Request.arg = "all" THEN 1 ELSE 2)..4 \subseteq 1..4
        OBVIOUS
      <4>3. QED
        BY <3>1, <3>3, <4>1, <4>2 DEF Changed
    <3>4. CASE Request.do \notin {"set", "DisableAll"}
      BY <3>1, <3>4 DEF Changed
    <3>5. QED
      BY <3>2, <3>3, <3>4
  <2>5. QED
    BY <2>1, <2>2, <2>4 DEF TypeOK
<1>4. CASE CallChanges
  <2>1. PICK id \in Ids : \E new \in Moves(calls[id]) : calls' = [calls EXCEPT ![id] = new]
    BY <1>4 DEF CallChanges
  <2>2. Moves(calls[id]) \subseteq States
    BY DEF Moves, States, TypeOK
  <2>3. QED
    BY <1>4, <2>1, <2>2 DEF CallChanges, TypeOK
<1>5. CASE PropertyChanges
  <2>1. PICK prop \in Booleans : props' = [props EXCEPT ![prop] = ~@, !["Online"] = IF prop = "Powered" THEN FALSE ELSE IF prop = "Online" THEN ~@ ELSE @]
    BY <1>5 DEF PropertyChanges
  <2>2. \A p \in Booleans : p \in Names /\ Values(p) = BOOLEAN
    BY DEF Booleans, Names, Values
  <2>3. \A p \in Names : p # prop /\ p # "Online" => props'[p] = props[p]
    BY <2>1 DEF TypeOK
  <2>4. props'[prop] \in BOOLEAN /\ props'["Online"] \in BOOLEAN
    <3>1. props[prop] \in BOOLEAN /\ props["Online"] \in BOOLEAN /\ "Online" \in Names /\ prop \in Names
      BY <2>2 DEF TypeOK, Booleans
    <3>2. QED
      BY <2>1, <3>1 DEF TypeOK
  <2>5. "Online" \in Booleans
    BY DEF Booleans
  <2>6. QED
    BY <1>5, <2>1, <2>2, <2>3, <2>4, <2>5 DEF PropertyChanges, TypeOK
<1>6. CASE NetworkChanges
  BY <1>6 DEF NetworkChanges, TypeOK
<1>7. QED
  BY <1>1, <1>2, <1>3, <1>4, <1>5, <1>6, Cases DEF Give, List, ListFails, Dropped, Changing, service, vars

-----------------------------------------------------------------------------
(* What a list of voice calls leads to.                                     *)
Hangups(ids) == {Hangup(id) : id \in ids}

\* release_held() goes over all the calls listed or, if one is waiting, over those before it
\* and that one; no call is hung up twice.
LEMMA Released ==
  ASSUME TypeOK, Legal(calls),
         NEW there, there = {id \in Ids : calls[id] \in {"held", "waiting"}},
         NEW list \in SetToSeqs(there)
  PROVE  \E C \in SUBSET there :
           /\ Lists(Hangups(Ids), Release(list), Hangups(C))
           /\ \A id \in there : calls[id] = "waiting" => id \in C
           /\ C = there \/ \E id \in there : calls[id] = "waiting"
<1> DEFINE n == Cardinality(there)
           D == 1..n
<1>1. IsFiniteSet(there) /\ n \in Nat
  BY RequestAssumption, FS_Subset, FS_CardinalityType
<1>2. list \in [D -> there] /\ \A i, j \in D : i # j => list[i] # list[j]
  BY DEF SetToSeqs
<1>3. \A id \in there : \E i \in D : list[i] = id
  <2>1. list \in Injection(D, there)
    BY <1>2 DEF Injection, IsInjective
  <2>2. IsFiniteSet(D) /\ Cardinality(D) = Cardinality(there)
    BY <1>1, FS_Interval
  <2>3. list \in Surjection(D, there)
    BY <1>1, <2>1, <2>2, FS_Injection
  <2>4. QED
    BY <2>3 DEF Surjection
<1>4. Len(list) = n /\ DOMAIN list = D
  BY <1>1, <1>2
<1> DEFINE waiting == {i \in D : calls[list[i]] = "waiting"}
           last == IF waiting = {} THEN n ELSE CHOOSE i \in waiting : \A j \in waiting : i <= j
           C == {list[i] : i \in 1..last}
<1>5. Release(list) = [i \in 1..last |-> Hangup(list[i])]
  BY <1>4 DEF Release, Hangup
<1>6. \A i, j \in waiting : i = j
  <2>1. ASSUME NEW i \in waiting, NEW j \in waiting, i # j PROVE FALSE
    <3>1. list[i] \in Ids /\ list[j] \in Ids /\ list[i] # list[j]
      BY <1>2, <2>1
    <3>2. calls[list[i]] = "waiting" /\ calls[list[j]] = "waiting"
      OBVIOUS
    <3>3. QED
      BY <3>1, <3>2 DEF Legal
  <2>2. QED
    BY <2>1
<1>7. waiting # {} => last \in waiting
  <2>1. ASSUME NEW i \in waiting PROVE \A j \in waiting : i <= j
    BY <1>6, <1>1
  <2>2. QED
    BY <2>1
<1>8. last \in Nat /\ last <= n /\ 1..last \subseteq D
  <2>1. CASE waiting = {}
    BY <1>1, <2>1
  <2>2. CASE waiting # {}
    <3>1. last \in D
      BY <1>7, <2>2
    <3> HIDE DEF last, waiting
    <3>2. QED
      BY <1>1, <3>1
  <2>3. QED
    BY <2>1, <2>2
<1> HIDE DEF last
<1>9. C \in SUBSET there
  BY <1>2, <1>8
<1>10. \A id \in there : calls[id] = "waiting" => id \in C
  <2>1. ASSUME NEW id \in there, calls[id] = "waiting" PROVE id \in C
    <3>1. PICK i \in D : list[i] = id
      BY <1>3
    <3>2. i \in waiting
      BY <2>1, <3>1
    <3>3. i = last
      BY <3>2, <1>6, <1>7
    <3>4. QED
      BY <1>8, <3>1, <3>3
  <2>2. QED
    BY <2>1
<1>11. C = there \/ \E id \in there : calls[id] = "waiting"
  <2>1. CASE waiting = {}
    <3>1. last = n
      BY <2>1 DEF last
    <3>2. QED
      BY <1>2, <1>3, <3>1
  <2>2. CASE waiting # {}
    BY <1>2, <2>2
  <2>3. QED
    BY <2>1, <2>2
<1>12. Lists(Hangups(Ids), Release(list), Hangups(C))
  <2> DEFINE s == Release(list)
             S == Hangups(Ids)
  <2>1. \A i \in 1..last : list[i] \in Ids
    BY <1>2, <1>8
  <2>2. s = [i \in 1..last |-> Hangup(list[i])] /\ DOMAIN s = 1..last
    BY <1>5
  <2> HIDE DEF s
  <2>3. s \in Seq(S)
    BY <1>8, <2>1, <2>2 DEF Hangups
  <2>4. Calls(s) = Hangups(C)
    BY <2>2 DEF Calls, Hangups
  <2>5. Ordered(s)
    <3>1. ASSUME NEW i \in 1..last, NEW j \in 1..last, i < j PROVE Before(s[i], s[j])
      <4>1. list[i] # list[j]
        BY <3>1, <1>2, <1>8
      <4>2. Hangup(list[i]) # Hangup(list[j]) /\ Hangup(list[i]).do = "Hangup"
        BY <4>1 DEF Hangup, Method
      <4>3. QED
        BY <4>2, <2>2 DEF Before
    <3>2. QED
      BY <2>2, <3>1 DEF Ordered
  <2>6. QED
    BY <2>3, <2>4, <2>5 DEF Lists, s
<1>13. QED
  BY <1>9, <1>10, <1>11, <1>12

\* The handler goes on with one of the calls that it is for, or is done when there is none.
LEMMA Listed ==
  ASSUME TypeOK, TodoOK, Legal(calls), List
  PROVE  /\ cmd.at \in {"A", "+CTFR", "+CHUP", "+CHLD=0"} /\ cmd \in Known /\ res = "OK"
         /\ \E C : /\ Lists(Steps(cmd), todo', C)
                   /\ cmd.at = "A" => res' = IF todo' = <<>> THEN "NO CARRIER" ELSE "OK"
                   /\ cmd.at = "+CTFR" => res' = IF todo' = <<>> THEN "other" ELSE "OK"
                   /\ cmd.at = "+CHUP" =>
                        /\ res' = "OK"
                        /\ \/ C = {} /\ ~There("active")
                           \/ \E id \in Ids : calls[id] = "active" /\ C = {Hangup(id), GetCalls}
                   /\ cmd.at = "+CHLD=0" =>
                        /\ res' = "OK"
                        /\ \E H \in SUBSET {id \in Ids : calls[id] \in {"held", "waiting"}} :
                             /\ C = Hangups(H)
                             /\ \A id \in Ids : calls[id] = "waiting" => id \in H
                             /\ \/ \A id \in Ids : calls[id] = "held" => id \in H
                                \/ \E id \in Ids : calls[id] = "waiting"
<1>1. Request \in Steps(cmd) /\ cmd \in Known \cup {[at |-> "none"]} /\ Request = GetCalls /\ res = "OK"
  BY TailCalls, RequestAssumption DEF List, TypeOK, TodoOK, Running, Request
<1>2. cmd \in Known /\ cmd.at \in {"A", "+CTFR", "+CHUP", "+CHLD=0"}
  BY <1>1, StepForms DEF GetCalls, Method, Hangup, Set, PowerOff, PowerOn, OnLine
<1> DEFINE there == {id \in Ids : calls[id] \in Meant(cmd.at)}
<1>3. /\ cmd.at # "+CHLD=0" => (\E id \in there : todo' = Pick(id) /\ res' = res) \/ (there = {} /\ NoCall)
      /\ cmd.at = "+CHLD=0" => \E list \in SetToSeqs(there) : todo' = Release(list) /\ res' = res
  BY DEF List
<1>4. Lists(Steps(cmd), <<>>, {})
  BY NoCalls
<1>5. CASE cmd.at \in {"A", "+CTFR"}
  <2>1. CASE there = {} /\ NoCall
    <3>1. todo' = <<>> /\ res' = IF cmd.at = "A" THEN "NO CARRIER" ELSE "other"
      BY <1>5, <2>1 DEF NoCall
    <3>2. QED
      BY <1>1, <1>2, <1>4, <1>5, <3>1
  <2>2. CASE \E id \in there : todo' = Pick(id) /\ res' = res
    <3>1. PICK q \in Steps(cmd) : todo' = <<q>> /\ res' = res
      BY <1>5, <2>2 DEF Pick, Steps
    <3>2. Lists(Steps(cmd), todo', {q}) /\ todo' # <<>>
      BY <3>1, OneCall
    <3>3. QED
      BY <1>1, <1>2, <1>5, <3>1, <3>2
  <2>3. QED
    BY <1>3, <1>5, <2>1, <2>2
<1>6. CASE cmd.at = "+CHUP"
  <2>1. there = {id \in Ids : calls[id] = "active"}
    BY <1>6 DEF Meant
  <2>2. CASE there = {} /\ NoCall
    BY <1>2, <1>1, <1>4, <1>6, <2>1, <2>2 DEF NoCall, There
  <2>3. CASE \E id \in there : todo' = Pick(id) /\ res' = res
    <3>1. PICK id \in there : todo' = <<Hangup(id), GetCalls>> /\ res' = res
      BY <1>6, <2>3 DEF Pick, Hangup
    <3>2. Hangup(id) \in Steps(cmd) /\ GetCalls \in Steps(cmd) /\ Before(Hangup(id), GetCalls)
      BY <1>6, <2>1 DEF Steps, Before, Hangup, GetCalls, Method
    <3>3. Lists(Steps(cmd), todo', {Hangup(id), GetCalls})
      BY <3>1, <3>2, TwoCalls
    <3>4. QED
      BY <1>1, <1>2, <1>6, <2>1, <3>1, <3>3
  <2>4. QED
    BY <1>3, <1>6, <2>2, <2>3
<1>7. CASE cmd.at = "+CHLD=0"
  <2>1. there = {id \in Ids : calls[id] \in {"held", "waiting"}}
    BY <1>7 DEF Meant
  <2>2. PICK list \in SetToSeqs(there) : todo' = Release(list) /\ res' = res
    BY <1>3, <1>7
  <2> HIDE DEF there
  <2>3. PICK H \in SUBSET there :
           /\ Lists(Hangups(Ids), Release(list), Hangups(H))
           /\ \A id \in there : calls[id] = "waiting" => id \in H
           /\ H = there \/ \E id \in there : calls[id] = "waiting"
    BY <2>1, <2>2, Released
  <2>4. Steps(cmd) = {GetCalls} \cup Hangups(Ids)
    BY <1>7 DEF Steps, Hangups
  <2>5. Lists(Steps(cmd), todo', Hangups(H))
    <3>1. todo' \in Seq(Hangups(Ids)) /\ Hangups(Ids) \subseteq Steps(cmd)
      BY <2>2, <2>3, <2>4 DEF Lists
    <3>2. todo' \in Seq(Steps(cmd))
      BY <3>1
    <3>3. QED
      BY <3>2, <2>2, <2>3 DEF Lists
  <2>6. QED
    BY <1>1, <1>2, <1>7, <2>1, <2>2, <2>3, <2>5
<1>8. QED
  BY <1>1, <1>2, <1>5, <1>6, <1>7

\* The rest of the types, and the list of calls.
LEMMA HandlerTyped ==
  ASSUME TypeOK, TodoOK, Legal(calls), [Next]_vars
  PROVE  /\ cmd' \in Commands \cup {[at |-> "none"]}
         /\ todo' \in Seq(Steps(cmd')) /\ Ordered(todo')
         /\ res' \in {"OK", "failed", "other", "NO CARRIER"}
         /\ todo' # <<>> => res' = "OK"
<1>1. ASSUME NEW c \in Commands, Give(c) PROVE todo' \in Seq(Steps(cmd')) /\ Ordered(todo') /\ cmd' \in Commands /\ res' = "OK"
  BY <1>1, Handled DEF Give, Lists
<1>2. CASE Carried \/ Dropped
  <2>1. PICK r : Replied(r) /\ r \in {"OK", "failed", "other"}
    BY <1>2 DEF Carried, Dropped
  <2>2. Running /\ cmd' = cmd
    BY <1>2 DEF Carried, Dropped
  <2>3. Result(r) \in {"OK", "failed", "other"}
    BY <2>1 DEF Result
  <2>4. QED
    BY <2>1, <2>2, <2>3, RepliedTodo DEF TypeOK, TodoOK
<1>3. CASE ListFails
  <2>1. todo' = <<>> /\ cmd' = cmd /\ res' \in {"OK", "failed", "other", "NO CARRIER"}
    BY <1>3 DEF ListFails, NoCall
  <2>2. QED
    BY <2>1, NoCalls DEF TypeOK, Lists
<1>4. CASE Choose
  <2>1. PICK q \in {Method("Register", cmd.oper), Method("Scan", cmd.oper)} :
          /\ \/ todo' = <<q>> /\ res' = res
             \/ todo' = <<>> /\ res' = "other"
          /\ cmd' = cmd
    BY <1>4 DEF Choose
  <2>2. Request \in Steps(cmd) /\ Request.do \in {"GetOperators", "Scan"} /\ res = "OK"
    BY <1>4, TailCalls DEF TypeOK, TodoOK, Running, Request, Choose
  <2>3. cmd \in Known \cup {[at |-> "none"]}
    BY RequestAssumption DEF TypeOK
  <2>4. cmd.at = "+COPS=1"
    BY <2>2, <2>3, StepForms DEF GetCalls, Method, Hangup, Set, PowerOff, PowerOn, OnLine
  <2>5. q \in Steps(cmd)
    BY <2>4 DEF Steps
  <2>6. Lists(Steps(cmd), <<q>>, {q}) /\ Lists(Steps(cmd), <<>>, {})
    BY <2>5, OneCall, NoCalls
  <2>7. QED
    BY <2>1, <2>2, <2>6 DEF TypeOK, Lists
<1>5. CASE List
  <2>1. cmd' = cmd /\ todo' \in Seq(Steps(cmd)) /\ Ordered(todo')
    BY <1>5, Listed DEF Lists, List
  <2>2. res' \in {"OK", "NO CARRIER", "other"} /\ (todo' # <<>> => res' = "OK")
    BY <1>5, Listed
  <2>3. QED
    BY <2>1, <2>2 DEF TypeOK
<1>6. CASE Changing \/ UNCHANGED vars
  BY <1>6 DEF Changing, CallChanges, PropertyChanges, NetworkChanges, Other, handler, vars, TypeOK, TodoOK, Running
<1>7. QED
  BY <1>1, <1>2, <1>3, <1>4, <1>5, <1>6, Cases

-----------------------------------------------------------------------------
(* Each part of the invariant is kept.                                      *)
LEMMA LegalKept == Inv /\ [Next]_vars => Legal(calls')
<1> SUFFICES ASSUME Inv, [Next]_vars PROVE Legal(calls')
  OBVIOUS
<1>1. TypeOK /\ Legal(calls)
  BY DEF Inv
<1>2. CASE calls' = calls
  BY <1>1, <1>2
<1>3. CASE Carried
  <2>1. calls' = [id \in Ids |-> Becomes(id)]
    BY <1>3 DEF Carried, Do
  <2>2. Accepts
    BY <1>3 DEF Carried, Do
  <2>3. CASE Request.do = "Answer"
    <3>1. calls[Request.arg] = "incoming" /\ \A id \in Ids : calls'[id] = IF id = Request.arg THEN "active" ELSE calls[id]
      BY <2>1, <2>2, <2>3 DEF Accepts, Becomes
    <3>2. Request.arg \in Ids
      <4>1. Request \in Steps(cmd) /\ cmd \in Known \cup {[at |-> "none"]}
        BY <1>1, <1>3, TailCalls, RequestAssumption DEF TypeOK, Running, Request, Carried
      <4>2. \E id \in Ids : Request = Method("Answer", id)
        BY <2>3, <4>1, StepForms DEF Method, Set, Hangup, GetCalls, PowerOff, PowerOn, OnLine
      <4>3. QED
        BY <4>2 DEF Method
    <3>3. \A id \in Ids : id # Request.arg => calls[id] = "none"
      BY <1>1, <3>1, <3>2 DEF Legal
    <3>4. QED
      BY <1>1, <3>1, <3>3 DEF Legal
  <2>4. CASE Request.do \in {"Deflect", "Hangup", "HangupAll"}
    <3>1. \A id \in Ids : calls'[id] = calls[id] \/ calls'[id] = "none"
      BY <2>1, <2>4 DEF Becomes
    <3>2. QED
      BY <1>1, <3>1 DEF Legal
  <2>5. CASE Request.do = "ReleaseAndAnswer"
    <3>1. \A id \in Ids : calls'[id] = CASE calls[id] = "active" -> "none" [] calls[id] = "waiting" -> "active" [] OTHER -> calls[id]
      BY <2>1, <2>5 DEF Becomes
    <3>2. \E id \in Ids : calls[id] = "waiting"
      BY <2>2, <2>5 DEF Accepts
    <3>3. \A id \in Ids : calls[id] # "incoming"
      BY <1>1, <3>2 DEF Legal
    <3>4. QED
      BY <1>1, <3>1, <3>3 DEF Legal
  <2>6. CASE Request.do = "SwapCalls"
    <3>1. \A id \in Ids : calls'[id] = CASE calls[id] = "active" -> "held" [] calls[id] = "held" -> "active" [] OTHER -> calls[id]
      BY <2>1, <2>6 DEF Becomes
    <3>2. QED
      BY <1>1, <3>1 DEF Legal
  <2>7. CASE Request.do \notin {"Answer", "Deflect", "Hangup", "HangupAll", "ReleaseAndAnswer", "SwapCalls"}
    <3>1. \A id \in Ids : calls'[id] = calls[id]
      BY <2>1, <2>7 DEF Becomes
    <3>2. QED
      BY <1>1, <3>1 DEF Legal
  <2>8. QED
    BY <2>3, <2>4, <2>5, <2>6, <2>7
<1>4. CASE CallChanges
  <2>1. PICK id \in Ids : \E new \in Moves(calls[id]) : calls' = [calls EXCEPT ![id] = new]
    BY <1>4 DEF CallChanges
  <2>2. PICK new \in Moves(calls[id]) : calls' = [calls EXCEPT ![id] = new]
    BY <2>1
  <2>3. \A i \in Ids : calls'[i] = IF i = id THEN new ELSE calls[i]
    BY <1>1, <2>2 DEF TypeOK
  <2>4. calls[id] \in States
    BY <1>1 DEF TypeOK
  <2>5. CASE calls[id] = "none"
    <3>1. CASE \E i \in Ids : calls[i] # "none"
      <4>1. new = "waiting" /\ \A i \in Ids : calls[i] \notin {"incoming", "waiting"}
        BY <2>2, <2>5, <3>1 DEF Moves
      <4>2. QED
        BY <1>1, <2>3, <4>1 DEF Legal
    <3>2. CASE \A i \in Ids : calls[i] = "none"
      BY <2>2, <2>3, <2>5, <3>2 DEF Moves, Legal
    <3>3. QED
      BY <3>1, <3>2
  <2>6. CASE calls[id] = "incoming"
    BY <1>1, <2>2, <2>3, <2>6 DEF Moves, Legal
  <2>7. CASE calls[id] \in {"waiting", "active", "held"}
    BY <1>1, <2>2, <2>3, <2>7 DEF Moves, Legal
  <2>8. QED
    BY <2>4, <2>5, <2>6, <2>7 DEF States
<1>5. QED
  BY <1>2, <1>3, <1>4, Cases
     DEF Give, List, Choose, ListFails, Dropped, Changing, PropertyChanges, NetworkChanges, service, vars

\* Steps that leave the service alone, but for the operators that are known.
LEMMA StillSteps ==
  ASSUME List \/ Choose \/ ListFails \/ Dropped \/ UNCHANGED vars
  PROVE  UNCHANGED <<calls, props, before, cmd, disturbed>>
<1>1. CASE List
  BY <1>1 DEF List, service
<1>2. CASE Choose
  BY <1>2 DEF Choose
<1>3. CASE ListFails
  BY <1>3 DEF ListFails, service
<1>4. CASE Dropped
  BY <1>4 DEF Dropped, service
<1>5. CASE UNCHANGED vars
  BY <1>5 DEF vars, service, handler
<1>6. QED
  BY <1>1, <1>2, <1>3, <1>4, <1>5

LEMMA ReasonsOfCommand == Reasons = Reason(cmd)
BY DEF Reasons, Reason

LEMMA NamedKept == Inv /\ [Next]_vars => OnlyNamedSettings'
<1> SUFFICES ASSUME Inv, [Next]_vars, ~disturbed', NEW p \in Names, props'[p] # before'.props[p]
             PROVE  p \in Named'
  BY DEF OnlyNamedSettings
<1>1. TypeOK /\ TodoOK
  BY DEF Inv
<1>2. CASE \E c \in Commands : Give(c)
  BY <1>2 DEF Give, service
<1>3. CASE UNCHANGED <<calls, props, before, cmd, disturbed>>
  BY <1>3 DEF Inv, OnlyNamedSettings, Named, Reasons
<1>4. CASE Carried
  <2>1. UNCHANGED <<cmd, before, disturbed>> /\ Running /\ Do
    BY <1>4 DEF Carried
  <2>2. Named' = Named
    BY <2>1 DEF Named, Reasons
  <2>3. CASE props'[p] = props[p]
    BY <2>1, <2>2, <2>3 DEF Inv, OnlyNamedSettings
  <2>4. CASE props'[p] # props[p]
    <3>1. Request \in Steps(cmd) /\ cmd \in Known \cup {[at |-> "none"]}
      BY <1>1, <2>1, TailCalls, RequestAssumption DEF TypeOK, Running, Request
    <3>2. Request.do \in {"set", "DisableAll"}
      BY <1>1, <2>1, <2>4, DoProps
    <3>3. CASE Request.do = "set"
      <4>1. p = Request.prop \/ (Request.prop = "Powered" /\ p = "Online")
        BY <1>1, <2>1, <2>4, <3>3, DoProps
      <4>2. Request = Set(Request.prop, Request.value) /\ cmd.at \in {"+CCFC=3", "+CCFC=4", "+CFUN", "+CGATT"}
        BY <3>1, <3>3, SetForms
      <4>3. CASE cmd.at = "+CFUN"
        <5>1. Request.prop \in {"Powered", "Online"}
          BY <3>1, <4>3, StepForms DEF PowerOff, PowerOn, OnLine, Set
        <5>2. QED
          BY <2>2, <4>1, <4>3, <5>1 DEF Named
      <4>4. CASE cmd.at = "+CGATT"
        <5>1. Request.prop \in {"RoamingAllowed", "Gprs"}
          BY <3>1, <4>4, StepForms DEF Set
        <5>2. QED
          BY <2>2, <4>1, <4>4, <5>1 DEF Named
      <4>5. CASE cmd.at \in {"+CCFC=3", "+CCFC=4"}
        <5>1. \/ \E r \in Reason(cmd) : Request.prop = Property(r)
              \/ cmd.at = "+CCFC=3" /\ 2 \in Reason(cmd) /\ Request.prop = Timeout
          <6>1. CASE cmd.at = "+CCFC=3"
            BY <3>1, <6>1, StepForms DEF Set
          <6>2. CASE cmd.at = "+CCFC=4"
            <7>1. cmd.reason < 4 /\ Request = Set(Property(cmd.reason), Off)
              <8>1. Request # Method("DisableAll", "all") /\ Request # Method("DisableAll", "conditional")
                BY <3>3 DEF Method
              <8>2. QED
                BY <3>1, <6>2, <8>1, StepForms
            <7>2. cmd.reason \in Reason(cmd)
              BY <3>1, <6>2, <7>1, StepForms, ReasonsKnown
            <7>3. QED
              BY <7>1, <7>2 DEF Set
          <6>3. QED
            BY <4>5, <6>1, <6>2
        <5>2. Reason(cmd) \subseteq 0..3
          BY <3>1, <4>5, StepForms, ReasonsKnown
        <5>3. p = Request.prop
          BY <4>1, <5>1, <5>2, PropertyNames DEF Booleans, Timeout
        <5>4. QED
          BY <2>2, <4>5, <5>1, <5>3, ReasonsOfCommand DEF Named, Property, Timeout
      <4>6. QED
        BY <4>2, <4>3, <4>4, <4>5
    <3>4. CASE Request.do = "DisableAll"
      <4>1. cmd.at = "+CCFC=4" /\ cmd \in Known
            /\ \/ cmd.reason = 4 /\ Request.arg = "all"
               \/ cmd.reason = 5 /\ Request.arg = "conditional"
        BY <3>1, <3>4, StepForms DEF Method, Set, GetCalls, Hangup, PowerOff, PowerOn, OnLine
      <4>2. PICK r \in 0..3 : p = Property(r) /\ (r = 0 => cmd.reason = 4)
        <5>1. p \in {Property(r) : r \in 0..3}
          BY <1>1, <2>1, <2>4, <3>4, DoProps
        <5>2. PICK r \in 0..3 : p = Property(r)
          BY <5>1
        <5>3. r = 0 => Request.arg = "all"
          BY <1>1, <2>1, <2>4, <3>4, <5>2, DoProps
        <5>4. QED
          BY <4>1, <5>2, <5>3
      <4>3. r \in Reason(cmd)
        BY <4>1, <4>2, ReasonsKnown
      <4>4. QED
        BY <2>2, <4>1, <4>2, <4>3, ReasonsOfCommand DEF Named, Property
    <3>5. QED
      BY <3>2, <3>3, <3>4
  <2>5. QED
    BY <2>3, <2>4
<1>5. CASE Changing
  BY <1>5 DEF Changing, CallChanges, PropertyChanges, NetworkChanges, Other
<1>6. QED
  BY <1>2, <1>3, <1>4, <1>5, Cases, StillSteps

\* What a reply leaves: the rest of the list or, on a failure that matters, nothing.
LEMMA Progress ==
  ASSUME Inv, Carried \/ Dropped
  PROVE  /\ Request \in Steps(cmd) /\ cmd \in Known /\ cmd' = cmd /\ before' = before /\ disturbed' = disturbed
         /\ Running /\ res = "OK" /\ Simple /\ TypeOK /\ TodoOK
         /\ Calls(todo) = {Request} \cup Calls(Tail(todo))
         /\ \A d \in Calls(Tail(todo)) : Before(Request, d)
         /\ \/ todo' = Tail(todo) /\ (Dropped => Ignored)
            \/ todo' = <<>> /\ Calls(todo') = {} /\ (res' = "OK" => cmd.at = "H")
<1>1. PICK r : Replied(r) /\ r \in {"OK", "failed", "other"} /\ (Dropped => r # "OK" \/ Carried)
  BY DEF Carried, Dropped
<1>2. TypeOK /\ TodoOK /\ Running /\ cmd' = cmd /\ before' = before /\ disturbed' = disturbed /\ Simple
  BY DEF Inv, Carried, Dropped
<1>3. Calls(<<>>) = {}
  BY NoCalls DEF Lists
<1>4. ASSUME NEW q, Replied(q), q \in {"OK", "failed", "other"}
      PROVE  /\ Request \in Steps(cmd) /\ cmd \in Known
             /\ Calls(todo) = {Request} \cup Calls(Tail(todo))
             /\ \A d \in Calls(Tail(todo)) : Before(Request, d)
             /\ \/ todo' = Tail(todo) /\ (q = "OK" \/ Ignored)
                \/ todo' = <<>> /\ q # "OK" /\ res' = Result(q)
  BY <1>2, <1>4, RepliedTodo
<1>5. CASE Carried
  <2>1. PICK q : Replied(q) /\ q \in {"OK", "failed"}
    BY <1>5 DEF Carried
  <2>2. CASE Dropped
    <3>1. PICK s : Replied(s) /\ s \in {"failed", "other"}
      BY <2>2 DEF Dropped
    <3>2. QED
      BY <1>2, <1>3, <1>4, <3>1 DEF TodoOK, Result
  <2>3. QED
    BY <1>2, <1>3, <1>4, <2>1, <2>2 DEF TodoOK, Result
<1>6. CASE Dropped
  <2>1. PICK s : Replied(s) /\ s \in {"failed", "other"}
    BY <1>6 DEF Dropped
  <2>2. QED
    BY <1>2, <1>3, <1>4, <2>1 DEF TodoOK, Result
<1>7. QED
  BY <1>5, <1>6

\* Of a handler that lists calls: hanging up one leaves the others as they are.
LEMMA HangupCarried ==
  ASSUME Inv, Carried, cmd.at \in {"+CHUP", "+CHLD=0"}
  PROVE  \E id \in Ids : /\ Request = Hangup(id)
                         /\ \A i \in Ids : calls'[i] = IF i = id THEN "none" ELSE calls[i]
<1>1. Request \in Steps(cmd) /\ cmd \in Known /\ Simple
  BY Progress
<1>2. PICK id \in Ids : Request = Hangup(id)
  <2>1. Request # GetCalls
    BY <1>1 DEF Simple, GetCalls, Method
  <2>2. QED
    BY <1>1, <2>1, StepForms
<1>3. Request.do = "Hangup" /\ Request.arg = id
  BY <1>2 DEF Hangup, Method
<1>4. \A i \in Ids : calls'[i] = IF i = id THEN "none" ELSE calls[i]
  BY <1>3 DEF Carried, Do, Becomes
<1>5. QED
  BY <1>2, <1>4

LEMMA HangupsKept == Inv /\ [Next]_vars => HangupsOK'
<1> SUFFICES ASSUME Inv, [Next]_vars, ~disturbed', cmd'.at \in {"+CHUP", "+CHLD=0"},
                    NEW id \in Ids, ToDo(Hangup(id))'
             PROVE  Touches(id)'
  BY DEF HangupsOK
<1>1. Hangup(id) \in Calls(todo')
  BY DEF ToDo
<1>2. TypeOK /\ TodoOK /\ Legal(calls) /\ HangupsOK
  BY DEF Inv
<1>3. CASE \E c \in Commands : Give(c)
  <2>1. Calls(todo') = {GetCalls}
    BY <1>3, Handled DEF Give, Lists
  <2>2. QED
    BY <1>1, <2>1 DEF Hangup, GetCalls, Method
<1>4. CASE List
  <2>1. cmd' = cmd /\ calls' = calls
    BY <1>4 DEF List, service
  <2>2. CASE cmd.at = "+CHUP"
    <3>1. Calls(todo') = {} \/ \E i \in Ids : calls[i] = "active" /\ Calls(todo') = {Hangup(i), GetCalls}
      BY <1>2, <1>4, <2>2, Listed DEF Lists
    <3>2. calls[id] = "active"
      BY <1>1, <3>1 DEF Hangup, GetCalls, Method
    <3>3. QED
      BY <2>1, <2>2, <3>2 DEF Touches
  <2>3. CASE cmd.at = "+CHLD=0"
    <3>1. \E H \in SUBSET {i \in Ids : calls[i] \in {"held", "waiting"}} : Calls(todo') = Hangups(H)
      BY <1>2, <1>4, <2>3, Listed DEF Lists
    <3>2. calls[id] \in {"held", "waiting"}
      <4>1. PICK H \in SUBSET {i \in Ids : calls[i] \in {"held", "waiting"}} : Calls(todo') = Hangups(H)
        BY <3>1
      <4>2. PICK i \in H : Hangup(id) = Hangup(i)
        BY <1>1, <4>1 DEF Hangups
      <4>3. id = i
        BY <4>2 DEF Hangup, Method
      <4>4. QED
        BY <4>2, <4>3
    <3>3. QED
      BY <2>1, <2>3, <3>2 DEF Touches
  <2>4. QED
    BY <2>1, <2>2, <2>3
<1>5. CASE Carried
  <2>1. /\ cmd' = cmd /\ disturbed' = disturbed
        /\ Hangup(id) \in Calls(todo) /\ Before(Request, Hangup(id))
    BY <1>1, <1>5, Progress
  <2>2. Touches(id)
    BY <1>2, <2>1 DEF HangupsOK, ToDo
  <2>3. PICK i \in Ids : Request = Hangup(i) /\ calls'[id] = IF id = i THEN "none" ELSE calls[id]
    BY <1>5, <2>1, HangupCarried
  <2>4. calls'[id] = calls[id]
    BY <2>1, <2>3 DEF Before
  <2>5. QED
    BY <2>1, <2>2, <2>4 DEF Touches
<1>6. CASE Dropped
  <2>1. cmd' = cmd /\ disturbed' = disturbed /\ Hangup(id) \in Calls(todo)
    BY <1>1, <1>6, Progress
  <2>2. calls' = calls
    BY <1>6, StillSteps
  <2>3. QED
    BY <1>2, <2>1, <2>2 DEF HangupsOK, ToDo, Touches
<1>7. CASE Choose
  <2>1. \E q \in {Method("Register", cmd.oper), Method("Scan", cmd.oper)} : todo' \in {<<q>>, <<>>}
    BY <1>7 DEF Choose
  <2>2. PICK q : q \in {Method("Register", cmd.oper), Method("Scan", cmd.oper)} /\ todo' \in {<<q>>, <<>>}
    BY <2>1
  <2>3. Calls(todo') \subseteq {q}
    BY <2>2 DEF Calls
  <2>4. QED
    BY <1>1, <2>2, <2>3 DEF Hangup, Method
<1>8. CASE ListFails
  <2>1. todo' = <<>>
    BY <1>8 DEF ListFails, NoCall
  <2>2. QED
    BY <1>1, <2>1, NoCalls DEF Lists
<1>9. CASE UNCHANGED vars
  BY <1>1, <1>2, <1>9 DEF vars, service, handler, HangupsOK, ToDo, Touches
<1>10. CASE Changing
  BY <1>10 DEF Changing, CallChanges, PropertyChanges, NetworkChanges, Other
<1>11. QED
  BY <1>3, <1>4, <1>5, <1>6, <1>7, <1>8, <1>9, <1>10, Cases

LEMMA TimeKept == Inv /\ [Next]_vars => TimeOK'
<1> SUFFICES ASSUME Inv, [Next]_vars, ~disturbed', cmd'.at = "+CCFC=3", 2 \in Reasons',
                    ToDo(Set("VoiceNoReply", cmd.number))'
             PROVE  ToDo(Set(Timeout, cmd.time))' \/ props'[Timeout] = cmd'.time
  BY DEF TimeOK
<1>1. Set("VoiceNoReply", cmd'.number) \in Calls(todo')
  BY DEF ToDo
<1>2. TypeOK /\ TodoOK /\ Legal(calls) /\ TimeOK
  BY DEF Inv
<1>3. CASE \E c \in Commands : Give(c)
  <2>1. Calls(todo') = Steps(cmd')
    BY <1>3, Handled DEF Give, Lists
  <2>2. 2 \in Reason(cmd')
    BY DEF Reasons, Reason
  <2>3. Set(Timeout, cmd'.time) \in Steps(cmd')
    BY <2>2 DEF Steps
  <2>4. QED
    BY <2>1, <2>3 DEF ToDo
<1>4. CASE List
  BY <1>2, <1>4, Listed DEF List
<1>5. CASE Carried \/ Dropped
  <2>1. /\ cmd' = cmd /\ disturbed' = disturbed /\ todo' = Tail(todo)
        /\ Request \in Steps(cmd) /\ cmd \in Known /\ Running /\ Simple
        /\ Calls(todo) = {Request} \cup Calls(todo')
    BY <1>1, <1>5, Progress
  <2>2. Set("VoiceNoReply", cmd.number) \in Calls(todo) /\ 2 \in Reasons
    BY <1>1, <2>1 DEF Reasons
  <2>3. Set(Timeout, cmd.time) \in Calls(todo) \/ props[Timeout] = cmd.time
    BY <1>2, <2>1, <2>2 DEF TimeOK, ToDo
  <2>4. CASE Set(Timeout, cmd.time) \in Calls(todo')
    BY <2>1, <2>4 DEF ToDo
  <2>5. CASE Dropped /\ props[Timeout] = cmd.time
    BY <2>1, <2>5, StillSteps
  <2>6. CASE Request = Set(Timeout, cmd.time)
    <3>1. CASE Carried
      <4>1. Do /\ Request.do = "set" /\ Request.prop = Timeout /\ Request.value = cmd.time
        BY <2>6, <3>1 DEF Carried, Set
      <4>2. QED
        BY <1>2, <2>1, <4>1, DoProps
    <3>2. CASE Dropped
      <4>1. ~Ignored
        BY <2>1, <2>6 DEF Ignored, Set, Timeout
      <4>2. todo' = <<>>
        BY <3>2, <4>1, Progress
      <4>3. QED
        BY <1>1, <4>2, NoCalls DEF Lists
    <3>3. QED
      BY <1>5, <3>1, <3>2
  <2>7. CASE Request # Set(Timeout, cmd.time) /\ Carried /\ props[Timeout] = cmd.time
    <3>1. PICK r \in Reason(cmd) : Request = Set(Property(r), cmd.number)
      BY <2>1, <2>7, StepForms
    <3>2. r \in 0..3
      BY <2>1, ReasonsKnown
    <3>3. Request.do = "set" /\ Request.prop = Property(r) /\ Property(r) # Timeout /\ Property(r) # "Powered" /\ Timeout \in Names
      BY <3>1, <3>2, PropertyNames DEF Set, Booleans, Names, Timeout
    <3>4. props'[Timeout] = props[Timeout]
      <4>1. Do
        BY <2>7 DEF Carried
      <4>2. QED
        BY <1>2, <2>1, <3>3, <4>1, DoProps
    <3>5. QED
      BY <2>1, <2>7, <3>4
  <2>8. QED
    BY <1>5, <2>1, <2>3, <2>4, <2>5, <2>6, <2>7
<1>6. CASE Choose
  <2>1. PICK q : q \in {Method("Register", cmd.oper), Method("Scan", cmd.oper)} /\ todo' \in {<<q>>, <<>>}
    BY <1>6 DEF Choose
  <2>2. Calls(todo') \subseteq {q}
    BY <2>1 DEF Calls
  <2>3. QED
    BY <1>1, <2>1, <2>2 DEF Set, Method
<1>7. CASE ListFails
  <2>1. todo' = <<>>
    BY <1>7 DEF ListFails, NoCall
  <2>2. QED
    BY <1>1, <2>1, NoCalls DEF Lists
<1>8. CASE UNCHANGED vars
  BY <1>1, <1>2, <1>8 DEF vars, service, handler, TimeOK, ToDo, Reasons
<1>9. CASE Changing
  BY <1>9 DEF Changing, CallChanges, PropertyChanges, NetworkChanges, Other
<1>10. QED
  BY <1>3, <1>4, <1>5, <1>6, <1>7, <1>8, <1>9, Cases

-----------------------------------------------------------------------------
(* What a command stands for, and how far it has got.                       *)

\* A command goes on as if all was well when it was, or when it was only roaming that could
\* not be allowed.
LEMMA Advances ==
  ASSUME Inv, (Carried /\ (Done \/ Lost)) \/ (Dropped /\ (Refused \/ Fails)),
         res' = "OK", ~disturbed', cmd'.at \in {"H", "+CHUP"} => ~failed'
  PROVE  /\ Rest /\ todo' = Tail(todo)
         /\ Carried \/ (Dropped /\ cmd.at = "+CGATT" /\ Request = Set("RoamingAllowed", TRUE))
<1>1. /\ Request \in Steps(cmd) /\ cmd \in Known /\ cmd' = cmd /\ disturbed' = disturbed /\ Running /\ res = "OK"
      /\ \/ todo' = Tail(todo) /\ (Dropped => Ignored)
         \/ todo' = <<>> /\ Calls(todo') = {} /\ (res' = "OK" => cmd.at = "H")
  BY Progress
<1>2. CASE Done
  <2>1. todo' = Tail(todo) /\ failed' = failed /\ Carried
    BY <1>1, <1>2 DEF Done, Replied, Carried, Simple
  <2>2. QED
    BY <1>1, <2>1 DEF Inv, RestOK
<1>3. CASE Lost \/ Refused \/ Fails
  <2>1. failed'
    BY <1>3 DEF Lost, Refused, Fails, Fault
  <2>2. cmd.at \notin {"H", "+CHUP"}
    BY <1>1, <2>1
  <2>3. todo' = Tail(todo) /\ (Dropped => Ignored) /\ Rest
    BY <1>1, <2>2 DEF Inv, RestOK
  <2>4. Ignored => /\ Request.do = "set" /\ Request.prop = "RoamingAllowed"
    BY <2>2 DEF Ignored
  <2>5. ASSUME Ignored PROVE cmd.at = "+CGATT" /\ Request = Set("RoamingAllowed", TRUE)
    <3>1. Request.do = "set" /\ Request.prop = "RoamingAllowed"
      BY <2>4, <2>5
    <3>2. cmd.at \in {"+CCFC=3", "+CCFC=4", "+CFUN", "+CGATT"}
      BY <1>1, <3>1, SetForms
    <3>3. cmd.at # "+CFUN"
      BY <1>1, <3>1, StepForms DEF PowerOff, PowerOn, OnLine, Set
    <3>4. ASSUME cmd.at \in {"+CCFC=3", "+CCFC=4"} PROVE FALSE
      <4>1. cmd.reason \in 0..5 /\ Reason(cmd) \subseteq 0..3
        BY <1>1, <3>4, ReasonsKnown
      <4>2. Request.prop = Timeout \/ \E r \in 0..3 : Request.prop = Property(r)
        BY <1>1, <3>1, <3>4, <4>1, StepForms DEF Set, Method
      <4>3. QED
        BY <3>1, <4>2, PropertyNames DEF Timeout, Booleans
    <3>5. cmd.at = "+CGATT"
      BY <3>2, <3>3, <3>4
    <3>6. QED
      BY <1>1, <3>1, <3>5, StepForms DEF Set
  <2>6. QED
    BY <2>3, <2>5
<1>4. QED
  BY <1>2, <1>3

\* AT+CHUP and AT+CHLD=0.
LEMMA RestOfHangups ==
  ASSUME Inv, Carried, Rest, todo' = Tail(todo), cmd.at \in {"+CHUP", "+CHLD=0"}
  PROVE  Rest'
<1>1. /\ cmd' = cmd /\ before' = before /\ Calls(todo) = {Request} \cup Calls(todo')
      /\ \A d \in Calls(todo') : Before(Request, d)
  BY Progress
<1>2. PICK id \in Ids : Request = Hangup(id) /\ \A i \in Ids : calls'[i] = IF i = id THEN "none" ELSE calls[i]
  BY HangupCarried
<1>3. GetCalls # Hangup(id) /\ \A i \in Ids : i # id => Hangup(i) # Hangup(id)
  BY DEF GetCalls, Hangup, Method
<1>4. CASE cmd.at = "+CHUP"
  <2>1. GetCalls \in Calls(todo') \/ \A i \in Ids : calls[i] # "active"
    BY <1>1, <1>2, <1>3, <1>4 DEF Rest, ToDo, There
  <2>2. GetCalls \in Calls(todo') \/ \A i \in Ids : calls'[i] # "active"
    BY <1>2, <2>1
  <2>3. QED
    BY <1>1, <1>4, <2>2 DEF Rest, ToDo, There
<1>5. CASE cmd.at = "+CHLD=0"
  <2>1. GetCalls \notin Calls(todo)
    BY <1>1, <1>2, <1>5 DEF Rest, ToDo
  <2>2. /\ \A i \in Ids : calls[i] = "waiting" => Hangup(i) \in Calls(todo)
        /\ \/ \E i \in Ids : before.calls[i] = "waiting"
           \/ \A i \in Ids : calls[i] = "held" => Hangup(i) \in Calls(todo)
    BY <1>5, <2>1 DEF Rest, ToDo
  <2>3. GetCalls \notin Calls(todo')
    BY <1>1, <2>1
  <2>4. \A i \in Ids : calls'[i] \in {"waiting", "held"} => i # id /\ calls'[i] = calls[i]
    BY <1>2
  <2>5. /\ \A i \in Ids : calls'[i] = "waiting" => Hangup(i) \in Calls(todo')
        /\ \/ \E i \in Ids : before'.calls[i] = "waiting"
           \/ \A i \in Ids : calls'[i] = "held" => Hangup(i) \in Calls(todo')
    BY <1>1, <1>2, <1>3, <2>2, <2>4
  <2>6. QED
    BY <1>1, <1>5, <2>3, <2>5 DEF Rest, ToDo
<1>6. QED
  BY <1>4, <1>5

\* AT+CCFC=reason,3
LEMMA RestOfForwarding ==
  ASSUME Inv, Carried, Rest, todo' = Tail(todo), cmd.at = "+CCFC=3"
  PROVE  Rest'
<1>1. /\ cmd' = cmd /\ Calls(todo) = {Request} \cup Calls(todo') /\ Request \in Steps(cmd) /\ cmd \in Known
      /\ TypeOK /\ Running /\ Do
  BY Progress DEF Carried
<1>2. Reason(cmd) \subseteq 0..3 /\ Reasons = Reason(cmd)
  BY <1>1, ReasonsKnown, ReasonsOfCommand
<1>3. /\ \A r \in Reason(cmd) : Set(Property(r), cmd.number) \in Calls(todo) \/ props[Property(r)] = cmd.number
      /\ 2 \in Reason(cmd) => Set(Timeout, cmd.time) \in Calls(todo) \/ props[Timeout] = cmd.time
  BY <1>2 DEF Rest, ToDo
<1>4. \A r \in 0..3 : Property(r) \in Names /\ Property(r) # Timeout /\ Property(r) # "Powered" /\ Property(r) # "Online"
  BY PropertyNames DEF Booleans
<1>5. \A r, s \in 0..3 : Property(r) = Property(s) => r = s
  BY PropertyNames
<1>6. Timeout \in Names /\ Timeout # "Powered" /\ Timeout # "Online"
  BY DEF Timeout, Names
<1>7. \A p, v : Set(p, v).do = "set" /\ Set(p, v).prop = p /\ Set(p, v).value = v
  BY Zenon DEF Set
<1>8. \/ \E r \in Reason(cmd) : Request = Set(Property(r), cmd.number)
      \/ Request = Set(Timeout, cmd.time)
  BY <1>1, StepForms
<1>9. Request.do = "set"
  BY <1>7, <1>8
<1>10. /\ props'[Request.prop] = Request.value
       /\ \A p \in Names \ {Request.prop} : (Request.prop = "Powered" => p # "Online") => props'[p] = props[p]
  BY <1>1, <1>9, DoProps
<1>11. /\ \A r \in Reason(cmd) : Set(Property(r), cmd.number) \in Calls(todo') \/ props'[Property(r)] = cmd.number
       /\ 2 \in Reason(cmd) => Set(Timeout, cmd.time) \in Calls(todo') \/ props'[Timeout] = cmd.time
  <2>1. CASE Request = Set(Timeout, cmd.time)
    <3>1. Request.prop = Timeout /\ Request.value = cmd.time
      BY <1>7, <2>1
    <3>2. \A r \in Reason(cmd) : Set(Property(r), cmd.number) # Request /\ props'[Property(r)] = props[Property(r)]
      BY <1>2, <1>4, <1>6, <1>7, <1>10, <3>1
    <3>3. QED
      BY <1>1, <1>3, <1>10, <3>1, <3>2
  <2>2. ASSUME NEW s \in Reason(cmd), Request = Set(Property(s), cmd.number)
        PROVE  /\ \A r \in Reason(cmd) : Set(Property(r), cmd.number) \in Calls(todo') \/ props'[Property(r)] = cmd.number
               /\ 2 \in Reason(cmd) => Set(Timeout, cmd.time) \in Calls(todo') \/ props'[Timeout] = cmd.time
    <3>1. Request.prop = Property(s) /\ Request.value = cmd.number
      BY <1>7, <2>2
    <3>2. Set(Timeout, cmd.time) # Request /\ props'[Timeout] = props[Timeout]
      BY <1>2, <1>4, <1>6, <1>7, <1>10, <3>1
    <3>3. \A r \in Reason(cmd) \ {s} : Set(Property(r), cmd.number) # Request /\ props'[Property(r)] = props[Property(r)]
      BY <1>2, <1>4, <1>5, <1>7, <1>10, <3>1
    <3>4. QED
      BY <1>1, <1>3, <1>10, <3>1, <3>2, <3>3
  <2>3. QED
    BY <1>8, <2>1, <2>2
<1>12. Reasons' = Reason(cmd)
  BY <1>1, <1>2 DEF Reasons
<1>13. QED
  BY <1>1, <1>11, <1>12 DEF Rest, ToDo

\* AT+CFUN
LEMMA RestOfPower ==
  ASSUME Inv, Carried, Rest, todo' = Tail(todo), cmd.at = "+CFUN"
  PROVE  Rest'
<1>1. /\ cmd' = cmd /\ Calls(todo) = {Request} \cup Calls(todo') /\ Request \in Steps(cmd) /\ cmd \in Known
      /\ TypeOK /\ Running /\ Do /\ \A d \in Calls(todo') : Before(Request, d)
  BY Progress DEF Carried
<1>2. \/ Request = PowerOff
      \/ cmd.fun # 0 /\ Request \in {PowerOn, OnLine(cmd)}
  <2>1. Steps(cmd) = IF cmd.fun = 0 THEN {PowerOff} ELSE {PowerOff, PowerOn, OnLine(cmd)}
    BY DEF Steps
  <2>2. QED
    BY <1>1, <2>1
<1>3. PICK line : line = (cmd.fun = 1)
  OBVIOUS
<1>4. OnLine(cmd) = Set("Online", line)
  BY <1>3, Zenon DEF OnLine
<1>5. PowerOff # PowerOn /\ PowerOff # OnLine(cmd) /\ PowerOn # OnLine(cmd)
  BY DEF PowerOff, PowerOn, OnLine, Set
<1>6. /\ PowerOff.do = "set" /\ PowerOff.prop = "Powered" /\ PowerOff.value = FALSE
      /\ PowerOn.do = "set" /\ PowerOn.prop = "Powered" /\ PowerOn.value = TRUE
      /\ OnLine(cmd).do = "set" /\ OnLine(cmd).prop = "Online" /\ OnLine(cmd).value = line
  <2>1. \A p, v : Set(p, v).do = "set" /\ Set(p, v).prop = p /\ Set(p, v).value = v
    BY Zenon DEF Set
  <2>2. PowerOff.do = "set" /\ PowerOff.prop = "Powered" /\ PowerOff.value = FALSE
    BY <2>1, Zenon DEF PowerOff
  <2>3. PowerOn.do = "set" /\ PowerOn.prop = "Powered" /\ PowerOn.value = TRUE
    BY <2>1, Zenon DEF PowerOn
  <2>4. OnLine(cmd).do = "set" /\ OnLine(cmd).prop = "Online" /\ OnLine(cmd).value = line
    <3>1. OnLine(cmd) = Set("Online", line)
      BY <1>4
    <3>2. Set("Online", line).do = "set" /\ Set("Online", line).prop = "Online" /\ Set("Online", line).value = line
      BY <2>1, Zenon
    <3>3. QED
      BY <3>1, <3>2
  <2>5. QED
    BY <2>2, <2>3, <2>4, Zenon
<1>7. "Powered" \in Names /\ "Online" \in Names
  BY DEF Names, Booleans
<1>8. CASE cmd.fun = 0
  <2>1. Request = PowerOff
    BY <1>2, <1>8
  <2>2. props'["Powered"] = FALSE /\ props'["Online"] = (FALSE /\ props["Online"])
    BY <1>1, <1>6, <2>1, DoProps
  <2>3. ~props'["Powered"] /\ ~props'["Online"]
    BY <2>2, Zenon
  <2>4. QED
    BY <1>1, <1>8, <2>3 DEF Rest
<1>9. CASE cmd.fun # 0
  <2>1. /\ PowerOn \in Calls(todo) \/ (props["Powered"] /\ PowerOff \notin Calls(todo))
        /\ OnLine(cmd) \in Calls(todo)
    BY <1>1, <1>9 DEF Rest, ToDo
  <2>2. CASE Request = PowerOff
    <3>1. PowerOn \in Calls(todo') /\ OnLine(cmd) \in Calls(todo')
      BY <1>1, <1>5, <2>1, <2>2
    <3>2. QED
      BY <1>1, <1>9, <3>1 DEF Rest, ToDo
  <2>3. CASE Request = PowerOn
    <3>1. OnLine(cmd) \in Calls(todo') /\ PowerOff \notin Calls(todo')
      BY <1>1, <1>5, <1>6, <2>1, <2>3 DEF Before
    <3>2. props'["Powered"] = TRUE
      BY <1>1, <1>6, <2>3, DoProps
    <3>3. props'["Powered"]
      BY <3>2, Zenon
    <3>4. QED
      BY <1>1, <1>9, <3>1, <3>3 DEF Rest, ToDo
  <2>4. CASE Request = OnLine(cmd)
    <3>1. Calls(todo') = {}
      BY <1>1, <1>6, <2>4 DEF Before
    <3>2. todo' = <<>>
      <4>1. Tail(todo) \in Seq(Steps(cmd))
        BY <1>1, TailCalls DEF TypeOK, Running
      <4>2. QED
        BY <3>1, <4>1, EmptyList
    <3>3. props["Powered"] /\ PowerOff \notin Calls(todo')
      BY <1>1, <1>5, <2>1, <2>4, <3>1
    <3>4. props'["Online"] = line /\ props'["Powered"] = props["Powered"]
      BY <1>1, <1>6, <1>7, <2>4, DoProps
    <3>5. props'["Powered"]
      BY <3>3, <3>4, Zenon
    <3>6. props'["Online"] = (cmd.fun = 1)
      BY <1>3, <3>4, Zenon
    <3>7. ~Running'
      BY <3>2 DEF Running
    <3>8. QED
      BY <1>1, <1>9, <3>3, <3>5, <3>6, <3>7 DEF Rest, ToDo
  <2>5. QED
    BY <1>2, <2>2, <2>3, <2>4
<1>10. QED
  BY <1>8, <1>9

\* AT+CGATT
LEMMA RestOfAttachment ==
  ASSUME Inv, Carried \/ (Dropped /\ Request = Set("RoamingAllowed", TRUE)),
         Rest, todo' = Tail(todo), cmd.at = "+CGATT"
  PROVE  Rest'
<1>1. /\ cmd' = cmd /\ Calls(todo) = {Request} \cup Calls(todo') /\ Request \in Steps(cmd) /\ cmd \in Known
      /\ TypeOK /\ Running
  BY Progress
<1>2. Request \in {Set("RoamingAllowed", TRUE), Set("Gprs", cmd.on)}
  BY <1>1, StepForms
<1>3. Set("Gprs", cmd.on) \in Calls(todo) \/ props["Gprs"] = cmd.on
  BY DEF Rest, ToDo
<1>4. \A p, v : Set(p, v).do = "set" /\ Set(p, v).prop = p /\ Set(p, v).value = v
  BY Zenon DEF Set
<1>5. "Gprs" \in Names
  BY DEF Names, Booleans
<1>6. CASE Request = Set("RoamingAllowed", TRUE)
  <2>1. Request # Set("Gprs", cmd.on)
    BY <1>6 DEF Set
  <2>2. props'["Gprs"] = props["Gprs"]
    <3>1. CASE Dropped
      BY <3>1, StillSteps
    <3>2. CASE Carried
      <4>1. Do /\ Request.do = "set" /\ Request.prop = "RoamingAllowed"
        BY <1>4, <1>6, <3>2 DEF Carried
      <4>2. QED
        BY <1>1, <1>5, <4>1, DoProps
    <3>3. QED
      BY <3>1, <3>2
  <2>3. QED
    BY <1>1, <1>3, <2>1, <2>2 DEF Rest, ToDo
<1>7. CASE Request = Set("Gprs", cmd.on) /\ Carried
  <2>1. Do /\ Request.do = "set" /\ Request.prop = "Gprs" /\ Request.value = cmd.on
    BY <1>4, <1>7 DEF Carried
  <2>2. props'["Gprs"] = cmd.on
    BY <1>1, <2>1, DoProps
  <2>3. QED
    BY <1>1, <2>2 DEF Rest
<1>8. QED
  BY <1>2, <1>4, <1>6, <1>7

\* The commands of one call, and those that list calls and then make one.
LEMMA RestOfOthers ==
  ASSUME Inv, Carried, todo' = Tail(todo),
         cmd.at \notin {"+CHUP", "+CHLD=0", "+CCFC=3", "+CFUN", "+CGATT"}
  PROVE  Fulfilled'
<1>1. /\ cmd' = cmd /\ Request \in Steps(cmd) /\ cmd \in Known /\ TypeOK /\ Legal(calls)
      /\ Running /\ Simple /\ Do /\ Accepts
  BY Progress DEF Carried, Inv, Do
<1>2. \A id \in Ids : calls'[id] = Becomes(id)
  BY <1>1 DEF Do
<1>3. Request.do \notin {"GetCalls", "GetOperators", "Scan"}
  BY <1>1 DEF Simple
<1>4. CASE cmd.at \in {"A", "+CTFR"}
  <2>1. PICK id \in Ids : Request = Method(IF cmd.at = "A" THEN "Answer" ELSE "Deflect", id)
    <3>1. Request # GetCalls
      BY <1>3 DEF GetCalls, Method
    <3>2. Steps(cmd) = {GetCalls} \cup {Method(IF cmd.at = "A" THEN "Answer" ELSE "Deflect", id) : id \in Ids}
      BY <1>4 DEF Steps
    <3>3. QED
      BY <1>1, <3>1, <3>2
  <2>2. Request.arg = id /\ Request.do = IF cmd.at = "A" THEN "Answer" ELSE "Deflect"
    BY <2>1 DEF Method
  <2>3. CASE cmd.at = "A"
    <3>1. calls'[id] = "active"
      BY <1>2, <2>2, <2>3 DEF Becomes
    <3>2. QED
      BY <1>1, <2>3, <3>1 DEF Fulfilled, There
  <2>4. CASE cmd.at = "+CTFR"
    <3>1. calls[id] = "incoming"
      BY <1>1, <2>2, <2>4 DEF Accepts
    <3>2. \A i \in Ids : i # id => calls[i] = "none"
      BY <1>1, <3>1 DEF Legal
    <3>3. \A i \in Ids : calls'[i] = "none"
      BY <1>2, <2>2, <2>4, <3>2 DEF Becomes
    <3>4. QED
      BY <1>1, <2>4, <3>3 DEF Fulfilled, There
  <2>5. QED
    BY <1>4, <2>3, <2>4
<1>5. CASE cmd.at = "H"
  <2>1. Request.do = "HangupAll"
    <3>1. Steps(cmd) = {Method("HangupAll", 0)}
      BY <1>5 DEF Steps
    <3>2. QED
      BY <1>1, <3>1 DEF Method
  <2>2. QED
    BY <1>1, <1>2, <1>5, <2>1 DEF Becomes, Fulfilled
<1>6. CASE cmd.at = "+CHLD=1x"
  <2>1. Request = Hangup(cmd.id) /\ cmd.id \in Ids
    BY <1>1, <1>6, StepForms
  <2>2. Request.do = "Hangup" /\ Request.arg = cmd.id
    BY <2>1 DEF Hangup, Method
  <2>3. QED
    BY <1>1, <1>2, <1>6, <2>1, <2>2 DEF Becomes, Fulfilled
<1>7. CASE cmd.at = "+CCFC=4"
  <2>1. cmd.reason \in 0..5 /\ Reason(cmd) \subseteq 0..3 /\ (cmd.reason < 4 => Reason(cmd) = {cmd.reason})
        /\ (cmd.reason = 5 => Reason(cmd) = 1..3)
    BY <1>1, <1>7, ReasonsKnown
  <2>2. \A r \in Reason(cmd) : props'[Property(r)] = Off
    <3>1. CASE cmd.reason < 4
      <4>1. Request = Set(Property(cmd.reason), Off)
        <5>1. Steps(cmd) = {Set(Property(cmd.reason), Off)}
          BY <1>7, <3>1 DEF Steps
        <5>2. QED
          BY <1>1, <5>1
      <4>2. Request.do = "set" /\ Request.prop = Property(cmd.reason) /\ Request.value = Off
        BY <4>1 DEF Set
      <4>3. QED
        BY <1>1, <2>1, <3>1, <4>2, DoProps
    <3>2. CASE cmd.reason \in {4, 5}
      <4>1. Request = Method("DisableAll", IF cmd.reason = 4 THEN "all" ELSE "conditional")
        <5>1. Steps(cmd) = {Method("DisableAll", IF cmd.reason = 4 THEN "all" ELSE "conditional")}
          BY <1>7, <3>2 DEF Steps
        <5>2. QED
          BY <1>1, <5>1
      <4>2. Request.do = "DisableAll" /\ Request.arg = IF cmd.reason = 4 THEN "all" ELSE "conditional"
        BY <4>1 DEF Method
      <4>3. \A r \in 0..3 : props'[Property(r)] = IF r = 0 /\ Request.arg # "all" THEN props[Property(r)] ELSE Off
        BY <1>1, <4>2, DoProps
      <4>4. QED
        BY <2>1, <3>2, <4>2, <4>3
    <3>3. QED
      BY <2>1, <3>1, <3>2
  <2>3. Reasons' = Reason(cmd)
    BY <1>1 DEF Reasons, Reason
  <2>4. QED
    BY <1>1, <1>7, <2>1, <2>2, <2>3 DEF Fulfilled, Property
<1>8. CASE cmd.at \in {"+COPS=0", "+COPS=1"}
  <2>1. Request = Method("Register", IF cmd.at = "+COPS=0" THEN "auto" ELSE cmd.oper)
    <3>1. /\ cmd.at = "+COPS=0" => Steps(cmd) = {Method("Register", "auto")}
          /\ cmd.at = "+COPS=1" => Steps(cmd) = {Method("GetOperators", cmd.oper), Method("Scan", cmd.oper), Method("Register", cmd.oper)}
      BY DEF Steps
    <3>2. Request \notin {Method("GetOperators", cmd.oper), Method("Scan", cmd.oper)}
      BY <1>3 DEF Method
    <3>3. QED
      BY <1>1, <1>8, <3>1, <3>2
  <2>2. chosen' = IF cmd.at = "+COPS=0" THEN "auto" ELSE cmd.oper
    BY <1>1, <2>1 DEF Do, Method
  <2>3. QED
    BY <1>1, <1>8, <2>2 DEF Fulfilled
<1>9. CASE cmd.at \in {"+CHLD=1", "+CHLD=2"}
  BY <1>1, <1>9 DEF Fulfilled
<1>10. QED
  BY <1>1, <1>4, <1>5, <1>6, <1>7, <1>8, <1>9 DEF Known

LEMMA RestKept == Inv /\ [Next]_vars => RestOK'
<1> SUFFICES ASSUME Inv, [Next]_vars, res' = "OK", ~disturbed', cmd'.at \in {"H", "+CHUP"} => ~failed'
             PROVE  Rest'
  BY DEF RestOK
<1>1. TypeOK /\ TodoOK /\ Legal(calls) /\ RestOK
  BY DEF Inv
<1>2. ASSUME NEW c \in Commands, Give(c) PROVE Rest'
  <2>1. PICK C :
         /\ Lists(Steps(c), Handle(c), C) /\ C # {}
         /\ c.at \in {"A", "+CTFR", "+CHUP", "+CHLD=0"} => C = {GetCalls}
         /\ c.at = "+CCFC=3" => C = Steps(c)
         /\ c.at = "+CFUN" => C = IF c.fun = 0 THEN {PowerOff}
                                  ELSE (IF c.rst THEN {PowerOff} ELSE {}) \cup {PowerOn, OnLine(c)}
         /\ c.at = "+CGATT" => Set("Gprs", c.on) \in C
    BY Handled
  <2>2. cmd' = c /\ calls' = before'.calls /\ Calls(todo') = C /\ Running'
    <3>1. todo' = Handle(c) /\ cmd' = c /\ calls' = before'.calls
      BY <1>2 DEF Give, service
    <3>2. todo' # <<>>
      BY <2>1, <3>1, NoCalls DEF Lists
    <3>3. QED
      BY <2>1, <3>1, <3>2 DEF Lists, Running
  <2>3. CASE c.at \in {"+CHUP", "+CHLD=0"}
    <3>1. \A id \in Ids : GetCalls # Hangup(id)
      BY DEF GetCalls, Hangup, Method
    <3>2. QED
      BY <2>1, <2>2, <2>3, <3>1 DEF Rest, ToDo
  <2>4. CASE c.at = "+CCFC=3"
    <3>1. Reasons' = Reason(c)
      BY <2>2 DEF Reasons, Reason
    <3>2. \A r \in Reason(c) : Set(Property(r), c.number) \in C
      BY <2>1, <2>4 DEF Steps
    <3>3. 2 \in Reason(c) => Set(Timeout, c.time) \in C
      BY <2>1, <2>4 DEF Steps
    <3>4. QED
      BY <2>2, <2>4, <3>1, <3>2, <3>3 DEF Rest, ToDo
  <2>5. CASE c.at = "+CFUN"
    BY <2>1, <2>2, <2>5 DEF Rest, ToDo
  <2>6. CASE c.at = "+CGATT"
    BY <2>1, <2>2, <2>6 DEF Rest, ToDo
  <2>7. CASE c.at \notin {"+CHUP", "+CHLD=0", "+CCFC=3", "+CFUN", "+CGATT"}
    BY <2>2, <2>7 DEF Rest
  <2>8. QED
    BY <2>3, <2>4, <2>5, <2>6, <2>7
<1>3. CASE List
  <2>1. cmd' = cmd /\ calls' = calls /\ before' = before /\ disturbed' = disturbed /\ failed' = failed
    BY <1>3 DEF List, service
  <2>2. cmd.at \in {"A", "+CTFR", "+CHUP", "+CHLD=0"} /\ res = "OK"
    BY <1>1, <1>3, Listed
  <2>3. Rest
    BY <1>1, <2>1, <2>2 DEF RestOK
  <2>4. CASE cmd.at \in {"A", "+CTFR"}
    <3>1. todo' # <<>>
      BY <1>1, <1>3, <2>4, Listed
    <3>2. QED
      BY <2>1, <2>4, <3>1 DEF Rest, Running
  <2>5. CASE cmd.at = "+CHUP"
    <3>1. ~There("active") \/ \E id \in Ids : Calls(todo') = {Hangup(id), GetCalls}
      BY <1>1, <1>3, <2>5, Listed DEF Lists
    <3>2. QED
      BY <2>1, <2>5, <3>1 DEF Rest, ToDo, There
  <2>6. CASE cmd.at = "+CHLD=0"
    <3>1. PICK H \in SUBSET {id \in Ids : calls[id] \in {"held", "waiting"}} :
             /\ Calls(todo') = Hangups(H)
             /\ \A id \in Ids : calls[id] = "waiting" => id \in H
             /\ \/ \A id \in Ids : calls[id] = "held" => id \in H
                \/ \E id \in Ids : calls[id] = "waiting"
      BY <1>1, <1>3, <2>6, Listed DEF Lists
    <3>2. GetCalls \notin Calls(todo') /\ \A id \in H : Hangup(id) \in Calls(todo')
      BY <3>1 DEF Hangups, Hangup, GetCalls, Method
    <3>3. GetCalls \in Calls(todo)
      <4>1. todo \in Seq(Steps(cmd)) /\ todo # <<>> /\ Head(todo) = GetCalls
        BY <1>1, <1>3 DEF List, TypeOK, Running, Request
      <4>2. QED
        BY <4>1, TailCalls
    <3>4. calls = before.calls
      BY <2>3, <2>6, <3>3 DEF Rest, ToDo
    <3>5. QED
      BY <2>1, <2>6, <3>1, <3>2, <3>4 DEF Rest, ToDo
  <2>7. QED
    BY <2>2, <2>4, <2>5, <2>6
<1>4. CASE (Carried /\ (Done \/ Lost)) \/ (Dropped /\ (Refused \/ Fails))
  <2>1. /\ Rest /\ todo' = Tail(todo)
        /\ Carried \/ (Dropped /\ cmd.at = "+CGATT" /\ Request = Set("RoamingAllowed", TRUE))
    BY <1>4, Advances
  <2>2. cmd' = cmd
    BY <1>4, Progress
  <2>3. CASE cmd.at \in {"+CHUP", "+CHLD=0"}
    BY <2>1, <2>3, RestOfHangups
  <2>4. CASE cmd.at = "+CCFC=3"
    BY <2>1, <2>4, RestOfForwarding
  <2>5. CASE cmd.at = "+CFUN"
    BY <2>1, <2>5, RestOfPower
  <2>6. CASE cmd.at = "+CGATT"
    BY <2>1, <2>6, RestOfAttachment
  <2>7. CASE cmd.at \notin {"+CHUP", "+CHLD=0", "+CCFC=3", "+CFUN", "+CGATT"}
    <3>1. Fulfilled'
      BY <2>1, <2>7, RestOfOthers
    <3>2. QED
      BY <2>2, <2>7, <3>1 DEF Rest
  <2>8. QED
    BY <2>3, <2>4, <2>5, <2>6, <2>7
<1>5. CASE Choose \/ ListFails
  <2>1. Request \in Steps(cmd) /\ cmd \in Known \cup {[at |-> "none"]} /\ cmd' = cmd
    BY <1>1, <1>5, TailCalls, RequestAssumption DEF TypeOK, Running, Request, Choose, ListFails
  <2>2. CASE Choose
    <3>1. cmd.at = "+COPS=1"
      <4>1. Request.do \in {"GetOperators", "Scan"}
        BY <2>2 DEF Choose
      <4>2. QED
        BY <2>1, <4>1, StepForms DEF Method, Set, GetCalls, Hangup, PowerOff, PowerOn, OnLine
    <3>2. todo' # <<>>
      BY <2>2 DEF Choose
    <3>3. QED
      BY <2>1, <3>1, <3>2 DEF Rest, Running
  <2>3. CASE ListFails
    <3>1. cmd.at \in {"A", "+CTFR", "+CHUP", "+CHLD=0", "+COPS=1"}
      <4>1. Request.do \in {"GetCalls", "GetOperators", "Scan"}
        BY <2>3 DEF ListFails, Simple
      <4>2. QED
        BY <2>1, <4>1, StepForms DEF Method, Set, GetCalls, Hangup, PowerOff, PowerOn, OnLine
    <3>2. res' = "OK" => cmd.at = "+CHUP"
      BY <2>3, <3>1 DEF ListFails, NoCall
    <3>3. failed'
      BY <2>3 DEF ListFails, Fault
    <3>4. QED
      BY <2>1, <3>2, <3>3
  <2>4. QED
    BY <1>5, <2>2, <2>3
<1>6. CASE UNCHANGED vars
  BY <1>1, <1>6 DEF vars, service, handler, RestOK, Rest, ToDo, There, Running, Reasons, Fulfilled
<1>7. CASE Changing
  BY <1>7 DEF Changing, CallChanges, PropertyChanges, NetworkChanges, Other
<1>8. QED
  BY <1>2, <1>3, <1>4, <1>5, <1>6, <1>7, Cases

LEMMA TypeKept == Inv /\ [Next]_vars => (TypeOK /\ TodoOK)'
<1> SUFFICES ASSUME Inv, [Next]_vars PROVE (TypeOK /\ TodoOK)'
  OBVIOUS
<1>1. TypeOK /\ TodoOK /\ Legal(calls)
  BY DEF Inv
<1>2. /\ before' = [calls |-> before'.calls, props |-> before'.props] /\ before'.calls \in [Ids -> States]
      /\ disturbed' \in BOOLEAN /\ failed' \in BOOLEAN
      /\ count' \in [commands : 0..MaxCommands, changes : 0..MaxChanges, faults : 0..MaxFaults]
  <2> DEFINE Counts == [commands : 0..MaxCommands, changes : 0..MaxChanges, faults : 0..MaxFaults]
  <2>0. count \in Counts
    BY <1>1 DEF TypeOK
  <2>a. ASSUME count.commands < MaxCommands PROVE [count EXCEPT !.commands = @ + 1] \in Counts
    <3>1. count.commands + 1 \in 0..MaxCommands
      BY <2>0, <2>a, RequestAssumption
    <3>2. QED
      BY <2>0, <3>1
  <2>b. ASSUME count.changes < MaxChanges PROVE [count EXCEPT !.changes = @ + 1] \in Counts
    <3>1. count.changes + 1 \in 0..MaxChanges
      BY <2>0, <2>b, RequestAssumption
    <3>2. QED
      BY <2>0, <3>1
  <2>c. ASSUME count.faults < MaxFaults PROVE [count EXCEPT !.faults = @ + 1] \in Counts
    <3>1. count.faults + 1 \in 0..MaxFaults
      BY <2>0, <2>c, RequestAssumption
    <3>2. QED
      BY <2>0, <3>1
  <2>1. ASSUME NEW c \in Commands, Give(c)
        PROVE  /\ before' = [calls |-> before'.calls, props |-> before'.props] /\ before'.calls \in [Ids -> States]
               /\ disturbed' \in BOOLEAN /\ failed' \in BOOLEAN
               /\ count' \in Counts
    <3>1. count' \in Counts
      BY <2>1, <2>a DEF Give
    <3>2. before' = [calls |-> calls, props |-> props] /\ disturbed' = FALSE /\ failed' = FALSE
      BY <2>1 DEF Give
    <3>3. calls \in [Ids -> States]
      BY <1>1 DEF TypeOK
    <3>4. QED
      BY <3>1, <3>2, <3>3
  <2>2. CASE List \/ Choose \/ Done \/ Refused
    BY <1>1, <2>2 DEF List, Choose, Done, Refused, TypeOK
  <2>3. CASE Fails \/ Lost \/ ListFails
    <3>1. count.faults < MaxFaults /\ count' = [count EXCEPT !.faults = @ + 1] /\ failed' = TRUE
      BY <2>3 DEF Fails, Lost, ListFails, Fault
    <3>2. UNCHANGED <<before, disturbed>>
      BY <2>3 DEF Fails, Lost, ListFails
    <3>3. QED
      BY <1>1, <2>c, <3>1, <3>2 DEF TypeOK
  <2>4. CASE Changing
    <3>1. count.changes < MaxChanges /\ count' = [count EXCEPT !.changes = @ + 1] /\ disturbed' = TRUE
      BY <2>4 DEF Changing, CallChanges, PropertyChanges, NetworkChanges, Other
    <3>2. UNCHANGED <<before, failed>>
      BY <2>4 DEF Changing, CallChanges, PropertyChanges, NetworkChanges, Other
    <3>3. QED
      BY <1>1, <2>b, <3>1, <3>2 DEF TypeOK
  <2>5. CASE UNCHANGED vars
    BY <1>1, <2>5 DEF vars, TypeOK
  <2>6. QED
    BY <2>1, <2>2, <2>3, <2>4, <2>5, Cases
<1>3. TypeOK'
  BY <1>1, <1>2, ServiceTyped, HandlerTyped DEF TypeOK
<1>4. TodoOK'
  BY <1>1, HandlerTyped DEF TodoOK, Running
<1>5. QED
  BY <1>3, <1>4

-----------------------------------------------------------------------------
(* The theorems.                                                            *)
LEMMA NextInv == Inv /\ [Next]_vars => Inv'
<1>1. Inv /\ [Next]_vars => Legal(calls)'
  BY LegalKept DEF Legal
<1>2. QED
  BY <1>1, TypeKept, HangupsKept, TimeKept, RestKept, NamedKept DEF Inv

\* For any voice calls, commands, changes by others and faults: the types, the calls that a
\* command has left to make, and what it stands for but for those (voicecall.c:498-688,
\* callforwarding.c:94-194, modem.c:59-98, gprs.c:58-72, network.c:203-254).
THEOREM Invariance == Spec => []Inv
BY InitInv, NextInv, PTL DEF Spec

\* For any voice calls, commands, changes by others and faults: a command that answers OK has
\* done what it stands for, in however many D-Bus calls, unless others had a hand in it
\* (callforwarding.c:126-138, modem.c:80-97, network.c:206-254, voicecall.c:588-638).
THEOREM OkMeansDone == Spec => []OkIsDone
<1>1. Inv => OkIsDone
  <2> SUFFICES ASSUME Inv, ~Running, res = "OK", ~disturbed, cmd.at \in {"H", "+CHUP"} => ~failed
               PROVE  Fulfilled
    BY DEF OkIsDone
  <2>1. Rest
    BY DEF Inv, RestOK
  <2>2. Calls(todo) = {}
    BY NoCalls DEF Running, Lists
  <2>3. \A q : ~ToDo(q)
    BY <2>2 DEF ToDo
  <2>4. cmd \in Known \cup {[at |-> "none"]}
    BY RequestAssumption DEF Inv, TypeOK
  <2>5. CASE cmd.at \in {"+CHUP", "+CHLD=0", "+CGATT"}
    BY <2>1, <2>3, <2>5 DEF Rest, Fulfilled, There
  <2>6. CASE cmd.at = "+CCFC=3"
    <3>1. cmd \in Known
      BY <2>4, <2>6
    <3>2. Reasons \subseteq 0..3
      BY <2>6, <3>1, ReasonsKnown, ReasonsOfCommand
    <3>3. \A r \in Reasons : Property(r) = Forward[r + 1]
      BY <3>2, PropertyNames
    <3>4. QED
      BY <2>1, <2>3, <2>6, <3>3 DEF Rest, Fulfilled, Timeout
  <2>7. CASE cmd.at = "+CFUN"
    <3>1. props["Powered"] \in BOOLEAN /\ props["Online"] \in BOOLEAN
      <4>1. "Powered" \in Names /\ "Online" \in Names /\ Values("Powered") = BOOLEAN /\ Values("Online") = BOOLEAN
        BY DEF Names, Booleans, Values
      <4>2. QED
        BY <4>1 DEF Inv, TypeOK
    <3>2. CASE cmd.fun = 0
      <4>1. ~props["Powered"] /\ ~props["Online"] /\ cmd.fun # 1
        BY <2>1, <2>3, <2>7, <3>2 DEF Rest
      <4>2. QED
        BY <2>7, <3>1, <3>2, <4>1 DEF Fulfilled
    <3>3. CASE cmd.fun # 0
      <4>1. props["Powered"] /\ props["Online"] = (cmd.fun = 1)
        BY <2>1, <2>3, <2>7, <3>3 DEF Rest
      <4>2. QED
        BY <2>7, <3>1, <3>3, <4>1 DEF Fulfilled
    <3>4. QED
      BY <3>2, <3>3
  <2>8. CASE cmd.at \notin {"+CHUP", "+CHLD=0", "+CCFC=3", "+CFUN", "+CGATT"}
    BY <2>1, <2>8 DEF Rest
  <2>9. QED
    BY <2>5, <2>6, <2>7, <2>8
<1>2. QED
  BY <1>1, Invariance, PTL

\* For any voice calls, commands, changes by others and faults: a command that fails half-way, as
\* well as one that does not, changes no setting but those that it names
\* (callforwarding.c:94-151, modem.c:59-98, gprs.c:58-72).
THEOREM OthersAreSpared == Spec => []OnlyNamedSettings
<1>1. Inv => OnlyNamedSettings
  BY DEF Inv
<1>2. QED
  BY <1>1, Invariance, PTL

\* For any voice calls, commands, changes by others and faults: when the number to forward calls
\* to without a reply changes, the time is that of the command already (callforwarding.c:106-120).
THEOREM TimeComesFirst == Spec => TimeBeforeNumber
<1> DEFINE Number == (~disturbed' /\ cmd.at = "+CCFC=3" /\ props'["VoiceNoReply"] # props["VoiceNoReply"])
                       => props["VoiceNoReplyTimeout"] = cmd.time
<1>1. Inv /\ [Next]_vars => [Number]_vars
  <2> SUFFICES ASSUME Inv, [Next]_vars, ~disturbed', cmd.at = "+CCFC=3",
                      props'["VoiceNoReply"] # props["VoiceNoReply"]
               PROVE  props["VoiceNoReplyTimeout"] = cmd.time
    OBVIOUS
  <2>1. Carried
    <3>1. ~Changing
      BY DEF Changing, CallChanges, PropertyChanges, NetworkChanges, Other
    <3>2. \A c \in Commands : ~Give(c)
      BY DEF Give, service
    <3>3. QED
      BY <3>1, <3>2, Cases, StillSteps
  <2>2. /\ Request \in Steps(cmd) /\ cmd \in Known /\ disturbed' = disturbed /\ Running /\ Do
        /\ Calls(todo) = {Request} \cup Calls(Tail(todo)) /\ TypeOK
        /\ \A d \in Calls(Tail(todo)) : Before(Request, d)
    BY <2>1, Progress DEF Carried
  <2>3. Reason(cmd) \subseteq 0..3
    BY <2>2, ReasonsKnown
  <2>4. "VoiceNoReply" \in Names /\ "VoiceNoReply" = Property(2) /\ "VoiceNoReply" # Timeout
    BY PropertyNames DEF Timeout
  <2>5. PICK r \in Reason(cmd) : Request = Set(Property(r), cmd.number)
    <3>1. ASSUME Request = Set(Timeout, cmd.time) PROVE FALSE
      <4>1. Request.do = "set" /\ Request.prop = Timeout
        BY <3>1 DEF Set
      <4>2. props'["VoiceNoReply"] = props["VoiceNoReply"]
        BY <2>2, <2>4, <4>1, DoProps DEF Timeout
      <4>3. QED
        BY <4>2
    <3>2. QED
      BY <2>2, <3>1, StepForms
  <2>6. Request.do = "set" /\ Request.prop = Property(r)
    BY <2>5 DEF Set
  <2>7. r = 2
    <3>1. r \in 0..3 /\ Property(r) # "Powered"
      BY <2>3, PropertyNames DEF Booleans
    <3>2. Property(r) = "VoiceNoReply"
      BY <2>2, <2>4, <2>6, <3>1, DoProps
    <3>3. QED
      BY <2>4, <3>1, <3>2, PropertyNames
  <2>8. ToDo(Set("VoiceNoReply", cmd.number)) /\ 2 \in Reasons
    BY <2>2, <2>4, <2>5, <2>7, ReasonsOfCommand DEF ToDo
  <2>9. Set(Timeout, cmd.time) \notin Calls(todo)
    <3>1. Set(Timeout, cmd.time).prop = Timeout
      BY DEF Set
    <3>2. Request.prop = "VoiceNoReply"
      BY <2>4, <2>6, <2>7
    <3>3. QED
      BY <2>2, <2>4, <2>6, <3>1, <3>2 DEF Before
  <2>10. QED
    BY <2>2, <2>8, <2>9 DEF Inv, TimeOK, ToDo, Timeout
<1>2. QED
  BY <1>1, Invariance, PTL DEF Spec, TimeBeforeNumber

\* For any voice calls, commands, changes by others and faults: a command ends, answers or holds
\* only the calls that it is for, also in the middle of a list of them, unless others have
\* changed the calls since they were listed (voicecall.c:76-173, 554-614).
THEOREM OthersGoOn == Spec => OnlyCallsMeant
<1> DEFINE Meaning == \A id \in Ids : (~disturbed' /\ calls'[id] # calls[id]) => Touches(id)
<1>1. Inv /\ [Next]_vars => [Meaning]_vars
  <2> SUFFICES ASSUME Inv, [Next]_vars, ~disturbed', NEW id \in Ids, calls'[id] # calls[id]
               PROVE  Touches(id)
    OBVIOUS
  <2>1. Carried
    <3>1. ~Changing
      BY DEF Changing, CallChanges, PropertyChanges, NetworkChanges, Other
    <3>2. \A c \in Commands : ~Give(c)
      BY DEF Give, service
    <3>3. QED
      BY <3>1, <3>2, Cases, StillSteps
  <2>2. /\ Request \in Steps(cmd) /\ cmd \in Known /\ disturbed' = disturbed /\ Do /\ Accepts
        /\ Calls(todo) = {Request} \cup Calls(Tail(todo))
    BY <2>1, Progress DEF Carried, Do
  <2>3. calls'[id] = Becomes(id)
    BY <2>2 DEF Do
  <2>4. Request.do \in {"Answer", "Deflect", "Hangup", "HangupAll", "ReleaseAndAnswer", "SwapCalls"}
    BY <2>3 DEF Becomes
  <2>5. CASE Request.do \in {"Answer", "Deflect"}
    <3>1. cmd.at \in {"A", "+CTFR"}
      BY <2>2, <2>5, StepForms DEF Method, Set, GetCalls, Hangup, PowerOff, PowerOn, OnLine
    <3>2. id = Request.arg /\ calls[Request.arg] = "incoming"
      BY <2>2, <2>3, <2>5 DEF Accepts, Becomes
    <3>3. QED
      BY <3>1, <3>2 DEF Touches
  <2>6. CASE Request.do = "Hangup"
    <3>1. PICK i \in Ids : Request = Hangup(i) /\ cmd.at \in {"+CHUP", "+CHLD=0", "+CHLD=1x"} /\ (cmd.at = "+CHLD=1x" => i = cmd.id)
      BY <2>2, <2>6, StepForms DEF Method, Set, GetCalls, PowerOff, PowerOn, OnLine
    <3>2. i = id
      BY <2>3, <2>6, <3>1 DEF Becomes, Hangup, Method
    <3>3. CASE cmd.at = "+CHLD=1x"
      BY <3>1, <3>2, <3>3 DEF Touches
    <3>4. CASE cmd.at \in {"+CHUP", "+CHLD=0"}
      BY <2>2, <3>1, <3>2, <3>4 DEF Inv, HangupsOK, ToDo
    <3>5. QED
      BY <3>1, <3>3, <3>4
  <2>7. CASE Request.do = "HangupAll"
    <3>1. cmd.at = "H"
      BY <2>2, <2>7, StepForms DEF Method, Set, GetCalls, Hangup, PowerOff, PowerOn, OnLine
    <3>2. QED
      BY <3>1 DEF Touches
  <2>8. CASE Request.do = "ReleaseAndAnswer"
    <3>1. cmd.at = "+CHLD=1"
      BY <2>2, <2>8, StepForms DEF Method, Set, GetCalls, Hangup, PowerOff, PowerOn, OnLine
    <3>2. calls[id] \in {"active", "waiting"}
      BY <2>3, <2>8 DEF Becomes
    <3>3. QED
      BY <3>1, <3>2 DEF Touches
  <2>9. CASE Request.do = "SwapCalls"
    <3>1. cmd.at = "+CHLD=2"
      BY <2>2, <2>9, StepForms DEF Method, Set, GetCalls, Hangup, PowerOff, PowerOn, OnLine
    <3>2. calls[id] \in {"active", "held"}
      BY <2>3, <2>9 DEF Becomes
    <3>3. QED
      BY <3>1, <3>2 DEF Touches
  <2>10. QED
    BY <2>4, <2>5, <2>6, <2>7, <2>8, <2>9
<1>2. QED
  BY <1>1, Invariance, PTL DEF Spec, OnlyCallsMeant
=============================================================================
