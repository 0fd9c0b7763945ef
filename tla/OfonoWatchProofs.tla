-------------------------- MODULE OfonoWatchProofs --------------------------
(* Proofs about OfonoWatch, for any number of oFono modems, signals and       *)
(* commands, whatever fails.                                                  *)
EXTENDS OfonoWatch, TLAPS

-----------------------------------------------------------------------------
(* Sequences of calls: which calls they are, and what may come before what. *)
Calls(s) == {s[i] : i \in DOMAIN s}

\* What is removed is removed before anything is made; AT+CSSN makes the watch of barring first
\* and that of held calls before that of conferences; the plug-in is freed last.
Before(c, d) ==
  /\ c[1] # "free"
  /\ d[1] = "unwatch" => c[1] = "unwatch"
  /\ (c[1] = "watch" /\ d[1] = "watch") =>
       c[2] # d[2] /\ d[2] # "barring" /\ (c[2] = "mpty" => d[2] # "hold")

Ordered(s) == \A i, j \in DOMAIN s : i < j => Before(s[i], s[j])

\* What Head and Tail do to the calls and to their order.
LEMMA TailCalls ==
  ASSUME NEW S, NEW s \in Seq(S), s # <<>>
  PROVE  /\ Head(s) \in S /\ Tail(s) \in Seq(S)
         /\ Calls(s) = {Head(s)} \cup Calls(Tail(s))
         /\ Ordered(s) => Ordered(Tail(s)) /\ \A d \in Calls(Tail(s)) : Before(Head(s), d)
<1>1. /\ Len(s) \in Nat /\ Len(s) > 0 /\ Head(s) = s[1] /\ Head(s) \in S
      /\ Tail(s) \in Seq(S) /\ Len(Tail(s)) = Len(s) - 1
      /\ DOMAIN s = 1..Len(s) /\ DOMAIN Tail(s) = 1..(Len(s) - 1)
      /\ \A i \in 1..(Len(s) - 1) : Tail(s)[i] = s[i + 1]
  OBVIOUS
<1>2. Calls(s) = {Head(s)} \cup Calls(Tail(s))
  <2>1. ASSUME NEW i \in DOMAIN s PROVE s[i] \in {Head(s)} \cup Calls(Tail(s))
    <3>1. CASE i = 1
      BY <1>1, <3>1
    <3>2. CASE i # 1
      <4>1. i - 1 \in DOMAIN Tail(s) /\ Tail(s)[i - 1] = s[i]
        BY <1>1, <3>2
      <4>2. QED
        BY <4>1 DEF Calls
    <3>3. QED
      BY <3>1, <3>2
  <2>2. ASSUME NEW i \in DOMAIN Tail(s) PROVE Tail(s)[i] \in Calls(s)
    <3>1. i + 1 \in DOMAIN s /\ Tail(s)[i] = s[i + 1]
      BY <1>1
    <3>2. QED
      BY <3>1 DEF Calls
  <2>3. Head(s) \in Calls(s)
    BY <1>1 DEF Calls
  <2>4. QED
    BY <2>1, <2>2, <2>3 DEF Calls
<1>3. ASSUME Ordered(s)
      PROVE  Ordered(Tail(s)) /\ \A d \in Calls(Tail(s)) : Before(Head(s), d)
  <2>1. ASSUME NEW i \in DOMAIN Tail(s) PROVE i + 1 \in DOMAIN s /\ Tail(s)[i] = s[i + 1] /\ 1 < i + 1 /\ i \in Nat
    BY <1>1
  <2>2. 1 \in DOMAIN s
    BY <1>1
  <2>3. ASSUME NEW i \in DOMAIN Tail(s), NEW j \in DOMAIN Tail(s), i < j PROVE Before(Tail(s)[i], Tail(s)[j])
    <3>1. i + 1 < j + 1
      BY <2>1, <2>3
    <3>2. QED
      BY <3>1, <2>1, <1>3 DEF Ordered
  <2>4. ASSUME NEW i \in DOMAIN Tail(s) PROVE Before(Head(s), Tail(s)[i])
    BY <2>1, <2>2, <1>1, <1>3 DEF Ordered
  <2>5. QED
    BY <2>3, <2>4 DEF Ordered, Calls
<1>4. QED
  BY <1>1, <1>2, <1>3

\* What concatenation does to them.
LEMMA ConcatCalls ==
  ASSUME NEW S, NEW s \in Seq(S), NEW t \in Seq(S)
  PROVE  /\ s \o t \in Seq(S)
         /\ Calls(s \o t) = Calls(s) \cup Calls(t)
         /\ (Ordered(s) /\ Ordered(t) /\ \A c \in Calls(s), d \in Calls(t) : Before(c, d)) => Ordered(s \o t)
<1> DEFINE u == s \o t
<1>1. /\ Len(s) \in Nat /\ Len(t) \in Nat /\ u \in Seq(S) /\ Len(u) = Len(s) + Len(t)
      /\ DOMAIN s = 1..Len(s) /\ DOMAIN t = 1..Len(t) /\ DOMAIN u = 1..(Len(s) + Len(t))
      /\ \A i \in 1..Len(s) : u[i] = s[i]
      /\ \A i \in 1..Len(t) : u[Len(s) + i] = t[i]
  OBVIOUS
<1> HIDE DEF u
<1>2. ASSUME NEW i \in DOMAIN u
      PROVE  \/ i \in DOMAIN s /\ u[i] = s[i]
             \/ i > Len(s) /\ i - Len(s) \in DOMAIN t /\ u[i] = t[i - Len(s)]
  <2>1. CASE i <= Len(s)
    BY <1>1, <2>1
  <2>2. CASE i > Len(s)
    <3>1. i - Len(s) \in 1..Len(t) /\ i = Len(s) + (i - Len(s))
      BY <1>1, <2>2
    <3>2. QED
      BY <1>1, <3>1, <2>2
  <2>3. QED
    BY <1>1, <2>1, <2>2
<1>3. ASSUME NEW i \in DOMAIN s PROVE i \in DOMAIN u /\ u[i] = s[i]
  BY <1>1
<1>4. ASSUME NEW i \in DOMAIN t PROVE Len(s) + i \in DOMAIN u /\ u[Len(s) + i] = t[i]
  BY <1>1
<1>5. Calls(u) = Calls(s) \cup Calls(t)
  <2>1. ASSUME NEW i \in DOMAIN u PROVE u[i] \in Calls(s) \cup Calls(t)
    BY <1>2 DEF Calls
  <2>2. ASSUME NEW i \in DOMAIN s PROVE s[i] \in Calls(u)
    BY <1>3 DEF Calls
  <2>3. ASSUME NEW i \in DOMAIN t PROVE t[i] \in Calls(u)
    BY <1>4 DEF Calls
  <2>4. QED
    BY <2>1, <2>2, <2>3 DEF Calls
<1>6. ASSUME Ordered(s), Ordered(t), \A c \in Calls(s), d \in Calls(t) : Before(c, d)
      PROVE  Ordered(u)
  <2>1. SUFFICES ASSUME NEW i \in DOMAIN u, NEW j \in DOMAIN u, i < j PROVE Before(u[i], u[j])
    BY DEF Ordered
  <2>2. i \in Nat /\ j \in Nat
    BY <1>1
  <2>3. CASE i \in DOMAIN s /\ j \in DOMAIN s
    BY <2>1, <2>3, <1>3, <1>6 DEF Ordered
  <2>4. CASE i \in DOMAIN s /\ j > Len(s)
    <3>1. u[i] \in Calls(s) /\ u[j] \in Calls(t)
      BY <2>4, <1>1, <1>2, <1>3 DEF Calls
    <3>2. QED
      BY <3>1, <1>6
  <2>5. CASE i > Len(s) /\ j > Len(s)
    <3>1. i - Len(s) \in DOMAIN t /\ j - Len(s) \in DOMAIN t /\ i - Len(s) < j - Len(s)
      BY <2>1, <2>2, <2>5, <1>1
    <3>2. u[i] = t[i - Len(s)] /\ u[j] = t[j - Len(s)]
      BY <1>1, <1>2, <2>2, <2>5
    <3>3. QED
      BY <3>1, <3>2, <1>6 DEF Ordered
  <2>6. QED
    BY <2>1, <2>2, <2>3, <2>4, <2>5, <1>1
<1>7. QED
  BY <1>1, <1>5, <1>6 DEF u

-----------------------------------------------------------------------------
(* Types. *)
Names == {"ring", "barring", "hold", "mpty", "fwd", "creg", "cgreg", "cgatt", "ussd", "caoc", "ccwe"}

Call == {Unwatch(w) : w \in Names} \cup {Watch(w, f) : w \in Watches, f \in {"Status", "all"}}
        \cup {HangingUp, Freeing}

Signal == [kind : Kinds \cup {"none"}, modem : Modems \cup {"none"}, value : BOOLEAN, counts : SUBSET {"+CREG", "+CGREG"}]

Properties == {"none", "Status", "all"}

ReaderType ==
  /\ selected \in Modems /\ creg \in 0..2 /\ cgreg \in 0..2
  /\ filter \in [Watches -> Properties]
  /\ plugin \in {"live", "gone"}
  /\ todo \in Seq(Call)

DispatchType ==
  /\ at \in {"idle", "filters", "ask_attached", "ask_status", "print"}
  /\ signal \in Signal
  /\ pend \in SUBSET Registered
  /\ cur \in Watches \cup {"none"}
  /\ val \in Nat

OfonoType ==
  /\ queue \in Seq(Signal)
  /\ status \in [Modems -> Statuses]
  /\ attached \in [Modems -> BOOLEAN]
  /\ reported \in [{"+CREG", "+CGREG"} -> {None} \cup (Modems \X Nat)]

TypeOK == ReaderType /\ DispatchType /\ OfonoType

LEMMA TypeInit == Init => TypeOK
<1> SUFFICES ASSUME Init PROVE TypeOK
  OBVIOUS
<1> USE OfonoAssumption DEF Init
<1>1. ReaderType
  BY DEF ReaderType, Watches, Properties
<1>2. DispatchType
  <2>1. NoSignal \in Signal
    BY DEF NoSignal, Signal
  <2>2. {} \in SUBSET Registered
    OBVIOUS
  <2>3. QED
    BY <2>1, <2>2 DEF DispatchType
<1>3. OfonoType
  BY DEF OfonoType, None
<1>4. QED
  BY <1>1, <1>2, <1>3 DEF TypeOK


\* Calls of the right form and order.
Given(calls) == calls \in Seq(Call) /\ Ordered(calls)

LEMMA CallForms ==
  /\ \A w \in Names : Unwatch(w) \in Call
  /\ \A w \in Watches : Watch(w, "Status") \in Call /\ Watch(w, "all") \in Call
  /\ Freeing \in Call /\ HangingUp \in Call
  BY DEF Call

LEMMA GivenWhen ==
  ASSUME NEW c \in BOOLEAN, NEW s, c => Given(s)
  PROVE  Given(When(c, s)) /\ Calls(When(c, s)) = IF c THEN Calls(s) ELSE {}
  BY DEF Given, When, Ordered, Calls

LEMMA GivenDrops ==
  ASSUME NEW ws \in Seq(Names)
  PROVE  Given(Drop(ws)) /\ Calls(Drop(ws)) = {Unwatch(w) : w \in {ws[i] : i \in DOMAIN ws}}
<1> \A i \in DOMAIN ws : Unwatch(ws[i]) \in Call
  BY CallForms
<1>1. Drop(ws) \in Seq(Call) /\ DOMAIN Drop(ws) = DOMAIN ws
  <2>1. DOMAIN ws = 1..Len(ws) /\ Len(ws) \in Nat
    OBVIOUS
  <2>2. Drop(ws) \in [1..Len(ws) -> Call]
    BY <2>1 DEF Drop
  <2>3. QED
    BY <2>1, <2>2
<1>2. Ordered(Drop(ws))
  BY <1>1 DEF Drop, Ordered, Before, Unwatch
<1>3. QED
  BY <1>1, <1>2 DEF Drop, Given, Calls

LEMMA GivenMakes ==
  ASSUME NEW a \in Call, NEW b \in Call
  PROVE  /\ Given(<<a>>) /\ Calls(<<a>>) = {a}
         /\ Before(a, b) => Given(<<a, b>>) /\ Calls(<<a, b>>) = {a, b}
  BY DEF Given, Ordered, Calls

LEMMA GivenConcat ==
  ASSUME NEW s, NEW t, Given(s), Given(t), \A c \in Calls(s), d \in Calls(t) : Before(c, d)
  PROVE  Given(s \o t) /\ Calls(s \o t) = Calls(s) \cup Calls(t)
  BY ConcatCalls DEF Given

\* What the commands have to do.
LEMMA CregCalls ==
  ASSUME NEW n \in 0..2
  PROVE  /\ Given(creg_calls(n))
         /\ Calls(creg_calls(n)) = {Unwatch("creg")} \cup (IF n = 1 THEN {Watch("creg", "Status")} ELSE {})
                                   \cup (IF n = 2 THEN {Watch("creg", "all")} ELSE {})
<1> DEFINE s == Drop(<<"creg">>)
           t == When(n = 1, <<Watch("creg", "Status")>>)
           u == When(n = 2, <<Watch("creg", "all")>>)
<1>1. Given(s) /\ Calls(s) = {Unwatch("creg")}
  <2>1. <<"creg">> \in Seq(Names) /\ {<<"creg">>[i] : i \in DOMAIN <<"creg">>} = {"creg"}
    BY DEF Names
  <2>2. QED
    BY <2>1, GivenDrops
<1>2. Watch("creg", "Status") \in Call /\ Watch("creg", "all") \in Call
  BY CallForms DEF Watches
<1>3. Given(t) /\ Calls(t) = IF n = 1 THEN {Watch("creg", "Status")} ELSE {}
  BY <1>2, GivenMakes, GivenWhen
<1>4. Given(u) /\ Calls(u) = IF n = 2 THEN {Watch("creg", "all")} ELSE {}
  BY <1>2, GivenMakes, GivenWhen
<1> HIDE DEF s, t, u
<1>5. Given(s \o t) /\ Calls(s \o t) = Calls(s) \cup Calls(t)
  BY <1>1, <1>3, GivenConcat DEF Before, Unwatch, Watch
<1>6. Given((s \o t) \o u) /\ Calls((s \o t) \o u) = Calls(s \o t) \cup Calls(u)
  BY <1>1, <1>3, <1>4, <1>5, GivenConcat DEF Before, Unwatch, Watch
<1>7. QED
  BY <1>1, <1>3, <1>4, <1>5, <1>6 DEF creg_calls, s, t, u

LEMMA CgregCalls ==
  ASSUME NEW n \in 0..2
  PROVE  /\ Given(cgreg_calls(n))
         /\ Calls(cgreg_calls(n)) =
              {Unwatch("cgreg"), Unwatch("cgatt")}
              \cup (IF n > 0 THEN {Watch("cgatt", "all"), Watch("cgreg", IF n = 1 THEN "Status" ELSE "all")}
                            ELSE {})
<1> DEFINE f == IF n = 1 THEN "Status" ELSE "all"
           s == Drop(<<"cgreg", "cgatt">>)
           t == When(n > 0, <<Watch("cgatt", "all"), Watch("cgreg", f)>>)
<1>1. Given(s) /\ Calls(s) = {Unwatch("cgreg"), Unwatch("cgatt")}
  <2>1. /\ <<"cgreg", "cgatt">> \in Seq(Names)
        /\ {<<"cgreg", "cgatt">>[i] : i \in DOMAIN <<"cgreg", "cgatt">>} = {"cgreg", "cgatt"}
    BY DEF Names
  <2>2. QED
    BY <2>1, GivenDrops
<1>2. Watch("cgatt", "all") \in Call /\ Watch("cgreg", f) \in Call
  <2>1. "cgatt" \in Watches /\ "cgreg" \in Watches
    BY DEF Watches
  <2>2. CASE n = 1
    BY <2>1, <2>2, CallForms
  <2>3. CASE n # 1
    BY <2>1, <2>3, CallForms
  <2>4. QED
    BY <2>2, <2>3
<1> HIDE DEF f
<1>3. Before(Watch("cgatt", "all"), Watch("cgreg", f))
  BY DEF Before, Watch
<1> DEFINE made == <<Watch("cgatt", "all"), Watch("cgreg", f)>>
<1>4. Given(t) /\ Calls(t) = IF n > 0 THEN {Watch("cgatt", "all"), Watch("cgreg", f)} ELSE {}
  <2>1. Given(made) /\ Calls(made) = {Watch("cgatt", "all"), Watch("cgreg", f)}
    BY <1>2, <1>3, GivenMakes
  <2> HIDE DEF made
  <2>2. CASE n > 0
    BY <2>1, <2>2 DEF When, made
  <2>3. CASE ~ (n > 0)
    BY <2>3 DEF When, made, Given, Ordered, Calls
  <2>4. QED
    BY <2>2, <2>3
<1> HIDE DEF s, t
<1>5. Given(s \o t) /\ Calls(s \o t) = Calls(s) \cup Calls(t)
  BY <1>1, <1>4, GivenConcat DEF Before, Unwatch, Watch
<1>6. QED
  BY <1>1, <1>4, <1>5 DEF cgreg_calls, f, s, t

LEMMA SsnCalls ==
  ASSUME NEW ssi \in BOOLEAN, NEW ssu \in BOOLEAN
  PROVE  /\ Given(ssn_calls(ssi, ssu))
         /\ Calls(ssn_calls(ssi, ssu)) =
              {Unwatch("fwd"), Unwatch("barring"), Unwatch("hold"), Unwatch("mpty")}
              \cup (IF ssi THEN {Watch("barring", "all")} ELSE {})
              \cup (IF ssu THEN {Watch("hold", "all"), Watch("mpty", "all")} ELSE {})
              \cup (IF ssi \/ ssu THEN {Watch("fwd", "all")} ELSE {})
<1> DEFINE ws == <<"fwd", "barring", "hold", "mpty">>
           s == Drop(ws)
           t == When(ssi, <<Watch("barring", "all")>>)
           u == When(ssu, <<Watch("hold", "all"), Watch("mpty", "all")>>)
           v == When(ssi \/ ssu, <<Watch("fwd", "all")>>)
<1>1. Given(s) /\ Calls(s) = {Unwatch("fwd"), Unwatch("barring"), Unwatch("hold"), Unwatch("mpty")}
  <2>1. ws \in Seq(Names) /\ {ws[i] : i \in DOMAIN ws} = {"fwd", "barring", "hold", "mpty"}
    BY DEF Names
  <2>2. QED
    BY <2>1, GivenDrops
<1>2. \A w \in {"barring", "hold", "mpty", "fwd"} : Watch(w, "all") \in Call
  BY CallForms DEF Watches
<1>3. Before(Watch("hold", "all"), Watch("mpty", "all"))
  BY DEF Before, Watch
<1>4. Given(t) /\ Calls(t) = IF ssi THEN {Watch("barring", "all")} ELSE {}
  BY <1>2, GivenMakes, GivenWhen
<1>5. Given(u) /\ Calls(u) = IF ssu THEN {Watch("hold", "all"), Watch("mpty", "all")} ELSE {}
  BY <1>2, <1>3, GivenMakes, GivenWhen
<1>6. Given(v) /\ Calls(v) = IF ssi \/ ssu THEN {Watch("fwd", "all")} ELSE {}
  BY <1>2, GivenMakes, GivenWhen
<1> HIDE DEF s, t, u, v
<1>7. Given(s \o t) /\ Calls(s \o t) = Calls(s) \cup Calls(t)
  BY <1>1, <1>4, GivenConcat DEF Before, Unwatch, Watch
<1>8. Given((s \o t) \o u) /\ Calls((s \o t) \o u) = Calls(s \o t) \cup Calls(u)
  BY <1>1, <1>4, <1>5, <1>7, GivenConcat DEF Before, Unwatch, Watch
<1>9. Given(((s \o t) \o u) \o v) /\ Calls(((s \o t) \o u) \o v) = Calls((s \o t) \o u) \cup Calls(v)
  BY <1>1, <1>4, <1>5, <1>6, <1>7, <1>8, GivenConcat DEF Before, Unwatch, Watch
<1>10. QED
  BY <1>1, <1>4, <1>5, <1>6, <1>7, <1>8, <1>9 DEF ssn_calls, s, t, u, v

LEMMA UnregisterCalls ==
  ASSUME NEW vhu \in 0..2
  PROVE  /\ Given(unregister_calls(vhu))
         /\ Calls(unregister_calls(vhu)) =
              {Unwatch(w) : w \in Names} \cup (IF vhu = 2 THEN {HangingUp} ELSE {}) \cup {Freeing}
<1> DEFINE ws == <<"ccwe", "caoc", "cgreg", "cgatt", "creg", "ussd", "barring", "hold", "mpty", "fwd", "ring">>
           s == Drop(ws)
           t == When(vhu = 2, <<HangingUp>>)
<1>1. Given(s) /\ Calls(s) = {Unwatch(w) : w \in Names}
  <2>1. ws \in Seq(Names) /\ {ws[i] : i \in DOMAIN ws} = Names
    BY DEF Names
  <2>2. QED
    BY <2>1, GivenDrops
<1>2. Given(<<Freeing>>) /\ Calls(<<Freeing>>) = {Freeing}
  BY CallForms, GivenMakes
<1>3. Given(t) /\ Calls(t) = IF vhu = 2 THEN {HangingUp} ELSE {}
  <2>1. Given(<<HangingUp>>) /\ Calls(<<HangingUp>>) = {HangingUp}
    BY CallForms, GivenMakes
  <2>2. QED
    BY <2>1, GivenWhen
<1> HIDE DEF s, t
<1>4. Given(s \o t) /\ Calls(s \o t) = Calls(s) \cup Calls(t)
  BY <1>1, <1>3, GivenConcat DEF Before, Unwatch, HangingUp
<1>5. Given((s \o t) \o <<Freeing>>) /\ Calls((s \o t) \o <<Freeing>>) = Calls(s \o t) \cup {Freeing}
  BY <1>1, <1>2, <1>3, <1>4, GivenConcat DEF Before, Unwatch, HangingUp, Freeing
<1>6. QED
  BY <1>1, <1>3, <1>4, <1>5 DEF unregister_calls, s, t

LEMMA SwitchCalls ==
  ASSUME NEW w \in Switches
  PROVE  /\ Given(<<Watch(w, "all")>>) /\ Calls(<<Watch(w, "all")>>) = {Watch(w, "all")}
         /\ Given(<<Unwatch(w)>>) /\ Calls(<<Unwatch(w)>>) = {Unwatch(w)}
<1>1. w \in Watches /\ w \in Names
  BY OfonoAssumption DEF Watches, Names
<1>2. QED
  BY <1>1, CallForms, GivenMakes

-----------------------------------------------------------------------------
(* Types are kept. *)
Reading == signal_watch \/ signal_watch_fails \/ signal_unwatch \/ HangUp \/ Free
Dispatching == Dispatch \/ Dispatched \/ (\E w \in Watches : Match(w)) \/ AskAttached \/ AskStatus \/ Report
Emitting == \E m \in Modems : ChangeStatus(m) \/ ChangeAttached(m) \/ (\E kind \in Kinds : Other(kind, m))

\* What all commands have in common.
LEMMA CommandBegins ==
  ASSUME TypeOK, Command
  PROVE  /\ plugin = "live" /\ todo = <<>>
         /\ selected' \in Modems /\ creg' \in 0..2 /\ cgreg' \in 0..2
         /\ UNCHANGED <<filter, plugin, dispatcher, ofono>>
         /\ reported' = reported \/ reported' = [prefix \in DOMAIN reported |-> None]
         /\ Given(todo')
<1> USE DEF TypeOK, ReaderType, Commands, Begin, Ready, setting
<1>1. CASE \E n \in 0..2 : set_creg(n)
  BY <1>1, CregCalls DEF set_creg
<1>2. CASE \E n \in 0..2 : set_cgreg(n)
  BY <1>2, CgregCalls DEF set_cgreg
<1>3. CASE \E ssi, ssu \in BOOLEAN : set_ssn(ssi, ssu)
  BY <1>3, SsnCalls DEF set_ssn
<1>4. CASE \E w \in Switches : SwitchOn(w) \/ SwitchOff(w)
  BY <1>4, SwitchCalls DEF SwitchOn, SwitchOff
<1>5. CASE \E m \in Modems : set_csus(m)
  BY <1>5 DEF set_csus, Given, Ordered
<1>6. CASE at_plugin_unregister
  BY <1>6, UnregisterCalls DEF at_plugin_unregister
<1>7. QED
  BY <1>1, <1>2, <1>3, <1>4, <1>5, <1>6 DEF Command

LEMMA ReaderTypeKept ==
  ASSUME TypeOK, [Next]_vars
  PROVE  ReaderType'
<1> USE DEF TypeOK, ReaderType, setting
<1>1. CASE Command
  BY <1>1, CommandBegins DEF Given
<1>2. CASE Reading
  <2>1. todo # <<>>
    BY <1>2 DEF Reading, Next1, signal_watch, signal_watch_fails, signal_unwatch, HangUp, Free
  <2>2. Head(todo) \in Call /\ Tail(todo) \in Seq(Call)
    BY <2>1
  <2>3. <<>> \in Seq(Call)
    OBVIOUS
  <2>4. CASE signal_watch
    <3>1. Head(todo)[2] \in Watches /\ Head(todo)[3] \in Properties
      BY <2>2, <2>4 DEF signal_watch, Call, Watch, Unwatch, HangingUp, Freeing, Properties
    <3>2. QED
      BY <2>2, <2>4, <3>1 DEF signal_watch, Next1
  <2>5. CASE signal_watch_fails
    BY <2>2, <2>3, <2>5 DEF signal_watch_fails
  <2>6. CASE signal_unwatch
    BY <2>2, <2>6 DEF signal_unwatch, Next1, Properties
  <2>7. CASE HangUp \/ Free
    BY <2>2, <2>7 DEF HangUp, Free, Next1
  <2>8. QED
    BY <1>2, <2>4, <2>5, <2>6, <2>7 DEF Reading
<1>3. CASE Dispatching
  BY <1>3 DEF Dispatching, Dispatch, Dispatched, Match, AskAttached, AskStatus, Report, reader
<1>4. CASE Emitting
  BY <1>4 DEF Emitting, ChangeStatus, ChangeAttached, Other, Emit, reader
<1>5. CASE UNCHANGED vars
  BY <1>5 DEF vars, reader
<1>6. QED
  BY <1>1, <1>2, <1>3, <1>4, <1>5 DEF Next, Reading, Dispatching, Emitting

\* What the making of a watch leaves of the signals on their way.
Older(s, w) == [s EXCEPT !.counts = @ \ Prefix(w)]

LEMMA OlderSignal ==
  ASSUME NEW s \in Signal, NEW w
  PROVE  /\ Older(s, w) \in Signal
         /\ Older(s, w).kind = s.kind /\ Older(s, w).modem = s.modem /\ Older(s, w).value = s.value
         /\ Older(s, w).counts = s.counts \ Prefix(w)
  BY DEF Older, Signal

LEMMA Forgotten ==
  ASSUME TypeOK, NEW w, Forget(w)
  PROVE  /\ signal' = Older(signal, w)
         /\ queue' \in Seq(Signal) /\ DOMAIN queue' = DOMAIN queue
         /\ \A i \in DOMAIN queue : queue'[i] = Older(queue[i], w)
         /\ reported' = [p \in DOMAIN reported |-> IF p \in Prefix(w) THEN None ELSE reported[p]]
<1> USE DEF TypeOK, DispatchType, OfonoType
<1>1. signal' = Older(signal, w) /\ queue' = [i \in DOMAIN queue |-> Older(queue[i], w)]
  BY DEF Forget, Older
<1>2. DOMAIN queue = 1..Len(queue) /\ Len(queue) \in Nat /\ \A i \in DOMAIN queue : queue[i] \in Signal
  OBVIOUS
<1>3. queue' \in [1..Len(queue) -> Signal]
  BY <1>1, <1>2, OlderSignal
<1>4. queue' \in Seq(Signal)
  BY <1>2, <1>3
<1>5. QED
  BY <1>1, <1>4 DEF Forget

LEMMA DispatchTypeKept ==
  ASSUME TypeOK, [Next]_vars
  PROVE  DispatchType'
<1> USE DEF TypeOK, ReaderType, DispatchType, OfonoType, setting, reader, dispatcher, ofono, Registered
<1>1. CASE Command
  BY <1>1, CommandBegins
<1>2. CASE signal_watch
  <2>1. Head(todo) \in Call
    BY <1>2 DEF signal_watch, Next1
  <2>2. Head(todo)[2] \in Watches /\ Head(todo)[3] # "none"
    BY <2>1, <1>2 DEF signal_watch, Call, Watch, Unwatch, HangingUp, Freeing
  <2>3. signal' \in Signal
    BY <1>2, Forgotten, OlderSignal DEF signal_watch
  <2>4. pend' \in SUBSET Registered'
    BY <1>2, <2>2 DEF signal_watch
  <2>5. QED
    BY <1>2, <2>3, <2>4 DEF signal_watch
<1>3. CASE signal_watch_fails
  BY <1>3 DEF signal_watch_fails
<1>4. CASE signal_unwatch
  <2>1. pend' \in SUBSET Registered'
    BY <1>4 DEF signal_unwatch
  <2>2. QED
    BY <1>4, <2>1 DEF signal_unwatch
<1>5. CASE HangUp \/ Free
  BY <1>5 DEF HangUp, Free
<1>6. CASE Dispatch
  <2>1. Head(queue) \in Signal
    BY <1>6 DEF Dispatch
  <2>2. QED
    BY <1>6, <2>1 DEF Dispatch, Waiting
<1>7. CASE Dispatched
  <2>1. NoSignal \in Signal
    BY DEF NoSignal, Signal
  <2>2. QED
    BY <1>7, <2>1 DEF Dispatched
<1>8. ASSUME NEW w \in Watches, Match(w) PROVE DispatchType'
  BY <1>8 DEF Match, Callback
<1>9. CASE AskAttached
  BY <1>9 DEF AskAttached
<1>10. CASE AskStatus
  <2>1. status[selected] \in Nat
    BY OfonoAssumption
  <2>2. val' \in Nat
    BY <1>10, <2>1 DEF AskStatus
  <2>3. QED
    BY <1>10, <2>2 DEF AskStatus
<1>11. CASE Report
  BY <1>11 DEF Report
<1>12. CASE Emitting
  BY <1>12 DEF Emitting, ChangeStatus, ChangeAttached, Other, Emit
<1>13. CASE UNCHANGED vars
  BY <1>13 DEF vars
<1>14. QED
  BY <1>1, <1>2, <1>3, <1>4, <1>5, <1>6, <1>7, <1>8, <1>9, <1>10, <1>11, <1>12, <1>13 DEF Next, Emitting

\* What is sent of a change is a signal, with the reports that count by then.
Emitted(kind, m, value) == [kind |-> kind, modem |-> m, value |-> value, counts |-> DOMAIN reported]

LEMMA EmittedSignal ==
  ASSUME TypeOK, NEW kind \in Kinds, NEW m \in Modems, NEW value \in BOOLEAN
  PROVE  Emitted(kind, m, value) \in Signal
  BY DEF TypeOK, OfonoType, Emitted, Signal

LEMMA OfonoTypeKept ==
  ASSUME TypeOK, [Next]_vars
  PROVE  OfonoType'
<1> USE DEF TypeOK, ReaderType, DispatchType, OfonoType, setting, reader, dispatcher, ofono
<1>1. CASE Command
  BY <1>1, CommandBegins DEF None
<1>2. CASE signal_watch
  BY <1>2, Forgotten DEF signal_watch
<1>3. CASE signal_watch_fails \/ signal_unwatch \/ HangUp \/ Free \/ Dispatched \/ (\E w \in Watches : Match(w)) \/ AskAttached \/ AskStatus
  BY <1>3 DEF signal_watch_fails, signal_unwatch, HangUp, Free, Dispatched, Match, AskAttached, AskStatus
<1>4. CASE Dispatch
  BY <1>4 DEF Dispatch
<1>5. CASE Report
  BY <1>5 DEF Report
<1>6. ASSUME NEW kind \in Kinds, NEW m \in Modems, NEW value \in BOOLEAN, Emit(kind, m, value)
      PROVE  queue' \in Seq(Signal) /\ reported' = reported
  BY <1>6, EmittedSignal DEF Emit, Emitted
<1>7. ASSUME NEW m \in Modems, ChangeStatus(m) PROVE OfonoType'
  <2>1. "Status" \in Kinds /\ Emit("Status", m, TRUE) /\ UNCHANGED attached
    BY <1>7 DEF ChangeStatus, Emit
  <2>2. status' \in [Modems -> Statuses]
    BY <1>7 DEF ChangeStatus
  <2>3. QED
    BY <2>1, <2>2, <1>6
<1>8. ASSUME NEW m \in Modems, ChangeAttached(m) PROVE OfonoType'
  <2>1. attached' \in [Modems -> BOOLEAN]
    BY <1>8 DEF ChangeAttached
  <2>2. "Attached" \in Kinds /\ Emit("Attached", m, attached'[m]) /\ UNCHANGED status
    BY <1>8 DEF ChangeAttached, Emit
  <2>3. QED
    BY <2>1, <2>2, <1>6
<1>9. ASSUME NEW m \in Modems, NEW kind \in Kinds, Other(kind, m) PROVE OfonoType'
  BY <1>6, <1>9 DEF Other
<1>10. CASE UNCHANGED vars
  BY <1>10 DEF vars
<1>11. QED
  BY <1>1, <1>2, <1>3, <1>4, <1>5, <1>7, <1>8, <1>9, <1>10 DEF Next

LEMMA TypeKept == TypeOK /\ [Next]_vars => TypeOK'
  BY ReaderTypeKept, DispatchTypeKept, OfonoTypeKept DEF TypeOK

-----------------------------------------------------------------------------
(* What the reader has still to do. *)
Makes(w) == \E f \in {"Status", "all"} : Watch(w, f) \in Calls(todo)
Drops(w) == Unwatch(w) \in Calls(todo)
Ends == Freeing \in Calls(todo)

TodoOK ==
  /\ Ordered(todo)
  /\ \A w \in Watches : Makes(w) /\ w \in Registered => Drops(w)
  /\ Ends => \A w \in Watches : ~Makes(w) /\ (w \in Registered => Drops(w))
  /\ plugin = "gone" => todo = <<>> /\ Registered = {}

\* What will be there when all is done that is left to do, if nothing fails.
WillBe(w, f) ==
  \/ Makes(w) /\ Watch(w, f) \in Calls(todo)
  \/ ~Makes(w) /\ Drops(w) /\ f = "none"
  \/ ~Makes(w) /\ ~Drops(w) /\ filter[w] = f

Will(w) == Makes(w) \/ (~Drops(w) /\ w \in Registered)

Asked(n) == CASE n = 0 -> "none" [] n = 1 -> "Status" [] OTHER -> "all"

\* AT+CSSN can give up without leaving work of another command, or half a pair.
GivesUp ==
  /\ Makes("barring") \/ Makes("hold") => \A w \in {"creg", "cgreg", "cgatt"} : ~Makes(w) /\ ~Drops(w)
  /\ Makes("hold") => Makes("mpty")
  /\ Makes("barring") /\ Makes("mpty") => Makes("hold")

ModesOK ==
  (plugin = "live" /\ ~Ends) =>
    /\ "creg" \notin failed => WillBe("creg", Asked(creg))
    /\ "cgreg" \notin failed => WillBe("cgreg", Asked(cgreg))
    /\ "cgatt" \notin failed => (Will("cgatt") <=> cgreg > 0)
    /\ "mpty" \notin failed => (Will("mpty") <=> Will("hold"))
    /\ ("fwd" \notin failed /\ failed \cap {"barring", "hold"} = {}) =>
         (Will("fwd") <=> Will("barring") \/ Will("hold"))
    /\ GivesUp

-----------------------------------------------------------------------------
(* The D-Bus thread. *)
Asking == at \in {"ask_attached", "ask_status", "print"}
OfGprs == {"cgreg", "cgatt"}

CallbackOK ==
  /\ Asking <=> cur # "none"
  /\ at = "idle" => pend = {}
  /\ at = "ask_attached" => cur = "cgreg"
  /\ at = "ask_status" => cur \in {"creg", "cgreg", "cgatt"}
  /\ at # "print" => val = 0
  /\ Locked => selected = signal.modem

-----------------------------------------------------------------------------
(* Reports. A signal is of interest if it is of the selected modem and counts. *)
Of(s, prefix) == s.modem = selected /\ prefix \in s.counts
InQueue(prefix, kinds) == \E i \in DOMAIN queue : Of(queue[i], prefix) /\ queue[i].kind \in kinds
InHand(prefix, ws) == Of(signal, prefix) /\ (ws \cap pend # {} \/ cur \in ws)
Printing(prefix, ws) == cur \in ws /\ at = "print" /\ prefix \in signal.counts

CregOn == "creg" \in Registered
CregNow == {status[selected]} \cup Unknown
CregOK ==
  CregOn =>
    /\ Printing("+CREG", {"creg"}) => val \in CregNow \/ InQueue("+CREG", {"Status"})
    /\ reported["+CREG"] # None =>
         /\ reported["+CREG"][1] = selected
         /\ reported["+CREG"][2] \in CregNow \/ InQueue("+CREG", {"Status"}) \/ InHand("+CREG", {"creg"})

GprsOn == OfGprs \subseteq Registered
GprsNow == {IF attached[selected] THEN status[selected] ELSE 0} \cup Unknown
GprsKinds == {"Status", "Attached"}

\* A change of attachment of m that is on its way, after the i-th signal.
Changing(m, i) ==
  \E j \in DOMAIN queue : j > i /\ queue[j].kind = "Attached" /\ queue[j].modem = m /\ "+CGREG" \in queue[j].counts

\* The last change of attachment tells the present one.
LastIsTrue ==
  GprsOn =>
    /\ \A i \in DOMAIN queue :
         queue[i].kind = "Attached" /\ "+CGREG" \in queue[i].counts =>
           (queue[i].value = attached[queue[i].modem] \/ Changing(queue[i].modem, i))
    /\ "cgatt" \in pend /\ "+CGREG" \in signal.counts =>
         (signal.value = attached[signal.modem] \/ Changing(signal.modem, 0))

GprsOK ==
  GprsOn =>
    /\ (cur \in OfGprs /\ at = "ask_status" /\ "+CGREG" \in signal.counts) =>
         attached[selected] \/ Changing(selected, 0)
    /\ Printing("+CGREG", OfGprs) => val \in GprsNow \/ InQueue("+CGREG", GprsKinds)
    /\ reported["+CGREG"] # None =>
         /\ reported["+CGREG"][1] = selected
         /\ reported["+CGREG"][2] \in GprsNow \/ InQueue("+CGREG", GprsKinds) \/ InHand("+CGREG", OfGprs)

-----------------------------------------------------------------------------
(* The reader's calls. *)

\* Of the first call of those that are left, and the others.
LEMMA CallKinds ==
  ASSUME NEW c \in Call
  PROVE  /\ c[1] = "watch" => c[2] \in Watches /\ c[3] \in {"Status", "all"} /\ c = Watch(c[2], c[3])
         /\ c[1] = "unwatch" => c = Unwatch(c[2])
         /\ c[1] = "hangup" => c = HangingUp
         /\ c[1] = "free" => c = Freeing
         /\ c[1] \in {"watch", "unwatch", "hangup", "free"}
  BY DEF Call, Watch, Unwatch, HangingUp, Freeing

LEMMA NextCall ==
  ASSUME TypeOK, Ordered(todo), Next1
  PROVE  /\ Head(todo) \in Call /\ Ordered(todo') /\ todo # <<>>
         /\ Calls(todo) = {Head(todo)} \cup Calls(todo')
         /\ \A d \in Calls(todo') : Before(Head(todo), d)
  BY TailCalls DEF TypeOK, ReaderType, Next1

\* A watch is made when all that was to be removed has been.
LEMMA NextWatch ==
  ASSUME TypeOK, Ordered(todo), Next1, Head(todo)[1] = "watch",
         NEW w, w = Head(todo)[2]
  PROVE  /\ w \in Watches /\ Head(todo)[3] \in {"Status", "all"} /\ Head(todo) = Watch(w, Head(todo)[3])
         /\ \A x : ~Drops(x) /\ ~Drops(x)'
         /\ Makes(w) /\ ~Makes(w)' /\ ~Makes("barring")'
         /\ \A x : x # w => (Makes(x)' <=> Makes(x))
         /\ \A f : Watch(w, f) \in Calls(todo) => f = Head(todo)[3]
         /\ \A x, f : x # w => (Watch(x, f) \in Calls(todo') <=> Watch(x, f) \in Calls(todo))
         /\ w = "mpty" => ~Makes("hold")
         /\ Ends' <=> Ends
<1> DEFINE h == Head(todo)
<1>1. /\ h \in Call /\ Calls(todo) = {h} \cup Calls(todo')
      /\ \A d \in Calls(todo') : Before(h, d)
  BY NextCall
<1>2. w \in Watches /\ h[3] \in {"Status", "all"} /\ h = Watch(w, h[3])
  BY <1>1, CallKinds
<1> HIDE DEF h
<1>3. \A x : Unwatch(x) \notin Calls(todo) /\ Unwatch(x) \notin Calls(todo')
  BY <1>1, <1>2 DEF Before, Watch, Unwatch
<1>4. \A f : Watch(w, f) \notin Calls(todo') /\ Watch("barring", f) \notin Calls(todo')
  BY <1>1, <1>2 DEF Before, Watch
<1>5. \A x, f : x # w => (Watch(x, f) \in Calls(todo') <=> Watch(x, f) \in Calls(todo))
  BY <1>1, <1>2 DEF Watch
<1>6. w = "mpty" => \A f : Watch("hold", f) \notin Calls(todo)
  BY <1>1, <1>2 DEF Before, Watch
<1>7. Freeing \in Calls(todo') <=> Freeing \in Calls(todo)
  BY <1>1, <1>2 DEF Watch, Freeing
<1>8. \A f : Watch(w, f) \in Calls(todo) => f = h[3]
  <2>1. ASSUME NEW f, Watch(w, f) \in Calls(todo) PROVE f = h[3]
    <3>1. Watch(w, f) = h
      BY <2>1, <1>1, <1>4
    <3>2. Watch(w, f)[3] = f
      BY DEF Watch
    <3>3. QED
      BY <3>1, <3>2
  <2>2. QED
    BY <2>1
<1>9. QED
  BY <1>1, <1>2, <1>3, <1>4, <1>5, <1>6, <1>7, <1>8 DEF Makes, Drops, Ends, h

\* A watch is removed.
LEMMA NextUnwatch ==
  ASSUME TypeOK, Ordered(todo), Next1, Head(todo)[1] = "unwatch",
         NEW w, w = Head(todo)[2]
  PROVE  /\ \A x, f : Watch(x, f) \in Calls(todo') <=> Watch(x, f) \in Calls(todo)
         /\ \A x : Makes(x)' <=> Makes(x)
         /\ Drops(w) /\ \A x : x # w => (Drops(x)' <=> Drops(x))
         /\ Ends' <=> Ends
<1> DEFINE h == Head(todo)
<1>1. /\ h \in Call /\ Calls(todo) = {h} \cup Calls(todo')
  BY NextCall
<1>2. h = Unwatch(w)
  BY <1>1, CallKinds
<1> HIDE DEF h
<1>3. \A x, f : Watch(x, f) \in Calls(todo') <=> Watch(x, f) \in Calls(todo)
  BY <1>1, <1>2 DEF Watch, Unwatch
<1>4. \A x : x # w => (Unwatch(x) \in Calls(todo') <=> Unwatch(x) \in Calls(todo))
  BY <1>1, <1>2 DEF Unwatch
<1>5. Freeing \in Calls(todo') <=> Freeing \in Calls(todo)
  BY <1>1, <1>2 DEF Unwatch, Freeing
<1>6. QED
  BY <1>1, <1>2, <1>3, <1>4, <1>5 DEF Makes, Drops, Ends

\* The calls are hung up without a change to what else is left to do.
LEMMA NextHangUp ==
  ASSUME TypeOK, Ordered(todo), Next1, Head(todo)[1] = "hangup"
  PROVE  /\ \A x, f : Watch(x, f) \in Calls(todo') <=> Watch(x, f) \in Calls(todo)
         /\ \A x : (Makes(x)' <=> Makes(x)) /\ (Drops(x)' <=> Drops(x))
         /\ Ends' <=> Ends
<1> DEFINE h == Head(todo)
<1>1. /\ h \in Call /\ Calls(todo) = {h} \cup Calls(todo')
  BY NextCall
<1>2. h = HangingUp
  BY <1>1, CallKinds
<1> HIDE DEF h
<1>3. \A x, f : Watch(x, f) \in Calls(todo') <=> Watch(x, f) \in Calls(todo)
  BY <1>1, <1>2 DEF Watch, HangingUp
<1>4. \A x : Unwatch(x) \in Calls(todo') <=> Unwatch(x) \in Calls(todo)
  BY <1>1, <1>2 DEF Unwatch, HangingUp
<1>5. Freeing \in Calls(todo') <=> Freeing \in Calls(todo)
  BY <1>1, <1>2 DEF HangingUp, Freeing
<1>6. QED
  BY <1>3, <1>4, <1>5 DEF Makes, Drops, Ends

\* The plug-in is freed when nothing else is left to do.
LEMMA NextFree ==
  ASSUME TypeOK, Ordered(todo), Next1, Head(todo)[1] = "free"
  PROVE  todo' = <<>> /\ Ends /\ \A x : ~Makes(x) /\ ~Drops(x)
<1> DEFINE h == Head(todo)
<1>1. /\ h \in Call /\ Calls(todo) = {h} \cup Calls(todo') /\ todo # <<>>
      /\ \A d \in Calls(todo') : Before(h, d)
  BY NextCall
<1>2. h = Freeing
  BY <1>1, CallKinds
<1> HIDE DEF h
<1>3. Calls(todo') = {}
  BY <1>1, <1>2 DEF Before, Freeing
<1>4. todo' \in Seq(Call)
  BY TailCalls DEF TypeOK, ReaderType, Next1
<1>5. todo' = <<>>
  <2>1. DOMAIN todo' = 1..Len(todo') /\ Len(todo') \in Nat
    BY <1>4
  <2>2. DOMAIN todo' = {}
    BY <1>3 DEF Calls
  <2>3. Len(todo') = 0
    BY <2>1, <2>2
  <2>4. QED
    BY <1>4, <2>3
<1>6. Calls(todo) = {Freeing}
  BY <1>1, <1>2, <1>3
<1>7. QED
  BY <1>5, <1>6 DEF Makes, Drops, Ends, Watch, Unwatch, Freeing

LEMMA NoCalls == todo = <<>> => Ordered(todo) /\ ~Ends /\ \A x : ~Makes(x) /\ ~Drops(x)
  BY DEF Ordered, Calls, Ends, Makes, Drops

-----------------------------------------------------------------------------
\* Steps that are not the reader's leave what it works on.
LEMMA OthersLeaveReader ==
  ASSUME Dispatching \/ Emitting \/ UNCHANGED vars
  PROVE  reader' = reader
  BY DEF Dispatching, Dispatch, Dispatched, Match, AskAttached, AskStatus, Report,
         Emitting, ChangeStatus, ChangeAttached, Other, Emit, vars, reader

\* What the commands give the reader to do.
LEMMA CommandGives ==
  ASSUME TypeOK, Command
  PROVE  /\ \A w \in Watches : Makes(w)' => w \notin Registered \/ Drops(w)'
         /\ Ends' => \A w \in Watches : ~Makes(w)' /\ Drops(w)'
<1> USE DEF Commands, Watch, Unwatch, HangingUp, Freeing, Makes, Drops, Ends
<1>1. CASE \E n \in 0..2 : set_creg(n)
  BY <1>1, CregCalls DEF set_creg
<1>2. CASE \E n \in 0..2 : set_cgreg(n)
  BY <1>2, CgregCalls DEF set_cgreg
<1>3. CASE \E ssi, ssu \in BOOLEAN : set_ssn(ssi, ssu)
  BY <1>3, SsnCalls DEF set_ssn
<1>4. ASSUME NEW w \in Switches, SwitchOn(w) \/ SwitchOff(w)
      PROVE  /\ \A x \in Watches : Makes(x)' => x \notin Registered \/ Drops(x)'
             /\ ~Ends'
  <2>1. CASE SwitchOn(w)
    <3>1. Calls(todo') = {Watch(w, "all")} /\ w \notin Registered
      BY <2>1, SwitchCalls DEF SwitchOn
    <3>2. QED
      BY <3>1
  <2>2. CASE SwitchOff(w)
    <3>1. Calls(todo') = {Unwatch(w)}
      BY <2>2, SwitchCalls DEF SwitchOff
    <3>2. QED
      BY <3>1
  <2>3. QED
    BY <1>4, <2>1, <2>2
<1>5. CASE \E m \in Modems : set_csus(m)
  <2>1. todo' = <<>>
    BY <1>5 DEF set_csus, Begin, Ready
  <2>2. QED
    BY <2>1 DEF Calls
<1>6. CASE at_plugin_unregister
  <2>1. \A w \in Watches : w \in Names
    BY OfonoAssumption DEF Watches, Names
  <2>2. QED
    BY <1>6, <2>1, UnregisterCalls DEF at_plugin_unregister
<1>7. QED
  BY <1>1, <1>2, <1>3, <1>4, <1>5, <1>6 DEF Command

LEMMA TodoKept ==
  ASSUME TypeOK, TodoOK, [Next]_vars
  PROVE  TodoOK'
<1>1. CASE Command
  <2>1. Ordered(todo') /\ plugin' = "live" /\ filter' = filter
    BY <1>1, CommandBegins DEF Given
  <2>2. QED
    BY <1>1, <2>1, CommandGives DEF TodoOK, Registered
<1>2. CASE signal_watch
  <2>0. PICK w : w = Head(todo)[2]
    OBVIOUS
  <2>1. Next1 /\ Head(todo)[1] = "watch" /\ filter' = [filter EXCEPT ![w] = Head(todo)[3]] /\ plugin' = plugin
        /\ todo # <<>>
    BY <2>0, <1>2 DEF signal_watch, Next1
  <2>2. Ordered(todo')
    BY <2>1, NextCall DEF TodoOK
  <2>3. /\ w \in Watches
        /\ \A x : ~Drops(x) /\ ~Drops(x)'
        /\ Makes(w) /\ ~Makes(w)'
        /\ \A x : x # w => (Makes(x)' <=> Makes(x))
        /\ Ends' <=> Ends
    BY <2>0, <2>1, NextWatch DEF TodoOK
  <2>4. ASSUME NEW x \in Watches, Makes(x)', x \in Registered' PROVE FALSE
    BY <2>1, <2>3, <2>4 DEF TodoOK, Registered
  <2>5. ~Ends'
    BY <2>3 DEF TodoOK
  <2>6. QED
    BY <2>1, <2>2, <2>4, <2>5 DEF TodoOK
<1>3. CASE signal_watch_fails
  <2>1. todo # <<>> /\ Head(todo)[1] = "watch" /\ filter' = filter /\ plugin' = plugin
    BY <1>3 DEF signal_watch_fails
  <2>2. CASE todo' = <<>>
    BY <2>1, <2>2, NoCalls DEF TodoOK, Ordered, Calls, Makes, Drops, Ends, Registered
  <2>3. CASE Next1
    <3>0. PICK w : w = Head(todo)[2]
      OBVIOUS
    <3>1. Ordered(todo')
      BY <2>3, NextCall DEF TodoOK
    <3>2. /\ w \in Watches
          /\ \A x : ~Drops(x) /\ ~Drops(x)'
          /\ Makes(w) /\ ~Makes(w)'
          /\ \A x : x # w => (Makes(x)' <=> Makes(x))
          /\ Ends' <=> Ends
      BY <3>0, <2>1, <2>3, NextWatch DEF TodoOK
    <3>3. QED
      BY <2>1, <3>1, <3>2 DEF TodoOK, Registered
  <2>4. QED
    BY <1>3, <2>2, <2>3 DEF signal_watch_fails, Next1
<1>4. CASE signal_unwatch
  <2>0. PICK w : w = Head(todo)[2]
    OBVIOUS
  <2>1. Next1 /\ Head(todo)[1] = "unwatch" /\ plugin' = plugin /\ todo # <<>>
        /\ filter' = [x \in Watches |-> IF x = w THEN "none" ELSE filter[x]]
    BY <2>0, <1>4 DEF signal_unwatch, Next1
  <2>2. Ordered(todo')
    BY <2>1, NextCall DEF TodoOK
  <2>3. /\ \A x : Makes(x)' <=> Makes(x)
        /\ Drops(w) /\ \A x : x # w => (Drops(x)' <=> Drops(x))
        /\ Ends' <=> Ends
    BY <2>0, <2>1, NextUnwatch DEF TodoOK
  <2>4. \A x \in Watches : x \in Registered' <=> x \in Registered /\ x # w
    BY <2>1 DEF Registered
  <2>5. QED
    BY <2>1, <2>2, <2>3, <2>4 DEF TodoOK
<1>5. CASE Free
  <2>1. Next1 /\ Head(todo)[1] = "free" /\ filter' = filter
    BY <1>5 DEF Free
  <2>2. todo' = <<>> /\ Ends /\ \A x : ~Makes(x) /\ ~Drops(x)
    BY <2>1, NextFree DEF TodoOK
  <2>3. Registered = {}
    BY <2>2 DEF TodoOK, Registered
  <2>4. QED
    BY <2>1, <2>2, <2>3 DEF TodoOK, Ordered, Calls, Makes, Drops, Ends, Registered
<1>6. CASE HangUp
  <2>1. Next1 /\ Head(todo)[1] = "hangup" /\ filter' = filter /\ plugin' = plugin /\ todo # <<>>
    BY <1>6 DEF HangUp, Next1
  <2>2. Ordered(todo')
    BY <2>1, NextCall DEF TodoOK
  <2>3. \A x : (Makes(x)' <=> Makes(x)) /\ (Drops(x)' <=> Drops(x))
    BY <2>1, NextHangUp DEF TodoOK
  <2>4. Ends' <=> Ends
    BY <2>1, NextHangUp DEF TodoOK
  <2>5. QED
    BY <2>1, <2>2, <2>3, <2>4 DEF TodoOK, Registered
<1>7. CASE Dispatching \/ Emitting \/ UNCHANGED vars
  BY <1>7, OthersLeaveReader DEF reader, setting, TodoOK, Registered, Makes, Drops, Ends
<1>8. QED
  BY <1>1, <1>2, <1>3, <1>4, <1>5, <1>6, <1>7 DEF Next, Dispatching, Emitting

-----------------------------------------------------------------------------
(* Modes. *)

\* Before a command the watches themselves are as the modes ask.
LEMMA BeforeCommand ==
  ASSUME ModesOK, plugin = "live", todo = <<>>
  PROVE  /\ "creg" \notin failed => filter["creg"] = Asked(creg)
         /\ "cgreg" \notin failed => filter["cgreg"] = Asked(cgreg)
         /\ "cgatt" \notin failed => ("cgatt" \in Registered <=> cgreg > 0)
         /\ "mpty" \notin failed => ("mpty" \in Registered <=> "hold" \in Registered)
         /\ ("fwd" \notin failed /\ failed \cap {"barring", "hold"} = {}) =>
              ("fwd" \in Registered <=> "barring" \in Registered \/ "hold" \in Registered)
  BY NoCalls DEF ModesOK, WillBe, Will

\* A command gives the reader what its new mode asks for.
LEMMA ModesAfterCommand ==
  ASSUME TypeOK, TodoOK, ModesOK, Command
  PROVE  ModesOK'
<1>1. plugin = "live" /\ todo = <<>> /\ filter' = filter
  BY CommandBegins
<1>2. Registered' = Registered
  BY <1>1 DEF Registered
<1> USE DEF Commands, Watch, Unwatch, HangingUp, Freeing, Makes, Drops, Ends
<1>3. ASSUME NEW n \in 0..2, set_creg(n) PROVE ModesOK'
  <2>1. /\ creg' = n /\ cgreg' = cgreg /\ failed' = failed \ {"creg"}
        /\ Calls(todo') = {Unwatch("creg")} \cup (IF n = 1 THEN {Watch("creg", "Status")} ELSE {})
                                   \cup (IF n = 2 THEN {Watch("creg", "all")} ELSE {})
    BY <1>3, CregCalls DEF set_creg
  <2>2. \A x \in {"cgreg", "cgatt", "barring", "hold", "mpty", "fwd"} : ~Makes(x)' /\ ~Drops(x)'
    BY <2>1
  <2>3. WillBe("creg", Asked(creg))'
    BY <2>1 DEF WillBe, Asked
  <2>4. ~Makes("barring")' /\ ~Makes("hold")'
    BY <2>2
  <2> HIDE DEF Watch, Unwatch, HangingUp, Freeing, Makes, Drops, Ends
  <2>5. QED
    BY <1>1, <1>2, <2>1, <2>2, <2>3, <2>4, BeforeCommand DEF ModesOK, WillBe, Will, GivesUp
<1>4. ASSUME NEW n \in 0..2, set_cgreg(n) PROVE ModesOK'
  <2>1. /\ cgreg' = n /\ creg' = creg /\ failed' = failed \ {"cgreg", "cgatt"}
        /\ Calls(todo') = {Unwatch("cgreg"), Unwatch("cgatt")}
              \cup (IF n > 0 THEN {Watch("cgatt", "all"), Watch("cgreg", IF n = 1 THEN "Status" ELSE "all")} ELSE {})
    BY <1>4, CgregCalls DEF set_cgreg
  <2>2. \A x \in {"creg", "barring", "hold", "mpty", "fwd"} : ~Makes(x)' /\ ~Drops(x)'
    BY <2>1
  <2>3. WillBe("cgreg", Asked(cgreg))' /\ (Will("cgatt")' <=> n > 0)
    <3>1. CASE n = 0
      BY <2>1, <3>1 DEF WillBe, Asked, Will
    <3>2. CASE n = 1
      BY <2>1, <3>2 DEF WillBe, Asked, Will
    <3>3. CASE n = 2
      BY <2>1, <3>3 DEF WillBe, Asked, Will
    <3>4. QED
      BY <3>1, <3>2, <3>3
  <2> HIDE DEF Watch, Unwatch, HangingUp, Freeing, Makes, Drops, Ends
  <2>4. QED
    BY <1>1, <1>2, <2>1, <2>2, <2>3, BeforeCommand DEF ModesOK, WillBe, Will, GivesUp
<1>5. ASSUME NEW ssi \in BOOLEAN, NEW ssu \in BOOLEAN, set_ssn(ssi, ssu) PROVE ModesOK'
  <2>1. /\ creg' = creg /\ cgreg' = cgreg /\ failed' = failed \ {"fwd", "barring", "hold", "mpty"}
        /\ Calls(todo') =
              {Unwatch("fwd"), Unwatch("barring"), Unwatch("hold"), Unwatch("mpty")}
              \cup (IF ssi THEN {Watch("barring", "all")} ELSE {})
              \cup (IF ssu THEN {Watch("hold", "all"), Watch("mpty", "all")} ELSE {})
              \cup (IF ssi \/ ssu THEN {Watch("fwd", "all")} ELSE {})
    BY <1>5, SsnCalls DEF set_ssn, setting
  <2>2. \A x \in {"creg", "cgreg", "cgatt"} : ~Makes(x)' /\ ~Drops(x)'
    BY <2>1
  <2>3. \A x \in {"barring", "hold", "mpty", "fwd"} : Drops(x)'
    BY <2>1
  <2>4. /\ Makes("barring")' <=> ssi
        /\ Makes("hold")' <=> ssu
        /\ Makes("mpty")' <=> ssu
        /\ Makes("fwd")' <=> ssi \/ ssu
    BY <2>1
  <2> HIDE DEF Watch, Unwatch, HangingUp, Freeing, Makes, Drops, Ends
  <2>5. QED
    BY <1>1, <1>2, <2>1, <2>2, <2>3, <2>4, BeforeCommand DEF ModesOK, WillBe, Will, GivesUp
<1>6. ASSUME NEW w \in Switches, SwitchOn(w) \/ SwitchOff(w) PROVE ModesOK'
  <2>1. w \in {"ussd", "caoc", "ccwe"} /\ UNCHANGED <<creg, cgreg>> /\ failed' = failed \ {w}
    BY <1>6, OfonoAssumption DEF SwitchOn, SwitchOff, setting
  <2>2. Calls(todo') = {Watch(w, "all")} \/ Calls(todo') = {Unwatch(w)}
    BY <1>6, SwitchCalls DEF SwitchOn, SwitchOff
  <2>3. \A x \in {"creg", "cgreg", "cgatt", "barring", "hold", "mpty", "fwd"} : ~Makes(x)' /\ ~Drops(x)'
    BY <2>1, <2>2
  <2> HIDE DEF Watch, Unwatch, HangingUp, Freeing, Makes, Drops, Ends
  <2>4. QED
    BY <1>1, <1>2, <2>1, <2>3, BeforeCommand DEF ModesOK, WillBe, Will, GivesUp
<1>7. ASSUME NEW m \in Modems, set_csus(m) PROVE ModesOK'
  <2>1. UNCHANGED <<creg, cgreg, filter, plugin, todo, failed>>
    BY <1>7 DEF set_csus
  <2>2. QED
    BY <2>1 DEF ModesOK, WillBe, Will, GivesUp, Registered
<1>8. CASE at_plugin_unregister
  <2>1. Freeing \in Calls(todo')
    BY <1>8, UnregisterCalls DEF at_plugin_unregister
  <2>2. QED
    BY <2>1 DEF ModesOK
<1>9. QED
  BY <1>3, <1>4, <1>5, <1>6, <1>7, <1>8 DEF Command

\* Making a watch does what was to be done.
LEMMA ModesAfterWatch ==
  ASSUME TypeOK, TodoOK, ModesOK, signal_watch
  PROVE  ModesOK'
<1>0. PICK w : w = Head(todo)[2]
  OBVIOUS
<1>1. /\ Next1 /\ Head(todo)[1] = "watch" /\ filter' = [filter EXCEPT ![w] = Head(todo)[3]]
      /\ UNCHANGED <<creg, cgreg, failed, plugin>>
  BY <1>0 DEF signal_watch, setting
<1>2. /\ w \in Watches /\ Head(todo)[3] \in {"Status", "all"} /\ Head(todo) = Watch(w, Head(todo)[3])
      /\ \A x : ~Drops(x) /\ ~Drops(x)'
      /\ Makes(w) /\ ~Makes(w)' /\ ~Makes("barring")'
      /\ \A x : x # w => (Makes(x)' <=> Makes(x))
      /\ \A f : Watch(w, f) \in Calls(todo) => f = Head(todo)[3]
      /\ \A x, f : x # w => (Watch(x, f) \in Calls(todo') <=> Watch(x, f) \in Calls(todo))
      /\ w = "mpty" => ~Makes("hold")
      /\ Ends' <=> Ends
  BY <1>0, <1>1, NextWatch DEF TodoOK
<1>3. filter'[w] = Head(todo)[3] /\ \A x \in Watches : x # w => filter'[x] = filter[x]
  BY <1>1, <1>2 DEF TypeOK, ReaderType
<1>4. \A x \in Watches : x \in Registered' <=> x \in Registered \/ x = w
  BY <1>2, <1>3 DEF Registered
<1>5. \A x \in Watches : \A f : WillBe(x, f) => WillBe(x, f)'
  BY <1>2, <1>3 DEF WillBe
<1>6. \A x \in Watches : Will(x)' <=> Will(x)
  BY <1>2, <1>4 DEF Will
<1>7. \A x \in {"creg", "cgreg", "cgatt", "mpty", "hold", "barring", "fwd"} : x \in Watches
  BY DEF Watches
<1>8. GivesUp => GivesUp'
  BY <1>2 DEF GivesUp
<1>9. QED
  BY <1>1, <1>2, <1>5, <1>6, <1>7, <1>8 DEF ModesOK, Asked

\* A watch that cannot be made is one that failed; nothing else changes, even if AT+CSSN leaves off.
LEMMA ModesAfterFailure ==
  ASSUME TypeOK, TodoOK, ModesOK, signal_watch_fails
  PROVE  ModesOK'
<1>0. PICK w : w = Head(todo)[2]
  OBVIOUS
<1>1. /\ todo # <<>> /\ Head(todo)[1] = "watch" /\ failed' = failed \cup {w}
      /\ UNCHANGED <<creg, cgreg, filter, plugin>>
      /\ todo' = IF w \in {"barring", "hold"} THEN <<>> ELSE Tail(todo)
  BY <1>0 DEF signal_watch_fails, setting
<1>2. CASE w \notin {"barring", "hold"}
  <2>1. Next1
    BY <1>1, <1>2 DEF Next1
  <2>2. /\ \A x : ~Drops(x) /\ ~Drops(x)'
        /\ Makes(w) /\ ~Makes(w)' /\ ~Makes("barring")'
        /\ \A x : x # w => (Makes(x)' <=> Makes(x))
        /\ \A x, f : x # w => (Watch(x, f) \in Calls(todo') <=> Watch(x, f) \in Calls(todo))
        /\ w = "mpty" => ~Makes("hold")
        /\ Ends' <=> Ends
    BY <1>0, <1>1, <2>1, NextWatch DEF TodoOK
  <2>3. Registered' = Registered
    BY <1>1 DEF Registered
  <2>4. \A x, f : x # w => (WillBe(x, f) => WillBe(x, f)')
    BY <1>1, <2>2 DEF WillBe
  <2>5. \A x : x # w => (Will(x)' <=> Will(x))
    BY <2>2, <2>3 DEF Will
  <2>6. GivesUp => GivesUp'
    BY <2>2 DEF GivesUp
  <2>7. QED
    BY <1>1, <1>2, <2>2, <2>4, <2>5, <2>6 DEF ModesOK, Asked
<1>3. CASE w \in {"barring", "hold"}
  <2>1. Makes(w) /\ \A x : ~Drops(x)
    <3>1. Head(todo) \in Call /\ Head(todo) \in Calls(todo) /\ \A d \in Calls(todo) : d = Head(todo) \/ Before(Head(todo), d)
      BY <1>1, TailCalls DEF TypeOK, ReaderType, TodoOK
    <3>2. Head(todo) = Watch(w, Head(todo)[3]) /\ Head(todo)[3] \in {"Status", "all"}
      BY <1>0, <1>1, <3>1, CallKinds
    <3>3. Makes(w)
      BY <3>1, <3>2 DEF Makes
    <3>4. \A x : Unwatch(x) \notin Calls(todo)
      BY <1>1, <3>1 DEF Before, Unwatch
    <3>5. QED
      BY <3>3, <3>4 DEF Drops
  <2>2. todo' = <<>>
    BY <1>1, <1>3
  <2>3. Ordered(todo') /\ ~Ends' /\ \A x : ~Makes(x)' /\ ~Drops(x)'
    BY <2>2 DEF Ordered, Calls, Ends, Makes, Drops
  <2>4. Registered' = Registered
    BY <1>1 DEF Registered
  <2>5. \A x \in {"hold", "mpty", "creg", "cgreg", "cgatt", "barring"} : x \in Watches
    BY DEF Watches
  <2>6. \A x \in Watches : Makes(x) => x \notin Registered
    BY <2>1 DEF TodoOK
  <2>7. ~Ends
    BY <1>3, <2>1, <2>5 DEF TodoOK
  <2>8. ASSUME plugin = "live" PROVE ModesOK'
    <3>1. GivesUp /\ GivesUp'
      BY <2>3, <2>7, <2>8 DEF ModesOK, GivesUp
    <3>2. \A x \in {"creg", "cgreg", "cgatt"} : ~Makes(x) /\ ~Drops(x)
      BY <1>3, <2>1, <3>1 DEF GivesUp
    <3>3. \A x \in {"creg", "cgreg"} : \A f : WillBe(x, f) => WillBe(x, f)'
      BY <1>1, <2>3, <3>2 DEF WillBe
    <3>4. Will("cgatt")' <=> Will("cgatt")
      BY <2>3, <2>4, <3>2 DEF Will
    <3>5. "mpty" \notin failed => ("mpty" \in Registered <=> "hold" \in Registered)
      BY <1>3, <2>1, <2>5, <2>6, <2>7, <2>8, <3>1 DEF ModesOK, GivesUp, Will
    <3>6. Will("mpty")' <=> "mpty" \in Registered
      BY <2>3, <2>4 DEF Will
    <3>7. Will("hold")' <=> "hold" \in Registered
      BY <2>3, <2>4 DEF Will
    <3>8. QED
      BY <1>1, <1>3, <2>7, <2>8, <3>1, <3>3, <3>4, <3>5, <3>6, <3>7 DEF ModesOK, Asked
  <2>9. QED
    BY <1>1, <2>8 DEF ModesOK
<1>4. QED
  BY <1>2, <1>3

LEMMA ModesKept ==
  ASSUME TypeOK, TodoOK, ModesOK, [Next]_vars
  PROVE  ModesOK'
<1>1. CASE signal_unwatch
  <2>0. PICK w : w = Head(todo)[2]
    OBVIOUS
  <2>1. /\ Next1 /\ Head(todo)[1] = "unwatch" /\ UNCHANGED <<creg, cgreg, failed, plugin>>
        /\ filter' = [x \in Watches |-> IF x = w THEN "none" ELSE filter[x]]
    BY <2>0, <1>1 DEF signal_unwatch, setting
  <2>2. /\ \A x, f : Watch(x, f) \in Calls(todo') <=> Watch(x, f) \in Calls(todo)
        /\ \A x : Makes(x)' <=> Makes(x)
        /\ Drops(w) /\ \A x : x # w => (Drops(x)' <=> Drops(x))
        /\ Ends' <=> Ends
    BY <2>0, <2>1, NextUnwatch DEF TodoOK
  <2>3. \A x \in Watches : x \in Registered' <=> x \in Registered /\ x # w
    BY <2>1 DEF Registered
  <2>4. \A x \in Watches : \A f : WillBe(x, f) => WillBe(x, f)'
    BY <2>1, <2>2 DEF WillBe
  <2>5. \A x \in Watches : Will(x)' <=> Will(x)
    BY <2>2, <2>3 DEF Will
  <2>6. \A x \in {"creg", "cgreg", "cgatt", "mpty", "hold", "barring", "fwd"} : x \in Watches
    BY DEF Watches
  <2>7. GivesUp => GivesUp'
    BY <2>2 DEF GivesUp
  <2>8. QED
    BY <2>1, <2>2, <2>4, <2>5, <2>6, <2>7 DEF ModesOK, Asked
<1>2. CASE Free
  BY <1>2 DEF Free, ModesOK
<1>3. CASE HangUp
  <2>1. /\ Next1 /\ Head(todo)[1] = "hangup" /\ UNCHANGED <<creg, cgreg, filter, plugin, failed>>
    BY <1>3 DEF HangUp, setting
  <2>2. /\ \A x, f : Watch(x, f) \in Calls(todo') <=> Watch(x, f) \in Calls(todo)
        /\ \A x : (Makes(x)' <=> Makes(x)) /\ (Drops(x)' <=> Drops(x))
        /\ Ends' <=> Ends
    BY <2>1, NextHangUp DEF TodoOK
  <2>3. \A x : \A f : WillBe(x, f)' <=> WillBe(x, f)
    BY <2>1, <2>2 DEF WillBe
  <2>4. \A x : Will(x)' <=> Will(x)
    BY <2>1, <2>2 DEF Will, Registered
  <2>5. GivesUp' <=> GivesUp
    BY <2>2 DEF GivesUp
  <2>6. QED
    BY <2>1, <2>2, <2>3, <2>4, <2>5 DEF ModesOK, Asked
<1>4. CASE Dispatching \/ Emitting \/ UNCHANGED vars
  <2>1. reader' = reader
    BY <1>4, OthersLeaveReader
  <2>2. UNCHANGED <<creg, cgreg, filter, plugin, todo, failed>>
    BY <2>1 DEF reader, setting
  <2>3. QED
    BY <2>2 DEF ModesOK, WillBe, Will, GivesUp, Makes, Drops, Ends, Registered
<1>5. QED
  BY <1>1, <1>2, <1>3, <1>4, ModesAfterCommand, ModesAfterWatch, ModesAfterFailure DEF Next, Dispatching, Emitting

LEMMA ReaderInit == Init => TodoOK /\ ModesOK
<1> SUFFICES ASSUME Init PROVE TodoOK /\ ModesOK
  OBVIOUS
<1>1. /\ plugin = "live" /\ todo = <<>> /\ creg = 0 /\ cgreg = 0
      /\ filter = [w \in Watches |-> IF w = "ring" THEN "all" ELSE "none"]
  BY DEF Init
<1>2. Ordered(todo) /\ ~Ends /\ \A x : ~Makes(x) /\ ~Drops(x)
  BY <1>1, NoCalls
<1>3. Registered = {"ring"} /\ \A x \in {"creg", "cgreg"} : filter[x] = "none"
  BY <1>1 DEF Registered, Watches
<1>4. TodoOK
  BY <1>1, <1>2 DEF TodoOK
<1>5. ModesOK
  BY <1>1, <1>2, <1>3 DEF ModesOK, WillBe, Will, Asked, GivesUp
<1>6. QED
  BY <1>4, <1>5

-----------------------------------------------------------------------------
(* Callbacks. *)
LEMMA CallbackKept ==
  ASSUME TypeOK, CallbackOK, [Next]_vars
  PROVE  CallbackOK'
<1> USE DEF CallbackOK, Asking, Locked
<1>1. CASE Command
  <2>1. UNCHANGED <<at, signal, pend, cur, val>>
    BY <1>1, CommandBegins DEF dispatcher
  <2>2. selected' = selected \/ ~Locked
    BY <1>1 DEF Command, set_creg, set_cgreg, set_ssn, SwitchOn, SwitchOff, set_csus, at_plugin_unregister, setting
  <2>3. QED
    BY <2>1, <2>2
<1>2. CASE signal_watch
  <2>1. UNCHANGED <<at, pend, cur, val, selected>> /\ signal'.modem = signal.modem
    BY <1>2, Forgotten, OlderSignal DEF signal_watch, setting, TypeOK, DispatchType
  <2>2. QED
    BY <2>1
<1>3. CASE signal_watch_fails
  BY <1>3 DEF signal_watch_fails, setting, dispatcher
<1>4. CASE signal_unwatch
  BY <1>4 DEF signal_unwatch, setting
<1>5. CASE HangUp \/ Free
  BY <1>5 DEF HangUp, Free, setting, dispatcher
<1>6. CASE Dispatch
  BY <1>6 DEF Dispatch, reader, setting
<1>7. CASE Dispatched
  BY <1>7 DEF Dispatched, reader, setting
<1>8. ASSUME NEW w \in Watches, Match(w) PROVE CallbackOK'
  <2>1. w # "none"
    BY OfonoAssumption DEF Watches
  <2>2. UNCHANGED <<selected, signal, val>> /\ at = "filters"
    BY <1>8 DEF Match, reader, setting
  <2>3. CASE w \in AnyModem \/ signal.modem = selected
    <3>1. cur' = w /\ at' = Callback(w)
      BY <1>8, <2>3 DEF Match
    <3>2. /\ Callback(w) \in {"ask_attached", "ask_status", "print"}
          /\ Callback(w) = "ask_attached" => w = "cgreg"
          /\ Callback(w) = "ask_status" => w \in {"creg", "cgreg", "cgatt"}
      BY DEF Callback
    <3>3. QED
      BY <2>1, <2>2, <2>3, <3>1, <3>2 DEF AnyModem
  <2>4. CASE ~(w \in AnyModem \/ signal.modem = selected)
    BY <1>8, <2>2, <2>4 DEF Match
  <2>5. QED
    BY <2>3, <2>4
<1>9. CASE AskAttached
  BY <1>9 DEF AskAttached, reader, setting
<1>10. CASE AskStatus
  BY <1>10 DEF AskStatus, reader, setting
<1>11. CASE Report
  BY <1>11 DEF Report, reader, setting
<1>12. CASE Emitting
  BY <1>12 DEF Emitting, ChangeStatus, ChangeAttached, Other, Emit, reader, setting, dispatcher
<1>13. CASE UNCHANGED vars
  BY <1>13 DEF vars, reader, setting, dispatcher
<1>14. QED
  BY <1>1, <1>2, <1>3, <1>4, <1>5, <1>6, <1>7, <1>8, <1>9, <1>10, <1>11, <1>12, <1>13 DEF Next, Emitting

-----------------------------------------------------------------------------
(* The safety properties that do not need the reports. *)
Inv == TypeOK /\ TodoOK /\ ModesOK /\ CallbackOK

LEMMA InitInv == Init => Inv
<1> SUFFICES ASSUME Init PROVE Inv
  OBVIOUS
<1>1. CallbackOK
  BY DEF Init, CallbackOK, Asking, Locked
<1>2. QED
  BY <1>1, TypeInit, ReaderInit DEF Inv

LEMMA NextInv == Inv /\ [Next]_vars => Inv'
  BY TypeKept, TodoKept, ModesKept, CallbackKept DEF Inv

\* For any number of modems, signals and commands: the types, the list of calls that the reader
\* works on (core.c:640-701 and its callers), what the modes will be when it is done, and where
\* a callback stands.
THEOREM Invariance == Spec => []Inv
  BY InitInv, NextInv, PTL DEF Spec

\* For any number of modems, signals and commands: between commands the watches of AT+CREG,
\* AT+CGREG and AT+CSSN are those that the stored modes ask for, whatever order of commands
\* and whatever watches could not be made came before (network.c:604-644, gprs.c:128-163,
\* voicecall.c:416-485).
THEOREM ModesStayWatched == Spec => []ModesAreWatched
<1>1. Inv => ModesAreWatched
  <2> SUFFICES ASSUME Inv, Ready PROVE ModesAreWatched
    BY DEF ModesAreWatched
  <2>1. plugin = "live" /\ todo = <<>>
    BY DEF Ready
  <2>2. QED
    BY <2>1, BeforeCommand DEF Inv, ModesAreWatched, Asked
<1>2. QED
  BY <1>1, Invariance, PTL

\* For any number of modems, signals and commands: when at_plugin_unregister() has freed the
\* plug-in (core.c:809-826), no watch is left and none is still to be handed a signal.
THEOREM NothingIsLeft == Spec => []UnregisterLeavesNothing
<1>1. Inv => UnregisterLeavesNothing
  BY DEF Inv, TypeOK, DispatchType, TodoOK, UnregisterLeavesNothing
<1>2. QED
  BY <1>1, Invariance, PTL

\* For any number of modems, signals and commands: AT+CSUS does not select another modem under a
\* callback that has begun for the selected one (core.c:617-622, sim.c:570-587).
THEOREM SelectionIsHeld == Spec => []SelectionHolds
<1>1. Inv => SelectionHolds
  BY DEF Inv, CallbackOK, SelectionHolds
<1>2. QED
  BY <1>1, Invariance, PTL

-----------------------------------------------------------------------------
(* Reports. *)
ModemsKnown ==
  /\ \A i \in DOMAIN queue : queue[i].modem \in Modems
  /\ pend # {} => signal.modem \in Modems

\* What a change in oFono adds to the queue.
LEMMA Emission ==
  ASSUME TypeOK, NEW kind, NEW m, NEW value, Emit(kind, m, value)
  PROVE  /\ UNCHANGED <<reader, dispatcher, reported>>
         /\ \A i \in DOMAIN queue : i \in DOMAIN queue' /\ queue'[i] = queue[i]
         /\ \A i \in DOMAIN queue' : i \in DOMAIN queue \/ queue'[i] = Emitted(kind, m, value)
         /\ Waiting(kind) # {} =>
              \E n \in DOMAIN queue' : /\ queue'[n] = Emitted(kind, m, value)
                                       /\ n > 0 /\ \A i \in DOMAIN queue : i < n
<1> DEFINE n == Len(queue) + 1
           e == Emitted(kind, m, value)
<1>1. Len(queue) \in Nat /\ DOMAIN queue = 1..Len(queue)
  BY DEF TypeOK, OfonoType
<1>2. UNCHANGED <<reader, dispatcher, reported>>
  BY DEF Emit
<1>3. queue' = IF Waiting(kind) = {} THEN queue ELSE Append(queue, e)
  BY DEF Emit, Emitted
<1> HIDE DEF e
<1>4. CASE Waiting(kind) = {}
  BY <1>1, <1>2, <1>3, <1>4
<1>5. CASE Waiting(kind) # {}
  <2>1. queue' = Append(queue, e)
    BY <1>3, <1>5
  <2>2. /\ DOMAIN queue' = 1..n /\ queue'[n] = e
        /\ \A i \in 1..Len(queue) : queue'[i] = queue[i]
    BY <1>1, <2>1 DEF TypeOK, OfonoType
  <2>3. n \in 1..n /\ n > 0 /\ \A i \in 1..Len(queue) : i < n
    BY <1>1
  <2>4. \A i \in 1..n : i \in 1..Len(queue) \/ i = n
    BY <1>1
  <2> HIDE DEF n
  <2>5. QED
    BY <1>1, <1>2, <2>2, <2>3, <2>4 DEF e
<1>6. QED
  BY <1>4, <1>5

\* What the next signal leaves of the queue.
LEMMA NextSignal ==
  ASSUME TypeOK, Dispatch
  PROVE  /\ 1 \in DOMAIN queue /\ signal' = queue[1]
         /\ \A i \in DOMAIN queue' : i \in Nat /\ i > 0 /\ i + 1 \in DOMAIN queue /\ queue'[i] = queue[i + 1]
         /\ \A i \in DOMAIN queue : i \in Nat /\ (i = 1 \/ (i > 1 /\ i - 1 \in DOMAIN queue' /\ queue'[i - 1] = queue[i]))
         /\ pend' = Waiting(queue[1].kind)
<1> USE DEF TypeOK, OfonoType
<1>1. queue # <<>> /\ signal' = Head(queue) /\ queue' = Tail(queue) /\ pend' = Waiting(Head(queue).kind)
  BY DEF Dispatch
<1>2. /\ Len(queue) \in Nat /\ Len(queue) > 0 /\ DOMAIN queue = 1..Len(queue) /\ Head(queue) = queue[1]
      /\ DOMAIN Tail(queue) = 1..(Len(queue) - 1)
      /\ \A i \in 1..(Len(queue) - 1) : Tail(queue)[i] = queue[i + 1]
  BY <1>1
<1>3. ASSUME NEW i \in DOMAIN queue, i # 1 PROVE i > 1 /\ i - 1 \in 1..(Len(queue) - 1) /\ (i - 1) + 1 = i
  BY <1>2, <1>3
<1>4. QED
  BY <1>1, <1>2, <1>3

LEMMA ModemsKnownKept ==
  ASSUME TypeOK, ModemsKnown, [Next]_vars
  PROVE  ModemsKnown'
<1> USE DEF ModemsKnown, dispatcher, ofono
<1>1. CASE Command
  BY <1>1, CommandBegins
<1>2. CASE signal_watch
  <2>1. /\ signal'.modem = signal.modem /\ pend' = pend /\ DOMAIN queue' = DOMAIN queue
        /\ \A i \in DOMAIN queue : queue'[i].modem = queue[i].modem
    BY <1>2, Forgotten, OlderSignal DEF signal_watch, TypeOK, DispatchType, OfonoType
  <2>2. QED
    BY <2>1
<1>3. CASE signal_watch_fails \/ signal_unwatch \/ HangUp \/ Free \/ Dispatched \/ (\E w \in Watches : Match(w)) \/ AskAttached \/ AskStatus \/ Report
  BY <1>3 DEF signal_watch_fails, signal_unwatch, HangUp, Free, Dispatched, Match, AskAttached, AskStatus, Report
<1>4. CASE Dispatch
  BY <1>4, NextSignal
<1>5. ASSUME NEW kind, NEW m \in Modems, NEW value, Emit(kind, m, value) PROVE ModemsKnown'
  <2>1. Emitted(kind, m, value).modem = m
    BY DEF Emitted
  <2>2. UNCHANGED <<signal, pend>>
    BY <1>5, Emission
  <2>3. ASSUME NEW i \in DOMAIN queue' PROVE queue'[i].modem \in Modems
    BY <1>5, <2>1, Emission
  <2>4. QED
    BY <2>2, <2>3
<1>6. CASE Emitting
  BY <1>5, <1>6 DEF Emitting, ChangeStatus, ChangeAttached, Other
<1>7. CASE UNCHANGED vars
  BY <1>7 DEF vars
<1>8. QED
  BY <1>1, <1>2, <1>3, <1>4, <1>6, <1>7 DEF Next, Emitting

\* AT+CSUS forgets what was reported, and waits for the callbacks of the selected modem.
LEMMA SelectionForgets ==
  ASSUME TypeOK, Command
  PROVE  \/ selected' = selected /\ reported' = reported
         \/ ~Locked /\ \A p \in {"+CREG", "+CGREG"} : reported'[p] = None
  BY DEF TypeOK, OfonoType, Command, set_creg, set_cgreg, set_ssn, SwitchOn, SwitchOff, set_csus,
         at_plugin_unregister, setting

\* Which watches wait for the changes.
LEMMA WaitingFor ==
  ASSUME TypeOK
  PROVE  /\ "creg" \in Registered => "creg" \in Waiting("Status")
         /\ "cgreg" \in Registered => "cgreg" \in Waiting("Status")
         /\ "cgatt" \in Registered => "cgatt" \in Waiting("Attached")
         /\ \A kind : "cgatt" \in Waiting(kind) => kind = "Attached"
<1>1. \A w \in {"creg", "cgreg"} : filter[w] # "none" => filter[w] \in {"Status", "all"}
  BY DEF TypeOK, ReaderType, Properties, Watches
<1>2. \A w \in {"creg", "cgreg"} : filter[w] # "none" => Waits(w, "Status")
  BY <1>1 DEF Waits
<1>3. \A kind : Waits("cgatt", kind) <=> kind = "Attached"
  BY DEF Waits
<1>4. QED
  BY <1>2, <1>3 DEF Waiting, Registered

\* A watch that is made starts the reports of its prefix anew, and leaves the others.
LEMMA WatchForgets ==
  ASSUME TypeOK, signal_watch, NEW p \in {"+CREG", "+CGREG"}
  PROVE  \E w \in Watches :
           /\ filter' = [filter EXCEPT ![w] = Head(todo)[3]]
           /\ UNCHANGED <<selected, at, pend, cur, val, status, attached>>
           /\ DOMAIN queue' = DOMAIN queue
           /\ \A i \in DOMAIN queue : queue'[i].kind = queue[i].kind /\ queue'[i].modem = queue[i].modem
                                      /\ queue'[i].value = queue[i].value
           /\ signal'.modem = signal.modem /\ signal'.value = signal.value
           /\ p \in Prefix(w) => /\ reported'[p] = None /\ p \notin signal'.counts
                                 /\ \A i \in DOMAIN queue : p \notin queue'[i].counts
           /\ p \notin Prefix(w) => /\ reported'[p] = reported[p] /\ (p \in signal'.counts <=> p \in signal.counts)
                                    /\ \A i \in DOMAIN queue : p \in queue'[i].counts <=> p \in queue[i].counts
<1>1. PICK w : w = Head(todo)[2]
  OBVIOUS
<1>2. w \in Watches
  <2>1. Head(todo) \in Call
    BY DEF signal_watch, Next1, TypeOK, ReaderType
  <2>2. QED
    BY <1>1, <2>1, CallKinds DEF signal_watch
<1>3. /\ filter' = [filter EXCEPT ![w] = Head(todo)[3]] /\ Forget(w)
      /\ UNCHANGED <<selected, at, pend, cur, val, status, attached>>
  BY <1>1 DEF signal_watch, setting
<1>4. /\ signal' = Older(signal, w) /\ DOMAIN queue' = DOMAIN queue
      /\ \A i \in DOMAIN queue : queue'[i] = Older(queue[i], w)
      /\ reported' = [x \in DOMAIN reported |-> IF x \in Prefix(w) THEN None ELSE reported[x]]
  BY <1>3, Forgotten
<1>5. signal \in Signal /\ \A i \in DOMAIN queue : queue[i] \in Signal
  BY DEF TypeOK, DispatchType, OfonoType
<1>6. p \in DOMAIN reported
  BY DEF TypeOK, OfonoType
<1>7. /\ signal'.modem = signal.modem /\ signal'.value = signal.value /\ signal'.counts = signal.counts \ Prefix(w)
      /\ \A i \in DOMAIN queue : /\ queue'[i].kind = queue[i].kind /\ queue'[i].modem = queue[i].modem
                                 /\ queue'[i].value = queue[i].value
                                 /\ queue'[i].counts = queue[i].counts \ Prefix(w)
  BY <1>4, <1>5, OlderSignal
<1>8. reported'[p] = IF p \in Prefix(w) THEN None ELSE reported[p]
  BY <1>4, <1>6
<1>9. QED
  BY <1>2, <1>3, <1>4, <1>7, <1>8

\* Whatever happens, another +CREG is to come if the last is not of the present status.
LEMMA CregKept ==
  ASSUME Inv, CregOK, [Next]_vars
  PROVE  CregOK'
<1> USE DEF Inv
<1>t. selected \in Modems /\ filter \in [Watches -> Properties]
  BY DEF TypeOK, ReaderType
<1>1. CASE Command
  <2>1. UNCHANGED <<filter, at, signal, pend, cur, val, queue, status>>
    BY <1>1, CommandBegins DEF dispatcher, ofono
  <2>2. CASE selected' = selected /\ reported' = reported
    BY <2>1, <2>2 DEF CregOK, CregOn, CregNow, Unknown, Registered, Printing, InQueue, InHand, Of
  <2>3. CASE ~Locked /\ reported'["+CREG"] = None
    <3>1. ~Printing("+CREG", {"creg"})'
      BY <2>1, <2>3 DEF Printing, Locked, AnyModem
    <3>2. QED
      BY <2>3, <3>1 DEF CregOK
  <2>4. QED
    BY <1>1, <2>2, <2>3, SelectionForgets
<1>2. CASE signal_watch
  <2> DEFINE p == "+CREG"
  <2>1. PICK w \in Watches :
           /\ filter' = [filter EXCEPT ![w] = Head(todo)[3]]
           /\ UNCHANGED <<selected, at, pend, cur, val, status, attached>>
           /\ DOMAIN queue' = DOMAIN queue
           /\ \A i \in DOMAIN queue : queue'[i].kind = queue[i].kind /\ queue'[i].modem = queue[i].modem
           /\ signal'.modem = signal.modem
           /\ p \in Prefix(w) => /\ reported'[p] = None /\ p \notin signal'.counts
                                 /\ \A i \in DOMAIN queue : p \notin queue'[i].counts
           /\ p \notin Prefix(w) => /\ reported'[p] = reported[p] /\ (p \in signal'.counts <=> p \in signal.counts)
                                    /\ \A i \in DOMAIN queue : p \in queue'[i].counts <=> p \in queue[i].counts
    BY <1>2, WatchForgets
  <2>2. CASE w = "creg"
    <3>1. p \in Prefix(w)
      BY <2>2 DEF Prefix
    <3>2. QED
      BY <2>1, <3>1 DEF CregOK, Printing
  <2>3. CASE w # "creg"
    <3>1. p \notin Prefix(w)
      BY <2>3 DEF Prefix
    <3>2. CregOn' => CregOn
      BY <2>1, <2>3, <1>t DEF CregOn, Registered
    <3>3. InQueue(p, {"Status"}) => InQueue(p, {"Status"})'
      BY <2>1, <3>1 DEF InQueue, Of
    <3>4. QED
      BY <2>1, <3>1, <3>2, <3>3 DEF CregOK, CregNow, Unknown, Printing, InHand, Of
  <2>4. QED
    BY <2>2, <2>3
<1>3. CASE signal_unwatch
  <2>1. PICK w : w = Head(todo)[2]
    OBVIOUS
  <2>2. /\ filter' = [x \in Watches |-> IF x = w THEN "none" ELSE filter[x]]
        /\ pend' = pend \ {w} /\ UNCHANGED <<selected, at, signal, cur, val, queue, status, reported>>
    BY <2>1, <1>3 DEF signal_unwatch, setting, ofono
  <2>3. CASE w = "creg"
    BY <2>2, <2>3 DEF CregOK, CregOn, Registered
  <2>4. CASE w # "creg"
    <3>1. CregOn' => CregOn
      BY <2>2, <2>4 DEF CregOn, Registered
    <3>2. QED
      BY <2>2, <2>4, <3>1 DEF CregOK, CregNow, Unknown, Printing, InQueue, InHand, Of
  <2>5. QED
    BY <2>3, <2>4
<1>4. CASE signal_watch_fails \/ HangUp \/ Free \/ UNCHANGED vars
  <2>1. UNCHANGED <<selected, filter, at, signal, pend, cur, val, queue, status, reported>>
    BY <1>4 DEF signal_watch_fails, HangUp, Free, vars, reader, setting, dispatcher, ofono
  <2>2. QED
    BY <2>1 DEF CregOK, CregOn, CregNow, Unknown, Registered, Printing, InQueue, InHand, Of
<1>5. CASE Dispatch
  <2>1. UNCHANGED <<selected, filter, cur, val, status, reported>> /\ at = "idle" /\ at' = "filters"
    BY <1>5 DEF Dispatch, reader, setting
  <2>2. ~InHand("+CREG", {"creg"})
    BY <2>1 DEF InHand, CallbackOK, Asking
  <2>3. CregOn => (InQueue("+CREG", {"Status"}) => InQueue("+CREG", {"Status"})' \/ InHand("+CREG", {"creg"})')
    BY <1>5, <2>1, NextSignal, WaitingFor DEF InQueue, InHand, Of, CregOn
  <2>4. QED
    BY <2>1, <2>2, <2>3 DEF CregOK, CregOn, CregNow, Unknown, Registered, Printing
<1>6. CASE Dispatched
  <2>1. UNCHANGED <<selected, filter, cur, val, queue, status, reported>> /\ at = "filters" /\ at' = "idle" /\ pend = {}
    BY <1>6 DEF Dispatched, reader, setting, ofono
  <2>2. ~InHand("+CREG", {"creg"}) /\ ~Printing("+CREG", {"creg"})'
    BY <2>1 DEF InHand, CallbackOK, Asking, Printing
  <2>3. QED
    BY <2>1, <2>2 DEF CregOK, CregOn, CregNow, Unknown, Registered, InQueue, Of
<1>7. ASSUME NEW w \in Watches, Match(w) PROVE CregOK'
  <2>1. /\ UNCHANGED <<selected, filter, signal, val, queue, status, reported>> /\ at = "filters" /\ pend' = pend \ {w}
        /\ IF w \in AnyModem \/ signal.modem = selected
           THEN cur' = w /\ at' = Callback(w) ELSE UNCHANGED <<cur, at>>
    BY <1>7 DEF Match, reader, setting, ofono
  <2>2. cur = "none"
    BY <2>1 DEF CallbackOK, Asking
  <2>3. ~Printing("+CREG", {"creg"})'
    BY <2>1, <2>2 DEF Printing, Callback
  <2>4. InHand("+CREG", {"creg"}) => InHand("+CREG", {"creg"})'
    BY <2>1, <2>2 DEF InHand, Of
  <2>5. QED
    BY <2>1, <2>3, <2>4 DEF CregOK, CregOn, CregNow, Unknown, Registered, InQueue, Of
<1>8. CASE AskAttached
  <2>1. UNCHANGED <<selected, filter, signal, pend, cur, val, queue, status, reported>> /\ at = "ask_attached"
    BY <1>8 DEF AskAttached, reader, setting, ofono
  <2>2. ~Printing("+CREG", {"creg"})'
    BY <2>1 DEF Printing, CallbackOK
  <2>3. QED
    BY <2>1, <2>2 DEF CregOK, CregOn, CregNow, Unknown, Registered, InQueue, InHand, Of
<1>9. CASE AskStatus
  <2>1. UNCHANGED <<selected, filter, signal, pend, cur, queue, status, reported>>
    BY <1>9 DEF AskStatus, reader, setting, ofono
  <2>2. val' \in CregNow'
    BY <1>9, <2>1 DEF AskStatus, CregNow, Unknown
  <2>3. QED
    BY <2>1, <2>2 DEF CregOK, CregOn, CregNow, Registered, InQueue, InHand, Of
<1>10. CASE Report
  <2>1. /\ UNCHANGED <<selected, filter, signal, pend, queue, status>> /\ at = "print" /\ at' = "filters"
        /\ cur' = "none"
        /\ reported' = [p \in DOMAIN reported |->
                          IF p \in Prefix(cur) \cap signal.counts THEN <<selected, val>> ELSE reported[p]]
    BY <1>10 DEF Report, reader, setting, ofono
  <2>2. ~Printing("+CREG", {"creg"})' /\ "+CREG" \in DOMAIN reported
    BY <2>1 DEF Printing, TypeOK, OfonoType
  <2>3. CASE cur = "creg" /\ "+CREG" \in signal.counts
    <3>1. reported'["+CREG"] = <<selected, val>> /\ Printing("+CREG", {"creg"})
      BY <2>1, <2>2, <2>3 DEF Prefix, Printing
    <3>2. QED
      BY <2>1, <2>2, <3>1 DEF CregOK, CregOn, CregNow, Unknown, Registered, InQueue, Of
  <2>4. CASE ~(cur = "creg" /\ "+CREG" \in signal.counts)
    <3>1. reported'["+CREG"] = reported["+CREG"]
      BY <2>1, <2>2, <2>4 DEF Prefix
    <3>2. InHand("+CREG", {"creg"}) => InHand("+CREG", {"creg"})'
      BY <2>1, <2>4 DEF InHand, Of
    <3>3. QED
      BY <2>1, <2>2, <3>1, <3>2 DEF CregOK, CregOn, CregNow, Unknown, Registered, InQueue, Of
  <2>5. QED
    BY <2>3, <2>4
<1>11. ASSUME NEW kind, NEW m \in Modems, NEW value, Emit(kind, m, value),
              status'[selected] = status[selected] \/ (kind = "Status" /\ m = selected)
       PROVE  CregOK'
  <2>1. UNCHANGED <<selected, filter, at, signal, pend, cur, val, reported>>
    BY <1>11, Emission DEF reader, setting, dispatcher
  <2>2. InQueue("+CREG", {"Status"}) => InQueue("+CREG", {"Status"})'
    BY <1>11, <2>1, Emission DEF InQueue, Of
  <2>3. CASE status'[selected] = status[selected]
    BY <2>1, <2>2, <2>3 DEF CregOK, CregOn, CregNow, Unknown, Registered, Printing, InHand, Of
  <2>4. CASE kind = "Status" /\ m = selected
    <3>1. ASSUME CregOn PROVE InQueue("+CREG", {"Status"})'
      <4>1. Waiting(kind) # {}
        BY <2>4, <3>1, WaitingFor DEF CregOn
      <4>2. PICK n \in DOMAIN queue' : queue'[n] = Emitted(kind, m, value)
        BY <1>11, <4>1, Emission
      <4>3. Of(queue[n], "+CREG")' /\ queue'[n].kind = "Status"
        BY <2>1, <2>4, <4>2 DEF Emitted, Of, TypeOK, OfonoType
      <4>4. QED
        BY <4>3 DEF InQueue, Of
    <3>2. QED
      BY <2>1, <3>1 DEF CregOK, CregOn, Registered
  <2>5. QED
    BY <1>11, <2>3, <2>4
<1>12. CASE Emitting
  <2>1. ASSUME NEW m \in Modems, ChangeStatus(m)
        PROVE  Emit("Status", m, TRUE) /\ (status'[selected] = status[selected] \/ m = selected)
    BY <2>1, <1>t DEF ChangeStatus, TypeOK, OfonoType
  <2>2. ASSUME NEW m \in Modems, ChangeAttached(m)
        PROVE  Emit("Attached", m, attached'[m]) /\ status' = status
    BY <2>2 DEF ChangeAttached
  <2>3. ASSUME NEW m \in Modems, NEW kind \in Kinds, Other(kind, m)
        PROVE  Emit(kind, m, TRUE) /\ status' = status
    BY <2>3 DEF Other
  <2>4. QED
    BY <1>11, <1>12, <2>1, <2>2, <2>3 DEF Emitting
<1>13. QED
  BY <1>1, <1>2, <1>3, <1>4, <1>5, <1>6, <1>7, <1>8, <1>9, <1>10, <1>12 DEF Next, Emitting

\* The signals of attachment keep their order, and each tells what was set when it was sent.
LEMMA LastIsTrueKept ==
  ASSUME Inv, ModemsKnown, LastIsTrue, [Next]_vars
  PROVE  LastIsTrue'
<1> USE DEF Inv
<1>t. filter \in [Watches -> Properties] /\ OfGprs \subseteq Watches
  BY DEF TypeOK, ReaderType, OfGprs, Watches
<1>1. CASE Command
  <2>1. UNCHANGED <<filter, signal, pend, queue, attached>>
    BY <1>1, CommandBegins DEF dispatcher, ofono
  <2>2. QED
    BY <2>1 DEF LastIsTrue, GprsOn, Registered, Changing
<1>2. CASE signal_watch
  <2> DEFINE p == "+CGREG"
  <2>1. PICK w \in Watches :
           /\ filter' = [filter EXCEPT ![w] = Head(todo)[3]]
           /\ UNCHANGED <<selected, at, pend, cur, val, status, attached>>
           /\ DOMAIN queue' = DOMAIN queue
           /\ \A i \in DOMAIN queue : queue'[i].kind = queue[i].kind /\ queue'[i].modem = queue[i].modem
                                      /\ queue'[i].value = queue[i].value
           /\ signal'.modem = signal.modem /\ signal'.value = signal.value
           /\ p \in Prefix(w) => /\ reported'[p] = None /\ p \notin signal'.counts
                                 /\ \A i \in DOMAIN queue : p \notin queue'[i].counts
           /\ p \notin Prefix(w) => /\ reported'[p] = reported[p] /\ (p \in signal'.counts <=> p \in signal.counts)
                                    /\ \A i \in DOMAIN queue : p \in queue'[i].counts <=> p \in queue[i].counts
    BY <1>2, WatchForgets
  <2>2. CASE w \in OfGprs
    <3>1. p \in Prefix(w)
      BY <2>2 DEF Prefix, OfGprs
    <3>2. QED
      BY <2>1, <3>1 DEF LastIsTrue
  <2>3. CASE w \notin OfGprs
    <3>1. p \notin Prefix(w)
      BY <2>3 DEF Prefix, OfGprs
    <3>2. GprsOn' => GprsOn
      BY <2>1, <2>3, <1>t DEF GprsOn, Registered
    <3>3. \A m, i : Changing(m, i) => Changing(m, i)'
      BY <2>1, <3>1 DEF Changing
    <3>4. QED
      BY <2>1, <3>1, <3>2, <3>3 DEF LastIsTrue
  <2>4. QED
    BY <2>2, <2>3
<1>3. CASE signal_unwatch
  <2>1. PICK w : w = Head(todo)[2]
    OBVIOUS
  <2>2. /\ filter' = [x \in Watches |-> IF x = w THEN "none" ELSE filter[x]]
        /\ pend' = pend \ {w} /\ UNCHANGED <<signal, queue, attached>>
    BY <2>1, <1>3 DEF signal_unwatch, ofono
  <2>3. GprsOn' => GprsOn
    BY <2>2 DEF GprsOn, Registered
  <2>4. QED
    BY <2>2, <2>3 DEF LastIsTrue, Changing
<1>4. CASE signal_watch_fails \/ HangUp \/ Free \/ AskAttached \/ AskStatus \/ Report \/ UNCHANGED vars
  <2>1. UNCHANGED <<filter, signal, pend, queue, attached>>
    BY <1>4 DEF signal_watch_fails, HangUp, Free, AskAttached, AskStatus, Report, vars, reader, dispatcher, ofono
  <2>2. QED
    BY <2>1 DEF LastIsTrue, GprsOn, Registered, Changing
<1>5. CASE Dispatch
  <2>1. UNCHANGED <<filter, attached>>
    BY <1>5 DEF Dispatch, reader
  <2>2. \A m, i : i \in Nat => (Changing(m, i + 1) => Changing(m, i)')
    <3>1. ASSUME NEW m, NEW i \in Nat, NEW j \in DOMAIN queue, j > i + 1
          PROVE  j - 1 \in DOMAIN queue' /\ j - 1 > i /\ queue'[j - 1] = queue[j]
      BY <1>5, <3>1, NextSignal
    <3>2. QED
      BY <3>1 DEF Changing
  <2>3. ASSUME GprsOn, NEW i \in DOMAIN queue', queue'[i].kind = "Attached", "+CGREG" \in queue'[i].counts
        PROVE  queue'[i].value = attached[queue'[i].modem] \/ Changing(queue[i].modem, i)'
    <3>1. PICK j \in DOMAIN queue : j = i + 1 /\ queue'[i] = queue[j] /\ i \in Nat
      BY <1>5, NextSignal
    <3>2. queue[j].value = attached[queue[j].modem] \/ Changing(queue[j].modem, j)
      BY <2>3, <3>1 DEF LastIsTrue
    <3>3. PICK m : m = queue[j].modem
      OBVIOUS
    <3>4. QED
      BY <2>2, <3>1, <3>2, <3>3 DEF Changing
  <2>4. ASSUME GprsOn, "cgatt" \in pend', "+CGREG" \in signal'.counts
        PROVE  signal'.value = attached[signal'.modem] \/ Changing(signal.modem, 0)'
    <3>1. 1 \in DOMAIN queue /\ signal' = queue[1] /\ queue[1].kind = "Attached"
      BY <1>5, <2>4, NextSignal, WaitingFor
    <3>2. queue[1].value = attached[queue[1].modem] \/ Changing(queue[1].modem, 1)
      BY <2>4, <3>1 DEF LastIsTrue
    <3>3. PICK m : m = queue[1].modem
      OBVIOUS
    <3>4. Changing(m, 0 + 1) => Changing(m, 0)'
      BY <2>2
    <3>5. QED
      BY <3>1, <3>2, <3>3, <3>4 DEF Changing
  <2>5. GprsOn' => GprsOn
    BY <2>1 DEF GprsOn, Registered
  <2>6. QED
    BY <2>1, <2>3, <2>4, <2>5 DEF LastIsTrue
<1>6. CASE Dispatched
  <2>1. UNCHANGED <<filter, queue, attached, pend>> /\ pend = {}
    BY <1>6 DEF Dispatched, reader, ofono
  <2>2. QED
    BY <2>1 DEF LastIsTrue, GprsOn, Registered, Changing
<1>7. ASSUME NEW w \in Watches, Match(w) PROVE LastIsTrue'
  <2>1. UNCHANGED <<filter, queue, attached, signal>> /\ pend' = pend \ {w}
    BY <1>7 DEF Match, reader, ofono
  <2>2. QED
    BY <2>1 DEF LastIsTrue, GprsOn, Registered, Changing
<1>8. ASSUME NEW kind, NEW m \in Modems, NEW value, Emit(kind, m, value),
             \/ attached' = attached /\ kind # "Attached"
             \/ kind = "Attached" /\ attached' = [attached EXCEPT ![m] = value]
      PROVE  LastIsTrue'
  <2>1. UNCHANGED <<filter, signal, pend>> /\ DOMAIN reported = {"+CREG", "+CGREG"}
    BY <1>8, Emission DEF reader, dispatcher, TypeOK, OfonoType
  <2>2. GprsOn' => GprsOn
    BY <2>1 DEF GprsOn, Registered
  <2>3. \A x, i : Changing(x, i) => Changing(x, i)'
    BY <1>8, Emission DEF Changing
  <2>4. CASE attached' = attached /\ kind # "Attached"
    <3>1. \A i \in DOMAIN queue' : queue'[i].kind = "Attached" => i \in DOMAIN queue /\ queue'[i] = queue[i]
      BY <1>8, <2>4, Emission DEF Emitted
    <3>2. QED
      BY <2>1, <2>2, <2>3, <2>4, <3>1 DEF LastIsTrue
  <2>5. ASSUME kind = "Attached", attached' = [attached EXCEPT ![m] = value], GprsOn
        PROVE  LastIsTrue'
    <3>1. PICK n \in DOMAIN queue' : queue'[n] = Emitted(kind, m, value) /\ n > 0 /\ \A i \in DOMAIN queue : i < n
      <4>1. Waiting(kind) # {}
        BY <2>5, WaitingFor DEF GprsOn, OfGprs
      <4>2. QED
        BY <1>8, <4>1, Emission
    <3>2. /\ queue'[n].kind = "Attached" /\ queue'[n].modem = m /\ "+CGREG" \in queue'[n].counts
      BY <2>1, <2>5, <3>1 DEF Emitted
    <3>3. /\ \A i \in DOMAIN queue : Changing(m, i)'
          /\ Changing(m, 0)'
      BY <3>1, <3>2 DEF Changing
    <3>4. attached'[m] = value /\ \A x \in Modems : x # m => attached'[x] = attached[x]
      BY <2>5 DEF TypeOK, OfonoType
    <3>5. ASSUME NEW i \in DOMAIN queue', queue'[i].kind = "Attached", "+CGREG" \in queue'[i].counts
          PROVE  queue'[i].value = attached'[queue'[i].modem] \/ Changing(queue[i].modem, i)'
      <4>1. CASE i \in DOMAIN queue
        <5>1. queue'[i] = queue[i] /\ queue[i].modem \in Modems
          BY <1>8, <4>1, Emission DEF ModemsKnown
        <5>2. PICK x \in Modems : x = queue[i].modem
          BY <5>1
        <5>3. queue[i].value = attached[x] \/ Changing(x, i)
          BY <2>5, <3>5, <4>1, <5>1, <5>2 DEF LastIsTrue
        <5>4. QED
          BY <2>3, <3>3, <3>4, <4>1, <5>1, <5>2, <5>3 DEF Changing
      <4>2. CASE i \notin DOMAIN queue
        <5>1. queue'[i] = Emitted(kind, m, value)
          BY <1>8, <4>2, Emission
        <5>2. queue'[i].modem = m /\ queue'[i].value = value
          BY <5>1 DEF Emitted
        <5>3. QED
          BY <3>4, <5>2
      <4>3. QED
        BY <4>1, <4>2
    <3>6. ASSUME "cgatt" \in pend, "+CGREG" \in signal.counts
          PROVE  signal.value = attached'[signal.modem] \/ Changing(signal.modem, 0)'
      <4>1. PICK x \in Modems : x = signal.modem
        BY <3>6 DEF ModemsKnown
      <4>2. signal.value = attached[x] \/ Changing(x, 0)
        BY <2>5, <3>6, <4>1 DEF LastIsTrue
      <4>3. signal' = signal
        BY <2>1
      <4>4. QED
        BY <2>3, <3>3, <3>4, <4>1, <4>2, <4>3 DEF Changing
    <3>7. QED
      BY <2>1, <3>5, <3>6 DEF LastIsTrue
  <2>6. QED
    BY <1>8, <2>2, <2>4, <2>5 DEF LastIsTrue
<1>9. CASE Emitting
  <2>1. ASSUME NEW m \in Modems, ChangeStatus(m) PROVE Emit("Status", m, TRUE) /\ attached' = attached
    BY <2>1 DEF ChangeStatus
  <2>2. ASSUME NEW m \in Modems, ChangeAttached(m)
        PROVE  \E value : Emit("Attached", m, value) /\ attached' = [attached EXCEPT ![m] = value]
    BY <2>2 DEF ChangeAttached, TypeOK, OfonoType
  <2>3. ASSUME NEW m \in Modems, NEW kind \in Kinds, Other(kind, m)
        PROVE  Emit(kind, m, TRUE) /\ attached' = attached /\ kind # "Attached"
    BY <2>3 DEF Other
  <2>4. QED
    BY <1>8, <1>9, <2>1, <2>2, <2>3 DEF Emitting
<1>10. QED
  BY <1>1, <1>2, <1>3, <1>4, <1>5, <1>6, <1>7, <1>9 DEF Next, Emitting

\* Whatever happens, another +CGREG is to come if the last is not of the present state.
LEMMA GprsKept ==
  ASSUME Inv, ModemsKnown, LastIsTrue, GprsOK, [Next]_vars
  PROVE  GprsOK'
<1> USE DEF Inv
<1>t. selected \in Modems /\ filter \in [Watches -> Properties] /\ OfGprs \subseteq Watches
  BY DEF TypeOK, ReaderType, OfGprs, Watches
<1>1. CASE Command
  <2>1. UNCHANGED <<filter, at, signal, pend, cur, val, queue, status, attached>>
    BY <1>1, CommandBegins DEF dispatcher, ofono
  <2>2. CASE selected' = selected /\ reported' = reported
    BY <2>1, <2>2 DEF GprsOK, GprsOn, GprsNow, Unknown, Registered, Printing, InQueue, InHand, Of, Changing
  <2>3. CASE ~Locked /\ reported'["+CGREG"] = None
    <3>1. ~Printing("+CGREG", OfGprs)' /\ ~(cur' \in OfGprs /\ at' = "ask_status")
      BY <2>1, <2>3 DEF Printing, Locked, AnyModem, OfGprs
    <3>2. QED
      BY <2>3, <3>1 DEF GprsOK
  <2>4. QED
    BY <1>1, <2>2, <2>3, SelectionForgets
<1>2. CASE signal_watch
  <2> DEFINE p == "+CGREG"
  <2>1. PICK w \in Watches :
           /\ filter' = [filter EXCEPT ![w] = Head(todo)[3]]
           /\ UNCHANGED <<selected, at, pend, cur, val, status, attached>>
           /\ DOMAIN queue' = DOMAIN queue
           /\ \A i \in DOMAIN queue : queue'[i].kind = queue[i].kind /\ queue'[i].modem = queue[i].modem
           /\ signal'.modem = signal.modem
           /\ p \in Prefix(w) => /\ reported'[p] = None /\ p \notin signal'.counts
                                 /\ \A i \in DOMAIN queue : p \notin queue'[i].counts
           /\ p \notin Prefix(w) => /\ reported'[p] = reported[p] /\ (p \in signal'.counts <=> p \in signal.counts)
                                    /\ \A i \in DOMAIN queue : p \in queue'[i].counts <=> p \in queue[i].counts
    BY <1>2, WatchForgets
  <2>2. CASE w \in OfGprs
    <3>1. p \in Prefix(w)
      BY <2>2 DEF Prefix, OfGprs
    <3>2. QED
      BY <2>1, <3>1 DEF GprsOK, Printing
  <2>3. CASE w \notin OfGprs
    <3>1. p \notin Prefix(w)
      BY <2>3 DEF Prefix, OfGprs
    <3>2. GprsOn' => GprsOn
      BY <2>1, <2>3, <1>t DEF GprsOn, Registered
    <3>3. InQueue(p, GprsKinds) => InQueue(p, GprsKinds)'
      BY <2>1, <3>1 DEF InQueue, Of
    <3>4. Changing(selected, 0) => Changing(selected, 0)'
      BY <2>1, <3>1 DEF Changing
    <3>5. QED
      BY <2>1, <3>1, <3>2, <3>3, <3>4 DEF GprsOK, GprsNow, Unknown, Printing, InHand, Of
  <2>4. QED
    BY <2>2, <2>3
<1>3. CASE signal_unwatch
  <2>1. PICK w : w = Head(todo)[2]
    OBVIOUS
  <2>2. /\ filter' = [x \in Watches |-> IF x = w THEN "none" ELSE filter[x]]
        /\ pend' = pend \ {w} /\ UNCHANGED <<selected, at, signal, cur, val, queue, status, attached, reported>>
    BY <2>1, <1>3 DEF signal_unwatch, setting, ofono
  <2>3. CASE w \in OfGprs
    BY <2>2, <2>3 DEF GprsOK, GprsOn, Registered
  <2>4. CASE w \notin OfGprs
    <3>1. GprsOn' => GprsOn
      BY <2>2, <2>4 DEF GprsOn, Registered
    <3>2. OfGprs \cap pend' = OfGprs \cap pend
      BY <2>2, <2>4
    <3>3. QED
      BY <2>2, <3>1, <3>2 DEF GprsOK, GprsNow, Unknown, Printing, InQueue, InHand, Of, Changing
  <2>5. QED
    BY <2>3, <2>4
<1>4. CASE signal_watch_fails \/ HangUp \/ Free \/ UNCHANGED vars
  <2>1. UNCHANGED <<selected, filter, at, signal, pend, cur, val, queue, status, attached, reported>>
    BY <1>4 DEF signal_watch_fails, HangUp, Free, vars, reader, setting, dispatcher, ofono
  <2>2. QED
    BY <2>1 DEF GprsOK, GprsOn, GprsNow, Unknown, Registered, Printing, InQueue, InHand, Of, Changing
<1>5. CASE Dispatch
  <2>1. UNCHANGED <<selected, filter, cur, val, status, attached, reported>> /\ at = "idle" /\ at' = "filters"
    BY <1>5 DEF Dispatch, reader, setting
  <2>2. ~InHand("+CGREG", OfGprs) /\ ~Printing("+CGREG", OfGprs)'
    BY <2>1 DEF InHand, CallbackOK, Asking, OfGprs, Printing
  <2>3. ASSUME GprsOn, InQueue("+CGREG", GprsKinds)
        PROVE  InQueue("+CGREG", GprsKinds)' \/ InHand("+CGREG", OfGprs)'
    <3>1. PICK i \in DOMAIN queue : Of(queue[i], "+CGREG") /\ queue[i].kind \in GprsKinds
      BY <2>3 DEF InQueue
    <3>2. CASE i = 1
      <4>1. signal' = queue[1] /\ pend' = Waiting(queue[1].kind)
        BY <1>5, NextSignal
      <4>2. "cgreg" \in Waiting("Status") /\ "cgatt" \in Waiting("Attached")
        BY <2>3, WaitingFor DEF GprsOn, OfGprs
      <4>3. OfGprs \cap pend' # {}
        BY <3>1, <3>2, <4>1, <4>2 DEF GprsKinds, OfGprs
      <4>4. QED
        BY <2>1, <3>1, <3>2, <4>1, <4>3 DEF InHand, Of
    <3>3. CASE i # 1
      <4>1. i - 1 \in DOMAIN queue' /\ queue'[i - 1] = queue[i]
        BY <1>5, <3>3, NextSignal
      <4>2. QED
        BY <2>1, <3>1, <4>1 DEF InQueue, Of
    <3>4. QED
      BY <3>2, <3>3
  <2>4. QED
    BY <2>1, <2>2, <2>3 DEF GprsOK, GprsOn, GprsNow, Unknown, Registered
<1>6. CASE Dispatched
  <2>1. UNCHANGED <<selected, filter, cur, val, queue, status, attached, reported>> /\ at = "filters" /\ at' = "idle" /\ pend = {}
    BY <1>6 DEF Dispatched, reader, setting, ofono
  <2>2. ~InHand("+CGREG", OfGprs) /\ ~Printing("+CGREG", OfGprs)'
    BY <2>1 DEF InHand, CallbackOK, Asking, OfGprs, Printing
  <2>3. QED
    BY <2>1, <2>2 DEF GprsOK, GprsOn, GprsNow, Unknown, Registered, InQueue, Of
<1>7. ASSUME NEW w \in Watches, Match(w) PROVE GprsOK'
  <2>1. /\ UNCHANGED <<selected, filter, signal, val, queue, status, attached, reported>> /\ at = "filters"
        /\ w \in pend /\ pend' = pend \ {w}
        /\ IF w \in AnyModem \/ signal.modem = selected
           THEN cur' = w /\ at' = Callback(w) ELSE UNCHANGED <<cur, at>>
    BY <1>7 DEF Match, reader, setting, ofono
  <2>2. cur = "none" /\ val = 0
    BY <2>1 DEF CallbackOK, Asking
  <2>3. InHand("+CGREG", OfGprs) => InHand("+CGREG", OfGprs)'
    <3>1. w \notin OfGprs => OfGprs \cap pend' = OfGprs \cap pend
      BY <2>1
    <3>2. QED
      BY <2>1, <2>2, <3>1 DEF InHand, Of, OfGprs
  <2>4. ASSUME GprsOn, cur' \in OfGprs, at' \in {"ask_status", "print"}, "+CGREG" \in signal.counts
        PROVE  IF at' = "ask_status" THEN attached[selected] \/ Changing(selected, 0)
               ELSE ~attached[selected] \/ Changing(selected, 0)
    <3>1. w = "cgatt" /\ signal.modem = selected /\ at' = Callback(w)
      BY <2>1, <2>2, <2>4 DEF OfGprs, AnyModem, Callback
    <3>2. signal.value = attached[selected] \/ Changing(selected, 0)
      BY <2>1, <2>4, <3>1 DEF LastIsTrue
    <3>3. at' = IF signal.value THEN "ask_status" ELSE "print"
      BY <3>1 DEF Callback
    <3>4. CASE signal.value
      BY Zenon, <3>2, <3>3, <3>4
    <3>5. CASE ~signal.value
      BY Zenon, <3>2, <3>3, <3>5
    <3>6. QED
      BY <3>4, <3>5
  <2>5. Changing(selected, 0) => InQueue("+CGREG", GprsKinds)
    BY DEF Changing, InQueue, Of, GprsKinds
  <2>6. ~attached[selected] => 0 \in GprsNow
    BY DEF GprsNow
  <2>7. /\ Changing(selected, 0)' <=> Changing(selected, 0)
        /\ InQueue("+CGREG", GprsKinds)' <=> InQueue("+CGREG", GprsKinds)
        /\ GprsNow' = GprsNow /\ GprsOn' = GprsOn
    BY <2>1 DEF Changing, InQueue, Of, GprsNow, Unknown, GprsOn, Registered
  <2>8. ASSUME GprsOn PROVE Printing("+CGREG", OfGprs)' => val' \in GprsNow' \/ InQueue("+CGREG", GprsKinds)'
    BY <2>1, <2>2, <2>4, <2>5, <2>6, <2>7, <2>8 DEF Printing
  <2>9. ASSUME GprsOn, cur' \in OfGprs, at' = "ask_status", "+CGREG" \in signal'.counts
        PROVE  attached'[selected'] \/ Changing(selected, 0)'
    BY <2>1, <2>4, <2>7, <2>9
  <2>10. QED
    BY <2>1, <2>3, <2>7, <2>8, <2>9 DEF GprsOK
<1>8. CASE AskAttached
  <2>1. UNCHANGED <<selected, filter, signal, pend, cur, val, queue, status, attached, reported>> /\ at = "ask_attached"
    BY <1>8 DEF AskAttached, reader, setting, ofono
  <2>2. val = 0
    BY <2>1 DEF CallbackOK
  <2>3. \/ attached[selected] /\ at' = "ask_status"
        \/ 0 \in GprsNow /\ at' = "print"
    BY <1>8 DEF AskAttached, GprsNow, Unknown
  <2>4. QED
    BY <2>1, <2>2, <2>3 DEF GprsOK, GprsOn, GprsNow, Unknown, Registered, Printing, InQueue, InHand, Of
<1>9. CASE AskStatus
  <2>1. UNCHANGED <<selected, filter, signal, pend, cur, queue, status, attached, reported>>
        /\ at = "ask_status" /\ at' = "print"
    BY <1>9 DEF AskStatus, reader, setting, ofono
  <2>2. Changing(selected, 0) => InQueue("+CGREG", GprsKinds)
    BY DEF Changing, InQueue, Of, GprsKinds
  <2>3. attached[selected] => val' \in GprsNow
    BY <1>9 DEF AskStatus, GprsNow, Unknown
  <2>4. QED
    BY <2>1, <2>2, <2>3 DEF GprsOK, GprsOn, GprsNow, Unknown, Registered, Printing, InQueue, InHand, Of
<1>10. CASE Report
  <2>1. /\ UNCHANGED <<selected, filter, signal, pend, queue, status, attached>> /\ at = "print" /\ at' = "filters"
        /\ cur' = "none"
        /\ reported' = [p \in DOMAIN reported |->
                          IF p \in Prefix(cur) \cap signal.counts THEN <<selected, val>> ELSE reported[p]]
    BY <1>10 DEF Report, reader, setting, ofono
  <2>2. ~Printing("+CGREG", OfGprs)' /\ "+CGREG" \in DOMAIN reported
    BY <2>1 DEF Printing, TypeOK, OfonoType
  <2>3. CASE cur \in OfGprs /\ "+CGREG" \in signal.counts
    <3>1. reported'["+CGREG"] = <<selected, val>> /\ Printing("+CGREG", OfGprs)
      BY <2>1, <2>2, <2>3 DEF Prefix, Printing, OfGprs
    <3>2. QED
      BY <2>1, <2>2, <3>1 DEF GprsOK, GprsOn, GprsNow, Unknown, Registered, InQueue, Of
  <2>4. CASE ~(cur \in OfGprs /\ "+CGREG" \in signal.counts)
    <3>1. reported'["+CGREG"] = reported["+CGREG"]
      BY <2>1, <2>2, <2>4 DEF Prefix, OfGprs
    <3>2. InHand("+CGREG", OfGprs) => InHand("+CGREG", OfGprs)'
      BY <2>1, <2>4 DEF InHand, Of
    <3>3. QED
      BY <2>1, <2>2, <3>1, <3>2 DEF GprsOK, GprsOn, GprsNow, Unknown, Registered, InQueue, Of
  <2>5. QED
    BY <2>3, <2>4
<1>11. ASSUME NEW kind, NEW m \in Modems, NEW value, Emit(kind, m, value),
              \/ status'[selected] = status[selected] /\ attached'[selected] = attached[selected]
              \/ kind = "Status" /\ m = selected /\ attached' = attached
              \/ kind = "Attached" /\ m = selected
       PROVE  GprsOK'
  <2>1. UNCHANGED <<selected, filter, at, signal, pend, cur, val, reported>>
    BY <1>11, Emission DEF reader, setting, dispatcher
  <2>2. /\ InQueue("+CGREG", GprsKinds) => InQueue("+CGREG", GprsKinds)'
        /\ Changing(selected, 0) => Changing(selected, 0)'
        /\ InHand("+CGREG", OfGprs) <=> InHand("+CGREG", OfGprs)'
        /\ Printing("+CGREG", OfGprs) <=> Printing("+CGREG", OfGprs)'
        /\ GprsOn' = GprsOn
    BY <1>11, <2>1, Emission DEF InQueue, Of, Changing, InHand, Printing, GprsOn, Registered
  <2>3. CASE status'[selected] = status[selected] /\ attached'[selected] = attached[selected]
    <3>1. GprsNow' = GprsNow
      BY <2>1, <2>3 DEF GprsNow, Unknown
    <3>2. attached[selected] => attached'[selected']
      BY <2>1, <2>3
    <3>3. QED
      BY <2>1, <2>2, <3>1, <3>2 DEF GprsOK
  <2>4. ASSUME GprsOn, m = selected, kind \in GprsKinds
        PROVE  /\ InQueue("+CGREG", GprsKinds)'
               /\ kind = "Attached" => Changing(selected, 0)'
    <3>1. Waiting(kind) # {}
      BY <2>4, WaitingFor DEF GprsOn, OfGprs, GprsKinds
    <3>2. PICK n \in DOMAIN queue' : queue'[n] = Emitted(kind, m, value) /\ n > 0
      BY <1>11, <3>1, Emission
    <3>3. queue'[n].modem = selected' /\ "+CGREG" \in queue'[n].counts /\ queue'[n].kind = kind
      BY <2>1, <2>4, <3>2 DEF Emitted, TypeOK, OfonoType
    <3>4. QED
      BY <2>1, <2>4, <3>2, <3>3 DEF InQueue, Of, Changing
  <2>5. CASE kind = "Status" /\ m = selected /\ attached' = attached
    BY <2>1, <2>2, <2>4, <2>5 DEF GprsOK, GprsKinds
  <2>6. CASE kind = "Attached" /\ m = selected
    BY <2>1, <2>2, <2>4, <2>6 DEF GprsOK, GprsKinds
  <2>7. QED
    BY <1>11, <2>3, <2>5, <2>6
<1>12. CASE Emitting
  <2>1. ASSUME NEW m \in Modems, ChangeStatus(m)
        PROVE  Emit("Status", m, TRUE) /\ attached' = attached /\ (status'[selected] = status[selected] \/ m = selected)
    BY <2>1, <1>t DEF ChangeStatus, TypeOK, OfonoType
  <2>2. ASSUME NEW m \in Modems, ChangeAttached(m)
        PROVE  Emit("Attached", m, attached'[m]) /\ status' = status
               /\ (attached'[selected] = attached[selected] \/ m = selected)
    BY <2>2, <1>t DEF ChangeAttached, TypeOK, OfonoType
  <2>3. ASSUME NEW m \in Modems, NEW kind \in Kinds, Other(kind, m)
        PROVE  Emit(kind, m, TRUE) /\ status' = status /\ attached' = attached
    BY <2>3 DEF Other
  <2>4. PICK m \in Modems : ChangeStatus(m) \/ ChangeAttached(m) \/ \E kind \in Kinds : Other(kind, m)
    BY <1>12 DEF Emitting
  <2>5. CASE ChangeStatus(m)
    BY <1>11, <2>1, <2>5
  <2>6. CASE ChangeAttached(m)
    <3>1. PICK value : value = attached'[m]
      OBVIOUS
    <3>2. Emit("Attached", m, value) /\ status' = status /\ (attached'[selected] = attached[selected] \/ m = selected)
      BY <2>2, <2>6, <3>1
    <3>3. QED
      BY <1>11, <3>2
  <2>7. CASE \E kind \in Kinds : Other(kind, m)
    BY <1>11, <2>3, <2>7
  <2>8. QED
    BY <2>4, <2>5, <2>6, <2>7
<1>13. QED
  BY <1>1, <1>2, <1>3, <1>4, <1>5, <1>6, <1>7, <1>8, <1>9, <1>10, <1>12 DEF Next, Emitting

-----------------------------------------------------------------------------
(* The report that was printed last. *)
Reporting == ModemsKnown /\ CregOK /\ LastIsTrue /\ GprsOK

LEMMA InitReporting == Init => Reporting
<1> SUFFICES ASSUME Init PROVE Reporting
  OBVIOUS
<1>1. queue = <<>> /\ pend = {} /\ cur = "none" /\ at = "idle"
  BY DEF Init
<1>2. filter["creg"] = "none" /\ filter["cgreg"] = "none"
  BY DEF Init, Watches
<1>3. ~CregOn /\ ~GprsOn
  BY <1>2 DEF CregOn, GprsOn, OfGprs, Registered
<1>4. ModemsKnown
  BY <1>1 DEF ModemsKnown
<1>5. QED
  BY <1>3, <1>4 DEF Reporting, CregOK, LastIsTrue, GprsOK

\* For any number of modems, signals and commands: a report that is not of the present state is
\* one after which another is to come, from a signal in the queue or in hand (core.c:584-626).
THEOREM ReportsInvariance == Spec => []Reporting
<1>1. Inv /\ Reporting /\ [Next]_vars => Reporting'
  BY ModemsKnownKept, CregKept, LastIsTrueKept, GprsKept DEF Reporting, Inv
<1>2. QED
  BY InitReporting, Invariance, <1>1, PTL DEF Spec

\* For any number of modems, signals and commands: when all is quiet the latest +CREG and +CGREG
\* tell the present state of the selected modem, or that it could not be asked. Two watches
\* feed +CGREG and each asks oFono after its signal (gprs.c:95-126, network.c:510-582); that
\* the last to speak is right follows as a change that came after its question is still in the queue.
THEOREM LatestStaysCurrent == Spec => []LatestIsCurrent
<1>1. Inv /\ Reporting => LatestIsCurrent
  <2> SUFFICES ASSUME Inv, Reporting, Quiet PROVE LatestIsCurrent
    BY DEF LatestIsCurrent
  <2>1. queue = <<>> /\ pend = {} /\ cur = "none"
    BY DEF Quiet, Inv, CallbackOK, Asking
  <2>2. \A p, kinds : ~InQueue(p, kinds)
    BY <2>1 DEF InQueue
  <2>3. ~InHand("+CREG", {"creg"}) /\ ~InHand("+CGREG", OfGprs)
    BY <2>1 DEF InHand, OfGprs
  <2>4. \A p \in {"+CREG", "+CGREG"} : reported[p] # None => reported[p] = <<reported[p][1], reported[p][2]>>
    BY DEF Inv, TypeOK, OfonoType
  <2>5. ASSUME CregOn, reported["+CREG"] # None
        PROVE  reported["+CREG"] \in {selected} \X ({status[selected]} \cup Unknown)
    BY <2>2, <2>3, <2>4, <2>5 DEF Reporting, CregOK, CregNow
  <2>6. ASSUME GprsOn, reported["+CGREG"] # None
        PROVE  reported["+CGREG"] \in {selected} \X ({IF attached[selected] THEN status[selected] ELSE 0} \cup Unknown)
    BY <2>2, <2>3, <2>4, <2>6 DEF Reporting, GprsOK, GprsNow
  <2>7. QED
    BY <2>5, <2>6 DEF LatestIsCurrent, CregOn, GprsOn, OfGprs
<1>2. QED
  BY <1>1, Invariance, ReportsInvariance, PTL
=============================================================================
