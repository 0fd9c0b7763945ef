--------------------------- MODULE OfonoRequests ---------------------------
(***************************************************************************)
(* Commands of the oFono plug-in that take several D-Bus calls             *)
(* (src/plugins/ofono/): voice calls, call forwarding, power, GPRS and the *)
(* choice of an operator. The reader thread waits for each reply; between  *)
(* two calls, the network, the user and other programs go on.              *)
(***************************************************************************)
EXTENDS Naturals, Sequences, FiniteSets, SequencesExt

CONSTANTS
  Ids,          \* identifiers of calls, which oFono gives again once a call has ended
  Numbers,      \* numbers to forward calls to
  Times,        \* times after which a call is forwarded
  Operators,    \* networks
  Commands,     \* the commands that are given
  MaxCommands,  \* bound: commands in all
  MaxChanges,   \* bound: changes by others
  MaxFaults,    \* bound: calls that fail without need, or whose reply is lost
  Changeable    \* what others change: "calls", "networks" or some of Booleans

\* The commands and their arguments, as the parser and the handlers let them through.
Known ==
  [at : {"A", "H", "+CTFR", "+CHUP", "+CHLD=0", "+CHLD=1", "+CHLD=2", "+COPS=0"}]
  \cup [at : {"+CHLD=1x"}, id : Ids]
  \cup [at : {"+CCFC=3"}, reason : 0..5, number : Numbers, time : Times]
  \cup [at : {"+CCFC=4"}, reason : 0..5]
  \cup [at : {"+CFUN"}, fun : {0, 1, 4}, rst : BOOLEAN]
  \cup [at : {"+CGATT"}, on : BOOLEAN]
  \cup [at : {"+COPS=1"}, oper : Operators]

ASSUME RequestAssumption ==
  /\ Ids \subseteq Nat /\ IsFiniteSet(Ids)
  /\ Commands \subseteq Known
  /\ MaxCommands \in Nat /\ MaxChanges \in Nat /\ MaxFaults \in Nat

VARIABLES
  calls,     \* oFono: the state of each call, or "none"
  props,     \* oFono: properties
  networks,  \* oFono: operators that it knows of
  chosen,    \* oFono: the operator that it was told to register with, or "auto"
  cmd,       \* the command, or the latest one
  todo,      \* D-Bus calls that it has still to make; <<>> when it has answered
  res,       \* its result: "OK", "failed" (CME error 0), "other" errors, "NO CARRIER"
  before,    \* history: the calls and the properties when it was given
  disturbed, \* history: others have changed something since
  failed,    \* history: some call of it has failed
  count      \* commands, changes and faults so far

service == <<calls, props, networks, chosen>>
handler == <<cmd, todo, res>>
vars == <<service, handler, before, disturbed, failed, count>>

Off == ""    \* no number: calls are not forwarded

Forward == <<"VoiceUnconditional", "VoiceBusy", "VoiceNoReply", "VoiceNotReachable">>
Booleans == {"Powered", "Online", "RoamingAllowed", "Gprs"}
Names == Booleans \cup {"VoiceNoReplyTimeout"} \cup {Forward[i] : i \in 1..4}

\* reason_to_prop()
Property(reason) == Forward[reason + 1]

-----------------------------------------------------------------------------
(***************************************************************************)
(* The D-Bus calls of a command.                                           *)
(***************************************************************************)
Set(prop, value) == [do |-> "set", prop |-> prop, value |-> value]
Method(name, arg) == [do |-> name, arg |-> arg]
GetCalls == Method("GetCalls", 0)

\* Mutated: the number is set first.
cf_one_NumberFirst(reason, number, time) ==
  <<Set(Property(reason), number)>> \o
  (IF reason = 2 THEN <<Set("VoiceNoReplyTimeout", time)>> ELSE <<>>)

\* cf_register() of one reason: the time of "no reply" is a property of its own.
cf_one(reason, number, time) ==
  (IF reason = 2 THEN <<Set("VoiceNoReplyTimeout", time)>> ELSE <<>>) \o
  <<Set(Property(reason), number)>>

\* Mutated: the cases fall through as if 5 came before 4.
cf_register_Falls(reason, number, time) ==
  IF reason < 4 THEN cf_one(reason, number, time)
  ELSE cf_one(0, number, time) \o cf_one(1, number, time)
       \o cf_one(2, number, time) \o cf_one(3, number, time)

\* cf_register(): 4 stands for all reasons, 5 for all but the unconditional one.
cf_register(reason, number, time) ==
  IF reason < 4 THEN cf_one(reason, number, time)
  ELSE (IF reason = 4 THEN cf_one(0, number, time) ELSE <<>>)
       \o cf_one(1, number, time) \o cf_one(2, number, time) \o cf_one(3, number, time)

cf_erase(reason) ==
  IF reason < 4 THEN <<Set(Property(reason), Off)>>
  ELSE <<Method("DisableAll", IF reason = 4 THEN "all" ELSE "conditional")>>

\* Mutated: the modem is not put on line.
set_cfun_Stays(fun, rst) ==
  IF fun = 0 THEN <<Set("Powered", FALSE)>>
  ELSE (IF rst THEN <<Set("Powered", FALSE)>> ELSE <<>>) \o <<Set("Powered", TRUE)>>

set_cfun(fun, rst) ==
  IF fun = 0 THEN <<Set("Powered", FALSE)>>
  ELSE (IF rst THEN <<Set("Powered", FALSE)>> ELSE <<>>)
       \o <<Set("Powered", TRUE), Set("Online", fun = 1)>>

set_attach(on) ==
  (IF on THEN <<Set("RoamingAllowed", TRUE)>> ELSE <<>>) \o <<Set("Gprs", on)>>

\* What the handler of a command calls first; for some, the replies say what comes next.
Handle(c) ==
  CASE c.at \in {"A", "+CTFR", "+CHUP", "+CHLD=0"} -> <<GetCalls>>
    [] c.at = "H"        -> <<Method("HangupAll", 0)>>
    [] c.at = "+CHLD=1x" -> <<Method("Hangup", c.id)>>
    [] c.at = "+CHLD=1"  -> <<Method("ReleaseAndAnswer", 0)>>
    [] c.at = "+CHLD=2"  -> <<Method("SwapCalls", 0)>>
    [] c.at = "+CCFC=3"  -> cf_register(c.reason, c.number, c.time)
    [] c.at = "+CCFC=4"  -> cf_erase(c.reason)
    [] c.at = "+CFUN"    -> set_cfun(c.fun, c.rst)
    [] c.at = "+CGATT"   -> set_attach(c.on)
    [] c.at = "+COPS=0"  -> <<Method("Register", "auto")>>
    [] c.at = "+COPS=1"  -> <<Method("GetOperators", c.oper)>>

Running == todo # <<>>
Request == Head(todo)

\* The terminal gives a command; the line before it has been answered.
Give(c) ==
  /\ ~Running /\ count.commands < MaxCommands
  /\ cmd' = c /\ todo' = Handle(c) /\ res' = "OK"
  /\ before' = [calls |-> calls, props |-> props]
  /\ disturbed' = FALSE /\ failed' = FALSE
  /\ count' = [count EXCEPT !.commands = @ + 1]
  /\ UNCHANGED service

-----------------------------------------------------------------------------
(***************************************************************************)
(* The handlers, once oFono has replied to the first call of todo.         *)
(***************************************************************************)
\* Errors do not matter to +CHUP, nor to +CGATT when it allows roaming.
Ignored == cmd.at = "+CHUP" \/ (Request.do = "set" /\ Request.prop = "RoamingAllowed")

\* ATH takes CME error 0 to say that there was no call.
Result(r) == IF cmd.at = "H" /\ r = "failed" THEN "OK" ELSE r

\* A call that the handler only wants the result of.
Replied(r) ==
  IF r = "OK" \/ Ignored THEN todo' = Tail(todo) /\ UNCHANGED res
                         ELSE todo' = <<>> /\ res' = Result(r)

\* Mutated: any call is taken.
Meant_Any(at) == {"incoming", "active", "held", "waiting"}

\* The states that a handler looks for in the list of calls.
Meant(at) ==
  CASE at \in {"A", "+CTFR"} -> {"incoming"}
    [] at = "+CHUP"          -> {"active"}
    [] at = "+CHLD=0"        -> {"held", "waiting"}

\* Mutated: the list is not asked for again, but the same call hung up.
Pick_Again(id) ==
  CASE cmd.at = "A"     -> <<Method("Answer", id)>>
    [] cmd.at = "+CTFR" -> <<Method("Deflect", id)>>
    [] cmd.at = "+CHUP" -> <<GetCalls>>

\* find_call_by_state(): the handler goes on with one call. +CHUP looks again afterwards.
Pick(id) ==
  CASE cmd.at = "A"     -> <<Method("Answer", id)>>
    [] cmd.at = "+CTFR" -> <<Method("Deflect", id)>>
    [] cmd.at = "+CHUP" -> <<Method("Hangup", id), GetCalls>>

\* release_held(), over one and the same list: each held call, up to a waiting one.
Release(list) ==
  LET waiting == {i \in DOMAIN list : calls[list[i]] = "waiting"}
      last == IF waiting = {} THEN Len(list) ELSE CHOOSE i \in waiting : \A j \in waiting : i <= j
  IN  [i \in 1..last |-> Method("Hangup", list[i])]

\* Without a call (or a list): NO CARRIER, CME error 22, or nothing to do.
NoCall ==
  /\ todo' = <<>>
  /\ res' = CASE cmd.at = "A" -> "NO CARRIER" [] cmd.at = "+CTFR" -> "other" [] OTHER -> "OK"

\* enum_calls(); oFono lists the calls in any order.
List ==
  /\ Running /\ Request = GetCalls
  /\ LET there == {id \in Ids : calls[id] \in Meant(cmd.at)}
     IN  IF cmd.at = "+CHLD=0"
         THEN \E list \in SetToSeqs(there) : todo' = Release(list) /\ UNCHANGED res
         ELSE \/ \E id \in there : todo' = Pick(id) /\ UNCHANGED res
              \/ there = {} /\ NoCall
  /\ UNCHANGED <<service, cmd, before, disturbed, failed, count>>

\* change_oper(): an operator that is not known is looked for.
Choose ==
  /\ Running /\ Request.do \in {"GetOperators", "Scan"}
  /\ \/ networks' = networks
     \/ Request.do = "Scan" /\ networks' \in SUBSET Operators
  /\ IF cmd.oper \in networks' THEN todo' = <<Method("Register", cmd.oper)>> /\ UNCHANGED res
     ELSE IF Request.do = "Scan" THEN todo' = <<>> /\ res' = "other"
     ELSE todo' = <<Method("Scan", cmd.oper)>> /\ UNCHANGED res
  /\ UNCHANGED <<calls, props, chosen, cmd, before, disturbed, failed, count>>

-----------------------------------------------------------------------------
(***************************************************************************)
(* oFono: what a call does, and when it is refused.                        *)
(***************************************************************************)
Accepts ==
  CASE Request.do \in {"Answer", "Deflect"} -> calls[Request.arg] = "incoming"
    [] Request.do = "Hangup"           -> calls[Request.arg] # "none"
    [] Request.do = "HangupAll"        -> \E id \in Ids : calls[id] # "none"
    [] Request.do = "ReleaseAndAnswer" -> \E id \in Ids : calls[id] = "waiting"
    [] Request.do = "SwapCalls"        -> \E id \in Ids : calls[id] \in {"active", "held"}
    [] Request.do = "Register"         -> Request.arg \in networks \cup {"auto"}
    [] Request.do = "set"              -> Request.prop = "Online" => props["Powered"]
    [] OTHER                           -> TRUE

Becomes(id) ==
  CASE Request.do = "Answer" /\ id = Request.arg -> "active"
    [] Request.do \in {"Deflect", "Hangup"} /\ id = Request.arg -> "none"
    [] Request.do = "HangupAll" -> "none"
    [] Request.do = "ReleaseAndAnswer" /\ calls[id] = "active"  -> "none"
    [] Request.do = "ReleaseAndAnswer" /\ calls[id] = "waiting" -> "active"
    [] Request.do = "SwapCalls" /\ calls[id] = "active" -> "held"
    [] Request.do = "SwapCalls" /\ calls[id] = "held"   -> "active"
    [] OTHER -> calls[id]

\* A modem that is switched off is off line.
Changed(prop) ==
  CASE Request.do = "set" /\ prop = Request.prop -> Request.value
    [] Request.do = "set" /\ Request.prop = "Powered" /\ prop = "Online" -> Request.value /\ props[prop]
    [] Request.do = "DisableAll" /\ \E i \in (IF Request.arg = "all" THEN 1 ELSE 2)..4 : prop = Forward[i] -> Off
    [] OTHER -> props[prop]

Do ==
  /\ Accepts
  /\ calls' = [id \in Ids |-> Becomes(id)]
  /\ props' = [prop \in Names |-> Changed(prop)]
  /\ chosen' = IF Request.do = "Register" THEN Request.arg ELSE chosen
  /\ UNCHANGED networks

Simple == Running /\ Request.do \notin {"GetCalls", "GetOperators", "Scan"}

\* The reply to a call, with which the handler goes on.
Done ==
  /\ Simple /\ Do /\ Replied("OK")
  /\ UNCHANGED <<cmd, before, disturbed, failed, count>>

Refused ==
  /\ Simple /\ ~Accepts
  /\ failed' = TRUE
  /\ \E r \in {"failed", "other"} : Replied(r)
  /\ UNCHANGED <<service, cmd, before, disturbed, count>>

Fault == count.faults < MaxFaults /\ count' = [count EXCEPT !.faults = @ + 1] /\ failed' = TRUE

\* oFono fails, or the call does not reach it.
Fails ==
  /\ Simple /\ Fault
  /\ \E r \in {"failed", "other"} : Replied(r)
  /\ UNCHANGED <<service, cmd, before, disturbed>>

\* The call is carried out, but too late for libdbus; ofono_query() makes it CME error 0.
Lost ==
  /\ Simple /\ Fault
  /\ Do /\ Replied("failed")
  /\ UNCHANGED <<cmd, before, disturbed>>

\* Nothing is listed.
ListFails ==
  /\ Running /\ ~Simple /\ Fault
  /\ IF cmd.at \in {"+CHLD=0", "+COPS=1"} THEN todo' = <<>> /\ res' \in {"failed", "other"} ELSE NoCall
  /\ UNCHANGED <<service, cmd, before, disturbed>>

-----------------------------------------------------------------------------
(***************************************************************************)
(* Others: the network, the user, other programs.                          *)
(***************************************************************************)
Other(what) ==
  /\ what \in Changeable /\ count.changes < MaxChanges
  /\ count' = [count EXCEPT !.changes = @ + 1]
  /\ disturbed' = TRUE
  /\ UNCHANGED <<handler, before, failed>>

\* A new call is incoming when it is the only one, else waiting; there is one such at most.
Moves(old) ==
  LET others == \E id \in Ids : calls[id] # "none"
      ringing == \E id \in Ids : calls[id] \in {"incoming", "waiting"}
  IN  CASE old = "none"     -> IF ringing THEN {} ELSE IF others THEN {"waiting"} ELSE {"incoming"}
        [] old = "incoming" -> {"none", "active"}
        [] old = "waiting"  -> {"none"}
        [] old = "active"   -> {"none", "held"}
        [] old = "held"     -> {"none", "active"}

CallChanges ==
  /\ Other("calls")
  /\ \E id \in Ids : \E new \in Moves(calls[id]) : calls' = [calls EXCEPT ![id] = new]
  /\ UNCHANGED <<props, networks, chosen>>

\* A modem that is switched on is off line at first.
PropertyChanges ==
  /\ \E prop \in Booleans \cap Changeable :
       /\ Other(prop)
       /\ prop = "Online" => props["Powered"]
       /\ props' = [props EXCEPT ![prop] = ~@,
                                 !["Online"] = IF prop = "Powered" THEN FALSE
                                               ELSE IF prop = "Online" THEN ~@ ELSE @]
  /\ UNCHANGED <<calls, networks, chosen>>

NetworkChanges ==
  /\ Other("networks")
  /\ \E oper \in Operators :
       networks' = IF oper \in networks THEN networks \ {oper} ELSE networks \cup {oper}
  /\ UNCHANGED <<calls, props, chosen>>

\* The voice calls that there may be.
Legal(c) == \A i, j \in Ids : i # j =>
  /\ c[i] = "incoming" => c[j] = "none"
  /\ c[i] = "waiting" => c[j] # "waiting"
  /\ c[i] = "active" => c[j] # "incoming"

Init ==
  /\ calls \in [Ids -> {"none", "incoming", "waiting", "active", "held"}] /\ Legal(calls)
  /\ (\E id \in Ids : calls[id] = "waiting") => \E id \in Ids : calls[id] \in {"active", "held"}
  /\ props = [prop \in Names |-> IF prop \in Booleans THEN FALSE
                                 ELSE IF prop = "VoiceNoReplyTimeout" THEN 20 ELSE Off]
  /\ networks = {} /\ chosen = "auto"
  /\ cmd = [at |-> "none"] /\ todo = <<>> /\ res = "OK"
  /\ before = [calls |-> calls, props |-> props]
  /\ disturbed = FALSE /\ failed = FALSE
  /\ count = [commands |-> 0, changes |-> 0, faults |-> 0]

Step == List \/ Choose \/ Done \/ Refused \/ Fails \/ Lost \/ ListFails

Next ==
  \/ \E c \in Commands : Give(c)
  \/ Step
  \/ CallChanges \/ PropertyChanges \/ NetworkChanges

\* Every D-Bus call is answered in the end, if only by the timeout of libdbus.
Spec == Init /\ [][Next]_vars /\ WF_vars(Step)

-----------------------------------------------------------------------------
States == {"none", "incoming", "waiting", "active", "held"}
Values(prop) == CASE prop \in Booleans -> BOOLEAN
                  [] prop = "VoiceNoReplyTimeout" -> Times \cup {20}
                  [] OTHER -> Numbers \cup {Off}

There(state) == \E id \in Ids : calls[id] = state
Reasons == CASE cmd.reason = 4 -> 0..3 [] cmd.reason = 5 -> 1..3 [] OTHER -> {cmd.reason}

Fulfilled ==
  CASE cmd.at = "A"        -> There("active")
    [] cmd.at = "+CTFR"    -> ~There("incoming")
    [] cmd.at = "+CHUP"    -> ~There("active")
    [] cmd.at = "H"        -> \A id \in Ids : calls[id] = "none"
    [] cmd.at = "+CHLD=0"  -> /\ ~There("waiting")
                              /\ There("held") => \E id \in Ids : before.calls[id] = "waiting"
    [] cmd.at = "+CHLD=1x" -> calls[cmd.id] = "none"
    [] cmd.at = "+CCFC=3"  -> /\ \A r \in Reasons : props[Forward[r + 1]] = cmd.number
                              /\ 2 \in Reasons => props["VoiceNoReplyTimeout"] = cmd.time
    [] cmd.at = "+CCFC=4"  -> \A r \in Reasons : props[Forward[r + 1]] = Off
    [] cmd.at = "+CFUN"    -> /\ props["Powered"] = (cmd.fun # 0)
                              /\ props["Online"] = (cmd.fun = 1)
    [] cmd.at = "+CGATT"   -> props["Gprs"] = cmd.on
    [] cmd.at = "+COPS=0"  -> chosen = "auto"
    [] cmd.at = "+COPS=1"  -> chosen = cmd.oper
    [] OTHER               -> TRUE

\* A command that has answered OK has done all that it stands for, in however many calls,
\* unless others have had a hand in it (callforwarding.c:126-138, modem.c:80-97,
\* network.c:206-254, voicecall.c:588-638). ATH and AT+CHUP answer OK also when a call of
\* theirs has failed, of which nothing can be said.
OkIsDone ==
  (~Running /\ res = "OK" /\ ~disturbed /\ (cmd.at \in {"H", "+CHUP"} => ~failed)) => Fulfilled

Named ==
  CASE cmd.at \in {"+CCFC=3", "+CCFC=4"} ->
         {Forward[r + 1] : r \in Reasons} \cup
         (IF 2 \in Reasons /\ cmd.at = "+CCFC=3" THEN {"VoiceNoReplyTimeout"} ELSE {})
    [] cmd.at = "+CFUN"  -> {"Powered", "Online"}
    [] cmd.at = "+CGATT" -> {"Gprs", "RoamingAllowed"}
    [] OTHER             -> {}

\* Whether it fails or not, a command changes no setting but those that it names: reason 5
\* leaves unconditional forwarding alone (callforwarding.c:122-138).
OnlyNamedSettings ==
  ~disturbed => \A prop \in Names : props[prop] # before.props[prop] => prop \in Named

\* Calls are not forwarded to a new number after the time that was set with an old one
\* (callforwarding.c:108-113).
TimeBeforeNumber ==
  [][(~disturbed' /\ cmd.at = "+CCFC=3" /\ props'["VoiceNoReply"] # props["VoiceNoReply"])
       => props["VoiceNoReplyTimeout"] = cmd.time]_vars

Touches(id) ==
  CASE cmd.at \in {"A", "+CTFR"} -> calls[id] = "incoming"
    [] cmd.at = "+CHUP"    -> calls[id] = "active"
    [] cmd.at = "+CHLD=0"  -> calls[id] \in {"held", "waiting"}
    [] cmd.at = "+CHLD=1x" -> id = cmd.id
    [] cmd.at = "H"        -> TRUE
    [] cmd.at = "+CHLD=1"  -> calls[id] \in {"active", "waiting"}
    [] cmd.at = "+CHLD=2"  -> calls[id] \in {"active", "held"}
    [] OTHER               -> FALSE

\* A command ends, answers or holds only the calls that it is for, also in the middle of
\* a list of them, unless others have changed the calls since (voicecall.c:596-621).
OnlyCallsMeant == [][\A id \in Ids : (~disturbed' /\ calls'[id] # calls[id]) => Touches(id)]_vars

\* The terminal gets an answer to every command: in particular AT+CHUP, which looks for active
\* calls for as long as there are some (voicecall.c:563-564).
CommandEnds == []<>(~Running)
=============================================================================
