--------------------------- MODULE OfonoSettings ---------------------------
(***************************************************************************)
(* Commands of the oFono plug-in that set something or ask for it: call    *)
(* settings (callsettings.c), the call meter (callmeter.c), messages       *)
(* (sms.c), calls and emergency numbers (voicecall.c), the network         *)
(* (network.c, cnti.c), own numbers (sim.c). What the terminal has set,    *)
(* or been shown, is kept by the plug-in or by oFono under other names     *)
(* and numbers; each command has its own tables for them.                  *)
(***************************************************************************)
EXTENDS OfonoCommand, Integers, SequencesExt

CONSTANTS
  Groups,  \* of each group, the commands: those of one group are given in one behaviour
  Values   \* of each group, the properties of oFono: what they may be, Null when it is not in the reply

VARIABLES
  given,   \* the group of this behaviour
  conf,    \* fields of plugin_t: clip, colp, cdip, cnap, ccwa, cring, vhu, text_mode, cops
  props,   \* oFono: properties and lists
  ring,    \* D-Bus thread: flags that incoming_call() has still to look at
  rung,    \* flags whose messages have been written for the latest call
  prior,   \* history: the command before and what it has shown, if it has said OK and nobody changed anything since
  due,     \* history: flags that were to be looked at for the latest call
  flipped  \* history: flags set since that call came

ringVars == <<ring, rung, due>>
vars == <<commandVars, given, conf, props, ringVars, prior, flipped>>

\* The property of oFono that has the state of a service in the network.
Presentation == [CLIP |-> "CallingLinePresentation", COLP |-> "ConnectedLinePresentation",
                 CDIP |-> "CalledLinePresentation", CNAP |-> "CallingNamePresentation"]
Flags == DOMAIN Presentation \cup {"CCWA", "CRC", "CVHU", "CMGF"}

Hide == <<"default", "enabled", "disabled">>
Bearers == <<"ps-only", "cs-only", "ps-preferred", "cs-preferred">>
Books == [EN |-> "EmergencyNumbers", ON |-> "SubscriberNumbers"]
Identities == [CIMI |-> "SubscriberIdentity", ICCID |-> "CardIdentifier", CGSN |-> "Serial",
               OFGMR |-> "Revision", CSCA |-> "ServiceCenterAddress"]
Meters == [CACM |-> "AccumulatedCallMeter", CAMM |-> "AccumulatedCallMeterMaximum"]

\* What the terminal gives, as far as the parser lets it through.
Asked == Flags \cup DOMAIN Identities \cup DOMAIN Meters \cup
  {"CLIR", "COLR", "S0", "CGSMS", "CAOC", "CPUC", "CFUN", "CGATT", "CSQ", "WS46", "COPS", "CNTI0", "CNTI1",
   "CNUM", "CPAS", "CLCC", "Scan"}
Commands ==
  [at : (Flags \ {"CCWA"}) \cup {"CLIR", "S0", "CGSMS", "CSCA", "CAMM", "CACM", "CPUC", "COPS"}, do : {"set"}, n : Nat]
  \cup [at : {"CCWA"}, do : {"set"}, n : Nat, mode : Nat \cup {Null}]
  \cup [at : {"COPS"}, do : {"format"}, n : Nat]
  \cup [at : Asked, do : {"get"}]
  \cup [at : DOMAIN Books, do : {"get"}, from : Nat, to : Nat]
  \cup [at : DOMAIN Books, do : {"test"}]

\* Properties that are lists, which no command sets.
Lists == {"Calls", "EmergencyNumbers", "SubscriberNumbers"}

SettingsAssumption ==
  /\ Null \notin Nat
  /\ DOMAIN Values = DOMAIN Groups
  /\ \A group \in DOMAIN Groups :
       /\ Groups[group] \subseteq Commands
       /\ \A c \in Groups[group] :
            /\ c.at \in {"CPAS", "CLCC"} => "Calls" \in DOMAIN Values[group]
            /\ c.at \in DOMAIN Books => Books[c.at] \in DOMAIN Values[group]
       /\ \A name \in DOMAIN Values[group] :
            /\ Values[group][name] # {}
            /\ name \in Lists => Values[group][name] \subseteq Seq(STRING) \cup (IF name = "Calls" THEN {} ELSE {Null})

Index(list, value) == CHOOSE i \in DOMAIN list : list[i] = value

-----------------------------------------------------------------------------
(***************************************************************************)
(* Settings.                                                               *)
(***************************************************************************)
Limit(flag) == IF flag = "CVHU" THEN 2 ELSE 1

\* set_clip(), set_ring(), set_cvhu()...: the plug-in keeps the flag.
Configured(c) ==
  IF c.do = "set" /\ c.at \in Flags /\ c.n <= Limit(c.at) THEN [conf EXCEPT ![c.at] = c.n]
  ELSE IF c.do = "format" /\ c.n \in {0, 2} THEN [conf EXCEPT !["COPS"] = c.n]
  ELSE conf

set_flag(c) == Return(IF c.n > Limit(c.at) THEN "unsupported" ELSE "OK")

\* set_clir()
set_clir(c) ==
  IF c.n > 2 THEN Return("invalid") ELSE Ask(SetProperty("HideCallerId", Hide[c.n + 1]))

\* set_ccwa(): the flag is kept, if no mode is given that is all; mode 2 asks.
set_ccwa(c) ==
  IF c.n > 1 THEN Return("unsupported")
  ELSE CASE c.mode = Null   -> Return("OK")
         [] c.mode \in 0..1 -> Ask(SetProperty("VoiceCallWaiting", IF c.mode = 1 THEN "enabled" ELSE "disabled"))
         [] c.mode = 2      -> Ask(GetProperties)
         [] OTHER           -> Return("unsupported")

set_auto_answer(c) ==
  IF c.n > 1 THEN Return("ERROR") ELSE Ask(SetProperty("AutoAnswer", c.n # 0))

\* set_cgsms(): 4 is let through, and names what the linker has put behind the table.
set_cgsms(c) ==
  IF c.n > 4 THEN Return("ERROR")
  ELSE Ask(SetProperty("Bearer", IF c.n < 4 THEN Bearers[c.n + 1] ELSE Null))

\* set_puc(): the price goes to an interface "CallMetter", which oFono does not have.
set_puc(c) == Ask(SetProperty("Currency", c.n))
set_price == SetProperty("CallMetter.PricePerUnit", "price")

Set(c) ==
  CASE c.at = "CCWA" -> set_ccwa(c)
    [] c.at \in Flags \ {"CCWA"} -> set_flag(c)
    [] c.at = "CLIR"  -> set_clir(c)
    [] c.at = "S0"    -> set_auto_answer(c)
    [] c.at = "CGSMS" -> set_cgsms(c)
    [] c.at = "CSCA"  -> Ask(SetProperty("ServiceCenterAddress", c.n))
    [] c.at = "CAMM"  -> Ask(SetProperty("AccumulatedCallMeterMaximum", c.n))
    [] c.at = "CACM"  -> Ask(Method("Reset", 0))
    [] c.at = "CPUC"  -> set_puc(c)
    [] c.at = "COPS"  -> IF c.n = 2 THEN Ask(Method("Deregister", 0)) ELSE Return("unsupported")

-----------------------------------------------------------------------------
(***************************************************************************)
(* Questions. p has the properties, all of them Null if oFono fails.       *)
(***************************************************************************)
\* get_clip(), get_colp(), get_cdip(), get_cnap(), do_colr()
Mode(value) == CASE value = "disabled" -> 0 [] value = "enabled" -> 1 [] OTHER -> 2

\* get_clir()
Hidden(value) == CASE value = "enabled" -> 1 [] value = "disabled" -> 2 [] OTHER -> 0
Restriction(value) ==
  CASE value = "disabled" -> 0 [] value = "permanent" -> 1
    [] value = "on" -> 3 [] value = "off" -> 4 [] OTHER -> 2

get_clir(p) ==
  IF shown = <<>> THEN AskAfter(<<Hidden(p["HideCallerId"])>>, GetProperties)
  ELSE Show(Append(shown, Restriction(p["CallingLineRestriction"])))

\* set_ccwa() with mode 2
get_waiting(p) ==
  IF Mode(p["VoiceCallWaiting"]) = 2 THEN Return("unknown") ELSE Show(<<Mode(p["VoiceCallWaiting"])>>)

\* get_auto_answer(): no answer, -1, is compared as unsigned.
get_auto_answer(p) ==
  Show(<<IF p["AutoAnswer"] = Null \/ p["AutoAnswer"] THEN 1 ELSE 0>>)

get_cgsms(p) ==
  IF p["Bearer"] \in ToSet(Bearers) THEN Show(<<Index(Bearers, p["Bearer"]) - 1>>) ELSE Return("ERROR")

\* get_acm(), get_amm(); set_aoc() with mode 0 has six digits for it
get_meter(value) == IF value = Null THEN Return("unsupported") ELSE Show(<<value>>)
get_aoc(value) == IF value = Null \/ value > 16777215 THEN Return("failed") ELSE Show(<<value>>)

get_puc(p) ==
  IF p["Currency"] = Null \/ p["PricePerUnit"] = Null THEN Return("unknown")
  ELSE Show(<<p["Currency"], p["PricePerUnit"]>>)

\* handle_cimi(), handle_iccid(), show_gsn(), handle_gmr(), get_csca()
get_identity(value) == IF value = Null THEN Return("unknown") ELSE Show(<<value>>)

\* get_cfun()
get_cfun(p) ==
  CASE p["Powered"] = "no"                          -> Show(<<0>>)
    [] p["Powered"] = "yes" /\ p["Online"] = "no"   -> Show(<<4>>)
    [] p["Powered"] = "yes" /\ p["Online"] = "yes"  -> Show(<<1>>)
    [] OTHER                                        -> Return("unknown")

get_attach(p) ==
  IF p["Attached"] = Null THEN Return("unknown") ELSE Show(<<IF p["Attached"] = "yes" THEN 1 ELSE 0>>)

\* do_csq(): from per cent
do_csq(p) == Show(<<IF p["Strength"] = Null THEN 99 ELSE (p["Strength"] * 31) \div 100>>)

\* get_ws46()
get_ws46(p) ==
  CASE p["Technology"] = Null                                -> Show(<<25>>)
    [] p["Technology"] \in {"gsm", "edge"}                   -> Show(<<12>>)
    [] p["Technology"] \in {"umts", "hsdpa", "hsupa", "hspa"} -> Show(<<22>>)
    [] p["Technology"] = "lte"                               -> Show(<<28>>)
    [] OTHER                                                 -> Return("ERROR")

\* The number of a technology in +COPS is its place in tes[]; the second entry is an empty name.
tes == <<"gsm", "empty", "umts", "edge", "hsdpa", "hsupa", "hspa", "lte">>

get_cops(p) ==
  LET mode == CASE p["Mode"] \in {"auto", "auto-only"} -> 0 [] p["Mode"] = "manual" -> 1
                [] p["Mode"] = "off" -> 2 [] OTHER -> 3
      tech == IF p["Technology"] \in ToSet(tes) THEN Index(tes, p["Technology"]) - 1 ELSE 0
  IN  IF mode = 3 \/ p["Status"] = Null THEN Return("unknown")
      ELSE IF p["Status"] \notin {"registered", "roaming"} THEN Show(<<mode>>)
      ELSE Show(<<mode, conf["COPS"], tech>>)

\* list_cops(): one entry for each technology of each network whose state is known.
sts == <<"unknown", "available", "current", "forbidden">>
list_cops(networks) ==
  LET entries == {e \in UNION {{i} \X DOMAIN networks[i].techs : i \in DOMAIN networks} :
                    networks[e[1]].status \in ToSet(sts) /\ networks[e[1]].techs[e[2]] \in ToSet(tes)}
  IN  Show([e \in entries |-> <<Index(sts, networks[e[1]].status) - 1, Index(tes, networks[e[1]].techs[e[2]]) - 1>>])

\* list_active(), list_available()
list_active(p) ==
  Show(CASE p["DataBearer"] = "gsm"   -> <<"GSM">>   [] p["DataBearer"] = "edge" -> <<"EDGE">>
         [] p["DataBearer"] = "umts"  -> <<"UMTS">>  [] p["DataBearer"] = "hsdpa" -> <<"HSDPA">>
         [] p["DataBearer"] \in {"hsupa", "hspa"} -> <<"HSUPA">>
         [] p["DataBearer"] = "lte"   -> <<"LTE">>   [] OTHER -> <<>>)

list_available(p) ==
  Show(CASE p["Technology"] = "gsm"   -> <<"GSM">>   [] p["Technology"] = "edge" -> <<"GSM", "GPRS", "EDGE">>
         [] p["Technology"] = "umts"  -> <<"UMTS">>  [] p["Technology"] = "hsdpa" -> <<"UMTS", "HSDPA">>
         [] p["Technology"] = "hsupa" -> <<"UMTS", "HSUPA">>
         [] p["Technology"] = "hspa"  -> <<"UMTS", "HSDPA", "HSUPA">>
         [] p["Technology"] = "lte"   -> <<"LTE">>   [] OTHER -> <<>>)

\* show_cpas(): the first call of the list that is incoming, or active or alerting, tells.
CallStates == <<"active", "held", "dialing", "alerting", "incoming", "waiting">>

show_cpas(list) ==
  LET telling == {i \in DOMAIN list : list[i] \in {"incoming", "active", "alerting"}}
      first == CHOOSE i \in telling : \A j \in telling : i <= j
  IN  Show(<<IF telling = {} THEN 0 ELSE IF list[first] = "incoming" THEN 3 ELSE 4>>)

\* show_call(): the state of each call, but for calls in another one.
handle_clcc(list) ==
  Show([i \in {i \in DOMAIN list : list[i] \in ToSet(CallStates)} |-> Index(CallStates, list[i]) - 1])

\* Mutated: the number of entries.
count_book_Length(at, list) ==
  IF list = Null THEN Return(IF at = "EN" THEN "failed" ELSE "unknown")
  ELSE IF list = <<>> THEN Return("not-found") ELSE Show(<<0, Len(list)>>)

\* count_en(), count_on()
count_book(at, list) ==
  IF list = Null THEN Return(IF at = "EN" THEN "failed" ELSE "unknown")
  ELSE IF list = <<>> THEN Return("not-found") ELSE Show(<<0, Len(list) - 1>>)

\* read_en(), read_on(): indexes start with 0.
read_book(at, list, from, to) ==
  IF list = Null THEN Return(IF at = "EN" THEN "failed" ELSE "unknown")
  ELSE Show([i \in {i \in DOMAIN list : from <= i - 1 /\ i - 1 <= to} |-> i - 1])

\* foreach_msisdn()
handle_cnum(list) == IF list = Null THEN Return("unknown") ELSE Show(list)

\* The calls to oFono of a question; +CPAS and +COPS=? have others, three have none.
Question(c) ==
  CASE c.at \in {"CRC", "CVHU", "CMGF", "CCWA"} -> Show(<<conf[c.at]>>)
    [] c.at \in {"CPAS", "CLCC"} -> Ask(Method("GetCalls", 0))
    [] c.at = "Scan" -> Ask(Method("Scan", 0))
    [] OTHER -> Ask(GetProperties)

Answer(c, p) ==
  CASE c.at \in DOMAIN Presentation -> Show(<<conf[c.at], Mode(p[Presentation[c.at]])>>)
    [] c.at = "COLR"    -> Show(<<Mode(p["ConnectedLineRestriction"])>>)
    [] c.at = "CLIR"    -> get_clir(p)
    [] c.at = "CCWA"    -> get_waiting(p)
    [] c.at = "S0"      -> get_auto_answer(p)
    [] c.at = "CGSMS"   -> get_cgsms(p)
    [] c.at \in DOMAIN Meters -> get_meter(p[Meters[c.at]])
    [] c.at = "CAOC"    -> get_aoc(p["CallMeter"])
    [] c.at = "CPUC"    -> get_puc(p)
    [] c.at \in DOMAIN Identities -> get_identity(p[Identities[c.at]])
    [] c.at = "CFUN"    -> get_cfun(p)
    [] c.at = "CGATT"   -> get_attach(p)
    [] c.at = "CSQ"     -> do_csq(p)
    [] c.at = "WS46"    -> get_ws46(p)
    [] c.at = "COPS"    -> get_cops(p)
    [] c.at = "CNTI0"   -> list_active(p)
    [] c.at = "CNTI1"   -> list_available(p)
    [] c.at = "CNUM"    -> handle_cnum(p["SubscriberNumbers"])
    [] c.at \in DOMAIN Books /\ c.do = "test" -> count_book(c.at, p[Books[c.at]])
    [] c.at \in DOMAIN Books /\ c.do = "get"  -> read_book(c.at, p[Books[c.at]], c.from, c.to)

Nothing == [name \in DOMAIN props |-> Null]

\* What follows the reply to a call; p has the properties in it, and nothing if it is an error:
\* then AT+COPS? says that there is no memory.
After(c, reply, p) ==
  CASE call.do = "GetProperties" /\ c.at = "CPAS" ->
         Show(<<IF p["Powered"] = "no" THEN 5 ELSE 2>>)
    [] call.do = "GetProperties" /\ c.at # "CPAS" ->
         IF c.at = "COPS" /\ reply # "OK" THEN Return("memory") ELSE Answer(c, p)
    [] call.do = "GetCalls" /\ reply = "OK" -> IF c.at = "CPAS" THEN show_cpas(p["Calls"]) ELSE handle_clcc(p["Calls"])
    [] call.do = "GetCalls" /\ reply # "OK" /\ c.at = "CPAS" -> Ask(GetProperties)
    [] call.do = "Scan" /\ reply = "OK" -> list_cops(p["Networks"])
    [] call.do = "SetProperty" /\ call.name = "Currency" /\ reply = "OK" -> Ask(set_price)
    [] OTHER -> Return(reply)

-----------------------------------------------------------------------------
(***************************************************************************)
(* The reader thread, and oFono.                                           *)
(***************************************************************************)
Trusted == Ended /\ res = "OK" /\ ~disturbed /\ ~failed

Give(c) ==
  /\ Start(c)
  /\ Go(IF c.do = "set" THEN Set(c)
        ELSE IF c.do = "format" THEN Return(IF c.n \in {0, 2} THEN "OK" ELSE "unsupported")
        ELSE Question(c))
  /\ conf' = Configured(c)
  /\ prior' = IF Trusted THEN [cmd |-> cmd, shown |-> shown] ELSE Null
  /\ flipped' = IF conf' = conf THEN flipped ELSE flipped \cup {c.at}
  /\ UNCHANGED <<given, props, ringVars>>

Accepts == ~(call.do = "SetProperty" /\ (call.name \notin DOMAIN props \/ call.value = Null))

Do ==
  props' = CASE call.do = "SetProperty" -> [props EXCEPT ![call.name] = call.value]
             [] call.do = "Reset"       -> [props EXCEPT !["AccumulatedCallMeter"] = 0]
             [] call.do = "Deregister"  -> [props EXCEPT !["Mode"] = "off", !["Status"] = "unregistered"]
             [] OTHER                   -> props

Reply ==
  /\ Replied
  /\ IF Accepts THEN Do /\ Go(After(cmd, "OK", props))
                ELSE UNCHANGED props /\ \E e \in {"failed", "invalid"} : Go(After(cmd, e, Nothing))
  /\ UNCHANGED <<given, conf, ringVars, prior, flipped>>

\* The call fails, or is carried out and not answered in time.
Fails ==
  /\ Fault
  /\ UNCHANGED props \/ (Accepts /\ Do)
  /\ Go(After(cmd, "failed", Nothing))
  /\ UNCHANGED <<given, conf, ringVars, prior, flipped>>

\* The network, the user and other programs.
Change ==
  /\ Other
  /\ \E name \in DOMAIN props : \E value \in Values[given][name] \ {props[name]} :
       props' = [props EXCEPT ![name] = value]
  /\ prior' = Null
  /\ UNCHANGED <<given, conf, ringVars, flipped>>

-----------------------------------------------------------------------------
(***************************************************************************)
(* The D-Bus thread: ring_callback(). It looks at the flags, which the     *)
(* reader thread may set, one after the other and writes a message between.*)
(***************************************************************************)
CallAdded ==
  /\ ring = <<>>
  /\ ring' \in {<<"CRC", "CLIP", "CNAP", "CDIP">>, <<"CCWA">>}
  /\ due' = ToSet(ring') /\ rung' = {} /\ flipped' = {}
  /\ count.changes < MaxChanges /\ count' = [count EXCEPT !.changes = @ + 1]
  /\ UNCHANGED <<cmd, call, res, shown, disturbed, failed, given, conf, props, prior>>

\* incoming_call(), waiting_call(): without the flag of +CRC it is RING.
Ring ==
  /\ ring # <<>> /\ ring' = Tail(ring)
  /\ rung' = IF conf[Head(ring)] = 1 THEN rung \cup {Head(ring)} ELSE rung
  /\ UNCHANGED <<commandVars, given, conf, props, prior, due, flipped>>

-----------------------------------------------------------------------------
Init ==
  /\ CommandInit
  /\ given \in DOMAIN Groups
  /\ conf = [flag \in Flags \cup {"COPS"} |-> IF flag = "COPS" THEN 2 ELSE 0]
  /\ props = [name \in DOMAIN Values[given] |-> CHOOSE v \in Values[given][name] : TRUE]
  /\ ring = <<>> /\ rung = {} /\ due = {} /\ flipped = {}
  /\ prior = Null

Next ==
  \/ \E c \in Groups[given] : Give(c)
  \/ Reply \/ Fails \/ Change
  \/ CallAdded \/ Ring

Spec == Init /\ [][Next]_vars

-----------------------------------------------------------------------------
\* Two commands in a row, with nobody else in between, both of which have said OK.
After2(at1, do1, at2, do2) ==
  /\ Trusted /\ prior # Null
  /\ prior.cmd.at = at1 /\ prior.cmd.do = do1 /\ cmd.at = at2 /\ cmd.do = do2

\* What has been set is what is shown.
ReadsBack ==
  /\ \A at \in Flags \cup {"CLIR", "S0", "CGSMS", "CSCA", "CAMM"} :
       After2(at, "set", at, "get") => shown[1] = prior.cmd.n
  /\ (After2("CCWA", "set", "CCWA", "set") /\ prior.cmd.mode \in 0..1 /\ cmd.mode = 2) => shown[1] = prior.cmd.mode
  /\ (After2("COPS", "format", "COPS", "get") /\ Len(shown) = 3) => shown[2] = prior.cmd.n

\* +WS46, +COPS and *CNTI tell of one and the same network.
Generation == [n \in {12, 22, 28} |-> CASE n = 12 -> {0, 3} [] n = 22 -> {2, 4, 5, 6} [] n = 28 -> {7}]
Newest == [n \in {12, 22, 28} |-> CASE n = 12 -> {"GSM", "EDGE"} [] n = 22 -> {"UMTS", "HSDPA", "HSUPA"} [] n = 28 -> {"LTE"}]

OneNetwork ==
  /\ (After2("WS46", "get", "COPS", "get") /\ Len(shown) = 3 /\ prior.shown # <<25>>)
       => shown[3] \in Generation[prior.shown[1]]
  /\ (After2("WS46", "get", "CNTI1", "get") /\ prior.shown # <<25>>)
       => shown # <<>> /\ Last(shown) \in Newest[prior.shown[1]]

\* +CPAS and +CLCC tell of the same calls.
SameCalls ==
  After2("CPAS", "get", "CLCC", "get") =>
    \/ prior.shown = <<0>> /\ ToSet(shown) \cap {0, 3, 4} = {}
    \/ prior.shown = <<3>> /\ 4 \in ToSet(shown)
    \/ prior.shown = <<4>> /\ ToSet(shown) \cap {0, 3} # {}

\* AT+CPBR=? gives the entries that AT+CPBR finds.
BooksAgree ==
  \A at \in DOMAIN Books : After2(at, "test", at, "get") =>
    ToSet(shown) = (cmd.from..cmd.to) \cap (prior.shown[1]..prior.shown[2])

\* A call is announced by the messages that have been asked for, but for flags set meanwhile.
Announced == ring = <<>> => \A flag \in due \ flipped : flag \in rung <=> conf[flag] = 1

\* One answer of the plug-in agrees with another, and with what it has been told before, although
\* each command has tables of its own (callsettings.c:110-158, network.c:97-139, sms.c:61-103,
\* voicecall.c:880-1007, sim.c:152-196, cnti.c:84-112); a call is announced by the messages that
\* were asked for (voicecall.c:248-296).
AnswersAgree == ReadsBack /\ OneNetwork /\ SameCalls /\ BooksAgree /\ Announced
=============================================================================
