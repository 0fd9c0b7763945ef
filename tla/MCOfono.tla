------------------------------ MODULE MCOfono ------------------------------
(* The oFono plug-in, with two modems, two signals and three commands that  *)
(* make and remove watches, and with two commands of the other kinds.       *)
EXTENDS Ofono, SequencesExt, TLC

Interchangeable == Permutations(Modems)

-----------------------------------------------------------------------------
(* The commands that set and ask, in groups that have to do with each other. *)
Sets(name, n) == [at |-> name, do |-> "set", n |-> n]
Gets(name) == [at |-> name, do |-> "get"]
Services == {"enabled", "disabled", "unknown"}
YesNo == {"yes", "no", Null}
Shown == [CLIP |-> "CallingLinePresentation", COLP |-> "ConnectedLinePresentation",
          CDIP |-> "CalledLinePresentation", CNAP |-> "CallingNamePresentation"]
Carriers == <<"ps-only", "cs-only", "ps-preferred", "cs-preferred">>

MCGroups == <<
  {Sets(f, n) : f \in DOMAIN Shown \cup {"CRC"}, n \in 0..2} \cup {Gets(f) : f \in DOMAIN Shown \cup {"CRC"}},
  {Sets("CLIR", n) : n \in 0..3} \cup {Sets("S0", n) : n \in 0..2} \cup {Gets(f) : f \in {"CLIR", "COLR", "S0", "CCWA"}}
     \cup {[at |-> "CCWA", do |-> "set", n |-> n, mode |-> m] : n \in 0..2, m \in (0..3) \cup {Null}},
  {Sets("CGSMS", n) : n \in 0..5} \cup {Sets(f, n) : f \in {"CMGF", "CVHU"}, n \in 0..3}
     \cup {Sets("CSCA", 1), Sets("CSCA", 2), Sets("CACM", 0), Sets("CAMM", 5), Sets("CPUC", 3)}
     \cup {Gets(f) : f \in {"CGSMS", "CSCA", "CMGF", "CVHU", "CACM", "CAMM", "CAOC", "CPUC"}},
  {Gets(f) : f \in {"CFUN", "CGATT", "CSQ", "CIMI", "ICCID", "CGSN", "OFGMR", "CPAS", "CLCC", "CNUM"}}
     \cup {[at |-> f, do |-> "test"] : f \in {"EN", "ON"}}
     \cup {[at |-> f, do |-> "get", from |-> 0, to |-> t] : f \in {"EN", "ON"}, t \in 0..3},
  {Gets(f) : f \in {"WS46", "COPS", "CNTI0", "CNTI1", "Scan"}} \cup {Sets("COPS", 2), Sets("COPS", 4)}
     \cup {[at |-> "COPS", do |-> "format", n |-> n] : n \in 0..2}>>

MCValues == <<
  [n \in {Shown[f] : f \in DOMAIN Shown} |-> Services],
  [HideCallerId |-> {"default", "enabled", "disabled"},
   CallingLineRestriction |-> {"disabled", "permanent", "on", "off", "unknown"},
   ConnectedLineRestriction |-> Services, VoiceCallWaiting |-> Services, AutoAnswer |-> BOOLEAN],
  [Bearer |-> {Carriers[i] : i \in 1..4}, ServiceCenterAddress |-> {1, 2, Null},
   AccumulatedCallMeter |-> {7}, AccumulatedCallMeterMaximum |-> {5, 6}, CallMeter |-> {7, 16777216},
   Currency |-> {3, 4}, PricePerUnit |-> {"p", Null}],
  [n \in {"SubscriberIdentity", "CardIdentifier", "Serial", "Revision"} |-> {"s", Null}]
    @@ [n \in {"Powered", "Online", "Attached"} |-> YesNo]
    @@ [n \in {"EmergencyNumbers", "SubscriberNumbers"} |-> {<<>>, <<"1">>, <<"1", "2">>}]
    @@ [Strength |-> {0, 50, 100},
        Calls |-> {<<>>, <<"held", "incoming">>, <<"active", "incoming">>, <<"alerting">>, <<"dialing", "other">>,
                   <<"active", "waiting">>}],
  [Technology |-> {"gsm", "edge", "umts", "hsdpa", "hsupa", "hspa", "lte", "other", Null},
   DataBearer |-> {"none", "gsm", "edge", "umts", "hsdpa", "hspa", "lte"},
   Mode |-> {"auto", "manual", "off", "other"}, Status |-> {"registered", "searching", Null},
   Networks |-> {<<>>, <<[status |-> "current", techs |-> <<"gsm", "umts">>],
                         [status |-> "odd", techs |-> <<"lte">>]>>}]>>

-----------------------------------------------------------------------------
(* Digits that make characters and do not, whole and broken PDUs, items of tones. *)
MCHexes ==
  {<<"0", "0", "4", "1">>, <<"0", "0", "E", "9">>, <<"0", "0", "4", "4", "0", "0", "1", "1">>,
   <<"D", "9", "4", "4">>, <<"0", "0", "0", "0">>, <<"0", "0", "4", ":">>, <<"0", "G", "4", "4">>, <<"0", "4">>}
MCPdus ==
  {<<>>, <<0, 0>>, <<0, 1, 0, 0, 4, 1>>, <<0, 0, 4>>, <<0, 0, 4, 1, -1>>, <<0, 0, 4, -1>>, <<0, 0, -1, -1, 4, 1>>, <<15, 15>>,
   <<0, 1, 4, 1, 14, 9>>}
Tone(char, dur, comma) == [form |-> "tone", char |-> char, dur |-> dur, comma |-> comma]
MCTones ==
  LET plain == {Tone("1", Null, TRUE), Tone("1", Null, FALSE)}
      odd == {Tone("1", 0, TRUE), Tone("1", 9, FALSE), Tone("x", Null, FALSE), [form |-> "frequencies", comma |-> FALSE]}
  IN  (BoundedSeq(plain, 3) \cup BoundedSeq(plain \cup odd, 2)) \ {<<>>}
MCDialled == BoundedSeq({"1", "I", "i"}, 3) \cup BoundedSeq({"1", "+", "I", "-", "G", ">"}, 2)
MCNumbers == {<<"1">>, <<"+", "1">>, <<"1", "1", "1">>}
=============================================================================
