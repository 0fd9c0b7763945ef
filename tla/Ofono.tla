------------------------------- MODULE Ofono -------------------------------
(* The oFono plug-in: its watches; the commands that set and ask, those for  *)
(* the codes of the SIM, and those that pass a text on. They share no state, *)
(* so each behaviour is one of the watches or of one kind of command.        *)
EXTENDS OfonoWatch

\* The constants of the modules of the commands, under their names there.
CONSTANTS
  Null,
  CallCommands, TextCommands, CallChanges, CallFaults,  \* bounds: MaxCommands, of texts, MaxChanges, MaxFaults
  Groups, Values,
  Codes, Patterns, Facs, MaxTries,
  Texts, Foreign, Hexes, Numbers, Pdus, Dialled, Tones, MaxNumber, MaxBuffer

VARIABLES
  kind,                                                      \* what this is a behaviour of
  cmd, call, res, shown, disturbed, call_failed, count,      \* OfonoCommand
  given, conf, props, ring, rung, prior, due, flipped,       \* OfonoSettings
  sim, read, spent, before,                                  \* OfonoSim
  mode, session, sent, first                                 \* OfonoTexts

callVars == <<cmd, call, res, shown, disturbed, call_failed, count>>
settingVars == <<given, conf, props, ring, rung, prior, due, flipped>>
simVars == <<sim, read, spent, before>>
textVars == <<mode, session, sent, first>>
allVars == <<kind, vars, callVars, settingVars, simVars, textVars>>

Settings == INSTANCE OfonoSettings WITH
  MaxCommands <- CallCommands, MaxChanges <- CallChanges, MaxFaults <- CallFaults, failed <- call_failed
Sim == INSTANCE OfonoSim WITH
  MaxCommands <- CallCommands, MaxChanges <- CallChanges, MaxFaults <- CallFaults, failed <- call_failed
Typed == INSTANCE OfonoTexts WITH
  MaxCommands <- TextCommands, MaxChanges <- CallChanges, MaxFaults <- CallFaults, failed <- call_failed

ASSUME CommandsAssumption ==
  /\ {CallCommands, TextCommands, CallChanges, CallFaults} \subseteq Nat
  /\ Settings!SettingsAssumption /\ Sim!TriesAssumption /\ Typed!TextsAssumption

\* The variables of what a behaviour is not about have no value, but for those of the watches.
NoCall ==
  /\ cmd = Null /\ call = Null /\ res = Null /\ shown = Null
  /\ disturbed = Null /\ call_failed = Null /\ count = Null
NoSettings ==
  /\ given = Null /\ conf = Null /\ props = Null /\ ring = Null
  /\ rung = Null /\ prior = Null /\ due = Null /\ flipped = Null
NoSim == sim = Null /\ read = Null /\ spent = Null /\ before = Null
NoText == mode = Null /\ session = Null /\ sent = Null /\ first = Null

AllInit ==
  /\ Init
  /\ \/ kind = "watches" /\ NoCall /\ NoSettings /\ NoSim /\ NoText
     \/ kind = "settings" /\ Settings!Init /\ NoSim /\ NoText
     \/ kind = "sim" /\ Sim!Init /\ NoSettings /\ NoText
     \/ kind = "texts" /\ Typed!Init /\ NoSettings /\ NoSim

AllNext ==
  /\ UNCHANGED kind
  /\ \/ kind = "watches" /\ Next /\ UNCHANGED <<callVars, settingVars, simVars, textVars>>
     \/ kind = "settings" /\ Settings!Next /\ UNCHANGED <<vars, simVars, textVars>>
     \/ kind = "sim" /\ Sim!Next /\ UNCHANGED <<vars, settingVars, textVars>>
     \/ kind = "texts" /\ Typed!Next /\ UNCHANGED <<vars, settingVars, simVars>>

AllSpec == AllInit /\ [][AllNext]_allVars

\* The properties of the commands, stated in their modules; each holds trivially of the other kinds.
AnswersAgree == kind = "settings" => Settings!AnswersAgree
TriesSpared == kind = "sim" => Sim!TriesSpared
TextsArrive == kind = "texts" => Typed!TextsArrive
UcsAsTyped == kind = "texts" => Typed!UcsAsTyped
=============================================================================
