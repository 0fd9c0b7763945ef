------------------------------ MODULE Devices ------------------------------
(* The plugins of a process, and what those for the devices of the phone do: *)
(* they have nothing in common but their loader, so each behaviour is one of *)
(* the loader or of one plugin.                                              *)
EXTENDS Plugins

\* The constants of the modules of the devices, under their names there.
CONSTANTS
  Durations, Refuses,
  MaxFds, NoThread,       \* NoThread is the Failing of EventReports
  Chars, MaxKeys, Failing,
  Rates, Terminals,
  Unicode, MaxText, MaxContacts,
  Zones, MaxChanges

VARIABLES
  component,
  active, finite, deadline, light_at, sleep, light_pc, state, duration, light_asked, lit, refused,
  descriptors, plugged, enabled, keyp_fd, tscrn_fd, cmer_at, revents, cmer_pc, request, cmer_asked,
  cmec, open, input_pc, keys, p, alpha, code, action, step, emitted, ret,
  c_cflag, c_iflag, speed, conf, rate_report, res, format, stop_bits,
  charset, first, book, written_index, contacts, shown, last,
  tz_file, watched, queue, dying, changes, tz_at, mask, current_tz, tz_enabled, blind

lightVars == <<active, finite, deadline, light_at, sleep, light_pc, state, duration, light_asked, lit, refused>>
eventVars == <<descriptors, plugged, enabled, keyp_fd, tscrn_fd, cmer_at, revents, cmer_pc, request, cmer_asked>>
inputVars == <<cmec, open, input_pc, keys, p, alpha, code, action, step, emitted, ret>>
serialVars == <<c_cflag, c_iflag, speed, conf, rate_report, res, format, stop_bits>>
phoneVars == <<charset, first, book, written_index, contacts, shown, last>>
zoneVars == <<tz_file, watched, queue, dying, changes, tz_at, mask, current_tz, tz_enabled, blind>>
allVars == <<component, vars, lightVars, eventVars, inputVars, serialVars, phoneVars, zoneVars>>

Light == INSTANCE Backlight WITH
  at <- light_at, pc <- light_pc, asked <- light_asked
Events == INSTANCE EventReports WITH
  Failing <- NoThread, open <- descriptors, at <- cmer_at, pc <- cmer_pc, asked <- cmer_asked
Inputs == INSTANCE InputDevices WITH pc <- input_pc
Serial == INSTANCE SerialSettings
Phone == INSTANCE Phonebooks WITH active <- book
Zone == INSTANCE TimeZone WITH file <- tz_file, at <- tz_at, enabled <- tz_enabled

ASSUME DevicesAssumption == Light!DurationsAssumption /\ MaxFds \in Nat /\ Phone!PhonebooksAssumption

AllInit ==
  /\ component \in {"loader", "backlight", "reports", "inputs", "serial", "phonebooks", "zone"}
  /\ Init /\ Light!Init /\ Events!Init /\ Inputs!Init /\ Phone!Init /\ Zone!Init
  /\ component # "zone" => tz_file = CHOOSE zone \in Zones : TRUE
  /\ Serial!Init
  /\ component # "serial" => c_cflag = (CHOOSE cflag \in Terminals : TRUE) /\ speed = CHOOSE rate \in Rates : TRUE

AllNext ==
  /\ UNCHANGED component
  /\ \/ component = "loader" /\ Next
        /\ UNCHANGED <<lightVars, eventVars, inputVars, serialVars, phoneVars, zoneVars>>
     \/ component = "backlight" /\ Light!Next
        /\ UNCHANGED <<vars, eventVars, inputVars, serialVars, phoneVars, zoneVars>>
     \/ component = "reports" /\ Events!Next
        /\ UNCHANGED <<vars, lightVars, inputVars, serialVars, phoneVars, zoneVars>>
     \/ component = "inputs" /\ Inputs!Next
        /\ UNCHANGED <<vars, lightVars, eventVars, serialVars, phoneVars, zoneVars>>
     \/ component = "serial" /\ Serial!Next
        /\ UNCHANGED <<vars, lightVars, eventVars, inputVars, phoneVars, zoneVars>>
     \/ component = "phonebooks" /\ Phone!Next
        /\ UNCHANGED <<vars, lightVars, eventVars, inputVars, serialVars, zoneVars>>
     \/ component = "zone" /\ Zone!Next
        /\ UNCHANGED <<vars, lightVars, eventVars, inputVars, serialVars, phoneVars>>

AllSpec == AllInit /\ [][AllNext]_allVars

\* The properties of the plugins, stated in their modules.
LightAsAsked == Light!LightAsAsked
KeypadAsAsked == Events!KeypadAsAsked
EventsAsAsked == Inputs!EventsAsAsked
FramingReadsBack == Serial!FramingReadsBack
AnswersTrue == Phone!AnswersTrue
ZoneReported == Zone!ZoneReported
=============================================================================
