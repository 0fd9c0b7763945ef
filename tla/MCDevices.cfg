CONSTANTS
  Modems = {m1, m2, m3}
  NoModem = none
  MaxFound = 2
  MaxKept = 1
  Faults = {"scan", "memory"}
  Durations = {3, 15}
  Refuses = {"unlock", "off", "on", "thread"}
  MaxFds = 3
  NoThread = {"thread"}
  Chars = {"C", "semi"}
  MaxKeys = 5
  Failing = {"open", "write"}
  Rates = {9600, 115200}
  Terminals <- MCTerminals
  Unicode = {233, 128512}
  MaxText = 1
  MaxContacts = 2
  Zones = {0, 1, 2}
  MaxChanges = 3
SPECIFICATION AllSpec
SYMMETRY ModemSymmetry
INVARIANTS
  ReferencesCounted
  BanksKeepPlugins
  OneWalk
  LightAsAsked
  KeypadAsAsked
  EventsAsAsked
  FramingReadsBack
  AnswersTrue
  ZoneReported
PROPERTY LoadedListFreedOnce
