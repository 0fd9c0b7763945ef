---------------------------- MODULE OfonoCommand ----------------------------
(***************************************************************************)
(* A command of the oFono plug-in that is one D-Bus call after another     *)
(* (src/plugins/ofono/core.c): what its handler does at the beginning and  *)
(* after each reply, until it returns. The modules of the commands say     *)
(* what these steps are; others may change the state of oFono in between.  *)
(***************************************************************************)
EXTENDS Naturals, Sequences

CONSTANTS
  MaxCommands,  \* bound: commands in all
  MaxChanges,   \* bound: changes by others
  MaxFaults,    \* bound: calls that fail without need, or whose reply is lost
  Null          \* no value: of a property that oFono does not give, or a fact not known

VARIABLES
  cmd,       \* the command, or the latest one
  call,      \* the D-Bus call that it waits for, or Idle
  res,       \* its result: "OK" or an error
  shown,     \* what it has printed, values only
  disturbed, \* history: others have changed something since it was given
  failed,    \* history: a call of it has failed without need
  count      \* commands, changes and faults so far

commandVars == <<cmd, call, res, shown, disturbed, failed, count>>

Idle == [do |-> "none"]

\* What a handler does next: call oFono, or return, having printed something or not.
Ask(request) == [call |-> request, res |-> "OK", shown |-> <<>>]
AskAfter(text, request) == [call |-> request, res |-> "OK", shown |-> text]
Return(error) == [call |-> Idle, res |-> error, shown |-> <<>>]
Show(text) == [call |-> Idle, res |-> "OK", shown |-> text]

Go(step) == call' = step.call /\ res' = step.res /\ shown' = step.shown

\* The calls of modem_props_get(), modem_prop_set() and modem_request().
GetProperties == [do |-> "GetProperties"]
SetProperty(name, value) == [do |-> "SetProperty", name |-> name, value |-> value]
Method(name, arg) == [do |-> name, arg |-> arg]

\* ofono_query(): errors of oFono that the handlers tell apart, and the rest. A call that
\* oFono did not answer in time, or a service that is not there, is "failed" (0) too.
Error(name) ==
  CASE name = "Failed"         -> "failed"
    [] name = "InvalidFormat"  -> "format"
    [] name = "NotImplemented" -> "unsupported"
    [] name = "NoReply"        -> "failed"

\* Between two commands of the terminal.
Start(c) ==
  /\ call = Idle /\ count.commands < MaxCommands
  /\ cmd' = c /\ disturbed' = FALSE /\ failed' = FALSE
  /\ count' = [count EXCEPT !.commands = @ + 1]

Replied == call # Idle /\ UNCHANGED <<cmd, disturbed, failed, count>>

Fault ==
  /\ call # Idle /\ count.faults < MaxFaults
  /\ count' = [count EXCEPT !.faults = @ + 1] /\ failed' = TRUE
  /\ UNCHANGED <<cmd, disturbed>>

Other ==
  /\ count.changes < MaxChanges
  /\ count' = [count EXCEPT !.changes = @ + 1] /\ disturbed' = TRUE
  /\ UNCHANGED <<cmd, call, res, shown, failed>>

CommandInit ==
  /\ cmd = [at |-> "none", do |-> "none"] /\ call = Idle /\ res = "OK" /\ shown = <<>>
  /\ disturbed = FALSE /\ failed = FALSE
  /\ count = [commands |-> 0, changes |-> 0, faults |-> 0]

Ended == call = Idle /\ count.commands > 0
=============================================================================
