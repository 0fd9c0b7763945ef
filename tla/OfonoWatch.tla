----------------------------- MODULE OfonoWatch -----------------------------
(***************************************************************************)
(* The oFono plug-in of one modem (src/plugins/ofono/): commands switch    *)
(* unsolicited messages on and off by adding and removing watches on D-Bus *)
(* signals (core.c, over the filters of src/dbus.c), on the reader thread; *)
(* the thread of dbus.c hands signals to them and prints the messages.     *)
(* oFono may have several modems, one of which is selected (AT+CSUS).      *)
(***************************************************************************)
EXTENDS Naturals, Sequences, FiniteSets

CONSTANTS
  Modems,       \* the modems of oFono
  Switches,     \* commands of the on/off kind, with one watch of the same name
  Kinds,        \* signals that oFono emits here
  Statuses,     \* registration statuses
  MaxSignals,   \* bound: signals in all
  MaxCommands,  \* bound: commands in all
  Faults        \* what may fail: "memory" (of a watch), "query" (a D-Bus call)

ASSUME OfonoAssumption ==
  /\ Switches \subseteq {"ussd", "caoc", "ccwe"}
  /\ Kinds \subseteq {"Status", "CellId", "Attached", "CallAdded", "BarringActive",
                      "Forwarded", "RemoteHeld", "RemoteMultiparty", "ussd", "caoc", "ccwe"}
  /\ Statuses \subseteq Nat
  /\ MaxSignals \in Nat /\ MaxCommands \in Nat

VARIABLES
  selected,     \* p->modem
  creg, cgreg,  \* p->creg, p->cgreg
  filter,       \* per watch: the property it waits for, "all", or "none" if it is not there
  plugin,       \* "live", or "gone" when p has been freed
  todo,         \* reader: calls of watch and unwatch that the command has still to make
  failed,       \* history: watches that their latest command could not make
  at, signal,   \* D-Bus thread: where it is, and the signal it is handling
  pend,         \* ... and the watches that it has still to hand it to
  cur,          \* the watch whose matcher is running, or "none"
  val,          \* what the callback will print
  queue,        \* signals on the bus
  status, attached,   \* of each modem of oFono
  reported,     \* history: the latest +CREG and +CGREG, since they were last switched on
  signals,      \* signals emitted so far
  commands      \* commands so far

setting == <<selected, creg, cgreg>>
reader == <<setting, filter, plugin, todo, failed>>
dispatcher == <<at, signal, pend, cur, val>>
ofono == <<queue, status, attached, signals>>
vars == <<reader, dispatcher, ofono, reported, commands>>

Watches == {"ring", "barring", "hold", "mpty", "fwd", "creg", "cgreg", "cgatt"} \cup Switches

Registered == {w \in Watches : filter[w] # "none"}

\* Watches on calls are for the calls of any modem ("FIXME modem!").
AnyModem == {"hold", "mpty"}

\* The signals that a watch is for. One for the network waits for a property or for all.
Waits(w, kind) ==
  CASE w \in {"creg", "cgreg"} -> kind = filter[w] \/ (filter[w] = "all" /\ kind \in {"Status", "CellId"})
    [] w = "cgatt"   -> kind = "Attached"
    [] w = "ring"    -> kind = "CallAdded"
    [] w = "barring" -> kind = "BarringActive"
    [] w = "hold"    -> kind = "RemoteHeld"
    [] w = "mpty"    -> kind = "RemoteMultiparty"
    [] w = "fwd"     -> kind = "Forwarded"
    [] OTHER         -> kind = w

Waiting(kind) == {w \in Registered : Waits(w, kind)}

-----------------------------------------------------------------------------
(***************************************************************************)
(* Commands, on the reader thread.                                         *)
(***************************************************************************)
Ready == plugin = "live" /\ todo = <<>>

Begin == Ready /\ commands < MaxCommands /\ commands' = commands + 1

Unwatch(w) == <<"unwatch", w, "none">>
Watch(w, property) == <<"watch", w, property>>
HangingUp == <<"hangup", "ring", "none">>
Freeing == <<"free", "ring", "none">>

\* unwatch calls, in this order, for those of ws that are there when their turn comes.
Drop(ws) == [i \in DOMAIN ws |-> Unwatch(ws[i])]

When(condition, calls) == IF condition THEN calls ELSE <<>>

\* A command is about the watches ws.
Commands(ws, calls) == todo' = calls /\ failed' = failed \ ws

creg_calls(n) ==
  Drop(<<"creg">>) \o When(n = 1, <<Watch("creg", "Status")>>) \o When(n = 2, <<Watch("creg", "all")>>)

\* Mutated: the watch is replaced, but the mode is not kept.
set_creg_Forgets(n) ==
  /\ Begin /\ creg # n
  /\ Commands({"creg"}, creg_calls(n))
  /\ UNCHANGED <<setting, filter, plugin, dispatcher, ofono, reported>>

\* AT+CREG=n
set_creg(n) ==
  /\ Begin /\ creg # n
  /\ creg' = n
  /\ Commands({"creg"}, creg_calls(n))
  /\ UNCHANGED <<selected, cgreg, filter, plugin, dispatcher, ofono, reported>>

cgreg_calls(n) ==
  Drop(<<"cgreg", "cgatt">>)
  \o When(n > 0, <<Watch("cgatt", "all"), Watch("cgreg", IF n = 1 THEN "Status" ELSE "all")>>)

\* AT+CGREG=n
set_cgreg(n) ==
  /\ Begin /\ cgreg # n
  /\ cgreg' = n
  /\ Commands({"cgreg", "cgatt"}, cgreg_calls(n))
  /\ UNCHANGED <<selected, creg, filter, plugin, dispatcher, ofono, reported>>

ssn_calls(ssi, ssu) ==
  Drop(<<"fwd", "barring", "hold", "mpty">>)
  \o When(ssi, <<Watch("barring", "all")>>)
  \o When(ssu, <<Watch("hold", "all"), Watch("mpty", "all")>>)
  \o When(ssi \/ ssu, <<Watch("fwd", "all")>>)

\* AT+CSSN=ssi,ssu
set_ssn(ssi, ssu) ==
  /\ Begin
  /\ Commands({"fwd", "barring", "hold", "mpty"}, ssn_calls(ssi, ssu))
  /\ UNCHANGED <<setting, filter, plugin, dispatcher, ofono, reported>>

\* AT+CUSD, AT+CAOC, AT+CCWE
SwitchOn(w) ==
  /\ Begin /\ w \notin Registered
  /\ Commands({w}, <<Watch(w, "all")>>)
  /\ UNCHANGED <<setting, filter, plugin, dispatcher, ofono, reported>>

SwitchOff(w) ==
  /\ Begin /\ w \in Registered
  /\ Commands({w}, <<Unwatch(w)>>)
  /\ UNCHANGED <<setting, filter, plugin, dispatcher, ofono, reported>>

\* A callback for the selected modem runs with p->modem_lock.
Locked == at \in {"ask_attached", "ask_status", "print"} /\ cur \notin AnyModem

None == <<>>

\* Mutated: the modem is selected without the lock.
set_csus_Unlocked(m) ==
  /\ Begin
  /\ selected' = m
  /\ reported' = [prefix \in DOMAIN reported |-> None]
  /\ UNCHANGED <<creg, cgreg, filter, plugin, todo, failed, dispatcher, ofono>>

\* AT+CSUS=m; what was said of another modem is no longer of interest.
set_csus(m) ==
  /\ Begin /\ ~Locked
  /\ selected' = m
  /\ reported' = [prefix \in DOMAIN reported |-> None]
  /\ UNCHANGED <<creg, cgreg, filter, plugin, todo, failed, dispatcher, ofono>>

\* Of the call meter, GPRS, the network, USSD and the calls, which AT+CVHU=2 hangs up then.
unregister_calls(vhu) ==
  Drop(<<"ccwe", "caoc", "cgreg", "cgatt", "creg", "ussd", "barring", "hold", "mpty", "fwd", "ring">>)
  \o When(vhu = 2, <<HangingUp>>)
  \o <<Freeing>>

\* Mutated: one watch of two is forgotten.
at_plugin_unregister_Most ==
  /\ Begin
  /\ Commands({}, Drop(<<"ccwe", "caoc", "cgreg", "creg", "ussd", "barring", "hold", "mpty", "fwd", "ring">>)
                   \o <<Freeing>>)
  /\ UNCHANGED <<setting, filter, plugin, dispatcher, ofono, reported>>

\* at_plugin_unregister(): all the watches, then p. AT+CVHU may have set any mode.
at_plugin_unregister ==
  /\ Begin
  /\ \E vhu \in 0..2 : Commands({}, unregister_calls(vhu))
  /\ UNCHANGED <<setting, filter, plugin, dispatcher, ofono, reported>>

Prefix(w) == CASE w = "creg" -> {"+CREG"} [] w \in {"cgreg", "cgatt"} -> {"+CGREG"} [] OTHER -> {}

\* History: a new watch reports what comes; signals on their way are of an earlier time.
Forget(w) ==
  LET older(s) == [s EXCEPT !.counts = @ \ Prefix(w)]
  IN  /\ reported' = [p \in DOMAIN reported |-> IF p \in Prefix(w) THEN None ELSE reported[p]]
      /\ signal' = older(signal)
      /\ queue' = [i \in DOMAIN queue |-> older(queue[i])]

Next1 == todo # <<>> /\ todo' = Tail(todo)

signal_watch ==
  /\ Next1 /\ Head(todo)[1] = "watch"
  /\ filter' = [filter EXCEPT ![Head(todo)[2]] = Head(todo)[3]]
  /\ Forget(Head(todo)[2])
  /\ UNCHANGED <<setting, plugin, failed, at, pend, cur, val, status, attached, signals, commands>>

\* Without memory there is no watch. AT+CSSN gives up, the switches answer an error, the
\* others go on and answer OK.
signal_watch_fails ==
  /\ "memory" \in Faults
  /\ todo # <<>> /\ Head(todo)[1] = "watch"
  /\ failed' = failed \cup {Head(todo)[2]}
  /\ todo' = IF Head(todo)[2] \in {"barring", "hold"} THEN <<>> ELSE Tail(todo)
  /\ UNCHANGED <<setting, filter, plugin, dispatcher, ofono, reported, commands>>

\* A pointer that is not set is left alone; else the rule and the filter are removed: libdbus
\* calls the filter no more, but it does not wait for a call that is running, whose data is
\* freed.
signal_unwatch ==
  /\ Next1 /\ Head(todo)[1] = "unwatch"
  /\ filter' = [w \in Watches |-> IF w = Head(todo)[2] THEN "none" ELSE filter[w]]
  /\ pend' = pend \ {Head(todo)[2]}
  /\ UNCHANGED <<setting, plugin, failed, at, signal, cur, val, ofono, reported, commands>>

\* handle_hangup(): the reader waits for the answer of oFono, which may be an error, while the
\* D-Bus thread goes on; what becomes of the calls may be a signal (Other).
HangUp ==
  /\ Next1 /\ Head(todo)[1] = "hangup"
  /\ UNCHANGED <<setting, filter, plugin, failed, dispatcher, ofono, reported, commands>>

Free ==
  /\ Next1 /\ Head(todo)[1] = "free"
  /\ plugin' = "gone"
  /\ UNCHANGED <<setting, filter, failed, dispatcher, ofono, reported, commands>>

-----------------------------------------------------------------------------
(***************************************************************************)
(* Signals, on the D-Bus thread.                                           *)
(***************************************************************************)
NoSignal == [kind |-> "none", modem |-> "none", value |-> FALSE, counts |-> {}]

\* dbus_connection_dispatch(): one signal, to each filter there is (in any order here).
Dispatch ==
  /\ at = "idle" /\ queue # <<>>
  /\ signal' = Head(queue) /\ queue' = Tail(queue)
  /\ pend' = Waiting(Head(queue).kind)
  /\ at' = "filters"
  /\ UNCHANGED <<reader, cur, val, status, attached, signals, reported, commands>>

Dispatched ==
  /\ at = "filters" /\ pend = {}
  /\ at' = "idle" /\ signal' = NoSignal
  /\ UNCHANGED <<reader, pend, cur, val, ofono, reported, commands>>

\* Mutated: +CGREG tells the status when GPRS is detached.
Callback_Swapped(w) == CASE w = "cgreg" -> "ask_attached"
                         [] w = "creg"  -> "ask_status"
                         [] w = "cgatt" -> IF signal.value THEN "print" ELSE "ask_status"
                         [] OTHER       -> "print"

\* The first step of the callback of a watch.
Callback(w) == CASE w = "cgreg" -> "ask_attached"
                 [] w = "creg"  -> "ask_status"
                 [] w = "cgatt" -> IF signal.value THEN "ask_status" ELSE "print"
                 [] OTHER       -> "print"

\* ofono_signal_matcher(): a signal of another modem is dropped, with p->modem_lock.
Match(w) ==
  /\ at = "filters" /\ w \in pend
  /\ pend' = pend \ {w}
  /\ IF w \in AnyModem \/ signal.modem = selected
     THEN cur' = w /\ at' = Callback(w)
     ELSE UNCHANGED <<cur, at>>
  /\ UNCHANGED <<reader, signal, val, ofono, reported, commands>>

\* gprs_reg_cb() asks whether the modem is attached; an error is a no.
AskAttached ==
  /\ at = "ask_attached"
  /\ \/ at' = IF attached[selected] THEN "ask_status" ELSE "print"
     \/ "query" \in Faults /\ at' = "print"
  /\ UNCHANGED <<reader, signal, pend, cur, val, ofono, reported, commands>>

\* ofono_netreg_print() asks for the status, which is 4 on an error.
AskStatus ==
  /\ at = "ask_status"
  /\ at' = "print"
  /\ val' = status[selected] \/ ("query" \in Faults /\ val' = 4)
  /\ UNCHANGED <<reader, signal, pend, cur, ofono, reported, commands>>

\* at_unsolicited()
Report ==
  /\ at = "print"
  /\ reported' = [p \in DOMAIN reported |->
                    IF p \in Prefix(cur) \cap signal.counts THEN <<selected, val>> ELSE reported[p]]
  /\ at' = "filters" /\ cur' = "none" /\ val' = 0
  /\ UNCHANGED <<reader, signal, pend, ofono, commands>>

-----------------------------------------------------------------------------
(***************************************************************************)
(* oFono. A signal is sent if some watch of the process has asked for it.  *)
(***************************************************************************)
Emit(kind, m, value) ==
  /\ signals < MaxSignals /\ kind \in Kinds
  /\ signals' = signals + 1
  /\ queue' = IF Waiting(kind) = {} THEN queue
              ELSE Append(queue, [kind |-> kind, modem |-> m, value |-> value, counts |-> DOMAIN reported])
  /\ UNCHANGED <<reader, dispatcher, reported, commands>>

ChangeStatus(m) ==
  /\ \E s \in Statuses \ {status[m]} : status' = [status EXCEPT ![m] = s]
  /\ Emit("Status", m, TRUE)
  /\ UNCHANGED attached

ChangeAttached(m) ==
  /\ attached' = [attached EXCEPT ![m] = ~@]
  /\ Emit("Attached", m, attached'[m])
  /\ UNCHANGED status

Other(kind, m) ==
  /\ kind \notin {"Status", "Attached"}
  /\ Emit(kind, m, TRUE)
  /\ UNCHANGED <<status, attached, commands>>

Init ==
  /\ selected \in Modems
  /\ creg = 0 /\ cgreg = 0
  /\ filter = [w \in Watches |-> IF w = "ring" THEN "all" ELSE "none"]
  /\ plugin = "live" /\ todo = <<>> /\ failed = {}
  /\ at = "idle" /\ signal = NoSignal
  /\ pend = {} /\ cur = "none" /\ val = 0
  /\ queue = <<>> /\ signals = 0 /\ commands = 0
  /\ \E s \in Statuses : status = [m \in Modems |-> s]
  /\ attached = [m \in Modems |-> FALSE]
  /\ reported = [prefix \in {"+CREG", "+CGREG"} |-> None]

Command ==
  \/ \E n \in 0..2 : set_creg(n) \/ set_cgreg(n)
  \/ \E ssi, ssu \in BOOLEAN : set_ssn(ssi, ssu)
  \/ \E w \in Switches : SwitchOn(w) \/ SwitchOff(w)
  \/ \E m \in Modems : set_csus(m)
  \/ at_plugin_unregister

Next ==
  \/ Command
  \/ signal_watch \/ signal_watch_fails \/ signal_unwatch \/ HangUp \/ Free
  \/ Dispatch \/ Dispatched \/ (\E w \in Watches : Match(w))
  \/ AskAttached \/ AskStatus \/ Report
  \/ \E m \in Modems : ChangeStatus(m) \/ ChangeAttached(m) \/ (\E kind \in Kinds : Other(kind, m))

Spec == Init /\ [][Next]_vars

-----------------------------------------------------------------------------
\* Between commands the watches are those that the modes ask for, whatever the order of
\* the commands before, except for those that could not be made: what AT+CREG?, AT+CGREG?
\* and AT+CSSN? answer is what is reported.
ModesAreWatched ==
  Ready =>
    \A w \in Watches \ failed :
      /\ w = "creg" => filter[w] = (CASE creg = 0 -> "none" [] creg = 1 -> "Status" [] OTHER -> "all")
      /\ w = "cgreg" => filter[w] = (CASE cgreg = 0 -> "none" [] cgreg = 1 -> "Status" [] OTHER -> "all")
      /\ w = "cgatt" => (w \in Registered) = (cgreg > 0)
      /\ w = "mpty" => (w \in Registered) = ("hold" \in Registered)
      /\ (w = "fwd" /\ failed \cap {"barring", "hold"} = {}) =>
           (w \in Registered) = (Registered \cap {"barring", "hold"} # {})

\* A plug-in that is gone is not called again: no watch of it is left, and of the signal
\* that is being handled at most the running callback.
UnregisterLeavesNothing == plugin = "gone" => Registered = {} /\ pend = {}

\* While a callback for the selected modem runs, another modem is not selected under it, so
\* that what it asks oFono is about the modem that the signal is from (core.c:617-622).
SelectionHolds == (Locked /\ plugin = "live") => selected = signal.modem

\* When all is quiet, the latest +CREG and +CGREG since they were switched on tell the
\* present state of the selected modem, or that it could not be asked: no report of an
\* earlier state overtakes that of a later one.
Quiet == Ready /\ at = "idle" /\ queue = <<>>
Unknown == IF "query" \in Faults THEN {0, 4} ELSE {}
LatestIsCurrent ==
  Quiet =>
    /\ ("creg" \in Registered /\ reported["+CREG"] # None) =>
         reported["+CREG"] \in {selected} \X ({status[selected]} \cup Unknown)
    /\ ({"cgreg", "cgatt"} \subseteq Registered /\ reported["+CGREG"] # None) =>
         reported["+CGREG"] \in {selected} \X
            ({IF attached[selected] THEN status[selected] ELSE 0} \cup Unknown)
=============================================================================
