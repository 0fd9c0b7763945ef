------------------------------ MODULE Plugins ------------------------------
(***************************************************************************)
(* What the modems of one process share: the list of loaded plugins with   *)
(* its reference count (src/plugins.c), which every bank of commands uses  *)
(* from at_commands_init() to at_commands_deinit(), and the lock of        *)
(* AT+CLAC (src/commands.c). Each modem is the reader thread of module     *)
(* Modem, seen from here; at_modem_stop() cancels it and waits for it.     *)
(***************************************************************************)
EXTENDS Naturals, FiniteSets

CONSTANTS
  Modems,     \* modems of the process; one may be started again once it is stopped
  NoModem,
  MaxFound,   \* bound: plugins in the plugins directory
  MaxKept,    \* bound: calls of at_load_plugins() by the program itself
  Faults      \* what may fail: "scan" (scandir()), "memory" (malloc() of the tables)

ASSUME ModemsAssumption ==
  /\ IsFiniteSet(Modems)
  /\ NoModem \notin Modems
  /\ MaxFound \in Nat /\ MaxKept \in Nat
  /\ Faults \subseteq {"scan", "memory"}

VARIABLES
  pc,         \* where each reader thread is
  stopping,   \* modems in at_modem_stop()
  again,      \* modems whose bank is replaced (ATZ), not dropped
  table,      \* per modem: plugins instantiated in its bank
  refs, count, modules,   \* the list: references, length, "null", "live" or "freed"
  kept,       \* references that the program itself holds
  lock,       \* the lock of handle_clac(): its owner
  clac_modem, \* the modem that twalk() prints to
  broken      \* "no", or what has gone wrong in memory

list == <<refs, count, modules>>
clac == <<lock, clac_modem>>
vars == <<pc, stopping, again, table, list, kept, clac, broken>>

Go(m, from, to) == pc[m] = from /\ pc' = [pc EXCEPT ![m] = to]

(***************************************************************************)
(* The list of plugins. Each function holds modules.lock throughout.       *)
(***************************************************************************)
\* load_plugins(): the plugins directory cannot be read, or has some plugins; without
\* memory for the list they are not loaded. *lp is left alone if it cannot be read.
load_plugins ==
  \/ "scan" \in Faults /\ count' = 0 /\ UNCHANGED modules
  \/ "memory" \in Faults /\ count' = 0 /\ modules' = "null"
  \/ count' \in 0..MaxFound /\ modules' = "live"

\* Mutated: only the first reference is counted.
at_load_plugins_Once ==
  /\ refs' = 1
  /\ IF refs = 0 THEN load_plugins ELSE UNCHANGED <<count, modules>>

at_load_plugins ==
  /\ refs' = refs + 1
  /\ IF refs = 0 THEN load_plugins ELSE UNCHANGED <<count, modules>>

\* Mutated: the list goes with the first modem that goes.
at_unload_plugins_First ==
  /\ refs' = refs - 1
  /\ modules' = "freed"
  /\ broken' = IF modules = "freed" THEN "double_free" ELSE broken
  /\ UNCHANGED count

at_unload_plugins ==
  /\ refs' = refs - 1
  /\ IF refs = 1
     THEN /\ modules' = IF modules = "null" THEN "null" ELSE "freed"
          /\ broken' = IF modules = "freed" THEN "double_free" ELSE broken
     ELSE UNCHANGED <<modules, broken>>
  /\ UNCHANGED count

(***************************************************************************)
(* One modem.                                                              *)
(***************************************************************************)
Start(m) ==
  /\ m \notin stopping
  /\ Go(m, "off", "load")
  /\ UNCHANGED <<stopping, again, table, list, kept, clac, broken>>

\* at_commands_init()
Load(m) ==
  /\ Go(m, "load", "register")
  /\ at_load_plugins
  /\ UNCHANGED <<stopping, again, table, kept, clac, broken>>

\* at_instantiate_plugins(): without memory for the table no plugin is.
Instantiate(m) ==
  /\ Go(m, "register", "live")
  /\ \/ table' = [table EXCEPT ![m] = count]
     \/ "memory" \in Faults /\ table' = [table EXCEPT ![m] = 0]
  /\ UNCHANGED <<stopping, again, list, kept, clac, broken>>

\* AT+CLAC, from pthread_mutex_lock() on, which is no cancellation point.
Clac(m) ==
  /\ Go(m, "live", "clac")
  /\ UNCHANGED <<stopping, again, table, list, kept, clac, broken>>

\* Mutated: the walk is not serialised.
ClacLock_Open(m) ==
  /\ Go(m, "clac", "walk")
  /\ lock' = m /\ clac_modem' = m
  /\ UNCHANGED <<stopping, again, table, list, kept, broken>>

ClacLock(m) ==
  /\ Go(m, "clac", "walk")
  /\ lock = NoModem
  /\ lock' = m /\ clac_modem' = m
  /\ UNCHANGED <<stopping, again, table, list, kept, broken>>

ClacUnlock(m) ==
  /\ Go(m, "walk", "live")
  /\ lock' = NoModem /\ clac_modem' = NoModem
  /\ UNCHANGED <<stopping, again, table, list, kept, broken>>

\* The bank is dropped to be replaced (ATZ) or because the modem hangs up.
Drop(m) ==
  /\ Go(m, "live", "deinit")
  /\ again' \in {again, again \cup {m}}
  /\ UNCHANGED <<stopping, table, list, kept, clac, broken>>

\* The modem is being stopped: the thread is cancelled where it prints or reads. No
\* handler releases the lock of AT+CLAC.
Cancelled(m) ==
  /\ m \in stopping
  /\ pc[m] \in {"live", "walk"}
  /\ pc' = [pc EXCEPT ![m] = "deinit"]
  /\ again' = again \ {m}
  /\ UNCHANGED <<stopping, table, list, kept, clac, broken>>

\* at_deinstantiate_plugins() goes through the table as long as the list now is.
Deinstantiate(m) ==
  /\ Go(m, "deinit", "unload")
  /\ broken' = IF count > table[m] THEN "out_of_table" ELSE broken
  /\ table' = [table EXCEPT ![m] = 0]
  /\ UNCHANGED <<stopping, again, list, kept, clac>>

Unload(m) ==
  /\ pc[m] = "unload"
  /\ at_unload_plugins
  /\ pc' = [pc EXCEPT ![m] = IF m \in again THEN "load" ELSE "off"]
  /\ again' = again \ {m}
  /\ UNCHANGED <<stopping, table, kept, clac>>

\* at_modem_stop(): pthread_cancel(), then pthread_join().
Stop(m) ==
  /\ m \notin stopping
  /\ pc[m] # "off"
  /\ stopping' = stopping \cup {m}
  /\ UNCHANGED <<pc, again, table, list, kept, clac, broken>>

Stopped(m) ==
  /\ m \in stopping
  /\ pc[m] = "off"
  /\ stopping' = stopping \ {m}
  /\ UNCHANGED <<pc, again, table, list, kept, clac, broken>>

\* The program preloads the plugins, and lets go of them as often.
Preload ==
  /\ kept < MaxKept
  /\ kept' = kept + 1
  /\ at_load_plugins
  /\ UNCHANGED <<pc, stopping, again, table, clac, broken>>

Release ==
  /\ kept > 0
  /\ kept' = kept - 1
  /\ at_unload_plugins
  /\ UNCHANGED <<pc, stopping, again, table, clac>>

Init ==
  /\ pc = [m \in Modems |-> "off"]
  /\ stopping = {} /\ again = {}
  /\ table = [m \in Modems |-> 0]
  /\ refs = 0 /\ count = 0 /\ modules = "null" /\ kept = 0
  /\ lock = NoModem /\ clac_modem = NoModem
  /\ broken = "no"

\* What a reader thread does without waiting for the terminal.
Runs(m) ==
  \/ Load(m) \/ Instantiate(m) \/ ClacLock(m) \/ ClacUnlock(m)
  \/ Cancelled(m) \/ Deinstantiate(m) \/ Unload(m) \/ Stopped(m)

Next ==
  \/ \E m \in Modems : Start(m) \/ Runs(m) \/ Clac(m) \/ Drop(m) \/ Stop(m)
  \/ Preload \/ Release

\* Threads run, and the lock of AT+CLAC is obtained if it is released again and again.
Safety == Init /\ [][Next]_vars
Spec == Safety /\ \A m \in Modems : WF_vars(Runs(m)) /\ SF_vars(ClacLock(m))

-----------------------------------------------------------------------------
\* The values of the variables.
TypeOK ==
  /\ pc \in [Modems -> {"off", "load", "register", "live", "clac", "walk", "deinit", "unload"}]
  /\ stopping \subseteq Modems /\ again \subseteq Modems
  /\ table \in [Modems -> Nat]
  /\ refs \in Nat /\ count \in Nat /\ modules \in {"null", "live", "freed"}
  /\ kept \in Nat
  /\ lock \in Modems \cup {NoModem} /\ clac_modem \in Modems \cup {NoModem}
  /\ broken \in {"no", "double_free", "out_of_table"}

\* Modems that have called at_load_plugins() and not yet at_unload_plugins().
Users == {m \in Modems : pc[m] \notin {"off", "load"}}

\* Every reference is somebody's: the assertion refs != 0 (plugins.c:178) holds, and the
\* plugins are unloaded when the last one that uses them lets go, neither before nor never.
ReferencesCounted == refs = Cardinality(Users) + kept

\* While a bank has plugins in it, their code stays loaded and the list keeps its length,
\* so that at_deinstantiate_plugins() unregisters exactly what was registered.
BanksKeepPlugins == \A m \in Modems : table[m] > 0 => modules = "live" /\ count = table[m]

\* One walk of the command tree at a time, and it prints to the modem that asked: the
\* assertion clac_modem == NULL (commands.c:492) holds whoever is cancelled.
OneWalk ==
  /\ lock = NoModem => clac_modem = NoModem
  /\ \A m \in Modems : pc[m] = "walk" => lock = m /\ clac_modem = m

\* A list that was loaded is freed once. Only a list that could not be read again, and is
\* empty, leaves the pointer to the old one to be freed a second time (plugins.c:91, 142).
LoadedListFreedOnce == [][broken' = "double_free" /\ broken # "double_free" => count = 0]_vars

-----------------------------------------------------------------------------
\* at_modem.h:79: at_modem_stop() "Stops and destroys an AT modem." So it returns.
StopReturns == \A m \in Modems : m \in stopping ~> m \notin stopping
=============================================================================
