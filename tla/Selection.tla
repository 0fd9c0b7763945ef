----------------------------- MODULE Selection -----------------------------
(***************************************************************************)
(* The file with the modem of AT+CSUS (src/plugins/ofono/core.c). A        *)
(* process reads it when it loads the oFono plug-in, and writes it after   *)
(* AT+CSUS, under a lock that only writers take.                           *)
(***************************************************************************)
EXTENDS Naturals, Sequences

CONSTANTS
  Processes,
  Names,      \* p->modemv, with indices from 1: different sequences of characters
  MaxWrites,  \* bound: selections
  Null        \* no file, or nobody

VARIABLES
  file,    \* what the file has, or Null
  lock,    \* who has locked it, or Null
  pc,      \* "out", "idle", or the next call of modem_write_current()
  modem,   \* p->modem
  writes,  \* selections so far
  saved,   \* history: the modem that was saved last
  found    \* history: the modem that a process found, and those that it should have found one of

vars == <<file, lock, pc, modem, writes, saved, found>>

Go(i, from, to) == pc[i] = from /\ pc' = [pc EXCEPT ![i] = to]

\* modem_read_current(): the modem of that name, the first one if there is none.
modem_read_current ==
  LET known == {n \in DOMAIN Names : Names[n] = file}
  IN  IF known = {} THEN 1 ELSE CHOOSE n \in known : TRUE

BeingWritten == {modem[i] : i \in {j \in Processes : pc[j] \in {"write", "ftruncate"}}}

at_plugin_register(i) ==
  /\ Go(i, "out", "idle")
  /\ modem' = [modem EXCEPT ![i] = modem_read_current]
  /\ found' = [found EXCEPT ![i] = [modem |-> modem_read_current, among |-> {saved} \cup BeingWritten]]
  /\ UNCHANGED <<file, lock, writes, saved>>

set_csus(i) ==
  /\ Go(i, "idle", "open") /\ writes < MaxWrites
  /\ \E slot \in DOMAIN Names : modem' = [modem EXCEPT ![i] = slot]
  /\ writes' = writes + 1
  /\ UNCHANGED <<file, lock, saved, found>>

\* open() creates the file, and leaves what is in it.
Open(i) ==
  /\ Go(i, "open", "lockf")
  /\ file' = IF file = Null THEN <<>> ELSE file
  /\ UNCHANGED <<lock, modem, writes, saved, found>>

lockf(i) ==
  /\ Go(i, "lockf", "write") /\ lock = Null
  /\ lock' = i
  /\ UNCHANGED <<file, modem, writes, saved, found>>

\* write(), of the name without the nul after it, over what was there.
Write(i) ==
  LET str == Names[modem[i]]
  IN  /\ Go(i, "write", "ftruncate")
      /\ file' = str \o SubSeq(file, Len(str) + 1, Len(file))
      /\ UNCHANGED <<lock, modem, writes, saved, found>>

ftruncate(i) ==
  /\ Go(i, "ftruncate", "close")
  /\ file' = SubSeq(file, 1, Len(Names[modem[i]]))
  /\ saved' = modem[i]
  /\ UNCHANGED <<lock, modem, writes, found>>

\* close() unlocks.
Close(i) ==
  /\ Go(i, "close", "idle")
  /\ lock' = Null
  /\ UNCHANGED <<file, modem, writes, saved, found>>

modem_write_current(i) == Open(i) \/ lockf(i) \/ Write(i) \/ ftruncate(i) \/ Close(i)

Init ==
  /\ file = Null /\ lock = Null
  /\ pc = [i \in Processes |-> "out"] /\ modem = [i \in Processes |-> 1]
  /\ writes = 0 /\ saved = 1
  /\ found = [i \in Processes |-> [modem |-> 1, among |-> {1}]]

Next == \E i \in Processes : at_plugin_register(i) \/ set_csus(i) \/ modem_write_current(i)

Spec == Init /\ [][Next]_vars

\* A process that loads the plug-in finds the modem that was saved before, or the one that is being
\* saved: the writer uses "a cheap trick to avoid races with a process reading the file"
\* (core.c:557-558), the nul after the name; but the nul is not written (core.c:550, 559).
FindsOldOrNew == \A i \in Processes : found[i].modem \in found[i].among
=============================================================================
