------------------------------- MODULE Modem -------------------------------
(***************************************************************************)
(* One AT modem instance (src/at_modem.c) and the threads that share it:   *)
(*                                                                         *)
(*   Dte        the reader thread, dte_thread(): it reads the terminal,    *)
(*              runs the commands of a line and prints the final result;   *)
(*   Reporters  plugin threads that a command starts and that the plugin   *)
(*              cancels and joins (the +CMER thread of plugins/input.c);   *)
(*   Callbacks  the D-Bus dispatch threads, which run the plugins' signal  *)
(*              filters and which nobody cancels or joins (src/dbus.c);    *)
(*   main       the owner (usb/acm.c, src/cli.c): it starts the modem,     *)
(*              waits for a signal, stops the modem and may start another. *)
(*                                                                         *)
(* A message to the terminal is written in two steps, "w1" and "w2",       *)
(* because write() may be partial: a thread at "w2" has begun a message    *)
(* and not finished it. A terminal sends units of input: a unit is a line  *)
(* up to its carriage return, or a text ended by Ctrl+Z or ESC.            *)
(***************************************************************************)
EXTENDS Naturals, FiniteSets

CONSTANTS
  Dte,          \* the reader thread
  Reporters,    \* joined plugin threads
  Callbacks,    \* D-Bus dispatch threads
  NoThread,     \* no owner, no victim
  MaxRequests,  \* bound: commands on one command line
  MaxInput,     \* bound: units of input one read() returns
  Daemon        \* TRUE: usb/acm.c (restarts on SIGHUP), FALSE: src/cli.c

ASSUME ThreadAssumption ==
  /\ Dte \notin Reporters \cup Callbacks
  /\ Reporters \cap Callbacks = {}
  /\ NoThread \notin {Dte} \cup Reporters \cup Callbacks

ASSUME BoundAssumption ==
  /\ MaxRequests \in Nat
  /\ MaxInput \in Nat \ {0}
  /\ Daemon \in BOOLEAN

VARIABLES
  pc,         \* where each thread is
  owner,      \* m->lock, a recursive mutex: its owner ...
  depth,      \* ... and how many times the owner has locked it
  data, hungup, reset, echo, quiet,  \* the bit fields of struct at_modem
  cancelled,  \* threads with a pthread_cancel() they have not acted on
  cont,       \* Dte: where to go after a message, or after at_commands_deinit()
  left,       \* Dte: commands of the current line not run yet
  res,        \* Dte: result of the line so far
  inbuf,      \* Dte: units in m->in_buf
  victim,     \* Dte: the reporter that a +CMER command is replacing
  bank,       \* m->commands: "none", "live", or "dying" while plugins unregister
  eof,        \* the terminal has closed its end
  main,       \* where the owner is
  sigs,       \* signals pending for sigwait()
  restart     \* the signal that ended the wait was SIGHUP

flags     == <<data, hungup, reset, echo, quiet>>
mutex     == <<owner, depth>>
line      == <<left, res, victim>>
dteVars   == <<cont, line, inbuf>>
ownerVars == <<main, sigs, restart>>
worldVars == <<bank, eof, ownerVars>>
vars == <<pc, mutex, flags, cancelled, dteVars, worldVars>>

Senders == Reporters \cup Callbacks
Threads == {Dte} \cup Senders

DteLocs == {"off", "loop", "deinit", "join", "init", "getchar", "lock", "w1", "w2",
            "next", "reply", "kill", "tread", "connect", "cdata", "relay", "hangup",
            "done"}
SenderLocs == {"off", "idle", "want", "held", "w1", "w2", "stray"}

Go(t, loc) == pc' = [pc EXCEPT ![t] = loc]
DteAt(loc) == pc[Dte] = loc

(***************************************************************************)
(* The recursive mutex m->lock.                                            *)
(***************************************************************************)
\* Mutated: the mutex excludes nobody.
Lock_Open(t) == owner' = t /\ depth' = depth + 1

Lock(t) ==
  /\ owner \in {NoThread, t}
  /\ owner' = t
  /\ depth' = depth + 1

Unlock ==
  /\ depth' = depth - 1
  /\ owner' = IF depth = 1 THEN NoThread ELSE owner

\* Mutated: the cleanup handlers are missing.
UnlockAll_Missing(t) == UNCHANGED mutex

\* The cancellation handlers that a thread has pushed unlock as often as it locked.
UnlockAll(t) ==
  IF owner = t THEN owner' = NoThread /\ depth' = 0 ELSE UNCHANGED mutex

(***************************************************************************)
(* The reader thread. Say(next) enters at_intermediate_blob() and goes to  *)
(* next when the message is out; Return(r) ends a command handler.         *)
(***************************************************************************)
Say(next) == Go(Dte, "lock") /\ cont' = next

Return(r) == Go(Dte, "next") /\ res' = r

\* at_reset(): every session parameter to its default, the hang-up request included.
ResetFlags ==
  /\ echo' = TRUE
  /\ quiet' = FALSE
  /\ data' = FALSE
  /\ hungup' = FALSE
  /\ reset' = TRUE

\* The test of the main loop, and the start of a pending reset.
Loop ==
  /\ DteAt("loop")
  /\ IF hungup THEN Go(Dte, "hangup") /\ UNCHANGED cont
     ELSE IF reset THEN Go(Dte, "deinit") /\ cont' = "init"
     ELSE Go(Dte, "getchar") /\ UNCHANGED cont
  /\ UNCHANGED <<mutex, flags, cancelled, line, inbuf, worldVars>>

\* at_commands_deinit(): nothing without a bank. Otherwise the plugins unregister: their
\* signal filters go, their threads are cancelled. Cancellation of Dte is disabled.
Deinit ==
  /\ DteAt("deinit")
  /\ IF bank = "none"
     THEN Go(Dte, cont) /\ cont' = "loop" /\ UNCHANGED <<cancelled, bank>>
     ELSE /\ bank' = "dying"
          /\ cancelled' = cancelled \cup {r \in Reporters : pc[r] # "off"}
          /\ Go(Dte, "join") /\ UNCHANGED cont
  /\ UNCHANGED <<mutex, flags, line, inbuf, eof, ownerVars>>

\* Mutated: the bank is freed without joining the threads.
Join_Skipped ==
  /\ DteAt("join")
  /\ bank' = "none"
  /\ Go(Dte, cont) /\ cont' = "loop"
  /\ UNCHANGED <<mutex, flags, cancelled, line, inbuf, eof, ownerVars>>

\* ... and are joined, before the bank is freed.
Join ==
  /\ DteAt("join")
  /\ \A r \in Reporters : pc[r] = "off"
  /\ bank' = "none"
  /\ Go(Dte, cont) /\ cont' = "loop"
  /\ UNCHANGED <<mutex, flags, cancelled, line, inbuf, eof, ownerVars>>

\* at_commands_init(), or its failure to allocate the bank.
Reinit ==
  /\ DteAt("init")
  /\ bank' \in {"live", "none"}
  /\ reset' = FALSE
  /\ Go(Dte, "getchar")
  /\ UNCHANGED <<mutex, data, hungup, echo, quiet, cancelled, dteVars, eof,
                 ownerVars>>

\* at_getchar() with an empty buffer, at the main loop or in at_read_text(): read() is
\* a cancellation point, and what it returns is echoed at once.
Reading == pc[Dte] \in {"getchar", "tread"} /\ inbuf = 0

Read ==
  /\ Reading
  /\ Dte \notin cancelled
  /\ ~eof
  /\ inbuf' \in 1..MaxInput
  /\ IF echo THEN Say(pc[Dte]) ELSE UNCHANGED <<pc, cont>>
  /\ UNCHANGED <<mutex, flags, cancelled, line, worldVars>>

\* End of the input: the main loop ends, at_read_text() gives up on the text.
ReadEof ==
  /\ Reading
  /\ Dte \notin cancelled
  /\ eof
  /\ IF DteAt("getchar") THEN Go(Dte, "hangup") /\ UNCHANGED res ELSE Return("ERROR")
  /\ UNCHANGED <<mutex, flags, cancelled, cont, left, victim, inbuf, worldVars>>

\* at_getchar() and at_parser_push() over a unit in the buffer: a command line, which
\* may be empty, or something the parser drops.
TakeLine ==
  /\ DteAt("getchar")
  /\ inbuf > 0
  /\ inbuf' = inbuf - 1
  /\ \/ /\ left' \in 0..MaxRequests
        /\ res' = "OK"
        /\ Go(Dte, "next")
     \/ Go(Dte, "loop") /\ UNCHANGED <<left, res>>
  /\ UNCHANGED <<mutex, flags, cancelled, cont, victim, worldVars>>

\* at_read_text() over a unit in the buffer: the text ends (Ctrl+Z, ESC, no memory) or
\* another line is prompted for.
TakeText ==
  /\ DteAt("tread")
  /\ inbuf > 0
  /\ inbuf' = inbuf - 1
  /\ \/ Say("tread") /\ UNCHANGED res
     \/ \E r \in {"OK", "ERROR"} : Return(r) /\ UNCHANGED cont
  /\ UNCHANGED <<mutex, flags, cancelled, left, victim, worldVars>>

(***************************************************************************)
(* at_intermediate_blob() in the reader thread.                            *)
(***************************************************************************)
DteLock ==
  /\ DteAt("lock")
  /\ Lock(Dte)
  /\ Go(Dte, "w1")
  /\ UNCHANGED <<flags, cancelled, dteVars, worldVars>>

DteBegin ==
  /\ DteAt("w1")
  /\ Dte \notin cancelled
  /\ Go(Dte, "w2")
  /\ UNCHANGED <<mutex, flags, cancelled, dteVars, worldVars>>

\* The message is out, or write() failed: no caller looks at the difference.
DteEnd ==
  /\ DteAt("w2") \/ (DteAt("w1") /\ Dte \notin cancelled)
  /\ Unlock
  /\ Go(Dte, cont) /\ cont' = "loop"
  /\ UNCHANGED <<flags, cancelled, line, inbuf, worldVars>>

(***************************************************************************)
(* process_line(): the commands of a line until one fails, then one reply. *)
(***************************************************************************)
\* The next command of the line is about to run, on a bank.
Request ==
  /\ DteAt("next")
  /\ left > 0 /\ res = "OK"
  /\ bank = "live"
  /\ left' = left - 1
  /\ UNCHANGED <<mutex, inbuf, worldVars>>

\* A handler that touches neither the terminal nor the session (most settings).
RunSet ==
  /\ Request
  /\ \E r \in {"OK", "ERROR"} : Return(r)
  /\ UNCHANGED <<cancelled, flags, cont, victim>>

\* ATE and ATQ (handle_bool()).
RunEcho ==
  /\ Request
  /\ echo' \in BOOLEAN
  /\ Return("OK")
  /\ UNCHANGED <<cancelled, data, hungup, reset, quiet, cont, victim>>

RunQuiet ==
  /\ Request
  /\ quiet' \in BOOLEAN
  /\ Return("OK")
  /\ UNCHANGED <<cancelled, data, hungup, reset, echo, cont, victim>>

\* ATZ and AT&F (handle_reset()): the bank is only replaced once the line has ended.
RunReset ==
  /\ Request
  /\ ResetFlags
  /\ Return("OK")
  /\ UNCHANGED <<cancelled, cont, victim>>

\* A handler that calls at_hangup().
RunHangup ==
  /\ Request
  /\ hungup' = TRUE
  /\ Return("OK")
  /\ UNCHANGED <<cancelled, data, reset, echo, quiet, cont, victim>>

\* A handler that prints an intermediate result.
RunGet ==
  /\ Request
  /\ Say("next")
  /\ UNCHANGED <<cancelled, flags, res, victim>>

\* A handler that reads a text: at_read_text() prompts first.
RunText ==
  /\ Request
  /\ Say("tread")
  /\ UNCHANGED <<cancelled, flags, res, victim>>

\* A handler that calls at_connect().
RunConnect ==
  /\ Request
  /\ Go(Dte, "connect")
  /\ UNCHANGED <<cancelled, flags, cont, res, victim>>

\* Mutated: the old thread is joined without being cancelled.
RunReport_NoCancel ==
  /\ Request
  /\ victim' \in Reporters
  /\ Go(Dte, "kill")
  /\ UNCHANGED <<cancelled, flags, cont, res>>

\* set_cmer(): the old thread, if any, is cancelled. Cancellation of Dte is disabled.
RunReport ==
  /\ Request
  /\ \E r \in Reporters :
       /\ victim' = r
       /\ cancelled' = IF pc[r] # "off" THEN cancelled \cup {r} ELSE cancelled
  /\ Go(Dte, "kill")
  /\ UNCHANGED <<flags, cont, res>>

\* ... joined, and perhaps replaced by a new one.
Respawn ==
  /\ DteAt("kill")
  /\ pc[victim] = "off"
  /\ \E r \in {"OK", "ERROR"}, start \in BOOLEAN :
       /\ res' = r
       /\ pc' = [pc EXCEPT ![Dte] = "next",
                           ![victim] = IF start /\ r = "OK" THEN "idle" ELSE "off"]
  /\ victim' = NoThread
  /\ UNCHANGED <<mutex, flags, cancelled, cont, left, inbuf, worldVars>>

\* The line ends: every command has run, one has failed, the rest is malformed, or there
\* is no bank. What is left of the line is dropped.
LineEnds ==
  /\ DteAt("next")
  /\ res' = IF left > 0 THEN "ERROR" ELSE res
  /\ left' = 0
  /\ Go(Dte, "reply")
  /\ UNCHANGED <<mutex, flags, cancelled, cont, victim, inbuf, worldVars>>

\* at_print_reply()
Reply ==
  /\ DteAt("reply")
  /\ IF quiet THEN Go(Dte, "loop") /\ UNCHANGED cont ELSE Say("loop")
  /\ res' = "OK"
  /\ UNCHANGED <<mutex, flags, cancelled, left, victim, inbuf, worldVars>>

(***************************************************************************)
(* at_connect_mtu(): the lock is held from before CONNECT is printed until *)
(* data mode ends. What the relay loop does with the data is the subject   *)
(* of module DataRelay.                                                    *)
(***************************************************************************)
ConnectNoMemory ==
  /\ DteAt("connect")
  /\ \E r \in {"OK", "ERROR"} : Return(r)
  /\ UNCHANGED <<mutex, flags, cancelled, cont, left, victim, inbuf, worldVars>>

\* Mutated: data mode is entered without the lock.
Connect_Unlocked ==
  /\ DteAt("connect")
  /\ inbuf' = 0
  /\ IF quiet THEN Go(Dte, "cdata") /\ UNCHANGED cont ELSE Say("cdata")
  /\ UNCHANGED <<mutex, flags, cancelled, line, worldVars>>

Connect ==
  /\ DteAt("connect")
  /\ Lock(Dte)
  /\ inbuf' = 0
  /\ IF quiet THEN Go(Dte, "cdata") /\ UNCHANGED cont ELSE Say("cdata")
  /\ UNCHANGED <<flags, cancelled, line, worldVars>>

EnterData ==
  /\ DteAt("cdata")
  /\ data' = TRUE
  /\ Go(Dte, "relay")
  /\ UNCHANGED <<mutex, hungup, reset, echo, quiet, cancelled, dteVars, worldVars>>

\* "+++", the end of a stream or an error.
LeaveData ==
  /\ DteAt("relay")
  /\ Dte \notin cancelled
  /\ data' = FALSE
  /\ Unlock
  /\ \E r \in {"OK", "ERROR"} : Return(r)
  /\ UNCHANGED <<hungup, reset, echo, quiet, cancelled, cont, left, victim, inbuf, worldVars>>

(***************************************************************************)
(* The end of the reader thread, by itself or by at_modem_stop().          *)
(***************************************************************************)
\* The hang-up callback sends SIGHUP to the owner.
Hangup ==
  /\ DteAt("hangup")
  /\ sigs' = sigs \cup {"HUP"}
  /\ Go(Dte, "deinit") /\ cont' = "done"
  /\ UNCHANGED <<mutex, flags, cancelled, line, inbuf, bank, eof, main, restart>>

\* Dte acts on a cancellation at a cancellation point: the handlers it has pushed unlock
\* the mutex, then dte_cleanup() runs. Data mode is not left.
DteCancelled ==
  /\ Dte \in cancelled
  /\ Reading \/ pc[Dte] \in {"w1", "w2", "relay"}
  /\ UnlockAll(Dte)
  /\ Go(Dte, "deinit") /\ cont' = "done"
  /\ cancelled' = cancelled \ {Dte}
  /\ left' = 0 /\ res' = "OK"
  /\ UNCHANGED <<flags, victim, inbuf, worldVars>>

(***************************************************************************)
(* The threads that send unsolicited messages: at_unsolicited_blob().      *)
(***************************************************************************)
\* A reporter has something to report; a callback runs while there are filters
\* left to unregister.
Report(s) ==
  /\ pc[s] = "idle"
  /\ s \in Reporters => s \notin cancelled
  /\ s \in Callbacks => bank # "none"
  /\ Go(s, "want")
  /\ UNCHANGED <<mutex, flags, cancelled, dteVars, worldVars>>

\* pthread_mutex_lock() is not a cancellation point.
SenderLock(s) ==
  /\ pc[s] = "want"
  /\ Lock(s)
  /\ Go(s, "held")
  /\ UNCHANGED <<flags, cancelled, dteVars, worldVars>>

\* Mutated: the sender waits for the end of data mode, with the lock.
Discard_Waits(s) ==
  /\ pc[s] = "held"
  /\ ~data
  /\ Unlock
  /\ Go(s, "idle")
  /\ UNCHANGED <<flags, cancelled, dteVars, worldVars>>

\* In data mode the message is discarded: at_unsolicited_blob() returns -1.
Discard(s) ==
  /\ pc[s] = "held"
  /\ data
  /\ Unlock
  /\ Go(s, "idle")
  /\ UNCHANGED <<flags, cancelled, dteVars, worldVars>>

\* Mutated: the data flag is not looked at.
Accept_Always(s) ==
  /\ pc[s] = "held"
  /\ Go(s, "w1")
  /\ UNCHANGED <<mutex, flags, cancelled, dteVars, worldVars>>

Accept(s) ==
  /\ pc[s] = "held"
  /\ ~data
  /\ Go(s, "w1")
  /\ UNCHANGED <<mutex, flags, cancelled, dteVars, worldVars>>

SenderBegin(s) ==
  /\ pc[s] = "w1"
  /\ s \notin cancelled
  /\ Go(s, "w2")
  /\ UNCHANGED <<mutex, flags, cancelled, dteVars, worldVars>>

\* The message is out, or write() failed.
SenderEnd(s) ==
  /\ pc[s] = "w2" \/ (pc[s] = "w1" /\ s \notin cancelled)
  /\ Unlock
  /\ Go(s, "idle")
  /\ UNCHANGED <<flags, cancelled, dteVars, worldVars>>

\* A reporter acts on its cancellation, in poll() or in write().
ReporterCancelled(r) ==
  /\ r \in cancelled
  /\ pc[r] \in {"idle", "w1", "w2"}
  /\ UnlockAll(r)
  /\ Go(r, "off")
  /\ cancelled' = cancelled \ {r}
  /\ UNCHANGED <<flags, dteVars, worldVars>>

(***************************************************************************)
(* The owner, and the outside world.                                       *)
(***************************************************************************)
\* at_modem_start(): a fresh struct at_modem, and its thread.
Start ==
  /\ main = "off"
  /\ main' = "sigwait"
  /\ ResetFlags
  /\ Go(Dte, "loop")
  /\ inbuf' = 0
  /\ eof' = FALSE
  /\ UNCHANGED <<mutex, cancelled, cont, line, bank, sigs, restart>>

\* The terminal cannot be opened, or memory or the thread cannot be had.
StartFails ==
  /\ main = "off"
  /\ main' = "exit"
  /\ UNCHANGED <<pc, mutex, flags, cancelled, dteVars, bank, eof, sigs, restart>>

Sigwait ==
  /\ main = "sigwait"
  /\ \E s \in sigs : sigs' = sigs \ {s} /\ restart' = (Daemon /\ s = "HUP")
  /\ main' = "cancel"
  /\ UNCHANGED <<pc, mutex, flags, cancelled, dteVars, bank, eof>>

\* at_modem_stop(): pthread_cancel() ...
Stop ==
  /\ main = "cancel"
  /\ main' = "join"
  /\ cancelled' = cancelled \cup {Dte}
  /\ UNCHANGED <<pc, mutex, flags, dteVars, bank, eof, sigs, restart>>

\* ... pthread_join(), and the modem is freed. A sender that is still inside
\* at_unsolicited_blob() is left with a modem that does not exist.
Free ==
  /\ main = "join"
  /\ DteAt("done")
  /\ pc' = [t \in Threads |->
              IF t = Dte THEN "off"
              ELSE IF pc[t] \in {"want", "held", "w1", "w2"} THEN "stray" ELSE pc[t]]
  /\ owner' = NoThread /\ depth' = 0
  /\ cancelled' = cancelled \ {Dte}
  /\ main' = IF restart THEN "off" ELSE "exit"
  /\ restart' = FALSE
  /\ UNCHANGED <<flags, dteVars, bank, eof, sigs>>

\* What such a thread does is undefined; here it is lucky and comes back.
Stray(s) ==
  /\ pc[s] = "stray"
  /\ Go(s, "idle")
  /\ UNCHANGED <<mutex, flags, cancelled, dteVars, worldVars>>

\* The terminal closes; somebody sends the process a signal; the process has exited.
Close ==
  /\ main \in {"sigwait", "cancel", "join"}
  /\ ~eof
  /\ eof' = TRUE
  /\ UNCHANGED <<pc, mutex, flags, cancelled, dteVars, bank, ownerVars>>

Kill(s) ==
  /\ main # "exit"
  /\ s \notin sigs
  /\ sigs' = sigs \cup {s}
  /\ UNCHANGED <<pc, mutex, flags, cancelled, dteVars, bank, eof, main, restart>>

Exited == main = "exit" /\ UNCHANGED vars

-----------------------------------------------------------------------------
Init ==
  /\ pc = [t \in Threads |-> IF t \in Callbacks THEN "idle" ELSE "off"]
  /\ owner = NoThread /\ depth = 0
  /\ data = FALSE /\ hungup = FALSE /\ reset = TRUE /\ echo = TRUE /\ quiet = FALSE
  /\ cancelled = {}
  /\ cont = "loop"
  /\ left = 0 /\ res = "OK" /\ victim = NoThread
  /\ inbuf = 0
  /\ bank = "none"
  /\ eof = FALSE
  /\ main = "off" /\ sigs = {} /\ restart = FALSE

\* What Dte does without waiting for the terminal or for the far end of a connection.
DteRuns ==
  \/ Loop \/ Deinit \/ Join \/ Reinit \/ ReadEof \/ TakeLine \/ TakeText
  \/ DteBegin \/ DteEnd
  \/ RunSet \/ RunEcho \/ RunQuiet \/ RunReset \/ RunHangup \/ RunGet \/ RunText
  \/ RunConnect \/ RunReport \/ Respawn \/ LineEnds \/ Reply
  \/ ConnectNoMemory \/ EnterData \/ Hangup \/ DteCancelled

\* What Dte does once it gets the lock.
DteLocks == DteLock \/ Connect

SenderRuns(s) ==
  \/ Discard(s) \/ Accept(s) \/ SenderBegin(s) \/ SenderEnd(s) \/ Stray(s)
  \/ s \in Reporters /\ ReporterCancelled(s)

MainRuns == Start \/ StartFails \/ Sigwait \/ Stop \/ Free

Next ==
  \/ DteRuns \/ DteLocks \/ Read \/ LeaveData
  \/ \E s \in Senders : Report(s) \/ SenderLock(s) \/ SenderRuns(s)
  \/ MainRuns
  \/ Close
  \/ \E s \in {"HUP", "TERM"} : Kill(s)
  \/ Exited

\* Threads run, the terminal drains what is written to it, and a mutex that is released
\* again and again is obtained in the end. The terminal need not send anything, a
\* connection need not end, and nobody need report.
Fairness ==
  /\ WF_vars(DteRuns)
  /\ SF_vars(DteLocks)
  /\ \A s \in Senders : WF_vars(SenderRuns(s)) /\ SF_vars(SenderLock(s))
  /\ WF_vars(MainRuns)

Safety == Init /\ [][Next]_vars
Spec == Safety /\ Fairness

-----------------------------------------------------------------------------
\* The values of the variables.
TypeOK ==
  /\ pc \in [Threads -> DteLocs \cup SenderLocs]
  /\ pc[Dte] \in DteLocs
  /\ \A s \in Senders : pc[s] \in SenderLocs
  /\ owner \in Threads \cup {NoThread}
  /\ depth \in 0..2
  /\ data \in BOOLEAN /\ hungup \in BOOLEAN /\ reset \in BOOLEAN
  /\ echo \in BOOLEAN /\ quiet \in BOOLEAN
  /\ cancelled \subseteq {Dte} \cup Reporters
  /\ cont \in DteLocs
  /\ left \in 0..MaxRequests
  /\ res \in {"OK", "ERROR"}
  /\ inbuf \in 0..MaxInput
  /\ victim \in Reporters \cup {NoThread}
  /\ bank \in {"none", "live", "dying"}
  /\ eof \in BOOLEAN
  /\ main \in {"off", "sigwait", "cancel", "join", "exit"}
  /\ sigs \subseteq {"HUP", "TERM"}
  /\ restart \in BOOLEAN

Writing == {"w1", "w2"}
Talking == {t \in Threads : pc[t] = "w2"}

\* Messages are whole: of all the threads of the process at most one is in the middle of
\* a message to the terminal, whatever was cancelled before (at_modem.c, m->lock).
MessagesWhole == \A t, u \in Talking : t = u

\* Once the data flag is up no thread writes a message: neither while the connection
\* lasts, nor after it was cut by at_modem_stop() (the assertions !m->data at
\* at_modem.c:318 and 394, and the test of m->data at 171).
DataModeExclusive == data => \A t \in Threads : pc[t] \notin Writing

\* The cleanup handlers leave nothing behind: when the reader thread unregisters the
\* plugins to end, it does not hold the mutex that their threads may be waiting for, and
\* the mutex that at_modem_stop() destroys is free unless a callback still uses it.
LockLeftFree ==
  /\ (pc[Dte] \in {"deinit", "join"} \/ DteAt("done")) => owner # Dte
  /\ (DteAt("done") /\ owner # NoThread) => owner \in Callbacks

\* A thread that a plugin joins never outlives the modem it reports to (input.c:227-232,
\* reached from at_plugin_unregister()).
ReportersGone ==
  /\ \A r \in Reporters : pc[r] # "stray"
  /\ DteAt("done") => \A r \in Reporters : pc[r] = "off"

(***************************************************************************)
(* The modem as the terminal sees it.                                      *)
(***************************************************************************)
Ending == \/ pc[Dte] \in {"off", "hangup", "done"}
          \/ pc[Dte] \in {"deinit", "join"} /\ cont = "done"
Answering == \/ pc[Dte] \in {"next", "reply", "kill", "tread", "connect", "cdata"}
             \/ pc[Dte] \in {"lock", "w1", "w2"} /\ cont # "getchar"

Mode == IF Ending THEN "closed"
        ELSE IF DteAt("relay") THEN "data"
        ELSE IF Answering THEN "busy" ELSE "command"

D == INSTANCE Dialogue WITH Modem <- Dte, Others <- Senders, mode <- Mode,
                            cut <- Ending /\ data, talking <- Talking

\* The modem, its plugin threads and its owner implement the dialogue.
DialogueSpec == D!Spec

(***************************************************************************)
(* Liveness.                                                               *)
(***************************************************************************)
\* at_modem_stop() returns, whatever the reader thread and the plugin threads were doing
\* when it was called (at_modem.c:682-683).
StopReturns == main = "join" ~> main # "join"

\* A command line is over in the end, unless it has to wait for the terminal (a text), for
\* a connection, or is cut short.
LineEndsInTheEnd ==
  DteAt("next") ~> \/ pc[Dte] \in {"tread", "relay", "loop", "hangup"}
                   \/ Ending

\* If connections end, an unsolicited message does not wait for ever.
MessagesGoOut ==
  ([]<>~DteAt("relay")) => \A s \in Senders : pc[s] = "want" ~> pc[s] # "want"
=============================================================================
