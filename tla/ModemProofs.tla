---------------------------- MODULE ModemProofs ----------------------------
(***************************************************************************)
(* Proofs about module Modem, for any number of plugin threads, callback   *)
(* threads, commands on a line and units of input.                         *)
(***************************************************************************)
EXTENDS Modem, TLAPS

(***************************************************************************)
(* The inductive invariant. Holding is the stretch of the reader thread in *)
(* which it has the mutex: around a message, and from before CONNECT is    *)
(* printed until data mode ends.                                           *)
(***************************************************************************)
Holding == \/ pc[Dte] \in {"w1", "w2", "cdata", "relay"}
           \/ pc[Dte] = "lock" /\ cont = "cdata"

Nested == pc[Dte] \in {"w1", "w2"} /\ cont = "cdata"

\* Where a message or at_commands_deinit() may lead.
ContInv ==
  /\ pc[Dte] \in {"lock", "w1", "w2"} =>
       cont \in {"getchar", "tread", "next", "loop", "cdata"}
  /\ pc[Dte] \in {"deinit", "join"} => cont \in {"init", "done"}

\* Who owns the mutex is where the threads are, and its depth is how often.
LockInv ==
  /\ owner = Dte <=> Holding
  /\ \A s \in Senders : owner = s <=> pc[s] \in {"held", "w1", "w2"}
  /\ depth = IF owner = NoThread THEN 0 ELSE IF Nested THEN 2 ELSE 1

\* The data flag is up while the connection lasts, or since it was cut.
DataInv ==
  data => \/ pc[Dte] \in {"relay", "done", "off"}
          \/ pc[Dte] \in {"deinit", "join"} /\ cont = "done"

\* Reporters live no longer than the bank, and the bank no longer than the thread.
BankInv ==
  /\ \A r \in Reporters : pc[r] # "stray"
  /\ bank = "none" => \A r \in Reporters : pc[r] = "off"
  /\ pc[Dte] \in {"init", "done", "off"} => bank = "none"
  /\ pc[Dte] = "kill" => bank = "live" /\ victim \in Reporters

\* The reader thread exists between at_modem_start() and at_modem_stop().
MainInv == main \in {"off", "exit"} <=> pc[Dte] = "off"

IInv ==
  /\ TypeOK
  /\ ContInv
  /\ LockInv
  /\ DataInv
  /\ DataModeExclusive
  /\ BankInv
  /\ MainInv

-----------------------------------------------------------------------------
(***************************************************************************)
(* Initially, and in every step of one of the parties.                     *)
(***************************************************************************)
\* The state in which the process starts satisfies the invariant.
LEMMA InitInv == Init => IInv
  <1> SUFFICES ASSUME Init PROVE IInv
    OBVIOUS
  <1> USE ThreadAssumption DEF Init
  <1>1. /\ pc[Dte] = "off"
        /\ \A r \in Reporters : pc[r] = "off"
        /\ \A c \in Callbacks : pc[c] = "idle"
    BY DEF Threads, Senders
  <1>2. TypeOK
    <2>1. pc \in [Threads -> {"off", "idle"}]
      OBVIOUS
    <2>2. /\ data \in BOOLEAN /\ hungup \in BOOLEAN /\ reset \in BOOLEAN
          /\ echo \in BOOLEAN /\ quiet \in BOOLEAN
          /\ eof \in BOOLEAN /\ restart \in BOOLEAN
      BY Zenon
    <2>3. left \in 0..MaxRequests /\ inbuf \in 0..MaxInput
      BY BoundAssumption
    <2> QED
      BY <1>1, <2>1, <2>2, <2>3 DEF TypeOK, Senders, DteLocs, SenderLocs
  <1>3. ContInv /\ BankInv /\ MainInv
    BY <1>1 DEF ContInv, BankInv, MainInv
  <1>4. LockInv
    BY <1>1 DEF LockInv, Holding, Nested, Senders
  <1>5. DataInv /\ DataModeExclusive
    BY Zenon DEF DataInv, DataModeExclusive
  <1> QED
    BY <1>2, <1>3, <1>4, <1>5 DEF IInv

\* Steps of the main loop of the reader thread.
LEMMA LoopInv ==
  ASSUME IInv
  PROVE  (Loop \/ Deinit \/ Join \/ Reinit \/ Read \/ ReadEof \/ TakeLine \/ TakeText) => IInv'
  <1> USE ThreadAssumption, BoundAssumption DEF IInv, TypeOK, ContInv, LockInv, Holding,
        Nested, DataInv, DataModeExclusive, BankInv, MainInv, Threads, Senders, DteLocs,
        SenderLocs, Writing, Go, DteAt, Say, Return, Lock, Unlock, UnlockAll, flags, mutex,
        line, dteVars, ownerVars, worldVars
  <1>1. CASE Loop
    BY <1>1 DEF Loop
  <1>2. CASE Deinit
    BY <1>2 DEF Deinit
  <1>3. CASE Join
    BY <1>3 DEF Join
  <1>4. CASE Reinit
    BY <1>4 DEF Reinit
  <1>5. CASE Read
    BY <1>5 DEF Read, Reading
  <1>6. CASE ReadEof
    BY <1>6 DEF ReadEof, Reading
  <1>7. CASE TakeLine
    BY <1>7 DEF TakeLine
  <1>8. CASE TakeText
    BY <1>8 DEF TakeText
  <1> QED
    BY <1>1, <1>2, <1>3, <1>4, <1>5, <1>6, <1>7, <1>8

\* Steps of a message of the reader thread.
LEMMA MessageInv ==
  ASSUME IInv
  PROVE  (DteLock \/ DteBegin \/ DteEnd) => IInv'
  <1> USE ThreadAssumption, BoundAssumption DEF IInv, TypeOK, ContInv, LockInv, Holding,
        Nested, DataInv, DataModeExclusive, BankInv, MainInv, Threads, Senders, DteLocs,
        SenderLocs, Writing, Go, DteAt, Say, Return, Lock, Unlock, UnlockAll, flags, mutex,
        line, dteVars, ownerVars, worldVars
  <1>1. CASE DteLock
    BY <1>1 DEF DteLock
  <1>2. CASE DteBegin
    BY <1>2 DEF DteBegin
  <1>3. CASE DteEnd
    BY <1>3 DEF DteEnd
  <1> QED
    BY <1>1, <1>2, <1>3

\* Steps of process_line() and of the command handlers.
LEMMA RunInv ==
  ASSUME IInv
  PROVE  (RunSet \/ RunEcho \/ RunQuiet \/ RunReset \/ RunHangup \/ RunGet \/ RunText \/ RunConnect \/ RunReport \/ Respawn \/ LineEnds \/ Reply) => IInv'
  <1> USE ThreadAssumption, BoundAssumption DEF IInv, TypeOK, ContInv, LockInv, Holding,
        Nested, DataInv, DataModeExclusive, BankInv, MainInv, Threads, Senders, DteLocs,
        SenderLocs, Writing, Go, DteAt, Say, Return, Lock, Unlock, UnlockAll, flags, mutex,
        line, dteVars, ownerVars, worldVars
  <1>1. CASE RunSet
    BY <1>1 DEF RunSet, Request
  <1>2. CASE RunEcho
    BY <1>2 DEF RunEcho, Request
  <1>3. CASE RunQuiet
    BY <1>3 DEF RunQuiet, Request
  <1>4. CASE RunReset
    <2>1. /\ data' = FALSE
          /\ data' \in BOOLEAN /\ hungup' \in BOOLEAN /\ reset' \in BOOLEAN
          /\ echo' \in BOOLEAN /\ quiet' \in BOOLEAN
      BY <1>4, Zenon DEF RunReset, ResetFlags
    <2>2. /\ pc' = [pc EXCEPT ![Dte] = "next"] /\ pc[Dte] = "next"
          /\ left' \in 0..MaxRequests /\ res' = "OK"
          /\ UNCHANGED <<mutex, cancelled, cont, victim, inbuf, worldVars>>
      BY <1>4 DEF RunReset, Request
    <2>3. (ContInv /\ LockInv /\ BankInv /\ MainInv)'
      BY <2>2
    <2>4. (DataInv /\ DataModeExclusive)'
      BY <2>1, Zenon
    <2>5. TypeOK'
      <3> HIDE DEF ContInv, LockInv, DataInv, DataModeExclusive, BankInv, MainInv
      <3> QED
        BY <2>1, <2>2
    <2> QED
      BY <2>3, <2>4, <2>5
  <1>5. CASE RunHangup
    BY <1>5 DEF RunHangup, Request
  <1>6. CASE RunGet
    BY <1>6 DEF RunGet, Request
  <1>7. CASE RunText
    BY <1>7 DEF RunText, Request
  <1>8. CASE RunConnect
    BY <1>8 DEF RunConnect, Request
  <1>9. CASE RunReport
    BY <1>9 DEF RunReport, Request
  <1>10. CASE Respawn
    BY <1>10 DEF Respawn
  <1>11. CASE LineEnds
    BY <1>11 DEF LineEnds
  <1>12. CASE Reply
    BY <1>12 DEF Reply
  <1> QED
    BY <1>1, <1>2, <1>3, <1>4, <1>5, <1>6, <1>7, <1>8, <1>9, <1>10, <1>11, <1>12

\* Steps of at_connect_mtu().
LEMMA ConnectInv ==
  ASSUME IInv
  PROVE  (ConnectNoMemory \/ Connect \/ EnterData \/ LeaveData) => IInv'
  <1> USE ThreadAssumption, BoundAssumption DEF IInv, TypeOK, ContInv, LockInv, Holding,
        Nested, DataInv, DataModeExclusive, BankInv, MainInv, Threads, Senders, DteLocs,
        SenderLocs, Writing, Go, DteAt, Say, Return, Lock, Unlock, UnlockAll, flags, mutex,
        line, dteVars, ownerVars, worldVars
  <1>1. CASE ConnectNoMemory
    BY <1>1 DEF ConnectNoMemory
  <1>2. CASE Connect
    BY <1>2 DEF Connect
  <1>3. CASE EnterData
    BY <1>3 DEF EnterData
  <1>4. CASE LeaveData
    <2>1. /\ data' = FALSE /\ data' \in BOOLEAN
          /\ UNCHANGED <<hungup, reset, echo, quiet>>
      BY <1>4, Zenon DEF LeaveData
    <2>2. /\ pc' = [pc EXCEPT ![Dte] = "next"] /\ pc[Dte] = "relay"
          /\ owner = Dte /\ depth = 1 /\ owner' = NoThread /\ depth' = 0
          /\ res' \in {"OK", "ERROR"}
          /\ UNCHANGED <<cancelled, cont, left, victim, inbuf, worldVars>>
      BY <1>4 DEF LeaveData
    <2>3. (ContInv /\ LockInv /\ BankInv /\ MainInv)'
      BY <2>2
    <2>4. (DataInv /\ DataModeExclusive)'
      BY <2>1, Zenon
    <2>5. TypeOK'
      <3> HIDE DEF ContInv, LockInv, DataInv, DataModeExclusive, BankInv, MainInv
      <3> QED
        BY <2>1, <2>2
    <2> QED
      BY <2>3, <2>4, <2>5
  <1> QED
    BY <1>1, <1>2, <1>3, <1>4

\* The end of the reader thread.
LEMMA EndInv ==
  ASSUME IInv
  PROVE  (Hangup \/ DteCancelled) => IInv'
  <1> USE ThreadAssumption, BoundAssumption DEF IInv, TypeOK, ContInv, LockInv, Holding,
        Nested, DataInv, DataModeExclusive, BankInv, MainInv, Threads, Senders, DteLocs,
        SenderLocs, Writing, Go, DteAt, Say, Return, Lock, Unlock, UnlockAll, flags, mutex,
        line, dteVars, ownerVars, worldVars
  <1>1. CASE Hangup
    BY <1>1 DEF Hangup
  <1>2. CASE DteCancelled
    BY <1>2 DEF DteCancelled, Reading
  <1> QED
    BY <1>1, <1>2

\* Steps of a thread that sends unsolicited messages.
LEMMA SenderInv ==
  ASSUME IInv
  PROVE  (\E s \in Senders : Report(s) \/ SenderLock(s) \/ SenderRuns(s)) => IInv'
  <1> SUFFICES ASSUME NEW s \in Senders, Report(s) \/ SenderLock(s) \/ SenderRuns(s)
               PROVE  IInv'
    OBVIOUS
  <1> USE ThreadAssumption, BoundAssumption DEF IInv, TypeOK, ContInv, LockInv, Holding,
        Nested, DataInv, DataModeExclusive, BankInv, MainInv, Threads, Senders, DteLocs,
        SenderLocs, Writing, Go, DteAt, Say, Return, Lock, Unlock, UnlockAll, flags, mutex,
        line, dteVars, ownerVars, worldVars
  <1>1. CASE Report(s)
    BY <1>1 DEF Report
  <1>2. CASE SenderLock(s)
    BY <1>2 DEF SenderLock
  <1>3. CASE Discard(s)
    BY <1>3 DEF Discard
  <1>4. CASE Accept(s)
    BY <1>4 DEF Accept
  <1>5. CASE SenderBegin(s)
    BY <1>5 DEF SenderBegin
  <1>6. CASE SenderEnd(s)
    BY <1>6 DEF SenderEnd
  <1>7. CASE s \in Reporters /\ ReporterCancelled(s)
    BY <1>7 DEF ReporterCancelled
  <1>8. CASE Stray(s)
    BY <1>8 DEF Stray
  <1> QED
    BY <1>1, <1>2, <1>3, <1>4, <1>5, <1>6, <1>7, <1>8 DEF SenderRuns

\* Steps of the owner and of the terminal.
LEMMA OwnerInv ==
  ASSUME IInv
  PROVE  (MainRuns \/ Close \/ (\E s \in {"HUP", "TERM"} : Kill(s)) \/ UNCHANGED vars) => IInv'
  <1> USE ThreadAssumption, BoundAssumption DEF IInv, TypeOK, ContInv, LockInv, Holding,
        Nested, DataInv, DataModeExclusive, BankInv, MainInv, Threads, Senders, DteLocs,
        SenderLocs, Writing, Go, DteAt, Say, Return, Lock, Unlock, UnlockAll, flags, mutex,
        line, dteVars, ownerVars, worldVars
  <1>1. CASE Start
    <2>1. /\ data' = FALSE
          /\ data' \in BOOLEAN /\ hungup' \in BOOLEAN /\ reset' \in BOOLEAN
          /\ echo' \in BOOLEAN /\ quiet' \in BOOLEAN /\ eof' \in BOOLEAN
      BY <1>1, Zenon DEF Start, ResetFlags
    <2>2. /\ pc' = [pc EXCEPT ![Dte] = "loop"] /\ pc[Dte] = "off"
          /\ main' = "sigwait" /\ inbuf' = 0
          /\ UNCHANGED <<mutex, cancelled, cont, line, bank, sigs, restart>>
      BY <1>1 DEF Start
    <2>3. (ContInv /\ LockInv /\ BankInv /\ MainInv)'
      BY <2>2
    <2>4. (DataInv /\ DataModeExclusive)'
      BY <2>1, Zenon
    <2>5. TypeOK'
      <3> HIDE DEF ContInv, LockInv, DataInv, DataModeExclusive, BankInv, MainInv
      <3> QED
        BY <2>1, <2>2
    <2> QED
      BY <2>3, <2>4, <2>5
  <1>2. CASE StartFails
    BY <1>2 DEF StartFails
  <1>3. CASE Sigwait
    BY <1>3 DEF Sigwait
  <1>4. CASE Stop
    BY <1>4 DEF Stop
  <1>5. CASE Free
    <2> HIDE DEF IInv, TypeOK, ContInv, LockInv, DataInv, DataModeExclusive, BankInv, MainInv
    <2>1. /\ pc'[Dte] = "off" /\ pc[Dte] = "done"
          /\ \A s \in Senders :
               /\ pc'[s] = IF pc[s] \in {"want", "held", "w1", "w2"} THEN "stray" ELSE pc[s]
               /\ pc[s] \in SenderLocs
          /\ pc' \in [Threads -> {pc'[t] : t \in Threads}]
      BY <1>5 DEF Free, IInv, TypeOK
    <2>2. \A s \in Senders : pc'[s] \in {"off", "idle", "stray"}
      BY <2>1
    <2>3. /\ owner' = NoThread /\ depth' = 0 /\ cancelled' \subseteq cancelled
          /\ main' \in {"off", "exit"} /\ restart' \in BOOLEAN
          /\ UNCHANGED <<flags, dteVars, bank, eof, sigs>>
      <3>1. restart' \in BOOLEAN
        BY <1>5, Zenon DEF Free
      <3> QED
        BY <1>5, <3>1 DEF Free
    <2>4. TypeOK'
      <3>1. pc' \in [Threads -> DteLocs \cup SenderLocs]
        BY <2>1, <2>2
      <3>2. TypeOK
        BY DEF IInv
      <3> QED
        BY <2>1, <2>2, <2>3, <3>1, <3>2 DEF TypeOK
    <2>5. ContInv' /\ LockInv' /\ MainInv'
      BY <2>1, <2>2, <2>3 DEF ContInv, LockInv, MainInv
    <2>6. DataInv' /\ DataModeExclusive'
      BY <2>1, <2>2 DEF DataInv, DataModeExclusive
    <2>7. BankInv'
      BY <2>1, <2>3 DEF IInv, BankInv, Senders
    <2> QED
      BY <2>4, <2>5, <2>6, <2>7 DEF IInv
  <1>6. CASE Close
    BY <1>6 DEF Close
  <1>7. CASE \E s \in {"HUP", "TERM"} : Kill(s)
    BY <1>7 DEF Kill
  <1>8. CASE UNCHANGED vars
    BY <1>8 DEF vars
  <1> QED
    BY <1>1, <1>2, <1>3, <1>4, <1>5, <1>6, <1>7, <1>8 DEF MainRuns

-----------------------------------------------------------------------------
(***************************************************************************)
(* The theorems.                                                           *)
(***************************************************************************)
\* Whatever the threads do and whenever they are cancelled, the invariant is kept.
THEOREM Invariance == Safety => []IInv
  <1>1. IInv /\ [Next]_vars => IInv'
    <2> SUFFICES ASSUME IInv, [Next]_vars PROVE IInv'
      OBVIOUS
    <2>1. CASE \E s \in Senders : Report(s) \/ SenderLock(s) \/ SenderRuns(s)
      BY <2>1, SenderInv
    <2>2. CASE DteRuns \/ DteLocks \/ Read \/ LeaveData
      BY <2>2, LoopInv, MessageInv, RunInv, ConnectInv, EndInv DEF DteRuns, DteLocks
    <2>3. CASE MainRuns \/ Close \/ (\E s \in {"HUP", "TERM"} : Kill(s)) \/ UNCHANGED vars
      BY <2>3, OwnerInv
    <2> QED
      BY <2>1, <2>2, <2>3 DEF Next, Exited
  <1> QED
    BY InitInv, <1>1, PTL DEF Safety

\* The variables keep their types; in particular m->lock is never locked more than twice.
THEOREM TypeCorrect == Safety => []TypeOK
  BY Invariance, PTL DEF IInv

\* Messages to the terminal are never interleaved, whatever thread is cancelled where.
THEOREM MessagesAreWhole == Safety => []MessagesWhole
  <1>1. IInv => MessagesWhole
    BY ThreadAssumption
    DEF IInv, TypeOK, LockInv, Holding, MessagesWhole, Talking, Threads, Senders
  <1> QED
    BY Invariance, <1>1, PTL

\* No thread writes a message once the data flag is up (at_modem.c:171, 318, 394).
THEOREM DataModeIsExclusive == Safety => []DataModeExclusive
  BY Invariance, PTL DEF IInv

\* The cleanup handlers of the reader thread leave m->lock as at_commands_deinit() and
\* pthread_mutex_destroy() need it.
THEOREM LockIsLeftFree == Safety => []LockLeftFree
  <1>1. IInv => LockLeftFree
    <2> SUFFICES ASSUME IInv PROVE LockLeftFree
      OBVIOUS
    <2>1. pc[Dte] \in {"deinit", "join", "done"} => owner # Dte
      BY DEF IInv, LockInv, Holding
    <2>2. ASSUME DteAt("done"), owner # NoThread PROVE owner \in Callbacks
      <3>1. \A r \in Reporters : pc[r] = "off"
        BY <2>2 DEF IInv, BankInv, DteAt
      <3>2. owner \in Senders
        BY <2>1, <2>2 DEF IInv, TypeOK, Threads, DteAt
      <3> QED
        BY <3>1, <3>2 DEF IInv, LockInv, Senders
    <2> QED
      BY <2>1, <2>2 DEF LockLeftFree, DteAt
  <1> QED
    BY Invariance, <1>1, PTL

\* No joined plugin thread outlives its modem.
THEOREM ReportersAreGone == Safety => []ReportersGone
  <1>1. IInv => ReportersGone
    BY DEF IInv, BankInv, ReportersGone, DteAt
  <1> QED
    BY Invariance, <1>1, PTL

-----------------------------------------------------------------------------
(***************************************************************************)
(* The modem implements the dialogue: each step of the modem is one of the *)
(* dialogue, or nothing that the terminal could see.                       *)
(***************************************************************************)
Cut == Ending /\ data

DStep == D!Next \/ UNCHANGED <<Mode, Cut, Talking>>

\* In data mode the flag is up, so that a modem that is closed there is known to be cut.
RelayInv == DteAt("relay") => data
RInv == IInv /\ RelayInv

\* The flag goes up with data mode, and is taken back as it is left.
LEMMA RelayKept == RInv /\ [Next]_vars => RelayInv'
  <1> SUFFICES ASSUME IInv, RelayInv, [Next]_vars, pc'[Dte] = "relay" PROVE data'
    BY DEF RInv, RelayInv, DteAt
  <1> USE ThreadAssumption DEF IInv, TypeOK, ContInv, Threads, Senders, DteLocs, SenderLocs,
        Go, DteAt, Say, Return, flags, mutex, line, dteVars, ownerVars, worldVars
  <1>1. CASE DteRuns
    <2>1. CASE EnterData
      BY <2>1, Zenon DEF EnterData
    <2>2. CASE ~EnterData
      <3>1. pc'[Dte] # "relay"
        BY <1>1, <2>2
        DEF DteRuns, Loop, Deinit, Join, Reinit, Read, Reading, ReadEof, TakeLine, TakeText,
            DteBegin, DteEnd, RunSet, RunEcho, RunQuiet, RunReset, RunHangup, RunGet, RunText,
            RunConnect, RunReport, Respawn, LineEnds, Reply, ConnectNoMemory, Hangup, DteCancelled,
            Request
      <3> QED
        BY <3>1
    <2> QED
      BY <2>1, <2>2
  <1>2. CASE DteLocks \/ Read \/ LeaveData
    BY <1>2 DEF DteLocks, DteLock, Connect, Read, Reading, LeaveData
  <1>3. CASE \E s \in Senders : Report(s) \/ SenderLock(s) \/ SenderRuns(s)
    <2>1. PICK s \in Senders : Report(s) \/ SenderLock(s) \/ SenderRuns(s)
      BY <1>3
    <2>2. pc'[Dte] = pc[Dte] /\ data' = data
      BY <2>1 DEF SenderRuns, Report, SenderLock, Discard, Accept, SenderBegin, SenderEnd,
                  Stray, ReporterCancelled
    <2> QED
      BY <2>2 DEF RelayInv
  <1>4. CASE MainRuns \/ Close \/ (\E s \in {"HUP", "TERM"} : Kill(s)) \/ UNCHANGED vars
    <2>1. pc'[Dte] # "relay" \/ (pc'[Dte] = pc[Dte] /\ data' = data)
      BY <1>4 DEF MainRuns, Start, StartFails, Sigwait, Stop, Free, Close, Kill, vars
    <2> QED
      BY <2>1 DEF RelayInv
  <1> QED
    BY <1>1, <1>2, <1>3, <1>4 DEF Next, Exited

\* Data mode without its flag (at_modem.c:396-418), under which messages would be written into
\* the data, does not occur.
THEOREM RInvariance == Safety => []RInv
  <1>1. Init => RelayInv
    BY DEF Init, RelayInv, DteAt, Threads
  <1>2. RInv /\ [Next]_vars => RelayInv'
    BY RelayKept
  <1> QED
    BY Invariance, <1>1, <1>2, PTL DEF Safety, RInv

\* Steps of the reader thread; those not named in the proof with a step of D are unseen.
LEMMA DteSteps == RInv /\ (DteRuns \/ DteLocks \/ Read \/ LeaveData) => DStep
  <1> SUFFICES ASSUME RInv, DteRuns \/ DteLocks \/ Read \/ LeaveData PROVE DStep
    OBVIOUS
  <1> USE ThreadAssumption DEF RInv, IInv, TypeOK, ContInv, Threads, Senders, DteLocs,
        Go, DteAt, Say, Return, flags, mutex, line, dteVars, ownerVars, worldVars,
        DStep, D!Next, Mode, Cut, Ending, Answering, Talking
  <1>1. CASE Loop \/ Hangup
    BY <1>1 DEF Loop, Hangup, D!Close, DataInv
  <1>2. CASE Deinit \/ Join \/ Reinit
    BY <1>2 DEF Deinit, Join, Reinit
  <1>3. CASE Read \/ TakeText \/ DteLock
    BY <1>3 DEF Read, Reading, TakeText, DteLock
  <1>4. CASE ReadEof
    BY <1>4 DEF ReadEof, Reading, D!Close, DataInv
  <1>5. CASE TakeLine
    BY <1>5 DEF TakeLine, D!Take
  <1>6. CASE DteBegin
    BY <1>6 DEF DteBegin, D!Begin, LockInv, Holding, DataInv
  <1>7. CASE DteEnd
    BY <1>7 DEF DteEnd, D!End, D!Answer, DataInv
  <1>8. CASE RunSet \/ RunEcho \/ RunQuiet \/ RunReset \/ RunHangup \/ RunGet \/ RunText \/ RunConnect
    BY <1>8 DEF RunSet, RunEcho, RunQuiet, RunReset, RunHangup, RunGet, RunText, RunConnect, Request
  <1>9. CASE RunReport \/ Respawn
    BY <1>9 DEF RunReport, Respawn, Request, BankInv
  <1>10. CASE LineEnds \/ ConnectNoMemory \/ Connect
    BY <1>10 DEF LineEnds, ConnectNoMemory, Connect
  <1>11. CASE Reply
    BY <1>11 DEF Reply, D!Answer
  <1>12. CASE EnterData
    BY <1>12 DEF EnterData, D!Connect, LockInv, Holding
  <1>13. CASE LeaveData
    BY <1>13 DEF LeaveData, D!Disconnect
  <1>14. CASE DteCancelled
    BY <1>14 DEF DteCancelled, Reading, D!Close, DataInv, RelayInv
  <1> QED
    BY <1>1, <1>2, <1>3, <1>4, <1>5, <1>6, <1>7, <1>8, <1>9, <1>10, <1>11, <1>12, <1>13, <1>14
    DEF DteRuns, DteLocks

\* Steps of a thread that sends unsolicited messages: the lock keeps them apart.
LEMMA SenderSteps == RInv /\ (\E s \in Senders : Report(s) \/ SenderLock(s) \/ SenderRuns(s)) => DStep
  <1> SUFFICES ASSUME RInv, NEW s \in Senders, Report(s) \/ SenderLock(s) \/ SenderRuns(s) PROVE DStep
    OBVIOUS
  <1> USE ThreadAssumption DEF RInv, IInv, TypeOK, Threads, Senders, DteLocs, SenderLocs,
        Go, DteAt, flags, mutex, line, dteVars, ownerVars, worldVars,
        DStep, D!Next, Mode, Cut, Ending, Answering, Talking
  <1>1. CASE Report(s) \/ SenderLock(s) \/ Discard(s) \/ Accept(s) \/ Stray(s)
    BY <1>1 DEF Report, SenderLock, Discard, Accept, Stray
  <1>2. CASE SenderBegin(s)
    BY <1>2 DEF SenderBegin, D!Begin, LockInv, Holding, DataModeExclusive, Writing
  <1>3. CASE SenderEnd(s)
    BY <1>3 DEF SenderEnd, D!End
  <1>4. CASE s \in Reporters /\ ReporterCancelled(s)
    BY <1>4 DEF ReporterCancelled, D!End
  <1> QED
    BY <1>1, <1>2, <1>3, <1>4 DEF SenderRuns

\* Steps of the owner: freeing a modem ends the message of a callback that is left behind.
LEMMA OwnerSteps ==
  RInv /\ (MainRuns \/ Close \/ (\E s \in {"HUP", "TERM"} : Kill(s)) \/ UNCHANGED vars) => DStep
  <1> SUFFICES ASSUME RInv, MainRuns \/ Close \/ (\E s \in {"HUP", "TERM"} : Kill(s)) \/ UNCHANGED vars
               PROVE  DStep
    OBVIOUS
  <1> USE ThreadAssumption DEF RInv, IInv, TypeOK, Threads, Senders, DteLocs, SenderLocs,
        Go, DteAt, flags, mutex, line, dteVars, ownerVars, worldVars,
        DStep, D!Next, Mode, Cut, Ending, Answering, Talking
  <1>1. CASE Start
    BY <1>1 DEF Start, ResetFlags, D!Open, MainInv
  <1>2. CASE Free
    BY <1>2 DEF Free, D!End, LockInv
  <1>3. CASE StartFails \/ Sigwait \/ Stop \/ Close \/ (\E s \in {"HUP", "TERM"} : Kill(s)) \/ UNCHANGED vars
    BY <1>3 DEF StartFails, Sigwait, Stop, Close, Kill, vars
  <1> QED
    BY <1>1, <1>2, <1>3 DEF MainRuns

\* The modem, its plugin threads and its owner implement the dialogue: what the terminal sees
\* of them is a behaviour of Dialogue, whatever threads are cancelled where.
THEOREM ImplementsDialogue == Safety => DialogueSpec
  <1>1. Init => D!Init
    <2> SUFFICES ASSUME Init PROVE D!Init
      OBVIOUS
    <2>1. Mode = "closed" /\ Talking = {}
      BY ThreadAssumption DEF Init, Mode, Ending, Talking, Threads, Senders
    <2>2. ~data
      BY Zenon DEF Init
    <2>3. (Ending /\ data) = FALSE
      BY <2>2
    <2> QED
      BY <2>1, <2>3 DEF D!Init
  <1>2. RInv /\ [Next]_vars => [D!Next]_<<Mode, Ending /\ data, Talking>>
    BY DteSteps, SenderSteps, OwnerSteps DEF Next, Exited, DStep, Cut
  <1> QED
    BY RInvariance, <1>1, <1>2, PTL DEF Safety, DialogueSpec, D!Spec, D!vars
=============================================================================
