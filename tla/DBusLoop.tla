------------------------------ MODULE DBusLoop ------------------------------
(***************************************************************************)
(* The main loop of src/dbus.c: one thread that dispatches the messages of *)
(* one D-Bus connection, polls the descriptor of the connection on behalf  *)
(* of libdbus and is woken up when libdbus changes what it wants polled.   *)
(* Other threads make calls on the same connection, and read what they     *)
(* find there themselves while they wait for a reply. All of them go       *)
(* through at_dbus_get(), which connects the first time.                   *)
(***************************************************************************)
EXTENDS Naturals, Sequences

CONSTANTS
  Clients,     \* threads that make calls
  MaxSignals,  \* bound: signals in all
  MaxCalls,    \* bound: calls in all, and changes of the timeout
  Failing      \* what may fail: "connect", "memory" (of a filter)

VARIABLES
  conn,        \* bus->conn: there is a connection (and a thread)
  list,        \* bus->watch.first: the watches, the latest one first
  events,      \* the watches that have been enabled
  timer,       \* a timeout: "none", "idle" (no deadline), "ahead", "behind" (of the clock)
  wakeup,      \* bus->wakeup.fd is readable
  at,          \* the thread: "off", "dispatch", "look", "poll", "woken", "ready", "handle"
  ufd,         \* what it polls for
  revents,     \* what poll() has found
  handled,     \* the watch that is given the event, and the event
  pc,          \* clients: "idle", "toggle", "wake", "waiting"
  after,       \* ... and where they are after waking up the thread
  unread,      \* signals in the socket
  received,    \* signals that libdbus has read and not dispatched
  outgoing,    \* libdbus has something that it could not write
  room,        \* there is room in the socket
  filter,      \* of each client: "none", "lost" (it was not added), "added"
  aborted,     \* an assertion has failed
  signals, calls   \* so far

thread == <<at, ufd, revents, handled>>
client == <<pc, after, filter, aborted, calls>>
watch == <<conn, list, events, timer>>
socket == <<unread, received, outgoing, room, signals>>
vars == <<thread, client, watch, wakeup, socket>>

\* libdbus has a watch to write and one to read, on one descriptor; it adds them in this order.
Sides == {"read", "write"}
Added == <<"write", "read">>
None == "none"

\* Mutated: a new watch goes to the end of the list.
at_dbus_add_watch_Last(ws, w) == Append(ws, w)

at_dbus_add_watch(ws, w) == <<w>> \o ws

Find(ws) == IF ws = <<>> THEN None ELSE Head(ws)    \* all have the descriptor of the event

-----------------------------------------------------------------------------
(***************************************************************************)
(* at_dbus_get() and its users, on any thread.                             *)
(***************************************************************************)
\* The watches are made and enabled, which wakes up the thread, before there is one.
Connected ==
  /\ conn' = TRUE
  /\ list' = IF conn THEN list ELSE at_dbus_add_watch(at_dbus_add_watch(<<>>, Added[1]), Added[2])
  /\ events' = IF conn THEN events ELSE {"read"}
  /\ at' = IF conn THEN at ELSE "dispatch"
  /\ wakeup' = (wakeup \/ ~conn)
  /\ UNCHANGED timer

NoConnection ==
  /\ ~conn /\ "connect" \in Failing
  /\ UNCHANGED <<watch, at, wakeup>>

Call(c) == ~aborted /\ pc[c] = "idle" /\ calls < MaxCalls /\ calls' = calls + 1

\* at_dbus_request(), at_dbus_query(), at_dbus_add_match() and at_dbus_remove_match(): a
\* query waits for its reply. What cannot be written at once stays with libdbus.
Send(c, waits) ==
  LET then == IF waits THEN "waiting" ELSE "idle"
  IN  /\ Call(c)
      /\ Connected
      /\ outgoing' = (outgoing \/ ~room)
      /\ pc' = [pc EXCEPT ![c] = IF outgoing' THEN "toggle" ELSE then]
      /\ after' = [after EXCEPT ![c] = then]
      /\ UNCHANGED <<ufd, revents, handled, filter, aborted, unread, received, room, signals>>

SendFails(c) ==
  /\ Call(c) /\ NoConnection
  /\ UNCHANGED <<ufd, revents, handled, pc, after, filter, aborted, socket>>

\* at_dbus_add_filter(): whoever asks for a filter believes that it is there.
AddFilter(c) ==
  /\ Call(c) /\ filter[c] = "none"
  /\ \/ Connected /\ filter' = [filter EXCEPT ![c] = "added"]
     \/ "memory" \in Failing /\ Connected /\ filter' = [filter EXCEPT ![c] = "lost"]
     \/ NoConnection /\ filter' = [filter EXCEPT ![c] = "lost"]
  /\ UNCHANGED <<ufd, revents, handled, pc, after, aborted, socket>>

\* at_dbus_remove_filter()
RemoveFilter(c) ==
  /\ Call(c) /\ filter[c] # "none"
  /\ \/ Connected /\ UNCHANGED aborted
     \/ NoConnection /\ aborted' = TRUE
  /\ filter' = [filter EXCEPT ![c] = "none"]
  /\ UNCHANGED <<ufd, revents, handled, pc, after, socket>>

\* Mutated: the thread is not woken up.
Toggle_Silent(c) ==
  /\ pc[c] = "toggle"
  /\ events' = IF outgoing THEN Sides ELSE {"read"}
  /\ pc' = [pc EXCEPT ![c] = after[c]]
  /\ UNCHANGED <<thread, after, filter, aborted, calls, conn, list, timer, wakeup, socket>>

\* at_dbus_toggle_watch(): libdbus enables the watch to write when there is something to write.
Toggle(c) ==
  /\ pc[c] = "toggle"
  /\ events' = IF outgoing THEN Sides ELSE {"read"}
  /\ pc' = [pc EXCEPT ![c] = "wake"]
  /\ UNCHANGED <<thread, after, filter, aborted, calls, conn, list, timer, wakeup, socket>>

at_dbus_wakeup(c) ==
  /\ pc[c] = "wake"
  /\ wakeup' = TRUE
  /\ pc' = [pc EXCEPT ![c] = after[c]]
  /\ UNCHANGED <<thread, after, filter, aborted, calls, watch, socket>>

\* A client that waits writes what is left itself.
Flush(c) ==
  /\ pc[c] = "waiting" /\ outgoing /\ room
  /\ outgoing' = FALSE
  /\ pc' = [pc EXCEPT ![c] = "toggle"]
  /\ UNCHANGED <<thread, after, filter, aborted, calls, watch, wakeup, unread, received, room, signals>>

\* It reads its reply, and the signals before it, for which libdbus wakes up the thread.
Reply(c) ==
  /\ pc[c] = "waiting" /\ ~outgoing
  /\ received' = received + unread /\ unread' = 0
  /\ wakeup' = (wakeup \/ unread > 0)
  /\ pc' = [pc EXCEPT ![c] = "idle"]
  /\ UNCHANGED <<thread, after, filter, aborted, calls, watch, outgoing, room, signals>>

\* Timeouts: at_dbus_add_timeout(), at_dbus_toggle_timeout(), at_dbus_remove_timeout().
Timeout ==
  /\ conn /\ calls < MaxCalls /\ calls' = calls + 1
  /\ \/ timer = "none" /\ timer' = "idle" /\ UNCHANGED wakeup
     \/ timer = "idle" /\ timer' = "ahead" /\ wakeup' = TRUE
     \/ timer \in {"ahead", "behind"} /\ timer' = "idle" /\ wakeup' = TRUE
     \/ timer # "none" /\ timer' = "none" /\ UNCHANGED wakeup
  /\ UNCHANGED <<thread, pc, after, filter, aborted, conn, list, events, socket>>

Clock == timer = "ahead" /\ timer' = "behind"
         /\ UNCHANGED <<thread, client, conn, list, events, wakeup, socket>>

-----------------------------------------------------------------------------
(***************************************************************************)
(* at_dbus_thread()                                                        *)
(***************************************************************************)
Dispatch ==
  /\ at = "dispatch" /\ received > 0
  /\ received' = received - 1
  /\ UNCHANGED <<thread, client, watch, wakeup, unread, outgoing, room, signals>>

Dispatched ==
  /\ at = "dispatch" /\ received = 0
  /\ at' = "look"
  /\ UNCHANGED <<ufd, revents, handled, client, watch, wakeup, socket>>

\* A timeout is handled when the clock has not passed its deadline; libdbus is then done with it.
Timer ==
  /\ at = "look" /\ timer = "ahead"
  /\ timer' = "none" /\ at' = "dispatch"
  /\ UNCHANGED <<ufd, revents, handled, client, conn, list, events, wakeup, socket>>

Look ==
  /\ at = "look" /\ timer # "ahead"
  /\ ufd' = events /\ at' = "poll"
  /\ UNCHANGED <<revents, handled, client, watch, wakeup, socket>>

Readable == unread > 0
Ready == {w \in ufd : IF w = "read" THEN Readable ELSE room}

\* A signal interrupts it, or the time that it was given is over, with nothing to report.
Interrupted ==
  /\ at = "poll" /\ ~wakeup /\ Ready = {}
  /\ at' = "dispatch"
  /\ UNCHANGED <<ufd, revents, handled, client, watch, wakeup, socket>>

Poll ==
  /\ at = "poll"
  /\ IF wakeup THEN at' = "woken" /\ UNCHANGED revents
     ELSE Ready # {} /\ at' = "ready" /\ revents' = Ready
  /\ UNCHANGED <<ufd, handled, client, watch, wakeup, socket>>

Woken ==
  /\ at = "woken"
  /\ wakeup' = FALSE /\ at' = "dispatch"
  /\ UNCHANGED <<ufd, revents, handled, client, watch, socket>>

\* The event is given to the first watch of the list with its descriptor.
Give(w) ==
  /\ at = "ready" /\ w \in revents
  /\ revents' = revents \ {w}
  /\ handled' = <<Find(list), w>> /\ at' = "handle"
  /\ UNCHANGED <<ufd, client, watch, wakeup, socket>>

\* dbus_watch_handle(), without the lock. A watch takes no event of the other kind.
Handle ==
  /\ at = "handle"
  /\ at' = IF revents = {} THEN "dispatch" ELSE "ready"
  /\ IF handled = <<"read", "read">>
     THEN received' = received + unread /\ unread' = 0 ELSE UNCHANGED <<received, unread>>
  /\ IF handled = <<"write", "write">> /\ room
     THEN outgoing' = FALSE /\ events' = {"read"} /\ wakeup' = TRUE
     ELSE UNCHANGED <<outgoing, events, wakeup>>
  /\ UNCHANGED <<ufd, revents, handled, client, conn, list, timer, room, signals>>

-----------------------------------------------------------------------------
\* The bus.
Signal ==
  /\ conn /\ signals < MaxSignals
  /\ signals' = signals + 1 /\ unread' = unread + 1
  /\ UNCHANGED <<thread, client, watch, wakeup, received, outgoing, room>>

Room == room' = ~room /\ UNCHANGED <<thread, client, watch, wakeup, unread, received, outgoing, signals>>

Init ==
  /\ conn = FALSE /\ list = <<>> /\ events = {} /\ timer = "none" /\ wakeup = FALSE
  /\ at = "off" /\ ufd = {} /\ revents = {} /\ handled = <<None, None>>
  /\ pc = [c \in Clients |-> "idle"] /\ after = pc
  /\ unread = 0 /\ received = 0 /\ outgoing = FALSE /\ room = TRUE
  /\ filter = [c \in Clients |-> "none"] /\ aborted = FALSE
  /\ signals = 0 /\ calls = 0

Thread == Dispatch \/ Dispatched \/ Timer \/ Look \/ Poll \/ Woken \/ (\E w \in Sides : Give(w)) \/ Handle

Client(c) ==
  \/ \E waits \in BOOLEAN : Send(c, waits)
  \/ SendFails(c) \/ AddFilter(c) \/ RemoveFilter(c)
  \/ Toggle(c) \/ at_dbus_wakeup(c) \/ Flush(c) \/ Reply(c)

Next == Thread \/ Interrupted \/ (\E c \in Clients : Client(c)) \/ Timeout \/ Clock \/ Signal \/ Room

\* The thread runs, and so do those that have to wake it up.
Safety == Init /\ [][Next]_vars
Wakes(c) == Toggle(c) \/ at_dbus_wakeup(c)
Spec == Safety /\ WF_vars(Thread) /\ \A c \in Clients : WF_vars(Wakes(c))

-----------------------------------------------------------------------------
\* A thread that sleeps in poll() polls for all that libdbus wants polled now, or is about to
\* be woken up: no change of a watch is lost between the look at the list and poll()
\* (dbus.c:113-137 against 319-341).
PollIsCurrent ==
  at = "poll" => \/ events \subseteq ufd \/ wakeup
                 \/ \E c \in Clients : pc[c] = "wake"

\* Every signal is dispatched in the end, whoever has read it from the socket: by the thread
\* itself or a thread that was waiting for a reply, also while the watch to write is enabled
\* and its events are given to the watch to read (dbus.c:342-376, 276-281).
BusIsHeard == (unread + received > 0) ~> (unread + received = 0)
=============================================================================
