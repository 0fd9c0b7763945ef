---------------------------- MODULE EventReports ----------------------------
(***************************************************************************)
(* AT+CMER of plugins/input.c: a thread polls the keypad and the touch     *)
(* screen, as far as they are open, and reports their events. Each command *)
(* cancels it, waits for it, and makes another.                            *)
(***************************************************************************)
EXTENDS Naturals

CONSTANTS
  MaxFds,      \* the process may have so many descriptors
  Failing      \* "thread": there may be no thread

VARIABLES
  open,        \* the devices that the descriptors are open on; "none" if they are not
  plugged,     \* the devices that are there
  enabled, keyp_fd, tscrn_fd,   \* the fields of cmer_t
  at,          \* the thread: "none", "poll", "keyp", "tscrn", "closing"
  revents,     \* what poll() has found, of the descriptors in turn
  pc, request, \* the command: "idle", "kill", "close", "keyp", "tscrn", "thread", and its values
  asked        \* what the last command that was answered with OK asked for

thread == <<at, revents>>
command == <<pc, request>>
fds == <<enabled, keyp_fd, tscrn_fd>>
vars == <<open, plugged, fds, thread, command, asked>>

Devices == {"keypad", "touchscreen"}
Fds == 1..MaxFds
NoFd == 0                                    \* -1 in the code
Requests == [mode : {0, 1}, keyp : {0, 1}, tscrn : {0, 3}]
Nothing == [mode |-> 0, keyp |-> 0, tscrn |-> 0]

Close(fd) == open' = [open EXCEPT ![fd] = "none"]

\* open() gives the least descriptor that is free.
Open(device, fd) ==
  /\ device \in plugged
  /\ open[fd] = "none" /\ \A f \in 1..(fd - 1) : open[f] # "none"
  /\ open' = [open EXCEPT ![fd] = device]

\* The device may go, or there are too many descriptors.
CannotOpen(device) == device \notin plugged \/ \A fd \in Fds : open[fd] # "none"

-----------------------------------------------------------------------------
(***************************************************************************)
(* cmer_thread()                                                           *)
(***************************************************************************)
\* What poll() says of a descriptor: a device that is gone hangs up.
Event(fd) ==
  IF fd = NoFd THEN {"none"}
  ELSE IF open[fd] = "none" THEN {"in"}      \* POLLNVAL
  ELSE IF open[fd] \notin plugged THEN {"hup"} ELSE {"none", "in"}

Poll ==
  /\ at = "poll"
  /\ \E k \in Event(keyp_fd), t \in Event(tscrn_fd) :
       /\ <<k, t>> # <<"none", "none">>
       /\ revents' = <<k, t>>
  /\ at' = "keyp"
  /\ UNCHANGED <<open, plugged, fds, command, asked>>

\* The keypad is gone: its descriptor is closed, and then forgotten.
Gone ==
  /\ at = "keyp" /\ revents[1] = "hup"
  /\ Close(keyp_fd)
  /\ at' = "closing"
  /\ UNCHANGED <<plugged, fds, revents, command, asked>>

Forget ==
  /\ at = "closing"
  /\ IF revents[1] = "hup"
     THEN /\ keyp_fd' = NoFd /\ revents' = <<"none", revents[2]>> /\ at' = "tscrn"
          /\ UNCHANGED tscrn_fd
     ELSE /\ tscrn_fd' = NoFd /\ revents' = <<"none", "none">> /\ at' = "poll"
          /\ UNCHANGED keyp_fd
  /\ UNCHANGED <<open, plugged, enabled, command, asked>>

\* report_keyp(): +CKEV is printed for what is read.
report_keyp ==
  /\ at = "keyp" /\ revents[1] # "hup"
  /\ at' = "tscrn"
  /\ UNCHANGED <<open, plugged, fds, revents, command, asked>>

TouchscreenGone ==
  /\ at = "tscrn" /\ revents[2] = "hup"
  /\ Close(tscrn_fd)
  /\ at' = "closing"
  /\ UNCHANGED <<plugged, fds, revents, command, asked>>

report_tscrn ==
  /\ at = "tscrn" /\ revents[2] # "hup"
  /\ at' = "poll" /\ revents' = <<"none", "none">>
  /\ UNCHANGED <<open, plugged, fds, command, asked>>

-----------------------------------------------------------------------------
(***************************************************************************)
(* set_cmer()                                                              *)
(***************************************************************************)
set_cmer(r) ==
  /\ pc = "idle" /\ pc' = "kill" /\ request' = r
  /\ asked' = Nothing
  /\ UNCHANGED <<open, plugged, fds, thread>>

\* The thread can be cancelled wherever it polls, reads, prints or closes.
Kill ==
  /\ pc = "kill"
  /\ enabled' = FALSE /\ at' = "none" /\ revents' = <<"none", "none">>
  /\ pc' = "close"
  /\ UNCHANGED <<open, plugged, keyp_fd, tscrn_fd, request, asked>>

\* Mutated: the keypad is opened again, the old descriptor remains.
CloseKeypad_Kept ==
  /\ pc = "close"
  /\ keyp_fd' = NoFd /\ pc' = "keyp"
  /\ UNCHANGED <<open, plugged, enabled, tscrn_fd, thread, request, asked>>

CloseKeypad ==
  /\ pc = "close"
  /\ IF keyp_fd # NoFd THEN Close(keyp_fd) ELSE UNCHANGED open
  /\ keyp_fd' = NoFd /\ pc' = "keyp"
  /\ UNCHANGED <<plugged, enabled, tscrn_fd, thread, request, asked>>

\* Without the device the answer is ERROR; what is open remains so.
OpenKeypad ==
  /\ pc = "keyp"
  /\ \/ request.keyp = 0 /\ pc' = "tscrn" /\ UNCHANGED <<open, keyp_fd>>
     \/ /\ request.keyp = 1
        /\ \E fd \in Fds : Open("keypad", fd) /\ keyp_fd' = fd
        /\ pc' = "tscrn"
     \/ request.keyp = 1 /\ CannotOpen("keypad") /\ pc' = "idle" /\ UNCHANGED <<open, keyp_fd>>
  /\ UNCHANGED <<plugged, enabled, tscrn_fd, thread, request, asked>>

\* A touch screen that is open already is not closed.
OpenTouchscreen ==
  /\ pc = "tscrn"
  /\ \/ request.tscrn = 0 /\ pc' = "thread" /\ UNCHANGED <<open, tscrn_fd>>
     \/ /\ request.tscrn = 3
        /\ \E fd \in Fds : Open("touchscreen", fd) /\ tscrn_fd' = fd
        /\ pc' = "thread"
     \/ request.tscrn = 3 /\ CannotOpen("touchscreen") /\ pc' = "idle" /\ UNCHANGED <<open, tscrn_fd>>
  /\ UNCHANGED <<plugged, enabled, keyp_fd, thread, request, asked>>

CreateThread ==
  /\ pc = "thread" /\ pc' = "idle"
  /\ \/ request.mode = 0 /\ asked' = request /\ UNCHANGED <<enabled, at>>
     \/ request.mode = 1 /\ enabled' = TRUE /\ at' = "poll" /\ asked' = request
     \/ request.mode = 1 /\ "thread" \in Failing /\ UNCHANGED <<enabled, at, asked>>
  /\ UNCHANGED <<open, plugged, keyp_fd, tscrn_fd, revents, request>>

\* The plugin goes and comes back: it has asked for nothing, which closes the keypad.
at_plugin_unregister ==
  /\ pc = "idle" /\ at = "none" /\ request = Nothing
  /\ tscrn_fd # NoFd /\ tscrn_fd' = NoFd
  /\ UNCHANGED <<open, plugged, enabled, keyp_fd, thread, command, asked>>

\* A device comes or goes; a descriptor that is open on it stays so.
Plug(device) ==
  /\ plugged' = IF device \in plugged THEN plugged \ {device} ELSE plugged \cup {device}
  /\ UNCHANGED <<open, fds, thread, command, asked>>

Init ==
  /\ open = [fd \in Fds |-> "none"] /\ plugged = Devices
  /\ enabled = FALSE /\ keyp_fd = NoFd /\ tscrn_fd = NoFd
  /\ at = "none" /\ revents = <<"none", "none">>
  /\ pc = "idle" /\ request = Nothing /\ asked = Nothing

Next ==
  \/ Poll \/ Gone \/ Forget \/ report_keyp \/ TouchscreenGone \/ report_tscrn
  \/ \E r \in Requests : set_cmer(r)
  \/ Kill \/ CloseKeypad \/ OpenKeypad \/ OpenTouchscreen \/ CreateThread
  \/ at_plugin_unregister
  \/ \E device \in Devices : Plug(device)

Spec == Init /\ [][Next]_vars

-----------------------------------------------------------------------------
KeypadOpen == \E fd \in Fds : open[fd] = "keypad"

\* Whatever failed and wherever the former thread was cancelled: the keypad is open at most once,
\* under the descriptor that is kept for it, and what the thread polls and reads under this
\* descriptor is the keypad. Between two commands it is open only if the last one named it, and
\* with no thread to read it only after a command of mode 0, or one that failed after it had opened
\* it; a thread is there only if the last command made it, and reports keys only if it asked for
\* them (input.c:219-289 against 145-200).
KeypadAsAsked ==
  /\ \A fd \in Fds : open[fd] = "keypad" => fd = keyp_fd
  /\ at \in {"poll", "keyp", "tscrn"} /\ keyp_fd # NoFd => open[keyp_fd] = "keypad"
  /\ pc = "idle" /\ KeypadOpen => request.keyp = 1 /\ (at = "none" => asked.mode = 0)
  /\ pc = "idle" /\ at # "none" => asked = request /\ asked.mode = 1 /\ (keyp_fd # NoFd => asked.keyp = 1)
=============================================================================
