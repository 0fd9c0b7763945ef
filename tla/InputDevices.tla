---------------------------- MODULE InputDevices ----------------------------
(***************************************************************************)
(* plugins/uinput.c: AT+CKPD types keys on a virtual keypad and AT+CTSA    *)
(* touches a virtual touch screen, if AT+CMEC lets them; the devices are   *)
(* made when they are first used.                                          *)
(***************************************************************************)
EXTENDS Naturals, SequencesExt

CONSTANTS
  Chars,       \* characters of AT+CKPD, among them "semi", the semicolon
  MaxKeys,     \* bound: characters of one command
  Failing      \* "open", "write": what may fail

VARIABLES
  cmec, open,  \* of both devices: its emulation (0, 2), and whether the device exists
  pc,          \* the command: "idle", "key", "press", "release", "touch"
  keys, p, alpha, code,   \* AT+CKPD: the characters, the next one, its mode and key
  action, step,           \* AT+CTSA: the action, and how many events are out
  emitted,     \* the events that the device has got from this command, or the last one
  ret          \* the answer to it

device == <<cmec, open>>
keypad == <<keys, p, alpha, code>>
touch == <<action, step>>
vars == <<device, pc, keypad, touch, emitted, ret>>

Devices == {"keypad", "touchscreen"}
NoKey == "none"
NoAction == 3
SYN == <<"SYN", 0>>

\* keymap[]: the key that a character stands for, and its key in the alphabetic mode.
keymap(c, alphabetic) ==
  CASE c = "C" -> IF alphabetic THEN "KEY_C" ELSE "KEY_CLEAR"
    [] c = "G" -> IF alphabetic THEN "KEY_G" ELSE NoKey
    [] c = "semi" -> IF alphabetic THEN "KEY_SEMICOLON" ELSE NoKey
    [] c = "1" -> "KEY_1"
    [] OTHER -> NoKey

Fail == pc' = "idle" /\ ret' = "ERROR"

\* emit_uinput(): an event and a SYN after it; either may not be written.
Emit(events, next) ==
  \/ emitted' = emitted \o events /\ pc' = next /\ UNCHANGED ret
  \/ /\ "write" \in Failing
     /\ \E n \in 0..(Len(events) - 1) : emitted' = emitted \o SubSeq(events, 1, n)
     /\ Fail

\* create_uinput(), then the command proper.
create_uinput(d, first) ==
  \/ /\ open' = [open EXCEPT ![d] = TRUE]
     /\ pc' = first /\ ret' = "none"
  \/ /\ ~open[d] /\ "open" \in Failing
     /\ Fail /\ UNCHANGED open

-----------------------------------------------------------------------------
(***************************************************************************)
(* handle_keypad()                                                         *)
(***************************************************************************)
handle_keypad(k) ==
  /\ pc = "idle"
  /\ IF cmec["keypad"] = 0 THEN ret' = "EPERM" /\ UNCHANGED <<open, pc>>
                           ELSE create_uinput("keypad", "key")
  /\ keys' = k /\ p' = 1 /\ alpha' = FALSE /\ code' = NoKey
  /\ emitted' = <<>>
  /\ action' = NoAction /\ step' = 0
  /\ UNCHANGED cmec

Twice == p < Len(keys) /\ keys[p + 1] = "semi"     \* a semicolon that is meant

\* Mutated: the second semicolon of two is looked at again.
Toggle_Each ==
  /\ pc = "key" /\ p <= Len(keys) /\ keys[p] = "semi"
  /\ IF Twice THEN p' = p + 1 /\ code' = keymap("semi", alpha) /\ pc' = "press" /\ UNCHANGED alpha
              ELSE alpha' = ~alpha /\ p' = p + 1 /\ UNCHANGED <<code, pc>>
  /\ UNCHANGED <<device, keys, touch, emitted, ret>>

\* One semicolon switches the mode, two are a semicolon.
Toggle ==
  /\ pc = "key" /\ p <= Len(keys) /\ keys[p] = "semi"
  /\ IF Twice THEN p' = p + 2 /\ code' = keymap("semi", alpha) /\ pc' = "press" /\ UNCHANGED alpha
              ELSE alpha' = ~alpha /\ p' = p + 1 /\ UNCHANGED <<code, pc>>
  /\ UNCHANGED <<device, keys, touch, emitted, ret>>

Key ==
  /\ pc = "key" /\ p <= Len(keys) /\ keys[p] # "semi"
  /\ code' = keymap(keys[p], alpha) /\ p' = p + 1
  /\ pc' = "press"
  /\ UNCHANGED <<device, keys, alpha, touch, emitted, ret>>

\* The key is pressed, and a time later released; without a key only the time passes.
Press ==
  /\ pc = "press"
  /\ Emit(IF code = NoKey THEN <<>> ELSE <<<<code, 1>>, SYN>>, "release")
  /\ UNCHANGED <<device, keypad, touch>>

Release ==
  /\ pc = "release"
  /\ Emit(IF code = NoKey THEN <<>> ELSE <<<<code, 0>>, SYN>>, "key")
  /\ UNCHANGED <<device, keypad, touch>>

Typed ==
  /\ pc = "key" /\ p > Len(keys)
  /\ pc' = "idle" /\ ret' = "OK"
  /\ UNCHANGED <<device, keypad, touch, emitted>>

-----------------------------------------------------------------------------
(***************************************************************************)
(* set_ctsa(): 0 releases, 1 presses, 2 does both.                         *)
(***************************************************************************)
set_ctsa(a) ==
  /\ pc = "idle"
  /\ IF cmec["touchscreen"] = 0 THEN ret' = "EPERM" /\ UNCHANGED <<open, pc>>
                                ELSE create_uinput("touchscreen", "touch")
  /\ action' = a /\ step' = 0
  /\ emitted' = <<>>
  /\ keys' = <<>> /\ p' = 1 /\ alpha' = FALSE /\ code' = NoKey
  /\ UNCHANGED cmec

\* The position, for a single touch and for several, the size and the number of the contact.
Position == <<<<"ABS_X", 0>>, <<"ABS_Y", 0>>, <<"MT_X", 0>>, <<"MT_Y", 0>>, <<"MT_MAJOR", 1>>,
              <<"MT_ID", 0>>, <<"MT_SYN", 0>>, SYN>>

Part(n, wanted, events) ==
  /\ pc = "touch" /\ step = n /\ step' = n + 1
  /\ Emit(IF wanted THEN events ELSE <<>>, "touch")
  /\ UNCHANGED <<device, keypad, action>>

Depress == Part(0, action # 0, <<<<"TOUCH", 1>>>>)
Place == Part(1, TRUE, Position)
Lift == Part(2, action # 1, <<<<"TOUCH", 0>>, SYN>>)

Touched ==
  /\ pc = "touch" /\ step = 3
  /\ pc' = "idle" /\ ret' = "OK"
  /\ UNCHANGED <<device, keypad, touch, emitted>>

-----------------------------------------------------------------------------
\* set_cmec(): AT+CMEC=k,0,0,t
set_cmec(k, t) ==
  /\ pc = "idle"
  /\ IF k = 1 \/ t = 1 THEN ret' = "EPERM" /\ UNCHANGED cmec
     ELSE ret' = "none" /\ cmec' = [keypad |-> k, touchscreen |-> t]
  /\ emitted' = <<>>
  /\ UNCHANGED <<open, pc, keypad, touch>>

Fresh ==
  /\ cmec' = [d \in Devices |-> 2] /\ open' = [d \in Devices |-> FALSE]
  /\ pc' = "idle" /\ ret' = "none" /\ emitted' = <<>>

\* The plugin goes, perhaps in the middle of a command, and comes back: the devices are
\* destroyed, and with them whatever is pressed.
at_plugin_unregister == Fresh /\ UNCHANGED <<keypad, touch>>

Init ==
  /\ cmec = [d \in Devices |-> 2] /\ open = [d \in Devices |-> FALSE]
  /\ pc = "idle" /\ ret = "none" /\ emitted = <<>>
  /\ keys = <<>> /\ p = 1 /\ alpha = FALSE /\ code = NoKey
  /\ action = NoAction /\ step = 0

Commands == UNION {[1..n -> Chars] : n \in 1..MaxKeys}

Next ==
  \/ \E k \in Commands : handle_keypad(k)
  \/ Toggle \/ Key \/ Press \/ Release \/ Typed
  \/ \E a \in 0..2 : set_ctsa(a)
  \/ Depress \/ Place \/ Lift \/ Touched
  \/ \E k \in 0..2, t \in 0..2 : set_cmec(k, t)
  \/ at_plugin_unregister

Spec == Init /\ [][Next]_vars

-----------------------------------------------------------------------------
\* What a string of keys stands for, read as a whole: of several semicolons in a row, each
\* second one is meant, and the last one of an odd number switches the mode.
Run(i) == i - (CHOOSE j \in 0..i : (j = 0 \/ keys[j] # "semi") /\ \A k \in (j + 1)..i : keys[k] = "semi")
Switches(i) == Run(i) % 2 = 1 /\ (i = Len(keys) \/ keys[i + 1] # "semi")
Alphabetic[i \in 0..Len(keys)] == i # 0 /\ Alphabetic[i - 1] # Switches(i)
KeyOf(i) == IF Run(i) % 2 = 1 THEN NoKey ELSE keymap(keys[i], Alphabetic[i])
Stroke(k) == IF k = NoKey THEN <<>> ELSE <<<<k, 1>>, SYN, <<k, 0>>, SYN>>
Strokes[i \in 0..Len(keys)] == IF i = 0 THEN <<>> ELSE Strokes[i - 1] \o Stroke(KeyOf(i))
Script == Strokes[Len(keys)]

\* The touch screen is touched or not after these events, in a frame that gives the position.
IsTouched(events) == \E i \in DOMAIN events :
  events[i] = <<"TOUCH", 1>> /\ \A j \in i..Len(events) : events[j] # <<"TOUCH", 0>>
PositionFirst(events) == \A i \in DOMAIN events : events[i] = SYN =>
  \A e \in ToSet(Position) \ {SYN} : \E j \in 1..(i - 1) : events[j] = e

\* The keypad gets the strokes that the characters stand for and nothing else, all of them if
\* the answer is OK, so that no key stays pressed; the touch screen is left touched only when
\* that was asked for (uinput.c:222-270, 300-387).
EventsAsAsked ==
  /\ action = NoAction => /\ IsPrefix(emitted, Script)
                          /\ ret = "OK" => emitted = Script
  /\ action # NoAction => /\ PositionFirst(emitted)
                          /\ ret = "OK" => IsTouched(emitted) = (action = 1)
=============================================================================
