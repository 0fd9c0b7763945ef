----------------------------- MODULE Backlight -----------------------------
(***************************************************************************)
(* AT+CBKLT of plugins/mce/backlight.c: the terminal lights the display    *)
(* for a time, for ever or once, or darkens it. A thread of the plugin     *)
(* asks the mode control entity (MCE) for light again and again; the next  *)
(* command cancels it and waits for it.                                    *)
(***************************************************************************)
EXTENDS Naturals

CONSTANTS
  Durations,   \* of AT+CBKLT=1
  Refuses      \* what MCE refuses: "unlock", "off", "on"; or "thread": there is no thread

\* Times are in seconds.
DurationsAssumption == Durations \subseteq Nat

VARIABLES
  active, finite, deadline,   \* the fields of backlight_t; all times are seconds from now
  at, sleep,   \* the thread: "none", "ask", "asked", "sleep", "done"; how long it sleeps
  pc, state, duration,        \* the command: "idle", "disable", "unlock", "act", and its values
  asked,       \* the state of the last command that was answered with OK
  lit,         \* the display stays on for so long, unless somebody turns it off
  refused      \* MCE has refused what it was asked last

thread == <<at, sleep>>
settings == <<active, finite, deadline>>
command == <<pc, state, duration>>
vars == <<settings, thread, command, asked, lit, refused>>

Nobody == 9        \* no command has been accepted
Grace == 10        \* seconds before MCE turns the display off by itself

\* A simple request to MCE.
mce_simple_request(what) ==
  \/ /\ refused' = FALSE
     /\ lit' = IF what = "on" THEN Grace ELSE IF what = "off" THEN 0 ELSE lit
  \/ what \in Refuses /\ refused' = TRUE /\ UNCHANGED lit

-----------------------------------------------------------------------------
(***************************************************************************)
(* bklt_thread(): it is cancelled only when it sleeps.                     *)
(***************************************************************************)
Wake ==
  /\ at = "sleep" /\ sleep = 0
  /\ at' = "ask"
  /\ UNCHANGED <<settings, sleep, command, asked, lit, refused>>

Ask ==
  /\ at = "ask"
  /\ mce_simple_request("on")
  /\ at' = "asked"
  /\ UNCHANGED <<settings, sleep, command, asked>>

Sleep ==
  /\ at = "asked"
  /\ sleep' = 9
  /\ at' = IF finite /\ sleep' >= deadline THEN "done" ELSE "sleep"
  /\ UNCHANGED <<settings, command, asked, lit, refused>>

-----------------------------------------------------------------------------
\* set_bklt()
set_bklt(s, d) ==
  /\ pc = "idle" /\ pc' = "disable"
  /\ state' = s /\ duration' = d
  /\ asked' = Nobody
  /\ UNCHANGED <<settings, thread, lit, refused>>

\* Mutated: the thread is cancelled, and nobody waits for it to have been.
disable_bklt_Detached ==
  /\ pc = "disable"
  /\ active' = FALSE
  /\ at' = IF at \in {"sleep", "done"} THEN "none" ELSE at
  /\ pc' = IF state = 0 THEN "act" ELSE "unlock"
  /\ UNCHANGED <<finite, deadline, sleep, state, duration, asked, lit, refused>>

disable_bklt ==
  /\ pc = "disable"
  /\ active => at \in {"sleep", "done"}
  /\ active' = FALSE /\ at' = "none"
  /\ pc' = IF state = 0 THEN "act" ELSE "unlock"
  /\ UNCHANGED <<finite, deadline, sleep, state, duration, asked, lit, refused>>

Unlock ==
  /\ pc = "unlock"
  /\ mce_simple_request("unlock")
  /\ pc' = IF refused' THEN "idle" ELSE "act"
  /\ UNCHANGED <<settings, thread, state, duration, asked>>

Act(s) == pc = "act" /\ state = s /\ pc' = "idle" /\ UNCHANGED <<state, duration>>

\* The display is turned off (0) or on (3) once.
Once(s, what) ==
  /\ Act(s)
  /\ mce_simple_request(what)
  /\ asked' = IF refused' THEN Nobody ELSE s
  /\ UNCHANGED <<settings, thread>>

enable_bklt ==
  \/ active' = TRUE /\ at' = "ask" /\ asked' = state
  \/ "thread" \in Refuses /\ UNCHANGED <<active, at, asked>>

enable_bklt_duration ==
  /\ Act(1)
  /\ finite' = TRUE /\ deadline' = duration
  /\ enable_bklt
  /\ UNCHANGED <<sleep, lit, refused>>

enable_bklt_infinite ==
  /\ Act(2)
  /\ finite' = FALSE
  /\ enable_bklt
  /\ UNCHANGED <<sleep, deadline, lit, refused>>

\* get_bklt(): 1 and 2 are answered without asking MCE, which knows whether there is light.
get_bklt ==
  IF active /\ finite /\ deadline > 0 THEN 1
  ELSE IF active /\ ~finite THEN 2
  ELSE IF lit > 0 THEN 3 ELSE 0

\* The plugin goes and comes back, when no command runs.
at_plugin_unregister ==
  /\ pc = "idle"
  /\ active => at \in {"sleep", "done"}
  /\ active' = FALSE /\ at' = "none" /\ asked' = Nobody
  /\ UNCHANGED <<finite, deadline, sleep, command, lit, refused>>

\* The thread keeps up with the clock: to a second, it runs when it can.
Less(n) == IF n = 0 THEN 0 ELSE n - 1
Tick ==
  /\ at \in {"none", "done"} \/ (at = "sleep" /\ sleep > 0)
  /\ sleep' = Less(sleep) /\ deadline' = Less(deadline) /\ lit' = Less(lit)
  /\ UNCHANGED <<active, finite, at, command, asked, refused>>

Init ==
  /\ active = FALSE /\ finite = FALSE /\ deadline = 0
  /\ at = "none" /\ sleep = 0 /\ pc = "idle" /\ state = 0 /\ duration = 10
  /\ asked = Nobody /\ lit = 0 /\ refused = FALSE

Set == (\E s \in {0, 2, 3} : set_bklt(s, 10)) \/ (\E d \in Durations \cup {10} : set_bklt(1, d))

Next ==
  \/ Wake \/ Ask \/ Sleep \/ Set \/ disable_bklt \/ Unlock
  \/ Once(0, "off") \/ Once(3, "on") \/ enable_bklt_duration \/ enable_bklt_infinite
  \/ at_plugin_unregister \/ Tick

Spec == Init /\ [][Next]_vars

-----------------------------------------------------------------------------
\* The display is as AT+CBKLT last asked for: once it has been turned off nothing that a
\* former command has left behind turns it on again (backlight.c:107-136 against 151-159),
\* and as long as AT+CBKLT? answers 1 or 2 it is lit, if MCE does what it is asked.
LightAsAsked ==
  /\ asked = 0 => lit = 0
  /\ (get_bklt \in {1, 2} /\ at \in {"asked", "sleep", "done"}) => lit > 0 \/ refused
=============================================================================
