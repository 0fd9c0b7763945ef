--------------------------- MODULE DevicesProofs ---------------------------
(***************************************************************************)
(* Proofs about the plugins for the devices of the phone, under the names  *)
(* that Devices gives their modules.                                       *)
(***************************************************************************)
EXTENDS Devices, PluginsProofs, Integers, SequencesExt, WellFoundedInduction, TLAPS

-----------------------------------------------------------------------------
(***************************************************************************)
(* TimeZone, for any time zones and any number of changes of the file:     *)
(* unless its watch is lost for good, the thread of AT+CTZR does not wait  *)
(* while there is a zone that it has not reported.                         *)
(***************************************************************************)
EventKinds == {"modify", "delete", "ignored"}
QueueOK == queue \in Seq(EventKinds)

\* The end of the watch is still to be read, or the thread has just read it.
EndIsQueued == \E i \in 1..Len(queue) : queue[i] = "ignored"
EndIsRead == tz_at = "rewatch" \/ (tz_at = "sleep" /\ mask = "ignored")

\* A change of the file is seen: there is a watch, or the end of one to come.
Seen == watched \/ dying \/ EndIsQueued \/ EndIsRead \/ blind

\* The zone has been reported, or there is something to wake up the thread.
Reported == current_tz = Zone!Zone \/ Len(queue) > 0 \/ dying \/ blind

\* A watch is on a file that is there.
WatchedIsThere == watched => tz_file # Zone!NoFile

ZoneLoops == tz_at \in {"tzset", "read", "sleep", "rewatch"}
ZoneInv == QueueOK /\ WatchedIsThere /\ (ZoneLoops => Seen) /\ (tz_at = "read" => Reported)

\* Queuing an event keeps those that are there.
LEMMA EventQueued ==
  ASSUME QueueOK, NEW e \in EventKinds, queue' = Append(queue, e)
  PROVE  /\ QueueOK' /\ Len(queue') > 0
         /\ EndIsQueued => EndIsQueued'
         /\ e = "ignored" => EndIsQueued'
<1>1. QueueOK' /\ Len(queue') = Len(queue) + 1 /\ Len(queue) \in Nat
  BY DEF QueueOK
<1>2. queue'[Len(queue) + 1] = e /\ \A i \in 1..Len(queue) : queue'[i] = queue[i]
  BY DEF QueueOK
<1>. QED
  BY <1>1, <1>2 DEF EndIsQueued

LEMMA ZoneReadKeeps ==
  ASSUME ZoneInv, Zone!Read
  PROVE  ZoneInv'
<1>. DEFINE taken == IF Len(queue) > Zone!Room THEN Zone!Room ELSE Len(queue)
<1>1. QueueOK /\ Seen /\ tz_at' = "sleep" /\ taken > 0
  BY DEF ZoneInv, Zone!Read, Zone!Go, ZoneLoops
<1>2. taken \in 1..Len(queue) /\ Len(queue) \in Nat
  BY <1>1 DEF QueueOK, Zone!Room
<1>3. /\ mask' = queue[1]
      /\ queue' = SubSeq(queue, taken + 1, Len(queue))
      /\ blind' = (blind \/ \E i \in 2..taken : queue[i] = "ignored")
      /\ UNCHANGED <<watched, dying, tz_file>>
  BY DEF Zone!Read, Zone!world
<1>. HIDE DEF taken
<1>4. QueueOK'
  BY <1>1, <1>2, <1>3 DEF QueueOK
<1>5. Len(queue') = Len(queue) - taken
      /\ \A i \in 1..(Len(queue) - taken) : queue'[i] = queue[i + taken]
  BY <1>1, <1>2, <1>3 DEF QueueOK
<1>6. ASSUME NEW i \in 1..Len(queue), queue[i] = "ignored" PROVE Seen'
  <2>1. CASE i = 1
    BY <1>1, <1>3, <1>6, <2>1 DEF Seen, EndIsRead
  <2>2. CASE i \in 2..taken
    <3>1. blind'
      BY <1>3, <1>6, <2>2, Zenon
    <3>. QED
      BY <3>1 DEF Seen
  <2>3. CASE i > taken
    <3>1. i - taken \in 1..Len(queue') /\ queue'[i - taken] = "ignored"
      BY <1>2, <1>5, <1>6, <2>3
    <3>. QED
      BY <3>1 DEF Seen, EndIsQueued
  <2>. QED
    BY <1>2, <2>1, <2>2, <2>3
<1>7. ASSUME blind PROVE blind'
  BY <1>3, <1>7, Zenon
<1>8. Seen'
  <2>1. CASE watched \/ dying
    BY <1>3, <2>1 DEF Seen
  <2>2. CASE EndIsQueued
    BY <1>6, <2>2 DEF EndIsQueued
  <2>3. CASE blind
    BY <1>7, <2>3 DEF Seen
  <2>4. ~EndIsRead
    BY DEF Zone!Read, Zone!Go, EndIsRead
  <2>. QED
    BY <1>1, <2>1, <2>2, <2>3, <2>4 DEF Seen
<1>. QED
  BY <1>1, <1>3, <1>4, <1>8 DEF ZoneInv, WatchedIsThere

LEMMA ZoneThreadKeeps ==
  ASSUME ZoneInv, Zone!inotify_init \/ Zone!AddWatch \/ Zone!tzset \/ Zone!Sleep \/ Zone!Rewatch
  PROVE  ZoneInv'
<1>1. QueueOK' /\ UNCHANGED <<queue, tz_file, dying>>
  BY DEF ZoneInv, QueueOK, Zone!inotify_init, Zone!AddWatch, Zone!tzset, Zone!Sleep, Zone!Rewatch, Zone!inotify_add_watch, Zone!world
<1>2. CASE Zone!inotify_init
  BY <1>1, <1>2 DEF ZoneInv, WatchedIsThere, ZoneLoops, Zone!inotify_init, Zone!Go
<1>3. CASE Zone!AddWatch \/ Zone!Rewatch
  <2>1. tz_at' = "tzset" /\ watched' = (tz_file # Zone!NoFile) /\ blind' = (blind \/ tz_file = Zone!NoFile)
    BY <1>3 DEF Zone!AddWatch, Zone!Rewatch, Zone!Go, Zone!inotify_add_watch
  <2>2. (watched' => tz_file # Zone!NoFile) /\ (watched' \/ blind')
    BY <2>1, Zenon
  <2>. QED
    BY <1>1, <2>1, <2>2 DEF ZoneInv, WatchedIsThere, Seen
<1>4. CASE Zone!tzset
  BY <1>1, <1>4
  DEF ZoneInv, WatchedIsThere, ZoneLoops, Zone!tzset, Zone!Go, Seen, EndIsQueued, EndIsRead, Reported, Zone!Zone
<1>5. CASE Zone!Sleep
  BY <1>1, <1>5 DEF ZoneInv, WatchedIsThere, ZoneLoops, Zone!Sleep, Zone!Go, Seen, EndIsQueued, EndIsRead
<1>. QED
  BY <1>2, <1>3, <1>4, <1>5

LEMMA ZoneChangeKeeps ==
  ASSUME ZoneInv, NEW zone \in Zones \cup {Zone!NoFile}, Zone!Change(zone)
  PROVE  ZoneInv'
<1>1. UNCHANGED <<tz_at, mask, current_tz, blind>> /\ tz_file' = zone
  BY DEF Zone!Change, Zone!thread
<1>2. CASE tz_file = Zone!NoFile
  <2>1. UNCHANGED <<watched, queue, dying>> /\ ~watched
    BY <1>2 DEF Zone!Change, ZoneInv, WatchedIsThere
  <2>2. (ZoneLoops => Seen)' /\ QueueOK' /\ WatchedIsThere'
    BY <1>1, <2>1 DEF ZoneInv, QueueOK, WatchedIsThere, ZoneLoops, Seen, EndIsQueued, EndIsRead
  <2>3. (tz_at = "read" => Reported)'
    <3>1. tz_at = "read" => dying \/ EndIsQueued \/ blind
      BY <2>1 DEF ZoneInv, ZoneLoops, Seen, EndIsRead
    <3>2. EndIsQueued => Len(queue) > 0
      BY DEF ZoneInv, QueueOK, EndIsQueued
    <3>. QED
      BY <1>1, <2>1, <3>1, <3>2 DEF Reported
  <2>. QED
    BY <2>2, <2>3 DEF ZoneInv
<1>3. CASE tz_file # Zone!NoFile /\ watched
  <2>1. \/ zone # Zone!NoFile /\ UNCHANGED <<watched, dying>> /\ queue' = Append(queue, "modify")
        \/ watched' = FALSE /\ dying' = (dying \/ watched) /\ queue' = Append(queue, "delete")
    BY <1>3 DEF Zone!Change
  <2>2. (watched' => zone # Zone!NoFile) /\ (watched' \/ dying')
    BY <1>3, <2>1, Zenon
  <2>3. QueueOK' /\ Len(queue') > 0
    BY <2>1, EventQueued DEF ZoneInv, EventKinds
  <2>. QED
    BY <1>1, <2>2, <2>3 DEF ZoneInv, WatchedIsThere, Seen, Reported
<1>4. CASE tz_file # Zone!NoFile /\ ~watched
  <2>1. /\ UNCHANGED queue
        /\ UNCHANGED <<watched, dying>> \/ (watched' = FALSE /\ dying' = (dying \/ watched))
    BY <1>4 DEF Zone!Change
  <2>2. ~watched' /\ (dying => dying')
    <3>1. CASE UNCHANGED <<watched, dying>>
      BY <1>4, <3>1
    <3>2. CASE watched' = FALSE /\ dying' = (dying \/ watched)
      BY <3>2, Zenon
    <3>. QED
      BY <2>1, <3>1, <3>2
  <2>3. QueueOK' /\ WatchedIsThere' /\ (EndIsQueued => EndIsQueued') /\ (EndIsRead => EndIsRead')
    BY <1>1, <2>1, <2>2 DEF ZoneInv, QueueOK, WatchedIsThere, EndIsQueued, EndIsRead
  <2>4. (ZoneLoops => Seen)'
    BY <1>1, <1>4, <2>2, <2>3 DEF ZoneInv, ZoneLoops, Seen
  <2>5. (tz_at = "read" => Reported)'
    <3>1. tz_at = "read" => dying \/ EndIsQueued \/ blind
      BY <1>4 DEF ZoneInv, ZoneLoops, Seen, EndIsRead
    <3>2. EndIsQueued => Len(queue) > 0
      BY DEF ZoneInv, QueueOK, EndIsQueued
    <3>. QED
      BY <1>1, <2>1, <2>2, <3>1, <3>2 DEF Reported
  <2>. QED
    BY <2>3, <2>4, <2>5 DEF ZoneInv
<1>. QED
  BY <1>2, <1>3, <1>4

LEMMA ZoneIgnoredKeeps ==
  ASSUME ZoneInv, Zone!Ignored
  PROVE  ZoneInv'
<1>1. QueueOK' /\ Len(queue') > 0 /\ EndIsQueued'
  BY EventQueued DEF Zone!Ignored, ZoneInv, EventKinds
<1>2. WatchedIsThere'
  BY DEF Zone!Ignored, ZoneInv, WatchedIsThere
<1>. QED
  BY <1>1, <1>2 DEF ZoneInv, Seen, Reported

LEMMA ZoneSwitchKeeps ==
  ASSUME ZoneInv, NEW onoff \in BOOLEAN, Zone!set_ctzr(onoff)
  PROVE  ZoneInv'
<1>1. queue' = <<>> /\ watched' = FALSE /\ tz_at' \in {"init", "none"}
  BY DEF Zone!set_ctzr
<1>. QED
  BY <1>1 DEF ZoneInv, QueueOK, WatchedIsThere, ZoneLoops

\* The invariant says what is asked for where the thread waits.
LEMMA ZoneFollows == ZoneInv => ZoneReported
<1>. SUFFICES ASSUME ZoneInv, tz_at = "read", queue = <<>>, ~dying, ~blind
              PROVE  current_tz = Zone!Zone
  BY DEF ZoneReported, Zone!ZoneReported
<1>1. ~(Len(queue) > 0)
  OBVIOUS
<1>. QED
  BY <1>1 DEF ZoneInv, Reported

\* While it waits with nothing to read, the thread of AT+CTZR has reported the time zone that the
\* file has, unless it has lost its watch (timezone.c:84-114).
THEOREM ZoneStaysReported == Zone!Spec => []ZoneReported
<1>1. Zone!Init => ZoneInv
  BY DEF Zone!Init, ZoneInv, QueueOK, WatchedIsThere, ZoneLoops
<1>2. ZoneInv /\ [Zone!Next]_(Zone!vars) => ZoneInv'
  <2>. SUFFICES ASSUME ZoneInv, [Zone!Next]_(Zone!vars) PROVE ZoneInv'
    OBVIOUS
  <2>1. CASE Zone!inotify_init \/ Zone!AddWatch \/ Zone!tzset \/ Zone!Sleep \/ Zone!Rewatch
    BY <2>1, ZoneThreadKeeps
  <2>2. CASE Zone!Read
    BY <2>2, ZoneReadKeeps
  <2>3. CASE \E onoff \in BOOLEAN : Zone!set_ctzr(onoff)
    BY <2>3, ZoneSwitchKeeps
  <2>4. CASE \E zone \in Zones \cup {Zone!NoFile} : Zone!Change(zone)
    BY <2>4, ZoneChangeKeeps
  <2>5. CASE Zone!Ignored
    BY <2>5, ZoneIgnoredKeeps
  <2>6. CASE UNCHANGED Zone!vars
    BY <2>6
    DEF Zone!vars, Zone!world, Zone!thread, ZoneInv, QueueOK, WatchedIsThere, ZoneLoops, Seen, EndIsQueued, EndIsRead,
        Reported, Zone!Zone
  <2>. QED
    BY <2>1, <2>2, <2>3, <2>4, <2>5, <2>6 DEF Zone!Next
<1>. QED
  BY <1>1, <1>2, ZoneFollows, PTL DEF Zone!Spec
-----------------------------------------------------------------------------
(***************************************************************************)
(* Backlight, for any durations and whatever MCE refuses.                  *)
(***************************************************************************)
LightType ==
  /\ active \in BOOLEAN /\ finite \in BOOLEAN /\ deadline \in Nat
  /\ light_at \in {"none", "ask", "asked", "sleep", "done"} /\ sleep \in Nat
  /\ light_pc \in {"idle", "disable", "unlock", "act"} /\ state \in {0, 1, 2, 3} /\ duration \in Nat
  /\ light_asked \in {0, 1, 2, 3, Light!Nobody} /\ lit \in Nat /\ refused \in BOOLEAN

\* A command goes on only after the thread is gone, and after AT+CBKLT=0 there is neither a
\* thread nor light.
CommandOK ==
  /\ light_pc \in {"unlock", "act"} => light_at = "none"
  /\ light_asked = 0 => light_pc = "idle" /\ light_at = "none" /\ lit = 0

\* The light outlasts the sleep of the thread, or what is left of the duration.
OutlastsOK ==
  refused \/ /\ light_at = "asked" => lit = Light!Grace
             /\ light_at = "sleep" => lit > sleep
             /\ light_at = "done" => finite /\ (deadline = 0 \/ lit > deadline)

LightInv == LightType /\ CommandOK /\ OutlastsOK

LEMMA LightStarts == Light!Init => LightInv
<1> SUFFICES ASSUME Light!Init PROVE LightInv
  OBVIOUS
<1> USE DEF Light!Init
<1>1. LightType
  BY DEF LightType
<1>2. CommandOK
  BY DEF CommandOK, Light!Nobody
<1>3. OutlastsOK
  BY DEF OutlastsOK
<1>4. QED
  BY <1>1, <1>2, <1>3 DEF LightInv

\* What MCE is asked changes the light, or is refused.
LEMMA Requested ==
  ASSUME NEW what, Light!mce_simple_request(what), lit \in Nat
  PROVE  /\ lit' \in Nat /\ refused' \in BOOLEAN
         /\ what = "on" => refused' \/ lit' = Light!Grace
         /\ what = "off" => refused' \/ lit' = 0
<1>1. CASE refused' = FALSE /\ lit' = IF what = "on" THEN Light!Grace ELSE IF what = "off" THEN 0 ELSE lit
  <2>1. Light!Grace \in Nat
    BY DEF Light!Grace
  <2>2. QED
    BY <1>1, <2>1
<1>2. CASE refused' = TRUE /\ lit' = lit
  BY <1>2
<1>3. QED
  BY <1>1, <1>2 DEF Light!mce_simple_request

LEMMA LightThreadKeeps ==
  ASSUME LightInv, Light!Wake \/ Light!Ask \/ Light!Sleep
  PROVE  LightInv'
<1> USE DEF LightInv
<1>1. CASE Light!Wake
  BY <1>1 DEF Light!Wake, Light!settings, Light!command, LightType, CommandOK, OutlastsOK
<1>2. CASE Light!Ask
  <2>1. /\ light_at = "ask" /\ light_at' = "asked" /\ Light!mce_simple_request("on")
        /\ UNCHANGED <<active, finite, deadline, sleep, light_pc, state, duration, light_asked>>
    BY <1>2 DEF Light!Ask, Light!settings, Light!command
  <2>2. lit' \in Nat /\ refused' \in BOOLEAN /\ (refused' \/ lit' = Light!Grace)
    BY <2>1, Requested DEF LightType
  <2>3. QED
    BY <2>1, <2>2 DEF LightType, CommandOK, OutlastsOK
<1>3. CASE Light!Sleep
  <2>1. /\ light_at = "asked" /\ sleep' = 9
        /\ light_at' = IF finite /\ 9 >= deadline THEN "done" ELSE "sleep"
        /\ UNCHANGED <<active, finite, deadline, light_pc, state, duration, light_asked, lit, refused>>
    BY <1>3 DEF Light!Sleep, Light!settings, Light!command
  <2>2. QED
    BY <2>1 DEF LightType, CommandOK, OutlastsOK, Light!Grace
<1>4. QED
  BY <1>1, <1>2, <1>3

LEMMA LightCommandKeeps ==
  ASSUME LightInv, \/ Light!Set \/ Light!disable_bklt \/ Light!Unlock \/ Light!Once(0, "off") \/ Light!Once(3, "on")
                   \/ Light!enable_bklt_duration \/ Light!enable_bklt_infinite
  PROVE  LightInv'
<1> USE DEF LightInv
<1>1. CASE Light!Set
  <2>1. PICK s \in {0, 1, 2, 3}, d \in Durations \cup {10} : Light!set_bklt(s, d)
    BY <1>1 DEF Light!Set
  <2>2. d \in Nat
    BY DevicesAssumption DEF Light!DurationsAssumption
  <2>3. QED
    BY <2>1, <2>2 DEF Light!set_bklt, Light!settings, Light!thread, LightType, CommandOK, OutlastsOK, Light!Nobody
<1>2. CASE Light!disable_bklt
  BY <1>2 DEF Light!disable_bklt, LightType, CommandOK, OutlastsOK
<1>3. CASE Light!Unlock
  <2>1. /\ light_pc = "unlock" /\ Light!mce_simple_request("unlock") /\ light_pc' \in {"idle", "act"}
        /\ UNCHANGED <<active, finite, deadline, light_at, sleep, state, duration, light_asked>>
    BY <1>3 DEF Light!Unlock, Light!settings, Light!thread
  <2>2. lit' \in Nat /\ refused' \in BOOLEAN
    BY <2>1, Requested DEF LightType
  <2>3. QED
    BY <2>1, <2>2 DEF LightType, CommandOK, OutlastsOK
<1>4. ASSUME NEW s \in {0, 3}, NEW what \in {"off", "on"}, s = 0 => what = "off", Light!Once(s, what) PROVE LightInv'
  <2>1. /\ light_pc = "act" /\ light_pc' = "idle" /\ Light!mce_simple_request(what)
        /\ light_asked' = IF refused' THEN Light!Nobody ELSE s
        /\ UNCHANGED <<active, finite, deadline, light_at, sleep, state, duration>>
    BY <1>4 DEF Light!Once, Light!Act, Light!settings, Light!thread
  <2>2. lit' \in Nat /\ refused' \in BOOLEAN /\ (what = "off" => refused' \/ lit' = 0)
    BY <2>1, Requested DEF LightType
  <2>3. QED
    BY <1>4, <2>1, <2>2 DEF LightType, CommandOK, OutlastsOK, Light!Nobody
<1>5. CASE Light!enable_bklt_duration \/ Light!enable_bklt_infinite
  <2>1. /\ light_pc = "act" /\ light_pc' = "idle" /\ state \in {1, 2}
        /\ finite' \in BOOLEAN /\ deadline' \in {deadline, duration}
        /\ \/ active' = TRUE /\ light_at' = "ask" /\ light_asked' = state
           \/ UNCHANGED <<active, light_at, light_asked>>
        /\ UNCHANGED <<sleep, state, duration, lit, refused>>
    BY <1>5 DEF Light!enable_bklt_duration, Light!enable_bklt_infinite, Light!Act, Light!enable_bklt
  <2>2. active' \in BOOLEAN /\ light_asked # 0 /\ light_asked' # 0 /\ light_at' \in {"none", "ask"}
        /\ light_asked' \in {0, 1, 2, 3, Light!Nobody}
    <3>1. CASE active' = TRUE /\ light_at' = "ask" /\ light_asked' = state
      BY <2>1, <3>1 DEF CommandOK
    <3>2. CASE UNCHANGED <<active, light_at, light_asked>>
      BY <2>1, <3>2 DEF LightType, CommandOK
    <3>3. QED
      BY <2>1, <3>1, <3>2
  <2>3. LightType'
    BY <2>1, <2>2 DEF LightType
  <2>4. CommandOK' /\ OutlastsOK'
    BY <2>1, <2>2 DEF CommandOK, OutlastsOK
  <2>5. QED
    BY <2>3, <2>4
<1>6. QED
  BY <1>1, <1>2, <1>3, <1>4, <1>5

LEMMA LightRestKeeps ==
  ASSUME LightInv, Light!at_plugin_unregister \/ Light!Tick
  PROVE  LightInv'
<1> USE DEF LightInv
<1>1. CASE Light!at_plugin_unregister
  <2>1. /\ active' = FALSE /\ light_at' = "none" /\ light_asked' = Light!Nobody /\ light_pc = "idle"
        /\ UNCHANGED <<finite, deadline, sleep, light_pc, state, duration, lit, refused>>
    BY <1>1 DEF Light!at_plugin_unregister, Light!command
  <2>2. LightType'
    BY <2>1 DEF LightType
  <2>3. CommandOK' /\ OutlastsOK'
    BY <2>1 DEF CommandOK, OutlastsOK, Light!Nobody
  <2>4. QED
    BY <2>2, <2>3
<1>2. CASE Light!Tick
  <2>1. \A n \in Nat : Light!Less(n) \in Nat /\ (n = 0 => Light!Less(n) = 0) /\ (n > 0 => Light!Less(n) = n - 1)
    BY DEF Light!Less
  <2>2. /\ light_at \in {"none", "done"} \/ (light_at = "sleep" /\ sleep > 0)
        /\ sleep' = Light!Less(sleep) /\ deadline' = Light!Less(deadline) /\ lit' = Light!Less(lit)
        /\ UNCHANGED <<active, finite, light_at, light_pc, state, duration, light_asked, refused>>
    BY <1>2 DEF Light!Tick, Light!command
  <2>3. LightType' /\ CommandOK'
    BY <2>1, <2>2 DEF LightType, CommandOK
  <2>4. OutlastsOK'
    BY <2>1, <2>2 DEF LightType, OutlastsOK
  <2>5. QED
    BY <2>3, <2>4
<1>3. QED
  BY <1>1, <1>2

\* For any durations and whatever MCE refuses: after AT+CBKLT=0 nothing that a former command has
\* left behind turns the light on again, and while AT+CBKLT? answers 1 or 2 it is on
\* (backlight.c:107-136, 151-159).
THEOREM LightStaysAsAsked == Light!Spec => []LightAsAsked
<1>1. LightInv /\ [Light!Next]_(Light!vars) => LightInv'
  <2> SUFFICES ASSUME LightInv, [Light!Next]_(Light!vars) PROVE LightInv'
    OBVIOUS
  <2>1. CASE UNCHANGED Light!vars
    BY <2>1 DEF LightInv, LightType, CommandOK, OutlastsOK, Light!vars, Light!settings, Light!thread, Light!command
  <2>2. QED
    BY <2>1, LightThreadKeeps, LightCommandKeeps, LightRestKeeps DEF Light!Next
<1>2. LightInv => LightAsAsked
  BY DEF LightInv, LightType, CommandOK, OutlastsOK, LightAsAsked, Light!LightAsAsked, Light!get_bklt, Light!Grace
<1>3. QED
  BY <1>1, <1>2, LightStarts, PTL DEF Light!Spec
-----------------------------------------------------------------------------
(***************************************************************************)
(* EventReports, for any number of descriptors.                            *)
(***************************************************************************)
EventsType ==
  /\ descriptors \in [Events!Fds -> Events!Devices \cup {"none"}]
  /\ keyp_fd \in Events!Fds \cup {Events!NoFd} /\ request \in Events!Requests

KeypadIsIts == \A fd \in Events!Fds : descriptors[fd] = "keypad" => fd = keyp_fd

\* A keypad that is gone is closed when its descriptor is forgotten.
ClosedFirst ==
  /\ cmer_at = "tscrn" => revents[1] # "hup"
  /\ (cmer_at = "closing" /\ revents[1] = "hup") => \A fd \in Events!Fds : descriptors[fd] # "keypad"

\* What is polled and read as the keypad is the keypad, also if the touch screen's descriptor is an
\* old one of that number: both hang up, or neither.
Polled == keyp_fd # Events!NoFd =>
  /\ cmer_at \in {"poll", "keyp", "tscrn"} => descriptors[keyp_fd] = "keypad"
  /\ cmer_at = "keyp" /\ keyp_fd = tscrn_fd /\ revents[2] = "hup" => revents[1] = "hup"
  /\ cmer_at = "tscrn" /\ revents[2] = "hup" => keyp_fd # tscrn_fd
  /\ cmer_at = "closing" /\ revents[1] # "hup" => descriptors[keyp_fd] = "keypad"
  /\ cmer_pc \in {"tscrn", "thread"} => descriptors[keyp_fd] = "keypad" /\ request.keyp = 1

\* The command makes the thread last, of what it was asked for, after the former one is gone.
OpenedLast ==
  /\ cmer_pc \notin {"idle", "kill"} => cmer_at = "none"
  /\ cmer_pc # "idle" => cmer_asked = Events!Nothing
  /\ cmer_pc = "keyp" => keyp_fd = Events!NoFd

AsAskedOK == cmer_pc = "idle" =>
  /\ Events!KeypadOpen => request.keyp = 1 /\ (cmer_at = "none" => cmer_asked.mode = 0)
  /\ cmer_at # "none" => /\ cmer_asked = request /\ cmer_asked.mode = 1
                         /\ keyp_fd # Events!NoFd => cmer_asked.keyp = 1

EventsInv == EventsType /\ KeypadIsIts /\ ClosedFirst /\ Polled /\ OpenedLast /\ AsAskedOK

LEMMA EventsStart == Events!Init => EventsInv
<1> SUFFICES ASSUME Events!Init PROVE EventsInv
  OBVIOUS
<1> USE DEF Events!Init
<1>1. EventsType
  BY DEF EventsType, Events!Requests, Events!Nothing
<1>2. KeypadIsIts /\ ClosedFirst /\ Polled /\ OpenedLast /\ AsAskedOK
  BY DEF KeypadIsIts, ClosedFirst, Polled, OpenedLast, AsAskedOK, Events!KeypadOpen
<1>3. QED
  BY <1>1, <1>2 DEF EventsInv

\* close(): the descriptor is of no device, the others are as they were.
LEMMA Closing ==
  ASSUME EventsType, NEW fd, Events!Close(fd)
  PROVE  /\ descriptors' \in [Events!Fds -> Events!Devices \cup {"none"}]
         /\ \A f \in Events!Fds : descriptors'[f] = IF f = fd THEN "none" ELSE descriptors[f]
BY DEF Events!Close, EventsType

LEMMA Opening ==
  ASSUME EventsType, NEW device \in Events!Devices, NEW fd \in Events!Fds, Events!Open(device, fd)
  PROVE  /\ descriptors' \in [Events!Fds -> Events!Devices \cup {"none"}]
         /\ \A f \in Events!Fds : descriptors'[f] = IF f = fd THEN device ELSE descriptors[f]
         /\ descriptors[fd] = "none"
BY DEF Events!Open, EventsType

\* poll() finds of one descriptor under two names that both hang up, or neither.
LEMMA PollKeeps ==
  ASSUME EventsInv, Events!Poll
  PROVE  EventsInv'
<1>1. PICK k \in Events!Event(keyp_fd), t \in Events!Event(tscrn_fd) : revents' = <<k, t>>
  BY DEF Events!Poll
<1>2. /\ UNCHANGED <<descriptors, keyp_fd, tscrn_fd, cmer_pc, request, cmer_asked>>
      /\ cmer_at = "poll" /\ cmer_at' = "keyp"
  BY DEF Events!Poll, Events!fds, Events!command
<1>3. cmer_pc \in {"idle", "kill"}
  BY <1>2 DEF EventsInv, OpenedLast
<1>4. ASSUME keyp_fd # Events!NoFd, keyp_fd = tscrn_fd, t = "hup" PROVE k = "hup"
  <2>1. descriptors[keyp_fd] = "keypad"
    BY <1>2, <1>4 DEF EventsInv, Polled
  <2>2. Events!Event(keyp_fd) = IF "keypad" \notin plugged THEN {"hup"} ELSE {"none", "in"}
    BY <1>4, <2>1 DEF Events!Event
  <2>3. QED
    BY <1>1, <1>4, <2>2
<1>5. EventsType' /\ KeypadIsIts' /\ ClosedFirst' /\ OpenedLast'
  BY <1>2, <1>3 DEF EventsInv, EventsType, KeypadIsIts, ClosedFirst, OpenedLast
<1>6. Polled'
  BY <1>1, <1>2, <1>3, <1>4 DEF EventsInv, Polled
<1>7. AsAskedOK'
  BY <1>2 DEF EventsInv, AsAskedOK, Events!KeypadOpen
<1>8. QED
  BY <1>5, <1>6, <1>7 DEF EventsInv

LEMMA EventsThreadKeeps ==
  ASSUME EventsInv, \/ Events!Poll \/ Events!Gone \/ Events!Forget \/ Events!report_keyp
                    \/ Events!TouchscreenGone \/ Events!report_tscrn
  PROVE  EventsInv'
<1> USE DEF EventsInv
<1>0. UNCHANGED <<cmer_pc, request, cmer_asked>> /\ cmer_at # "none"
  BY DEF Events!Poll, Events!Gone, Events!Forget, Events!report_keyp, Events!TouchscreenGone, Events!report_tscrn, Events!command
<1>1. cmer_pc \in {"idle", "kill"}
  BY <1>0 DEF OpenedLast
<1>2. CASE Events!report_keyp \/ Events!report_tscrn
  <2>1. /\ UNCHANGED <<descriptors, keyp_fd, tscrn_fd>>
        /\ \/ cmer_at = "keyp" /\ cmer_at' = "tscrn" /\ UNCHANGED revents /\ revents[1] # "hup"
           \/ cmer_at = "tscrn" /\ cmer_at' = "poll"
    BY <1>2 DEF Events!report_keyp, Events!report_tscrn, Events!fds
  <2>2. EventsType' /\ KeypadIsIts' /\ ClosedFirst' /\ OpenedLast'
    BY <1>0, <1>1, <2>1 DEF EventsType, KeypadIsIts, ClosedFirst, OpenedLast
  <2>3. Polled'
    BY <1>0, <1>1, <2>1 DEF Polled
  <2>4. AsAskedOK'
    BY <1>0, <2>1 DEF AsAskedOK, Events!KeypadOpen
  <2>5. QED
    BY <2>2, <2>3, <2>4
<1>3. CASE Events!Gone
  <2>1. /\ Events!Close(keyp_fd) /\ UNCHANGED <<keyp_fd, revents>> /\ cmer_at' = "closing"
        /\ revents[1] = "hup"
    BY <1>3 DEF Events!Gone, Events!fds
  <2>2. \A fd \in Events!Fds : descriptors'[fd] # "keypad"
    BY <2>1, Closing DEF KeypadIsIts
  <2>3. EventsType'
    BY <1>0, <2>1, Closing DEF EventsType
  <2>4. KeypadIsIts' /\ ClosedFirst' /\ Polled' /\ OpenedLast'
    BY <1>0, <1>1, <2>1, <2>2 DEF KeypadIsIts, ClosedFirst, Polled, OpenedLast
  <2>5. AsAskedOK'
    BY <1>0, <2>1, <2>2 DEF AsAskedOK, Events!KeypadOpen
  <2>6. QED
    BY <2>3, <2>4, <2>5
<1>4. CASE Events!Forget /\ revents[1] = "hup"
  <2>1. /\ UNCHANGED descriptors /\ keyp_fd' = Events!NoFd /\ cmer_at' = "tscrn" /\ cmer_at = "closing"
        /\ revents' = <<"none", revents[2]>>
    BY <1>4 DEF Events!Forget
  <2>2. \A fd \in Events!Fds : descriptors'[fd] # "keypad"
    BY <1>4, <2>1 DEF ClosedFirst
  <2>3. EventsType' /\ KeypadIsIts' /\ ClosedFirst' /\ Polled' /\ OpenedLast'
    BY <1>0, <1>1, <2>1, <2>2 DEF EventsType, KeypadIsIts, ClosedFirst, Polled, OpenedLast
  <2>4. AsAskedOK'
    BY <1>0, <2>1, <2>2 DEF AsAskedOK, Events!KeypadOpen
  <2>5. QED
    BY <2>3, <2>4
<1>5. CASE Events!Forget /\ revents[1] # "hup"
  <2>1. UNCHANGED <<descriptors, keyp_fd>> /\ cmer_at = "closing" /\ cmer_at' = "poll"
    BY <1>5 DEF Events!Forget
  <2>2. EventsType' /\ KeypadIsIts' /\ ClosedFirst' /\ Polled' /\ OpenedLast'
    BY <1>0, <1>1, <1>5, <2>1 DEF EventsType, KeypadIsIts, ClosedFirst, Polled, OpenedLast
  <2>3. AsAskedOK'
    BY <1>0, <2>1 DEF AsAskedOK, Events!KeypadOpen
  <2>4. QED
    BY <2>2, <2>3
<1>6. CASE Events!TouchscreenGone
  <2>1. /\ Events!Close(tscrn_fd) /\ UNCHANGED <<keyp_fd, revents>> /\ cmer_at = "tscrn" /\ cmer_at' = "closing"
        /\ revents[2] = "hup"
    BY <1>6 DEF Events!TouchscreenGone, Events!fds
  <2>2. \A fd \in Events!Fds : descriptors'[fd] = "keypad" => descriptors[fd] = "keypad"
    BY <2>1, Closing
  <2>3. keyp_fd # Events!NoFd => descriptors'[keyp_fd] = "keypad"
    BY <2>1, Closing DEF Polled, EventsType
  <2>4. EventsType'
    BY <1>0, <2>1, Closing DEF EventsType
  <2>5. KeypadIsIts' /\ ClosedFirst' /\ Polled' /\ OpenedLast'
    BY <1>0, <1>1, <2>1, <2>2, <2>3 DEF KeypadIsIts, ClosedFirst, Polled, OpenedLast
  <2>6. AsAskedOK'
    BY <1>0, <2>1, <2>2 DEF AsAskedOK, Events!KeypadOpen
  <2>7. QED
    BY <2>4, <2>5, <2>6
<1>7. QED
  BY <1>2, <1>3, <1>4, <1>5, <1>6, PollKeeps

LEMMA EventsCommandKeeps ==
  ASSUME EventsInv, \/ \E r \in Events!Requests : Events!set_cmer(r)
                    \/ Events!Kill \/ Events!CloseKeypad \/ Events!OpenKeypad
                    \/ Events!OpenTouchscreen \/ Events!CreateThread
  PROVE  EventsInv'
<1> USE DEF EventsInv
<1>0. Events!NoFd \notin Events!Fds /\ Events!Nothing.mode = 0
  BY DEF Events!NoFd, Events!Fds, Events!Nothing
<1>1. ASSUME NEW r \in Events!Requests, Events!set_cmer(r) PROVE EventsInv'
  BY <1>1 DEF Events!set_cmer, Events!fds, Events!thread, EventsType, KeypadIsIts, ClosedFirst, Polled, OpenedLast, AsAskedOK
<1>2. CASE Events!Kill
  BY <1>2 DEF Events!Kill, EventsType, KeypadIsIts, ClosedFirst, Polled, OpenedLast, AsAskedOK
<1>3. CASE Events!CloseKeypad
  <2>1. /\ cmer_pc = "close" /\ cmer_pc' = "keyp" /\ keyp_fd' = Events!NoFd
        /\ IF keyp_fd # Events!NoFd THEN Events!Close(keyp_fd) ELSE UNCHANGED descriptors
        /\ UNCHANGED <<cmer_at, revents, request, cmer_asked>>
    BY <1>3 DEF Events!CloseKeypad, Events!thread
  <2>2. \A fd \in Events!Fds : descriptors'[fd] # "keypad"
    BY <1>0, <2>1, Closing DEF KeypadIsIts
  <2>3. EventsType'
    BY <2>1, Closing DEF EventsType
  <2>4. QED
    BY <2>1, <2>2, <2>3 DEF KeypadIsIts, ClosedFirst, Polled, OpenedLast, AsAskedOK
<1>4. CASE Events!OpenKeypad
  <2>0. /\ cmer_pc = "keyp" /\ cmer_at = "none" /\ keyp_fd = Events!NoFd /\ cmer_asked = Events!Nothing
        /\ UNCHANGED <<cmer_at, revents, request, cmer_asked>>
        /\ \A fd \in Events!Fds : descriptors[fd] # "keypad"
    BY <1>0, <1>4 DEF Events!OpenKeypad, Events!thread, OpenedLast, KeypadIsIts
  <2>1. CASE UNCHANGED <<descriptors, keyp_fd>> /\ cmer_pc' \in {"tscrn", "idle"}
    <3>1. EventsType' /\ KeypadIsIts' /\ ClosedFirst' /\ Polled' /\ OpenedLast'
      BY <2>0, <2>1 DEF EventsType, KeypadIsIts, ClosedFirst, Polled, OpenedLast
    <3>2. AsAskedOK'
      BY <2>0, <2>1 DEF AsAskedOK, Events!KeypadOpen
    <3>3. QED
      BY <3>1, <3>2
  <2>2. CASE \E fd \in Events!Fds : /\ request.keyp = 1 /\ Events!Open("keypad", fd) /\ keyp_fd' = fd /\ cmer_pc' = "tscrn"
    <3>1. PICK fd \in Events!Fds : request.keyp = 1 /\ Events!Open("keypad", fd) /\ keyp_fd' = fd /\ cmer_pc' = "tscrn"
      BY <2>2
    <3>2. "keypad" \in Events!Devices
      BY DEF Events!Devices
    <3>3. /\ descriptors' \in [Events!Fds -> Events!Devices \cup {"none"}]
          /\ \A f \in Events!Fds : descriptors'[f] = IF f = fd THEN "keypad" ELSE descriptors[f]
      BY <3>1, <3>2, Opening
    <3>4. KeypadIsIts'
      BY <2>0, <3>1, <3>3 DEF KeypadIsIts
    <3>5. QED
      BY <2>0, <3>1, <3>3, <3>4 DEF EventsType, ClosedFirst, Polled, OpenedLast, AsAskedOK
  <2>3. QED
    BY <1>4, <2>1, <2>2 DEF Events!OpenKeypad
<1>5. CASE Events!OpenTouchscreen
  <2>0. /\ cmer_pc = "tscrn" /\ cmer_at = "none" /\ cmer_pc' \in {"thread", "idle"}
        /\ cmer_asked = Events!Nothing
        /\ UNCHANGED <<cmer_at, revents, request, cmer_asked, keyp_fd>>
    BY <1>5 DEF Events!OpenTouchscreen, Events!thread, OpenedLast
  <2>1. \/ UNCHANGED descriptors
        \/ \E fd \in Events!Fds : Events!Open("touchscreen", fd)
    BY <1>5 DEF Events!OpenTouchscreen
  <2>2. "touchscreen" \in Events!Devices
    BY DEF Events!Devices
  <2>3. /\ descriptors' \in [Events!Fds -> Events!Devices \cup {"none"}]
        /\ \A f \in Events!Fds : descriptors'[f] = "keypad" <=> descriptors[f] = "keypad"
    <3>1. CASE UNCHANGED descriptors
      BY <3>1 DEF EventsType
    <3>2. CASE \E fd \in Events!Fds : Events!Open("touchscreen", fd)
      <4>1. PICK fd \in Events!Fds : Events!Open("touchscreen", fd)
        BY <3>2
      <4>2. QED
        BY <2>2, <4>1, Opening
    <3>3. QED
      BY <2>1, <3>1, <3>2
  <2>4. EventsType' /\ KeypadIsIts' /\ ClosedFirst' /\ Polled' /\ OpenedLast'
    BY <2>0, <2>3 DEF EventsType, KeypadIsIts, ClosedFirst, Polled, OpenedLast
  <2>5. AsAskedOK'
    <3>1. Events!KeypadOpen' => request.keyp = 1
      BY <1>0, <2>0, <2>3 DEF Events!KeypadOpen, KeypadIsIts, Polled
    <3>2. QED
      BY <1>0, <2>0, <3>1 DEF AsAskedOK
  <2>6. QED
    BY <2>4, <2>5
<1>6. CASE Events!CreateThread
  <2>1. /\ cmer_pc = "thread" /\ cmer_pc' = "idle" /\ cmer_at = "none" /\ cmer_asked = Events!Nothing
        /\ \/ cmer_at' = cmer_at /\ cmer_asked' = request /\ request.mode = 0
           \/ request.mode = 1 /\ cmer_at' = "poll" /\ cmer_asked' = request
           \/ cmer_at' = cmer_at /\ cmer_asked' = cmer_asked
        /\ UNCHANGED <<descriptors, keyp_fd, tscrn_fd, revents, request>>
    BY <1>6 DEF Events!CreateThread, OpenedLast
  <2>2. EventsType' /\ KeypadIsIts' /\ ClosedFirst' /\ Polled' /\ OpenedLast'
    BY <2>1 DEF EventsType, KeypadIsIts, ClosedFirst, Polled, OpenedLast
  <2>3. AsAskedOK'
    <3>1. Events!KeypadOpen' => request.keyp = 1
      BY <1>0, <2>1 DEF Events!KeypadOpen, KeypadIsIts, Polled
    <3>2. QED
      BY <1>0, <2>1, <3>1 DEF AsAskedOK, Polled
  <2>4. QED
    BY <2>2, <2>3
<1>7. QED
  BY <1>1, <1>2, <1>3, <1>4, <1>5, <1>6

\* For any number of descriptors, devices that come and go and threads that are cancelled
\* anywhere: the keypad is open at most once, under the descriptor that the thread polls and reads
\* as the keypad. Between two commands it is open only if the last one named it, and with no thread
\* only after one of mode 0 or one that failed; a thread is there only if the last command made it,
\* and reports keys only if it asked for them (input.c:145-200, 219-289).
THEOREM KeypadStaysAsAsked == Events!Spec => []KeypadAsAsked
<1>1. EventsInv /\ [Events!Next]_(Events!vars) => EventsInv'
  <2> SUFFICES ASSUME EventsInv, [Events!Next]_(Events!vars) PROVE EventsInv'
    OBVIOUS
  <2>1. CASE Events!at_plugin_unregister \/ (\E device \in Events!Devices : Events!Plug(device)) \/ UNCHANGED Events!vars
    <3>1. UNCHANGED <<descriptors, keyp_fd, cmer_at, revents, cmer_pc, request, cmer_asked>>
          /\ (tscrn_fd' = tscrn_fd \/ cmer_at = "none")
      BY <2>1 DEF Events!at_plugin_unregister, Events!Plug, Events!vars, Events!fds, Events!thread, Events!command
    <3>2. QED
      BY <3>1 DEF EventsInv, EventsType, KeypadIsIts, ClosedFirst, Polled, OpenedLast, AsAskedOK, Events!KeypadOpen
  <2>2. QED
    BY <2>1, EventsThreadKeeps, EventsCommandKeeps DEF Events!Next
<1>2. EventsInv => KeypadAsAsked
  BY DEF EventsInv, KeypadIsIts, Polled, AsAskedOK, KeypadAsAsked, Events!KeypadAsAsked
<1>3. QED
  BY <1>1, <1>2, EventsStart, PTL DEF Events!Spec
-----------------------------------------------------------------------------
(***************************************************************************)
(* SerialSettings, for any terminal and any rates.                         *)
(***************************************************************************)
Bits == {"CS7", "CS8", "PARENB", "PARODD", "CMSPAR"}

\* The bits that AT+ICF has set are there, and only two stop bits have come from elsewhere.
FramingInv ==
  format = <<Serial!None, Serial!None>> \/
    \E f \in 0..6, n \in 0..3 :
      /\ format = <<f, n>>
      /\ \A bit \in Bits : bit \in c_cflag <=> bit \in Serial!formats[f] \cup Serial!parities[n]
      /\ "CSTOPB" \in c_cflag => stop_bits \/ "CSTOPB" \in Serial!formats[f]
      /\ "CSTOPB" \in Serial!formats[f] => "CSTOPB" \in c_cflag

\* What the tables say, bit by bit.
LEMMA Tables ==
  /\ \A f \in 0..6 :
       /\ "CS7" \in Serial!formats[f] <=> f \in {4, 5, 6}
       /\ "CS8" \in Serial!formats[f] <=> f \in {0, 1, 2, 3}
       /\ "CSTOPB" \in Serial!formats[f] <=> f \in {1, 4}
       /\ "PARENB" \in Serial!formats[f] <=> f \in {2, 5}
       /\ "PARODD" \notin Serial!formats[f] /\ "CMSPAR" \notin Serial!formats[f]
       /\ "CLOCAL" \notin Serial!formats[f]
  /\ \A n \in 0..3 :
       /\ "PARODD" \in Serial!parities[n] <=> n \in {0, 2}
       /\ "CMSPAR" \in Serial!parities[n] <=> n \in {2, 3}
       /\ \A bit \in {"CS7", "CS8", "CSTOPB", "PARENB", "CLOCAL"} : bit \notin Serial!parities[n]
<1>1. Serial!formats = [f \in 0..6 |-> Serial!formats[f]] /\ Serial!parities = [n \in 0..3 |-> Serial!parities[n]]
  BY DEF Serial!formats, Serial!parities
<1>2. /\ Serial!formats[0] = {"CS8"} /\ Serial!formats[3] = {"CS8"} /\ Serial!formats[6] = {"CS7"}
      /\ Serial!formats[1] = {"CS8", "CSTOPB"} /\ Serial!formats[4] = {"CS7", "CSTOPB"}
      /\ Serial!formats[2] = {"CS8", "PARENB"} /\ Serial!formats[5] = {"CS7", "PARENB"}
  BY DEF Serial!formats
<1>3. /\ Serial!parities[0] = {"PARODD"} /\ Serial!parities[1] = {}
      /\ Serial!parities[2] = {"PARODD", "CMSPAR"} /\ Serial!parities[3] = {"CMSPAR"}
  BY DEF Serial!parities
<1>4. \A f \in 0..6 : f \in {0, 1, 2, 3, 4, 5, 6}
  OBVIOUS
<1>5. \A n \in 0..3 : n \in {0, 1, 2, 3}
  OBVIOUS
<1>6. QED
  BY <1>2, <1>3, <1>4, <1>5

\* AT+ICF? finds what the bits say.
LEMMA FramingFound ==
  ASSUME FramingInv, format[1] # Serial!None, ~stop_bits
  PROVE  Serial!get_framing = <<IF format[1] = 0 THEN 3 ELSE format[1], format[2]>>
<1>1. PICK f \in 0..6, n \in 0..3 :
        /\ format = <<f, n>>
        /\ \A bit \in Bits : bit \in c_cflag <=> bit \in Serial!formats[f] \cup Serial!parities[n]
        /\ "CSTOPB" \in c_cflag <=> "CSTOPB" \in Serial!formats[f]
  BY DEF FramingInv
<1>2. /\ "CS7" \in c_cflag <=> f \in {4, 5, 6}
      /\ "CSTOPB" \in c_cflag <=> f \in {1, 4}
      /\ "PARENB" \in c_cflag <=> f \in {2, 5}
      /\ "PARODD" \in c_cflag <=> n \in {0, 2}
      /\ "CMSPAR" \in c_cflag <=> n \in {2, 3}
  BY <1>1, Tables DEF Bits
<1> DEFINE size == IF "CS7" \in c_cflag THEN 6 ELSE 3
           less == IF "CSTOPB" \in c_cflag THEN 2 ELSE IF "PARENB" \in c_cflag THEN 1 ELSE 0
           parity == 1 + (IF "CMSPAR" \in c_cflag THEN 2 ELSE 0) - (IF "PARODD" \in c_cflag THEN 1 ELSE 0)
<1>3. size - less = IF f = 0 THEN 3 ELSE f
  BY <1>2
<1>4. parity = n
  BY <1>2
<1>5. ~({"CSTOPB", "PARENB"} \subseteq c_cflag)
  BY <1>2
<1>6. Serial!get_framing = <<size - less, parity>>
  BY <1>5 DEF Serial!get_framing
<1>7. QED
  BY <1>1, <1>3, <1>4, <1>6

LEMMA FramingKept == FramingInv /\ [Serial!Next]_(Serial!vars) => FramingInv'
<1> SUFFICES ASSUME FramingInv, [Serial!Next]_(Serial!vars) PROVE FramingInv'
  OBVIOUS
<1>1. ASSUME NEW f \in 0..6, NEW n \in 0..3, Serial!set_framing(f, n) PROVE FramingInv'
  <2>1. /\ c_cflag' = (c_cflag \ {"CS7", "CS8", "PARENB", "PARODD", "CMSPAR"}) \cup Serial!formats[f] \cup Serial!parities[n]
        /\ format' = <<f, n>> /\ stop_bits' = ("CSTOPB" \in c_cflag)
    BY <1>1 DEF Serial!set_framing, Serial!SetAttr
  <2>2. \A bit \in Bits : bit \in c_cflag' <=> bit \in Serial!formats[f] \cup Serial!parities[n]
    BY <2>1 DEF Bits
  <2>3. "CSTOPB" \in c_cflag' <=> "CSTOPB" \in c_cflag \/ "CSTOPB" \in Serial!formats[f]
    BY <2>1, Tables
  <2>4. stop_bits' <=> "CSTOPB" \in c_cflag
    BY <2>1, Zenon
  <2>5. QED
    BY <2>1, <2>2, <2>3, <2>4 DEF FramingInv
<1>2. ASSUME NEW v \in Serial!Values, Serial!handle_dtr(v) PROVE FramingInv'
  <2>1. \A bit : bit # "CLOCAL" => (bit \in c_cflag' <=> bit \in c_cflag)
    BY <1>2 DEF Serial!handle_dtr, Serial!SetAttr
  <2>2. UNCHANGED <<format, stop_bits>>
    BY <1>2 DEF Serial!handle_dtr, Serial!asked
  <2>3. QED
    BY <2>1, <2>2 DEF FramingInv, Bits
<1>3. ASSUME UNCHANGED <<c_cflag, format, stop_bits>> PROVE FramingInv'
  BY <1>3 DEF FramingInv
<1>4. ASSUME NEW out, NEW in, Serial!set_fc(out, in) PROVE UNCHANGED <<c_cflag, format, stop_bits>>
  BY <1>4 DEF Serial!set_fc, Serial!SetAttr, Serial!asked
<1>5. ASSUME NEW v \in Serial!Values, \/ Serial!redirect_flow(v) \/ Serial!handle_dcd(v) \/ Serial!set_dsr(v)
                                      \/ Serial!set_rate_report(v)
      PROVE UNCHANGED <<c_cflag, format, stop_bits>>
  BY <1>4, <1>5 DEF Serial!redirect_flow, Serial!handle_dcd, Serial!set_dsr, Serial!set_rate_report, Serial!asked, Serial!attr
<1>6. ASSUME \/ \E r \in Rates \cup {0} : Serial!set_rate(r)
             \/ Serial!at_plugin_register \/ Serial!Fails \/ UNCHANGED Serial!vars
      PROVE UNCHANGED <<c_cflag, format, stop_bits>>
  BY <1>6 DEF Serial!set_rate, Serial!SetAttr, Serial!at_plugin_register, Serial!Fails, Serial!vars, Serial!attr, Serial!asked
<1>7. QED
  BY <1>1, <1>2, <1>3, <1>4, <1>5, <1>6 DEF Serial!Next

\* For any terminal, whatever its framing was: AT+ICF? answers what AT+ICF has set, except that
\* two stop bits from before show through (interface.c:225-288).
THEOREM FramingIsReadBack == Serial!Spec => []FramingReadsBack
<1>1. Serial!Init => FramingInv
  BY DEF Serial!Init, FramingInv
<1>2. FramingInv => FramingReadsBack
  BY FramingFound DEF FramingReadsBack, Serial!FramingReadsBack
<1>3. QED
  BY <1>1, <1>2, FramingKept, PTL DEF Serial!Spec
-----------------------------------------------------------------------------
(***************************************************************************)
(* Phonebooks, for any texts and any number of contacts: the index of the  *)
(* entry that was last written. The names that are shown are for the last  *)
(* part of this module, as they take what is proved of texts there.        *)
(***************************************************************************)
Registered(name) == name \in ToSet(first)

\* Only the address book is written, once it is there, and it is registered but once.
BooksInv ==
  /\ first \in Seq(Phone!Books)
  /\ book = "ME" => Registered("ME")
  /\ written_index # Phone!NoIndex => book = "ME" /\ last = <<book, written_index>>

LEMMA RegisteredFirst ==
  ASSUME NEW name \in Phone!Books, first \in Seq(Phone!Books), first' = <<name>> \o first
  PROVE  first' \in Seq(Phone!Books) /\ \A n : Registered(n) \/ n = name => Registered(n)'
<1>1. <<name>> \in Seq(Phone!Books)
  OBVIOUS
<1>2. /\ first' \in Seq(Phone!Books) /\ DOMAIN first' = 1..(Len(first) + 1)
      /\ first'[1] = name /\ \A i \in DOMAIN first : i + 1 \in DOMAIN first' /\ first'[i + 1] = first[i]
  BY <1>1
<1>3. 1 \in DOMAIN first'
  BY <1>2
<1>4. ASSUME NEW n, Registered(n) PROVE Registered(n)'
  <2>1. PICK i \in DOMAIN first : first[i] = n
    BY <1>4 DEF Registered, ToSet
  <2>2. QED
    BY <1>2, <2>1 DEF Registered, ToSet
<1>5. Registered(name)'
  BY <1>2, <1>3 DEF Registered, ToSet
<1>6. QED
  BY <1>2, <1>4, <1>5

LEMMA BooksKept == BooksInv /\ [Phone!Next]_(Phone!vars) => BooksInv'
<1> SUFFICES ASSUME BooksInv, [Phone!Next]_(Phone!vars) PROVE BooksInv'
  OBVIOUS
<1> USE DEF BooksInv
<1>1. ASSUME NEW name \in Phone!Books, Phone!at_phonebooks_register(name) PROVE BooksInv'
  <2>1. /\ ~Registered(name) /\ first' = <<name>> \o first
        /\ book' = IF first = <<>> \/ name = "ME" THEN name ELSE book
        /\ UNCHANGED <<written_index, last>>
    BY <1>1 DEF Phone!at_phonebooks_register, Registered, ToSet, Phone!ToSet
  <2>2. first' \in Seq(Phone!Books) /\ \A n : Registered(n) \/ n = name => Registered(n)'
    BY <2>1, RegisteredFirst
  <2>3. book = "ME" => name # "ME" /\ first # <<>>
    <3>1. Registered("ME") => first # <<>>
      BY DEF Registered, ToSet
    <3>2. QED
      BY <2>1, <3>1
  <2>4. QED
    BY <2>1, <2>2, <2>3
<1>2. ASSUME NEW name \in Phone!Books, Phone!pb_select(name) PROVE BooksInv'
  <2>1. Registered(name) /\ book' = name /\ written_index' = Phone!NoIndex /\ UNCHANGED first
    BY <1>2 DEF Phone!pb_select, Registered, ToSet, Phone!ToSet
  <2>2. QED
    BY <2>1 DEF Registered
<1>3. ASSUME NEW idx, NEW num, NEW text, NEW num2, Phone!pb_write(idx, num, text, num2) PROVE BooksInv'
  <2>1. book = "ME" /\ UNCHANGED <<first, book>> /\ last' = <<book, written_index'>>
    BY <1>3 DEF Phone!pb_write
  <2>2. QED
    BY <2>1 DEF Registered
<1>4. CASE Phone!Reset
  <2>1. first' = <<>> /\ book' = Phone!NoBook /\ written_index' = Phone!NoIndex
    BY <1>4 DEF Phone!Reset
  <2>2. QED
    BY <2>1 DEF Phone!NoBook
<1>5. ASSUME UNCHANGED <<first, book, written_index, last>> PROVE BooksInv'
  BY <1>5 DEF Registered
<1>6. ASSUME \/ \E cs \in Phone!Charsets : Phone!set_cscs(cs)
             \/ \E idx \in Phone!Indices : Phone!pb_read(idx) \/ Phone!Deleted(idx)
             \/ \E name \in Phone!Texts, phones \in {<<>>, <<Phone!Number>>} : Phone!Imported(name, phones)
             \/ UNCHANGED Phone!vars
      PROVE  UNCHANGED <<first, book, written_index, last>>
  BY <1>6 DEF Phone!set_cscs, Phone!pb_read, Phone!Deleted, Phone!Imported, Phone!vars, Phone!books
<1>7. QED
  BY <1>1, <1>2, <1>3, <1>4, <1>5, <1>6 DEF Phone!Next

\* Whatever books are registered and selected in between: AT+CPBW? answers with the index of the
\* entry that was last written, to the book that is selected, or with none
\* (phonebook.c:107-108, 291-292, 301-309).
THEOREM IndexIsOfBook == Phone!Spec => []Phone!OffsetIsLast
<1>1. Phone!Init => BooksInv
  BY DEF Phone!Init, BooksInv, Phone!NoBook
<1>2. BooksInv => Phone!OffsetIsLast
  BY DEF BooksInv, Phone!OffsetIsLast
<1>3. QED
  BY <1>1, <1>2, BooksKept, PTL DEF Phone!Spec

-----------------------------------------------------------------------------
(***************************************************************************)
(* InputDevices, for strings of any length and any other characters: what  *)
(* AT+CKPD has emitted so far is what the characters before p stand for,   *)
(* less the key that is still to be pressed or released.  A semicolon that *)
(* is the second of a pair or switches the mode is told by the parity of   *)
(* the run of semicolons that it ends.                                     *)
(***************************************************************************)
Below == {pair \in Nat \X Nat : pair[1] < pair[2]}

\* A set of natural numbers that is not empty has a least one.
LEMMA LeastIs ==
  ASSUME NEW S \in SUBSET Nat, S # {}
  PROVE  \E i \in S : \A j \in S : i <= j
<1>1. IsWellFoundedOn(Below, Nat)
  BY NatLessThanWellFounded DEF OpToRel, Below
<1>2. PICK i \in S : \A j \in S : <<j, i>> \notin Below
  BY <1>1, WFMin
<1>3. \A j \in S : ~(j < i)
  BY <1>2 DEF Below
<1>. QED
  BY <1>2, <1>3

\* A function that is defined from each place to the next one exists.
Follows(f, n, first_one, after) == f = [i \in 0..n |-> IF i = 0 THEN first_one ELSE after[i][f[i - 1]]]

\* Such a function goes on by one place.
LEMMA FollowsFurther ==
  ASSUME NEW m \in Nat, NEW S, NEW start \in S, NEW after \in [1..(m + 1) -> [S -> S]],
         NEW f \in [0..m -> S], Follows(f, m, start, after)
  PROVE  \E g \in [0..(m + 1) -> S] : Follows(g, m + 1, start, after)
<1>. DEFINE g == [i \in 0..(m + 1) |-> IF i \in 0..m THEN f[i] ELSE after[m + 1][f[m]]]
<1>1. g \in [0..(m + 1) -> S]
  OBVIOUS
<1>2. \A i \in 0..m : g[i] = f[i]
  OBVIOUS
<1>3. g[m + 1] = after[m + 1][f[m]]
  OBVIOUS
<1>4. \A i \in 0..m : f[i] = IF i = 0 THEN start ELSE after[i][f[i - 1]]
  BY DEF Follows
<1>. HIDE DEF g
<1>5. \A i \in 0..(m + 1) : g[i] = IF i = 0 THEN start ELSE after[i][g[i - 1]]
  <2>. TAKE i \in 0..(m + 1)
  <2>1. CASE i = 0
    BY <1>2, <1>4, <2>1
  <2>2. CASE i \in 1..m
    <3>1. i - 1 \in 0..m /\ i \in 0..m /\ i # 0
      BY <2>2
    <3>. QED
      BY <1>2, <1>4, <3>1
  <2>3. CASE i = m + 1
    <3>1. i - 1 = m /\ m \in 0..m /\ i # 0
      BY <2>3
    <3>. QED
      BY <1>2, <1>3, <2>3, <3>1
  <2>. QED
    BY <2>1, <2>2, <2>3
<1>. QED
  BY <1>1, <1>5 DEF Follows

\* It goes on to any place: the first one it could not reach would follow one that it reaches.
LEMMA RecursionIs ==
  ASSUME NEW n \in Nat, NEW S, NEW start \in S, NEW after \in [1..n -> [S -> S]]
  PROVE  \E f \in [0..n -> S] : Follows(f, n, start, after)
<1>. DEFINE Has(m) == \E f \in [0..m -> S] : Follows(f, m, start, after)
            Missing == {m \in 0..n : ~Has(m)}
<1>1. Has(0)
  <2>. DEFINE f == [i \in 0..0 |-> start]
  <2>1. f \in [0..0 -> S]
    OBVIOUS
  <2>2. Follows(f, 0, start, after)
    BY DEF Follows
  <2>. HIDE DEF f
  <2>. QED
    BY <2>1, <2>2
<1>2. ASSUME NEW m \in Nat, m < n, Has(m) PROVE Has(m + 1)
  <2>1. PICK f \in [0..m -> S] : Follows(f, m, start, after)
    BY <1>2
  <2>. DEFINE part == [i \in 1..(m + 1) |-> after[i]]
  <2>2. part \in [1..(m + 1) -> [S -> S]]
    BY <1>2
  <2>3. ASSUME NEW k \in 0..(m + 1), NEW h PROVE Follows(h, k, start, part) <=> Follows(h, k, start, after)
    <3>1. [i \in 0..k |-> IF i = 0 THEN start ELSE part[i][h[i - 1]]]
          = [i \in 0..k |-> IF i = 0 THEN start ELSE after[i][h[i - 1]]]
      BY <1>2
    <3>. QED
      BY <3>1 DEF Follows
  <2>. HIDE DEF part
  <2>4. m \in 0..(m + 1) /\ m + 1 \in 0..(m + 1)
    BY <1>2
  <2>5. Follows(f, m, start, part)
    BY <2>1, <2>3, <2>4
  <2>6. PICK g \in [0..(m + 1) -> S] : Follows(g, m + 1, start, part)
    BY <1>2, <2>1, <2>2, <2>5, FollowsFurther
  <2>. QED
    BY <2>3, <2>4, <2>6
<1>. HIDE DEF Has
<1>3. Missing = {}
  <2>. SUFFICES ASSUME Missing # {} PROVE FALSE
    OBVIOUS
  <2>1. Missing \in SUBSET Nat
    OBVIOUS
  <2>2. PICK least \in Missing : \A j \in Missing : least <= j
    BY <2>1, LeastIs
  <2>3. least \in 1..n /\ ~Has(least) /\ least - 1 \in Nat /\ least - 1 < n /\ (least - 1) + 1 = least
    BY <1>1, <2>2
  <2>4. Has(least - 1)
    BY <2>2, <2>3
  <2>. QED
    BY <1>2, <2>3, <2>4
<1>4. Has(n)
  BY <1>3
<1>. QED
  BY <1>4 DEF Has
-----------------------------------------------------------------------------
\* The codes of the events, of keys and of the touch screen.
Codes == {"KEY_C", "KEY_CLEAR", "KEY_G", "KEY_SEMICOLON", "KEY_1", "none", "SYN", "TOUCH",
          "ABS_X", "ABS_Y", "MT_X", "MT_Y", "MT_MAJOR", "MT_ID", "MT_SYN"}
InputEvents == Codes \X {0, 1}
KeysOK == keys \in Seq(Chars)

\* The keys and their strokes are events.
LEMMA KeyIs == \A c, alphabetic : Inputs!keymap(c, alphabetic) \in Codes
  BY Zenon DEF Inputs!keymap, Inputs!NoKey, Codes

LEMMA StrokeIs == \A key \in Codes : Inputs!Stroke(key) \in Seq(InputEvents)
<1>. TAKE key \in Codes
<1>1. {<<key, 1>>, <<key, 0>>, Inputs!SYN} \subseteq InputEvents
  BY DEF InputEvents, Codes, Inputs!SYN
<1>. QED
  BY <1>1 DEF Inputs!Stroke

LEMMA KeyOfIs == \A i : Inputs!KeyOf(i) \in Codes
  BY KeyIs DEF Inputs!KeyOf, Inputs!NoKey, Codes

\* The strokes of the characters up to i are those up to i - 1 and those of i.
LEMMA StrokesAre ==
  ASSUME KeysOK
  PROVE  /\ Inputs!Strokes[0] = <<>>
         /\ \A i \in 1..Len(keys) : Inputs!Strokes[i] = Inputs!Strokes[i - 1] \o Inputs!Stroke(Inputs!KeyOf(i))
         /\ \A i \in 0..Len(keys) : Inputs!Strokes[i] \in Seq(InputEvents)
<1>. DEFINE n == Len(keys)
            after == [i \in 1..n |-> [s \in Seq(InputEvents) |-> s \o Inputs!Stroke(Inputs!KeyOf(i))]]
<1>1. n \in Nat
  BY DEF KeysOK
<1>2. \A i \in 1..n : Inputs!Stroke(Inputs!KeyOf(i)) \in Seq(InputEvents)
  BY StrokeIs, KeyOfIs
<1>3. after \in [1..n -> [Seq(InputEvents) -> Seq(InputEvents)]]
  BY <1>2
<1>4. <<>> \in Seq(InputEvents)
  OBVIOUS
<1>5. \A i \in 1..n, s \in Seq(InputEvents) : after[i][s] = s \o Inputs!Stroke(Inputs!KeyOf(i))
  OBVIOUS
<1>. HIDE DEF n, after
<1>6. PICK f \in [0..n -> Seq(InputEvents)] : Follows(f, n, <<>>, after)
  BY <1>1, <1>3, <1>4, RecursionIs
<1>7. f = [i \in 0..n |-> IF i = 0 THEN <<>> ELSE f[i - 1] \o Inputs!Stroke(Inputs!KeyOf(i))]
  <2>1. \A i \in 0..n : f[i] = IF i = 0 THEN <<>> ELSE f[i - 1] \o Inputs!Stroke(Inputs!KeyOf(i))
    <3>. TAKE i \in 0..n
    <3>1. f[i] = IF i = 0 THEN <<>> ELSE after[i][f[i - 1]]
      BY <1>6 DEF Follows
    <3>2. i # 0 => i \in 1..n /\ f[i - 1] \in Seq(InputEvents)
      BY <1>1, <1>6
    <3>. QED
      BY <1>5, <3>1, <3>2
  <2>. QED
    BY <1>6, <2>1
<1>8. Inputs!Strokes =
        [i \in 0..n |-> IF i = 0 THEN <<>> ELSE Inputs!Strokes[i - 1] \o Inputs!Stroke(Inputs!KeyOf(i))]
  BY <1>7 DEF Inputs!Strokes, n
<1>9. \A i \in 0..n : Inputs!Strokes[i] = IF i = 0 THEN <<>> ELSE Inputs!Strokes[i - 1] \o Inputs!Stroke(Inputs!KeyOf(i))
  BY <1>8
<1>10. \A i \in 0..n : Inputs!Strokes[i] \in Seq(InputEvents)
  <2>. DEFINE wrong == {i \in 0..n : Inputs!Strokes[i] \notin Seq(InputEvents)}
  <2>. SUFFICES ASSUME wrong # {} PROVE FALSE
    OBVIOUS
  <2>1. PICK i \in wrong : \A j \in wrong : i <= j
    <3>1. wrong \in SUBSET Nat
      BY <1>1
    <3>. QED
      BY <3>1, LeastIs
  <2>2. i \in 0..n /\ Inputs!Strokes[i] \notin Seq(InputEvents)
    OBVIOUS
  <2>3. i # 0
    BY <1>4, <1>9, <2>2
  <2>4. i \in 1..n /\ i - 1 \in 0..n /\ i - 1 \notin wrong
    BY <1>1, <2>1, <2>2, <2>3
  <2>5. Inputs!Strokes[i - 1] \in Seq(InputEvents)
    BY <2>4
  <2>6. Inputs!Strokes[i] = Inputs!Strokes[i - 1] \o Inputs!Stroke(Inputs!KeyOf(i))
    BY <1>9, <2>2, <2>3
  <2>. QED
    BY <1>2, <2>2, <2>4, <2>5, <2>6
<1>11. \A i \in 1..n : i \in 0..n /\ i # 0
  BY <1>1
<1>12. 0 \in 0..n
  BY <1>1
<1>. QED
  BY <1>9, <1>10, <1>11, <1>12 DEF n

\* The mode after i is the mode after i - 1, but that i may switch it.
LEMMA AlphabeticIs ==
  ASSUME KeysOK
  PROVE  /\ Inputs!Alphabetic[0] = FALSE
         /\ \A i \in 1..Len(keys) : Inputs!Alphabetic[i] = (Inputs!Alphabetic[i - 1] # Inputs!Switches(i))
         /\ \A i \in 0..Len(keys) : Inputs!Alphabetic[i] \in BOOLEAN
<1>. DEFINE n == Len(keys)
            after == [i \in 1..n |-> [b \in BOOLEAN |-> b # Inputs!Switches(i)]]
<1>1. n \in Nat
  BY DEF KeysOK
<1>3. after \in [1..n -> [BOOLEAN -> BOOLEAN]]
  OBVIOUS
<1>5. \A i \in 1..n, b \in BOOLEAN : after[i][b] = (b # Inputs!Switches(i))
  OBVIOUS
<1>. HIDE DEF n, after
<1>6. PICK f \in [0..n -> BOOLEAN] : Follows(f, n, FALSE, after)
  BY <1>1, <1>3, RecursionIs
<1>7. f = [i \in 0..n |-> i # 0 /\ f[i - 1] # Inputs!Switches(i)]
  <2>1. \A i \in 0..n : f[i] = (i # 0 /\ f[i - 1] # Inputs!Switches(i))
    <3>. TAKE i \in 0..n
    <3>1. f[i] = IF i = 0 THEN FALSE ELSE after[i][f[i - 1]]
      BY <1>6 DEF Follows
    <3>2. i # 0 => i \in 1..n /\ f[i - 1] \in BOOLEAN
      BY <1>1, <1>6
    <3>. QED
      BY <1>5, <3>1, <3>2
  <2>. QED
    BY <1>6, <2>1
<1>8. Inputs!Alphabetic = [i \in 0..n |-> i # 0 /\ Inputs!Alphabetic[i - 1] # Inputs!Switches(i)]
  BY <1>7 DEF Inputs!Alphabetic, n
<1>9. \A i \in 0..n : Inputs!Alphabetic[i] = (i # 0 /\ Inputs!Alphabetic[i - 1] # Inputs!Switches(i))
  BY <1>8
<1>11. \A i \in 1..n : i \in 0..n /\ i # 0
  BY <1>1
<1>12. 0 \in 0..n
  BY <1>1
<1>13. Inputs!Alphabetic[0] = FALSE /\ \A i \in 1..n : Inputs!Alphabetic[i] = (Inputs!Alphabetic[i - 1] # Inputs!Switches(i))
  BY <1>9, <1>11, <1>12
<1>. QED
  BY <1>9, <1>13, Zenon DEF n

\* Where a run of semicolons that reaches to i begins, there is no other one.
BeginsAfter(i, j) == j \in 0..i /\ (j = 0 \/ keys[j] # "semi") /\ \A k \in (j + 1)..i : keys[k] = "semi"

\* The run of semicolons that ends at i is counted from where it begins.
LEMMA RunIsFrom ==
  ASSUME KeysOK, NEW i \in 0..Len(keys), NEW j, BeginsAfter(i, j)
  PROVE  Inputs!Run(i) = i - j
<1>. DEFINE chosen == CHOOSE m \in 0..i : (m = 0 \/ keys[m] # "semi") /\ \A k \in (m + 1)..i : keys[k] = "semi"
<1>1. Inputs!Run(i) = i - chosen
  BY DEF Inputs!Run
<1>2. chosen \in 0..i /\ (chosen = 0 \/ keys[chosen] # "semi") /\ \A k \in (chosen + 1)..i : keys[k] = "semi"
  BY DEF BeginsAfter
<1>. HIDE DEF chosen
<1>3. i \in Nat /\ j \in Nat /\ chosen \in Nat
  BY <1>2 DEF KeysOK, BeginsAfter
<1>4. ~(chosen < j) /\ ~(j < chosen)
  BY <1>2, <1>3 DEF BeginsAfter
<1>. QED
  BY <1>1, <1>3, <1>4

LEMMA RunBegins ==
  ASSUME KeysOK, NEW i \in 0..Len(keys)
  PROVE  \E j : BeginsAfter(i, j)
<1>. DEFINE ends == {d \in 0..i : d = i \/ keys[i - d] # "semi"}
<1>1. i \in Nat
  BY DEF KeysOK
<1>2. ends \in SUBSET Nat /\ i \in ends
  BY <1>1
<1>3. PICK d \in ends : \A e \in ends : d <= e
  BY <1>2, LeastIs
<1>4. d \in 0..i /\ (d = i \/ keys[i - d] # "semi")
  OBVIOUS
<1>5. ASSUME NEW k \in (i - d + 1)..i PROVE keys[k] = "semi"
  <2>1. i - k \in 0..i /\ i - k < d /\ i - (i - k) = k
    BY <1>1, <1>4
  <2>2. i - k \notin ends
    <3>1. i - k \in Nat /\ d \in Nat
      BY <1>1, <1>4, <2>1
    <3>. HIDE DEF ends
    <3>. QED
      BY <1>3, <2>1, <3>1
  <2>. QED
    BY <2>1, <2>2
<1>6. BeginsAfter(i, i - d)
  BY <1>1, <1>4, <1>5 DEF BeginsAfter
<1>. QED
  BY <1>6

\* A semicolon makes the run longer by one, another character ends it.
LEMMA RunIs ==
  ASSUME KeysOK
  PROVE  /\ Inputs!Run(0) = 0
         /\ \A i \in 0..Len(keys) : Inputs!Run(i) \in Nat
         /\ \A i \in 1..Len(keys) : Inputs!Run(i) = IF keys[i] = "semi" THEN Inputs!Run(i - 1) + 1 ELSE 0
<1>0. Len(keys) \in Nat
  BY DEF KeysOK
<1>1. Inputs!Run(0) = 0
  <2>1. BeginsAfter(0, 0)
    BY DEF BeginsAfter
  <2>. QED
    BY <1>0, <2>1, RunIsFrom
<1>2. ASSUME NEW i \in 0..Len(keys) PROVE Inputs!Run(i) \in Nat
  <2>1. PICK j : BeginsAfter(i, j)
    BY RunBegins
  <2>2. Inputs!Run(i) = i - j /\ j \in 0..i
    BY <2>1, RunIsFrom DEF BeginsAfter
  <2>. QED
    BY <1>0, <2>2
<1>3. ASSUME NEW i \in 1..Len(keys), keys[i] # "semi" PROVE Inputs!Run(i) = 0
  <2>1. BeginsAfter(i, i) /\ i \in 0..Len(keys)
    BY <1>0, <1>3 DEF BeginsAfter
  <2>. QED
    BY <1>0, <2>1, RunIsFrom
<1>4. ASSUME NEW i \in 1..Len(keys), keys[i] = "semi" PROVE Inputs!Run(i) = Inputs!Run(i - 1) + 1
  <2>1. i - 1 \in 0..Len(keys) /\ i \in 0..Len(keys)
    BY <1>0
  <2>2. PICK j : BeginsAfter(i - 1, j)
    BY <2>1, RunBegins
  <2>3. BeginsAfter(i, j)
    BY <1>0, <1>4, <2>2 DEF BeginsAfter
  <2>4. Inputs!Run(i) = i - j /\ Inputs!Run(i - 1) = (i - 1) - j
    BY <2>1, <2>2, <2>3, RunIsFrom
  <2>. QED
    BY <1>0, <2>2, <2>4 DEF BeginsAfter
<1>. QED
  BY <1>1, <1>2, <1>3, <1>4

\* What follows the characters before i: another character, a semicolon that switches, two that are meant.
LEMMA NotFalse == \A b \in BOOLEAN : (b # FALSE) = b
  OBVIOUS

LEMMA AfterKey ==
  ASSUME KeysOK, NEW i \in 1..Len(keys), keys[i] # "semi"
  PROVE  /\ Inputs!Run(i) % 2 = 0 /\ Inputs!Alphabetic[i] = Inputs!Alphabetic[i - 1]
         /\ Inputs!Strokes[i] = Inputs!Strokes[i - 1] \o Inputs!Stroke(Inputs!keymap(keys[i], Inputs!Alphabetic[i - 1]))
<1>1. Len(keys) \in Nat /\ i - 1 \in 0..Len(keys)
  BY DEF KeysOK
<1>2. Inputs!Run(i) = 0
  BY RunIs
<1>3. Inputs!Run(i) % 2 = 0
  BY <1>2
<1>4. ~Inputs!Switches(i)
  BY <1>3 DEF Inputs!Switches
<1>5. Inputs!Alphabetic[i] = (Inputs!Alphabetic[i - 1] # Inputs!Switches(i)) /\ Inputs!Alphabetic[i - 1] \in BOOLEAN
  BY <1>1, AlphabeticIs
<1>6. Inputs!Alphabetic[i] = Inputs!Alphabetic[i - 1]
  <2>1. Inputs!Switches(i) = FALSE
    BY <1>4
  <2>. QED
    BY <1>5, <2>1, NotFalse, Zenon
<1>7. Inputs!KeyOf(i) = Inputs!keymap(keys[i], Inputs!Alphabetic[i - 1])
  <2>1. Inputs!Run(i) % 2 # 1
    BY <1>3
  <2>. QED
    BY <1>6, <2>1, Zenon DEF Inputs!KeyOf
<1>8. Inputs!Strokes[i] = Inputs!Strokes[i - 1] \o Inputs!Stroke(Inputs!KeyOf(i))
  BY StrokesAre
<1>. QED
  BY <1>3, <1>6, <1>7, <1>8, Zenon

LEMMA AfterSwitch ==
  ASSUME KeysOK, NEW i \in 1..Len(keys), keys[i] = "semi", i = Len(keys) \/ keys[i + 1] # "semi", Inputs!Run(i - 1) % 2 = 0
  PROVE  /\ Inputs!Switches(i) /\ Inputs!Alphabetic[i] = ~Inputs!Alphabetic[i - 1]
         /\ Inputs!Strokes[i] = Inputs!Strokes[i - 1]
<1>1. Len(keys) \in Nat /\ i - 1 \in 0..Len(keys)
  BY DEF KeysOK
<1>2. Inputs!Run(i) = Inputs!Run(i - 1) + 1 /\ Inputs!Run(i - 1) \in Nat
  BY <1>1, RunIs
<1>3. Inputs!Run(i) % 2 = 1
  BY <1>2
<1>4. Inputs!Switches(i)
  BY <1>3 DEF Inputs!Switches
<1>5. Inputs!Alphabetic[i] = (Inputs!Alphabetic[i - 1] # Inputs!Switches(i)) /\ Inputs!Alphabetic[i - 1] \in BOOLEAN
  BY <1>1, AlphabeticIs
<1>6. Inputs!Alphabetic[i] = ~Inputs!Alphabetic[i - 1]
  BY <1>4, <1>5
<1>7. Inputs!Stroke(Inputs!KeyOf(i)) = <<>>
  BY <1>3 DEF Inputs!KeyOf, Inputs!Stroke
<1>8. Inputs!Strokes[i] = Inputs!Strokes[i - 1] \o Inputs!Stroke(Inputs!KeyOf(i)) /\ Inputs!Strokes[i - 1] \in Seq(InputEvents)
  BY <1>1, StrokesAre
<1>. QED
  BY <1>4, <1>6, <1>7, <1>8

LEMMA AfterTwo ==
  ASSUME KeysOK, NEW i \in 1..Len(keys), i < Len(keys), keys[i] = "semi", keys[i + 1] = "semi", Inputs!Run(i - 1) % 2 = 0
  PROVE  /\ Inputs!Run(i + 1) % 2 = 0 /\ Inputs!Alphabetic[i + 1] = Inputs!Alphabetic[i - 1]
         /\ Inputs!Strokes[i + 1] = Inputs!Strokes[i - 1] \o Inputs!Stroke(Inputs!keymap("semi", Inputs!Alphabetic[i - 1]))
<1>1. Len(keys) \in Nat /\ i - 1 \in 0..Len(keys) /\ i + 1 \in 1..Len(keys) /\ (i + 1) - 1 = i /\ i \in 0..Len(keys)
  BY DEF KeysOK
<1>2. Inputs!Run(i) = Inputs!Run(i - 1) + 1 /\ Inputs!Run(i - 1) \in Nat /\ Inputs!Run(i + 1) = Inputs!Run(i) + 1
  BY <1>1, RunIs
<1>3. Inputs!Run(i) % 2 = 1 /\ Inputs!Run(i + 1) % 2 = 0
  BY <1>2
<1>4. ~Inputs!Switches(i) /\ ~Inputs!Switches(i + 1)
  BY <1>1, <1>3 DEF Inputs!Switches
<1>5. /\ Inputs!Alphabetic[i] = (Inputs!Alphabetic[i - 1] # Inputs!Switches(i)) /\ Inputs!Alphabetic[i - 1] \in BOOLEAN
      /\ Inputs!Alphabetic[i + 1] = (Inputs!Alphabetic[i] # Inputs!Switches(i + 1)) /\ Inputs!Alphabetic[i] \in BOOLEAN
  BY <1>1, AlphabeticIs
<1>6. Inputs!Alphabetic[i] = Inputs!Alphabetic[i - 1] /\ Inputs!Alphabetic[i + 1] = Inputs!Alphabetic[i - 1]
  <2>1. Inputs!Switches(i) = FALSE /\ Inputs!Switches(i + 1) = FALSE
    BY <1>4
  <2>2. Inputs!Alphabetic[i] = Inputs!Alphabetic[i - 1]
    BY <1>5, <2>1, NotFalse, Zenon
  <2>3. Inputs!Alphabetic[i + 1] = Inputs!Alphabetic[i]
    BY <1>5, <2>1, NotFalse, Zenon
  <2>. QED
    BY <2>2, <2>3, Zenon
<1>7. Inputs!Stroke(Inputs!KeyOf(i)) = <<>>
  BY <1>3 DEF Inputs!KeyOf, Inputs!Stroke
<1>8. Inputs!KeyOf(i + 1) = Inputs!keymap("semi", Inputs!Alphabetic[i - 1])
  <2>1. Inputs!Run(i + 1) % 2 # 1
    BY <1>3
  <2>. QED
    BY <1>6, <2>1, Zenon DEF Inputs!KeyOf
<1>9. /\ Inputs!Strokes[i] = Inputs!Strokes[i - 1] \o Inputs!Stroke(Inputs!KeyOf(i)) /\ Inputs!Strokes[i - 1] \in Seq(InputEvents)
      /\ Inputs!Strokes[i + 1] = Inputs!Strokes[i] \o Inputs!Stroke(Inputs!KeyOf(i + 1))
  BY <1>1, StrokesAre
<1>10. Inputs!Strokes[i] = Inputs!Strokes[i - 1]
  BY <1>7, <1>9
<1>. QED
  BY <1>3, <1>6, <1>8, <1>9, <1>10, Zenon

\* s begins as t does.
Begins(s, t) == Len(s) <= Len(t) /\ \A i \in 1..Len(s) : s[i] = t[i]

\* What is begun is a prefix, and its parts, put together, begin the whole.
LEMMA BeginsIsPrefix ==
  ASSUME NEW s \in Seq(InputEvents), NEW t \in Seq(InputEvents), Begins(s, t)
  PROVE  Inputs!IsPrefix(s, t)
<1>1. Len(s) \in Nat /\ Len(t) \in Nat /\ Len(s) <= Len(t)
  BY DEF Begins
<1>2. SubSeq(s, 1, Len(s)) = SubSeq(t, 1, Len(s))
  <2>1. SubSeq(s, 1, Len(s)) = [i \in 1..Len(s) |-> s[i]] /\ SubSeq(t, 1, Len(s)) = [i \in 1..Len(s) |-> t[i]]
    BY <1>1
  <2>. QED
    BY <2>1 DEF Begins
<1>. QED
  BY <1>1, <1>2 DEF Inputs!IsPrefix

LEMMA PartsBegin ==
  ASSUME NEW s \in Seq(InputEvents), NEW t \in Seq(InputEvents), NEW k \in 0..Len(t)
  PROVE  /\ s \o SubSeq(t, 1, k) \in Seq(InputEvents) /\ Begins(s \o SubSeq(t, 1, k), s \o t)
         /\ Begins(s, s \o t) /\ Begins(s, s)
<1>1. Len(s) \in Nat /\ Len(t) \in Nat /\ SubSeq(t, 1, k) \in Seq(InputEvents)
  OBVIOUS
<1>2. Len(SubSeq(t, 1, k)) = k /\ \A i \in 1..k : SubSeq(t, 1, k)[i] = t[i]
  OBVIOUS
<1>. QED
  BY <1>1, <1>2 DEF Begins

\* The strokes of the first characters begin those of all of them.
LEMMA StrokesGrow ==
  ASSUME KeysOK, NEW i \in 0..Len(keys)
  PROVE  Begins(Inputs!Strokes[i], Inputs!Script)
<1>. DEFINE n == Len(keys)
            late == {j \in i..n : ~Begins(Inputs!Strokes[i], Inputs!Strokes[j])}
<1>1. n \in Nat /\ i \in Nat /\ \A j \in i..n : j \in 0..n
  BY DEF KeysOK
<1>2. late = {}
  <2>. SUFFICES ASSUME late # {} PROVE FALSE
    OBVIOUS
  <2>1. late \in SUBSET Nat
    BY <1>1
  <2>2. PICK j \in late : \A k \in late : j <= k
    BY <2>1, LeastIs
  <2>3. j \in i..n /\ ~Begins(Inputs!Strokes[i], Inputs!Strokes[j])
    OBVIOUS
  <2>4. j # i
    BY <1>1, <2>3, StrokesAre, PartsBegin DEF Begins
  <2>5. j \in 1..n /\ j - 1 \in i..n /\ j - 1 \notin late
    BY <1>1, <2>1, <2>2, <2>3, <2>4
  <2>6. Begins(Inputs!Strokes[i], Inputs!Strokes[j - 1])
    BY <2>5
  <2>. DEFINE more == Inputs!Stroke(Inputs!KeyOf(j))
  <2>7. /\ Inputs!Strokes[j] = Inputs!Strokes[j - 1] \o more /\ more \in Seq(InputEvents)
        /\ Inputs!Strokes[j - 1] \in Seq(InputEvents) /\ Inputs!Strokes[i] \in Seq(InputEvents)
    BY <1>1, <2>5, StrokesAre, StrokeIs, KeyOfIs
  <2>. HIDE DEF more
  <2>8. Begins(Inputs!Strokes[j - 1], Inputs!Strokes[j])
    BY <2>7 DEF Begins
  <2>9. Begins(Inputs!Strokes[i], Inputs!Strokes[j])
    BY <2>6, <2>7, <2>8 DEF Begins
  <2>. QED
    BY <2>3, <2>9
<1>3. n \in i..n
  BY <1>1
<1>. QED
  BY <1>2, <1>3 DEF Inputs!Script

-----------------------------------------------------------------------------
Up(key) == IF key = Inputs!NoKey THEN <<>> ELSE <<<<key, 0>>, Inputs!SYN>>
Down(key) == IF key = Inputs!NoKey THEN <<>> ELSE <<<<key, 1>>, Inputs!SYN>>

\* Two sequences one after the other, place by place.
LEMMA Joined ==
  ASSUME NEW S, NEW s \in Seq(S), NEW t \in Seq(S)
  PROVE  /\ s \o t \in Seq(S) /\ Len(s \o t) = Len(s) + Len(t)
         /\ \A i \in 1..Len(s) : (s \o t)[i] = s[i]
         /\ \A i \in 1..Len(t) : (s \o t)[Len(s) + i] = t[i]
  OBVIOUS

LEMMA TwoAndTwo ==
  ASSUME NEW S, NEW a \in S, NEW b \in S, NEW c \in S, NEW d \in S
  PROVE  <<a, b>> \o <<c, d>> = <<a, b, c, d>>
<1>. DEFINE s == <<a, b>>
            t == <<c, d>>
            u == <<a, b, c, d>>
<1>1. s \in Seq(S) /\ t \in Seq(S) /\ u \in Seq(S) /\ Len(s) = 2 /\ Len(t) = 2 /\ Len(u) = 4
  OBVIOUS
<1>2. s[1] = a /\ s[2] = b /\ t[1] = c /\ t[2] = d /\ u[1] = a /\ u[2] = b /\ u[3] = c /\ u[4] = d
  OBVIOUS
<1>. HIDE DEF s, t, u
<1>3. s \o t \in Seq(S) /\ Len(s \o t) = Len(s) + Len(t)
  BY <1>1, Joined
<1>4. Len(s) + 1 = 3 /\ Len(s) + 2 = 4 /\ Len(s) + Len(t) = 4
  BY <1>1
<1>5. (s \o t)[Len(s) + 1] = t[1] /\ (s \o t)[Len(s) + 2] = t[2] /\ (s \o t)[1] = s[1] /\ (s \o t)[2] = s[2]
  BY <1>1, Joined
<1>6. Len(s \o t) = Len(u)
  BY <1>1, <1>3, <1>4, Zenon
<1>7. (s \o t)[1] = u[1] /\ (s \o t)[2] = u[2] /\ (s \o t)[3] = u[3] /\ (s \o t)[4] = u[4]
  BY <1>2, <1>4, <1>5, Zenon
<1>8. \A i \in 1..Len(u) : i = 1 \/ i = 2 \/ i = 3 \/ i = 4
  BY <1>1
<1>9. \A i \in 1..Len(u) : (s \o t)[i] = u[i]
  BY <1>7, <1>8, Zenon
<1>10. s \o t = u
  BY <1>1, <1>3, <1>6, <1>9
<1>. QED
  BY <1>10 DEF s, t, u

\* A stroke is the press of a key and its release.
LEMMA StrokeIsBoth ==
  \A key \in Codes : Inputs!Stroke(key) = Down(key) \o Up(key) /\ Down(key) \in Seq(InputEvents) /\ Up(key) \in Seq(InputEvents)
<1>. TAKE key \in Codes
<1>1. {<<key, 1>>, <<key, 0>>, Inputs!SYN} \subseteq InputEvents
  BY DEF InputEvents, Codes, Inputs!SYN
<1>2. Down(key) \in Seq(InputEvents) /\ Up(key) \in Seq(InputEvents)
  BY <1>1 DEF Down, Up
<1>. QED
  <2>1. CASE key = Inputs!NoKey
    BY <1>2, <2>1 DEF Inputs!Stroke, Down, Up
  <2>2. CASE key # Inputs!NoKey
    <3>1. <<<<key, 1>>, Inputs!SYN>> \o <<<<key, 0>>, Inputs!SYN>> = <<<<key, 1>>, Inputs!SYN, <<key, 0>>, Inputs!SYN>>
      BY <1>1, TwoAndTwo
    <3>. QED
      BY <1>2, <2>2, <3>1 DEF Inputs!Stroke, Down, Up
  <2>. QED
    BY <2>1, <2>2

\* AT+CKPD on its way: the characters before p are done, but for the key that is pressed or released.
KeysInv ==
  /\ action = Inputs!NoAction /\ ret = "none"
  /\ alpha = Inputs!Alphabetic[p - 1]
  /\ Inputs!Run(p - 1) % 2 = 1 => Inputs!Switches(p - 1)
  /\ input_pc = "key" => emitted = Inputs!Strokes[p - 1]
  /\ input_pc = "press" => Inputs!Strokes[p - 1] = emitted \o Inputs!Stroke(code)
  /\ input_pc = "release" => Inputs!Strokes[p - 1] = emitted \o Up(code)

\* AT+CTSA: the events of each action.
Frames ==
  [a \in 0..2 |->
     IF a = 0 THEN <<<<"ABS_X", 0>>, <<"ABS_Y", 0>>, <<"MT_X", 0>>, <<"MT_Y", 0>>, <<"MT_MAJOR", 1>>,
                     <<"MT_ID", 0>>, <<"MT_SYN", 0>>, Inputs!SYN, <<"TOUCH", 0>>, Inputs!SYN>>
     ELSE IF a = 1 THEN <<<<"TOUCH", 1>>, <<"ABS_X", 0>>, <<"ABS_Y", 0>>, <<"MT_X", 0>>, <<"MT_Y", 0>>,
                          <<"MT_MAJOR", 1>>, <<"MT_ID", 0>>, <<"MT_SYN", 0>>, Inputs!SYN>>
     ELSE <<<<"TOUCH", 1>>, <<"ABS_X", 0>>, <<"ABS_Y", 0>>, <<"MT_X", 0>>, <<"MT_Y", 0>>, <<"MT_MAJOR", 1>>,
            <<"MT_ID", 0>>, <<"MT_SYN", 0>>, Inputs!SYN, <<"TOUCH", 0>>, Inputs!SYN>>]

\* AT+CTSA: how much of the frame is out after each step.
Due(a, s) ==
  (IF a # 0 /\ s >= 1 THEN 1 ELSE 0) + (IF s >= 2 THEN 8 ELSE 0) + (IF a # 1 /\ s >= 3 THEN 2 ELSE 0)

TouchInv ==
  /\ action \in 0..2 /\ ret = "none" /\ step \in 0..3
  /\ Len(emitted) = Due(action, step) /\ Begins(emitted, Frames[action])

\* Each place of the commands with what it has done so far.
InputsInv ==
  /\ KeysOK /\ p \in 1..(Len(keys) + 1) /\ alpha \in BOOLEAN /\ code \in Codes
  /\ action \in 0..3 /\ emitted \in Seq(InputEvents)
  /\ input_pc \in {"idle", "key", "press", "release", "touch"}
  /\ input_pc \in {"key", "press", "release"} => KeysInv
  /\ input_pc = "touch" => TouchInv
  /\ input_pc = "idle" => Inputs!EventsAsAsked

\* What a string stands for changes with the string only.
LEMMA SameScript ==
  ASSUME keys' = keys
  PROVE  /\ Inputs!Script' = Inputs!Script /\ Inputs!Strokes' = Inputs!Strokes /\ Inputs!Alphabetic' = Inputs!Alphabetic
         /\ \A i : Inputs!Run(i)' = Inputs!Run(i) /\ Inputs!Switches(i)' = Inputs!Switches(i)
<1>1. Inputs!Strokes' = Inputs!Strokes
  BY DEF Inputs!Strokes, Inputs!KeyOf, Inputs!Run, Inputs!Alphabetic, Inputs!Switches
<1>2. Inputs!Alphabetic' = Inputs!Alphabetic
  BY DEF Inputs!Run, Inputs!Alphabetic, Inputs!Switches
<1>3. \A i : Inputs!Run(i)' = Inputs!Run(i)
  BY Zenon DEF Inputs!Run
<1>4. \A i : Inputs!Switches(i)' = Inputs!Switches(i)
  BY <1>3 DEF Inputs!Switches
<1>. QED
  BY <1>1, <1>2, <1>3, <1>4 DEF Inputs!Script

LEMMA JoinedTwice ==
  ASSUME NEW S, NEW s \in Seq(S), NEW t \in Seq(S), NEW u \in Seq(S)
  PROVE  s \o (t \o u) = (s \o t) \o u
<1>1. /\ s \o (t \o u) \in Seq(S) /\ Len(s \o (t \o u)) = Len(s) + (Len(t) + Len(u))
      /\ (s \o t) \o u \in Seq(S) /\ Len((s \o t) \o u) = (Len(s) + Len(t)) + Len(u)
  BY Joined
<1>2. Len(s) \in Nat /\ Len(t) \in Nat /\ Len(u) \in Nat
  OBVIOUS
<1>3. ASSUME NEW i \in 1..(Len(s) + Len(t) + Len(u)) PROVE (s \o (t \o u))[i] = ((s \o t) \o u)[i]
  BY <1>2
<1>. QED
  BY <1>1, <1>2, <1>3

LEMMA EventsJoined == \A s, t, u \in Seq(InputEvents) : s \o (t \o u) = (s \o t) \o u
  BY JoinedTwice, SMTT(20)

LEMMA BeginsFurther ==
  ASSUME NEW s \in Seq(InputEvents), NEW t \in Seq(InputEvents), NEW u \in Seq(InputEvents), Begins(s, t), Begins(t, u)
  PROVE  Begins(s, u)
  BY DEF Begins

\* Before the first character there is nothing.
ScriptOK ==
  /\ Inputs!Strokes[0] = <<>> /\ Inputs!Alphabetic[0] = FALSE /\ Inputs!Run(0) = 0
  /\ Inputs!Script \in Seq(InputEvents)
Still == KeysOK /\ emitted = <<>> /\ ret # "OK"

LEMMA ScriptIs == KeysOK => ScriptOK
<1>. SUFFICES ASSUME KeysOK PROVE ScriptOK
  OBVIOUS
<1>1. Len(keys) \in 0..Len(keys)
  BY DEF KeysOK
<1>. QED
  BY <1>1, StrokesAre, AlphabeticIs, RunIs DEF ScriptOK, Inputs!Script

LEMMA StillIsWell == Still => Inputs!EventsAsAsked
<1>. SUFFICES ASSUME Still PROVE Inputs!EventsAsAsked
  OBVIOUS
<1>1. emitted \in Seq(InputEvents) /\ Inputs!Script \in Seq(InputEvents) /\ Begins(emitted, Inputs!Script)
  BY ScriptIs DEF Still, ScriptOK, Begins
<1>2. Inputs!IsPrefix(emitted, Inputs!Script)
  BY <1>1, BeginsIsPrefix
<1>3. Inputs!PositionFirst(emitted)
  BY DEF Inputs!PositionFirst, Still
<1>. QED
  BY <1>2, <1>3 DEF Inputs!EventsAsAsked, Still

LEMMA Later == (KeysOK => ScriptOK)' /\ (Still => Inputs!EventsAsAsked)'
  BY ScriptIs, StillIsWell, PTL

\* InputsInv holds when nothing has been asked, and every step keeps it.
LEMMA InputsStart == Inputs!Init => InputsInv
<1>. SUFFICES ASSUME Inputs!Init PROVE InputsInv
  OBVIOUS
<1>1. Still /\ input_pc = "idle"
  BY DEF Inputs!Init, Still, KeysOK
<1>2. Inputs!EventsAsAsked /\ KeysOK /\ emitted \in Seq(InputEvents)
  BY <1>1, StillIsWell DEF Still
<1>3. p \in 1..(Len(keys) + 1) /\ action \in 0..3 /\ alpha \in BOOLEAN /\ code \in Codes
  <2>1. p = 1 /\ keys = <<>> /\ action = 3 /\ alpha = FALSE /\ code = "none"
    BY DEF Inputs!Init, Inputs!NoAction, Inputs!NoKey
  <2>2. p \in 1..(Len(keys) + 1) /\ action \in 0..3
    BY <2>1
  <2>3. code \in Codes
    BY <2>1 DEF Codes
  <2>. QED
    BY <2>1, <2>2, <2>3
<1>. QED
  BY <1>1, <1>2, <1>3 DEF InputsInv

LEMMA KeypadKeeps ==
  ASSUME InputsInv, NEW k \in Inputs!Commands, Inputs!handle_keypad(k)
  PROVE  InputsInv'
<1>1. /\ keys' = k /\ p' = 1 /\ alpha' = FALSE /\ code' = Inputs!NoKey /\ emitted' = <<>> /\ action' = 3
      /\ \/ input_pc' = "key" /\ ret' = "none"
         \/ input_pc' = "idle" /\ ret' \in {"EPERM", "ERROR"}
  BY DEF Inputs!handle_keypad, Inputs!create_uinput, Inputs!Fail, Inputs!NoAction, InputsInv
<1>2. k \in Seq(Chars)
  BY DEF Inputs!Commands
<1>3. KeysOK' /\ ScriptOK' /\ emitted' \in Seq(InputEvents)
  BY <1>1, <1>2, Later DEF KeysOK
<1>6. p' \in 1..(Len(keys') + 1) /\ action' \in 0..3 /\ alpha' \in BOOLEAN /\ code' \in Codes
  <2>1. p' \in 1..(Len(keys') + 1) /\ action' \in 0..3
    BY <1>1, <1>2
  <2>2. code' \in Codes
    BY <1>1 DEF Codes, Inputs!NoKey
  <2>. QED
    BY <1>1, <2>1, <2>2
<1>4. CASE input_pc' = "key"
  <2>1. p' - 1 = 0
    BY <1>1
  <2>2. KeysInv'
    <3>1. Inputs!Strokes[p - 1]' = <<>> /\ Inputs!Alphabetic[p - 1]' = FALSE /\ Inputs!Run(p - 1)' = 0
      BY <1>3, <2>1 DEF ScriptOK
    <3>2. Inputs!Run(p - 1)' % 2 # 1
      BY <3>1
    <3>. QED
      BY <1>1, <1>4, <3>1, <3>2, Zenon DEF KeysInv, Inputs!NoAction
  <2>. QED
    BY <1>1, <1>3, <1>4, <1>6, <2>2 DEF InputsInv
<1>5. CASE input_pc' = "idle"
  <2>1. Still' /\ Inputs!EventsAsAsked'
    BY <1>1, <1>3, <1>5, Later DEF Still
  <2>. QED
    BY <1>1, <1>3, <1>5, <1>6, <2>1 DEF InputsInv
<1>. QED
  BY <1>1, <1>4, <1>5

LEMMA ToggleKeeps ==
  ASSUME InputsInv, Inputs!Toggle
  PROVE  InputsInv'
<1>1. /\ input_pc = "key" /\ p <= Len(keys) /\ keys[p] = "semi" /\ KeysOK /\ p \in 1..Len(keys) /\ Len(keys) \in Nat
      /\ keys' = keys /\ action' = action /\ ret' = ret /\ emitted' = emitted
  BY DEF Inputs!Toggle, Inputs!device, Inputs!touch, InputsInv, KeysOK
<1>2. /\ KeysInv /\ action = 3 /\ emitted = Inputs!Strokes[p - 1] /\ alpha = Inputs!Alphabetic[p - 1]
      /\ emitted \in Seq(InputEvents) /\ alpha \in BOOLEAN /\ code \in Codes
  BY <1>1 DEF InputsInv, KeysInv, Inputs!NoAction
<1>3. Inputs!Run(p - 1) % 2 = 0
  <2>1. ~Inputs!Switches(p - 1)
    BY <1>1 DEF Inputs!Switches
  <2>2. Inputs!Run(p - 1) \in Nat /\ Inputs!Run(p - 1) % 2 # 1
    BY <1>1, <1>2, <2>1, RunIs DEF KeysInv
  <2>. QED
    BY <2>2
<1>4. CASE Inputs!Twice
  <2>1. /\ p < Len(keys) /\ keys[p + 1] = "semi" /\ p' = p + 2 /\ alpha' = alpha
        /\ code' = Inputs!keymap("semi", alpha) /\ input_pc' = "press"
    BY <1>4 DEF Inputs!Toggle, Inputs!Twice
  <2>2. /\ Inputs!Run(p + 1) % 2 = 0 /\ Inputs!Alphabetic[p + 1] = alpha
        /\ Inputs!Strokes[p + 1] = emitted \o Inputs!Stroke(code')
    BY <1>1, <1>2, <1>3, <2>1, AfterTwo
  <2>3. p' - 1 = p + 1 /\ p' \in 1..(Len(keys) + 1)
    BY <1>1, <2>1
  <2>4. /\ Inputs!Strokes[p - 1]' = Inputs!Strokes[p + 1] /\ Inputs!Alphabetic[p - 1]' = Inputs!Alphabetic[p + 1]
        /\ Inputs!Run(p - 1)' = Inputs!Run(p + 1)
    BY <1>1, <2>3, SameScript
  <2>5. Inputs!Run(p - 1)' % 2 # 1
    BY <2>2, <2>4
  <2>6. KeysInv'
    BY <1>1, <1>2, <2>1, <2>2, <2>4, <2>5 DEF KeysInv
  <2>7. code' \in Codes
    BY <2>1, KeyIs
  <2>. QED
    BY <1>1, <1>2, <2>1, <2>3, <2>6, <2>7 DEF InputsInv, KeysOK
<1>5. CASE ~Inputs!Twice
  <2>1. /\ p = Len(keys) \/ keys[p + 1] # "semi"
        /\ p' = p + 1 /\ alpha' = ~alpha /\ code' = code /\ input_pc' = "key"
    BY <1>1, <1>5 DEF Inputs!Toggle, Inputs!Twice
  <2>2. Inputs!Switches(p) /\ Inputs!Alphabetic[p] = ~alpha /\ Inputs!Strokes[p] = emitted
    BY <1>1, <1>2, <1>3, <2>1, AfterSwitch
  <2>3. p' - 1 = p /\ p' \in 1..(Len(keys) + 1)
    BY <1>1, <2>1
  <2>4. /\ Inputs!Strokes[p - 1]' = Inputs!Strokes[p] /\ Inputs!Alphabetic[p - 1]' = Inputs!Alphabetic[p]
        /\ Inputs!Switches(p - 1)' = Inputs!Switches(p)
    BY <1>1, <2>3, SameScript
  <2>6. KeysInv'
    BY <1>1, <1>2, <2>1, <2>2, <2>4 DEF KeysInv
  <2>. QED
    BY <1>1, <1>2, <2>1, <2>3, <2>6 DEF InputsInv, KeysOK
<1>. QED
  BY <1>4, <1>5

LEMMA KeyKeeps ==
  ASSUME InputsInv, Inputs!Key
  PROVE  InputsInv'
<1>1. /\ input_pc = "key" /\ p <= Len(keys) /\ keys[p] # "semi" /\ KeysOK /\ p \in 1..Len(keys) /\ Len(keys) \in Nat
      /\ keys' = keys /\ action' = action /\ ret' = ret /\ emitted' = emitted /\ alpha' = alpha
      /\ p' = p + 1 /\ code' = Inputs!keymap(keys[p], alpha) /\ input_pc' = "press"
  BY DEF Inputs!Key, Inputs!device, Inputs!touch, InputsInv, KeysOK
<1>2. /\ KeysInv /\ action = 3 /\ emitted = Inputs!Strokes[p - 1] /\ alpha = Inputs!Alphabetic[p - 1]
      /\ emitted \in Seq(InputEvents) /\ alpha \in BOOLEAN
  BY <1>1 DEF InputsInv, KeysInv, Inputs!NoAction
<1>3. /\ Inputs!Run(p) % 2 = 0 /\ Inputs!Alphabetic[p] = alpha
      /\ Inputs!Strokes[p] = emitted \o Inputs!Stroke(code')
  BY <1>1, <1>2, AfterKey
<1>4. p' - 1 = p /\ p' \in 1..(Len(keys) + 1)
  BY <1>1
<1>5. /\ Inputs!Strokes[p - 1]' = Inputs!Strokes[p] /\ Inputs!Alphabetic[p - 1]' = Inputs!Alphabetic[p]
      /\ Inputs!Run(p - 1)' = Inputs!Run(p)
  BY <1>1, <1>4, SameScript
<1>6. Inputs!Run(p - 1)' % 2 # 1
  BY <1>3, <1>5
<1>7. KeysInv'
  BY <1>1, <1>2, <1>3, <1>5, <1>6 DEF KeysInv
<1>8. code' \in Codes
  BY <1>1, KeyIs
<1>. QED
  BY <1>1, <1>2, <1>4, <1>7, <1>8 DEF InputsInv, KeysOK

\* What has been emitted of a command that fails is the beginning of what it stands for.
LEMMA PartIsWell ==
  ASSUME KeysOK, p - 1 \in 0..Len(keys), emitted \in Seq(InputEvents), NEW events \in Seq(InputEvents), NEW rest \in Seq(InputEvents),
         Inputs!Strokes[p - 1] = emitted \o (events \o rest), NEW k \in 0..(Len(events) - 1),
         emitted' = emitted \o SubSeq(events, 1, k), keys' = keys, action' = 3, ret' = "ERROR"
  PROVE  emitted' \in Seq(InputEvents) /\ Inputs!EventsAsAsked'
<1>1. k \in 0..Len(events)
  OBVIOUS
<1>2. emitted' \in Seq(InputEvents) /\ Begins(emitted', emitted \o events)
  BY <1>1, PartsBegin
<1>3. Inputs!Strokes[p - 1] = (emitted \o events) \o rest
  BY EventsJoined, Zenon
<1>4. Begins(emitted \o events, Inputs!Strokes[p - 1]) /\ emitted \o events \in Seq(InputEvents)
  <2>1. emitted \o events \in Seq(InputEvents) /\ 0 \in 0..Len(rest)
    BY Joined
  <2>. QED
    BY <1>3, <2>1, PartsBegin
<1>5. Inputs!Strokes[p - 1] \in Seq(InputEvents) /\ Inputs!Script \in Seq(InputEvents)
  BY StrokesAre, ScriptIs DEF ScriptOK
<1>6. Begins(Inputs!Strokes[p - 1], Inputs!Script)
  BY StrokesGrow
<1>7. Begins(emitted', Inputs!Script)
  BY <1>2, <1>4, <1>5, <1>6, BeginsFurther
<1>8. Inputs!IsPrefix(emitted', Inputs!Script)
  BY <1>2, <1>5, <1>7, BeginsIsPrefix
<1>9. Inputs!IsPrefix(emitted, Inputs!Script)'
  BY <1>8, SameScript
<1>. QED
  BY <1>2, <1>9 DEF Inputs!EventsAsAsked, Inputs!NoAction

LEMMA PressKeeps ==
  ASSUME InputsInv, Inputs!Press
  PROVE  InputsInv'
<1>1. /\ input_pc = "press" /\ KeysOK /\ p \in 1..(Len(keys) + 1) /\ KeysInv /\ code \in Codes /\ emitted \in Seq(InputEvents)
      /\ UNCHANGED <<keys, p, alpha, code, action>>
  BY DEF Inputs!Press, Inputs!device, Inputs!keypad, Inputs!touch, InputsInv
<1>2. /\ Down(code) \in Seq(InputEvents) /\ Up(code) \in Seq(InputEvents)
      /\ Inputs!Strokes[p - 1] = emitted \o (Down(code) \o Up(code)) /\ action = 3
  BY <1>1, StrokeIsBoth DEF KeysInv, Inputs!NoAction
<1>3. Inputs!Emit(Down(code), "release")
  BY DEF Inputs!Press, Down
<1>4. Len(keys) \in Nat /\ p - 1 \in 0..Len(keys)
  BY <1>1 DEF KeysOK
<1>5. CASE emitted' = emitted \o Down(code) /\ input_pc' = "release" /\ UNCHANGED ret
  <2>1. Inputs!Strokes[p - 1] = emitted' \o Up(code) /\ emitted' \in Seq(InputEvents)
    <3>1. emitted \o (Down(code) \o Up(code)) = (emitted \o Down(code)) \o Up(code)
      BY <1>1, <1>2, EventsJoined, Zenon
    <3>2. emitted \o Down(code) \in Seq(InputEvents)
      BY <1>1, <1>2, Joined, Zenon
    <3>. QED
      BY <1>2, <1>5, <3>1, <3>2, Zenon
  <2>2. KeysInv'
    BY <1>1, <1>5, <2>1, SameScript DEF KeysInv, Up
  <2>. QED
    BY <1>1, <1>5, <2>1, <2>2 DEF InputsInv, KeysOK
<1>6. CASE \E k \in 0..(Len(Down(code)) - 1) : emitted' = emitted \o SubSeq(Down(code), 1, k)
           /\ input_pc' = "idle" /\ ret' = "ERROR"
  <2>1. emitted' \in Seq(InputEvents) /\ Inputs!EventsAsAsked'
    BY <1>1, <1>2, <1>4, <1>6, PartIsWell
  <2>. QED
    BY <1>1, <1>2, <1>6, <2>1 DEF InputsInv, KeysOK
<1>. QED
  BY <1>3, <1>5, <1>6 DEF Inputs!Emit, Inputs!Fail

LEMMA ReleaseKeeps ==
  ASSUME InputsInv, Inputs!Release
  PROVE  InputsInv'
<1>1. /\ input_pc = "release" /\ KeysOK /\ p \in 1..(Len(keys) + 1) /\ KeysInv /\ code \in Codes /\ emitted \in Seq(InputEvents)
      /\ UNCHANGED <<keys, p, alpha, code, action>>
  BY DEF Inputs!Release, Inputs!device, Inputs!keypad, Inputs!touch, InputsInv
<1>2. Up(code) \in Seq(InputEvents) /\ Inputs!Strokes[p - 1] = emitted \o Up(code) /\ action = 3
  BY <1>1, StrokeIsBoth DEF KeysInv, Inputs!NoAction
<1>3. Inputs!Emit(Up(code), "key")
  BY DEF Inputs!Release, Up
<1>4. Len(keys) \in Nat /\ p - 1 \in 0..Len(keys)
  BY <1>1 DEF KeysOK
<1>5. CASE emitted' = emitted \o Up(code) /\ input_pc' = "key" /\ UNCHANGED ret
  <2>1. Inputs!Strokes[p - 1] = emitted' /\ emitted' \in Seq(InputEvents)
    BY <1>1, <1>2, <1>5, Joined
  <2>2. KeysInv'
    BY <1>1, <1>5, <2>1, SameScript DEF KeysInv
  <2>. QED
    BY <1>1, <1>5, <2>1, <2>2 DEF InputsInv, KeysOK
<1>6. CASE \E k \in 0..(Len(Up(code)) - 1) : emitted' = emitted \o SubSeq(Up(code), 1, k)
           /\ input_pc' = "idle" /\ ret' = "ERROR"
  <2>1. <<>> \in Seq(InputEvents) /\ Up(code) \o <<>> = Up(code)
    BY <1>2
  <2>2. emitted' \in Seq(InputEvents) /\ Inputs!EventsAsAsked'
    BY <1>1, <1>2, <1>4, <1>6, <2>1, PartIsWell
  <2>. QED
    BY <1>1, <1>2, <1>6, <2>2 DEF InputsInv, KeysOK
<1>. QED
  BY <1>3, <1>5, <1>6 DEF Inputs!Emit, Inputs!Fail

LEMMA TypedKeeps ==
  ASSUME InputsInv, Inputs!Typed
  PROVE  InputsInv'
<1>1. /\ input_pc = "key" /\ p > Len(keys) /\ KeysOK /\ p \in 1..(Len(keys) + 1) /\ KeysInv /\ emitted \in Seq(InputEvents)
      /\ UNCHANGED <<keys, p, alpha, code, action, emitted>> /\ input_pc' = "idle" /\ ret' = "OK"
  BY DEF Inputs!Typed, Inputs!device, Inputs!keypad, Inputs!touch, InputsInv
<1>2. p - 1 = Len(keys) /\ Len(keys) \in Nat
  BY <1>1 DEF KeysOK
<1>3. emitted = Inputs!Script /\ action = Inputs!NoAction
  BY <1>1, <1>2 DEF KeysInv, Inputs!Script
<1>4. emitted' = Inputs!Script' /\ emitted' \in Seq(InputEvents)
  BY <1>1, <1>3, SameScript
<1>5. Inputs!IsPrefix(emitted', Inputs!Script')
  <2>1. Begins(emitted', emitted')
    BY <1>4 DEF Begins
  <2>. QED
    BY <1>4, <2>1, BeginsIsPrefix
<1>6. Inputs!EventsAsAsked'
  BY <1>1, <1>3, <1>4, <1>5 DEF Inputs!EventsAsAsked
<1>. QED
  BY <1>1, <1>6 DEF InputsInv, KeysOK

-----------------------------------------------------------------------------
LEMMA FramesAre ==
  \A a \in 0..2 :
    /\ Frames[a] \in Seq(InputEvents)
    /\ Len(Frames[a]) = 8 + (IF a = 0 THEN 0 ELSE 1) + (IF a = 1 THEN 0 ELSE 2)
<1>1. \A name \in Codes, n \in {0, 1} : <<name, n>> \in InputEvents
  BY DEF InputEvents
<1>2. {"SYN", "TOUCH", "ABS_X", "ABS_Y", "MT_X", "MT_Y", "MT_MAJOR", "MT_ID", "MT_SYN"} \subseteq Codes
  BY DEF Codes
<1>. HIDE DEF Codes
<1>3. /\ <<"ABS_X", 0>> \in InputEvents /\ <<"ABS_Y", 0>> \in InputEvents /\ <<"MT_X", 0>> \in InputEvents
      /\ <<"MT_Y", 0>> \in InputEvents /\ <<"MT_MAJOR", 1>> \in InputEvents /\ <<"MT_ID", 0>> \in InputEvents
      /\ <<"MT_SYN", 0>> \in InputEvents /\ Inputs!SYN \in InputEvents
      /\ <<"TOUCH", 0>> \in InputEvents /\ <<"TOUCH", 1>> \in InputEvents
  BY <1>1, <1>2 DEF Inputs!SYN
<1>. TAKE a \in 0..2
<1>4. CASE a = 0
  BY <1>3, <1>4 DEF Frames
<1>5. CASE a = 1
  BY <1>3, <1>5 DEF Frames
<1>6. CASE a = 2
  BY <1>3, <1>6 DEF Frames
<1>. QED
  BY <1>4, <1>5, <1>6

\* The frame ends after the position, and before it there is all of the position.
LEMMA FramesGivePosition ==
  ASSUME NEW a \in 0..2
  PROVE  /\ \A i \in 1..(7 + (IF a = 0 THEN 0 ELSE 1)) : Frames[a][i] # Inputs!SYN
         /\ \A e \in Inputs!ToSet(Inputs!Position) \ {Inputs!SYN} :
              \E j \in 1..(7 + (IF a = 0 THEN 0 ELSE 1)) : Frames[a][j] = e
<1>1. \A e \in Inputs!ToSet(Inputs!Position) \ {Inputs!SYN} :
        e \in {<<"ABS_X", 0>>, <<"ABS_Y", 0>>, <<"MT_X", 0>>, <<"MT_Y", 0>>, <<"MT_MAJOR", 1>>, <<"MT_ID", 0>>, <<"MT_SYN", 0>>}
  BY DEF Inputs!ToSet, Inputs!Position
<1>2. CASE a = 0
  BY <1>1, <1>2 DEF Frames, Inputs!SYN
<1>3. CASE a = 1
  BY <1>1, <1>3 DEF Frames, Inputs!SYN
<1>4. CASE a = 2
  BY <1>1, <1>4 DEF Frames, Inputs!SYN
<1>. QED
  BY <1>2, <1>3, <1>4

\* Touched and released are told apart by their frames.
LEMMA FramesTouch ==
  ASSUME NEW a \in 0..2
  PROVE  Inputs!IsTouched(Frames[a]) <=> a = 1
<1>1. CASE a = 0
  <2>1. \A i \in DOMAIN Frames[a] : Frames[a][i] # <<"TOUCH", 1>>
    BY <1>1 DEF Frames, Inputs!SYN
  <2>. QED
    <3>1. ~Inputs!IsTouched(Frames[a])
      BY <2>1 DEF Inputs!IsTouched
    <3>. QED
      BY <1>1, <3>1
<1>2. CASE a = 1
  <2>1. Frames[a][1] = <<"TOUCH", 1>> /\ 1 \in DOMAIN Frames[a]
    BY <1>2 DEF Frames
  <2>2. \A j \in 1..Len(Frames[a]) : Frames[a][j] # <<"TOUCH", 0>>
    BY <1>2 DEF Frames, Inputs!SYN
  <2>. QED
    BY <1>2, <2>1, <2>2 DEF Inputs!IsTouched
<1>3. CASE a = 2
  <2>1. \A i \in DOMAIN Frames[a] : Frames[a][i] = <<"TOUCH", 1>> => i = 1
    BY <1>3 DEF Frames, Inputs!SYN
  <2>2. Frames[a][10] = <<"TOUCH", 0>> /\ 10 \in 1..Len(Frames[a])
    BY <1>3 DEF Frames
  <2>. QED
    <3>1. ~Inputs!IsTouched(Frames[a])
      BY <2>1, <2>2 DEF Inputs!IsTouched
    <3>. QED
      BY <1>3, <3>1
<1>. QED
  BY <1>1, <1>2, <1>3

\* A frame that is begun has its position before the end of the frame.
LEMMA BegunIsPlaced ==
  ASSUME NEW a \in 0..2, NEW s \in Seq(InputEvents), Begins(s, Frames[a])
  PROVE  Inputs!PositionFirst(s)
<1>. DEFINE placed == 7 + (IF a = 0 THEN 0 ELSE 1)
<1>1. placed \in Nat
  OBVIOUS
<1>2. /\ \A i \in 1..placed : Frames[a][i] # Inputs!SYN
      /\ \A e \in Inputs!ToSet(Inputs!Position) \ {Inputs!SYN} : \E j \in 1..placed : Frames[a][j] = e
  BY FramesGivePosition
<1>. HIDE DEF placed
<1>3. SUFFICES ASSUME NEW i \in DOMAIN s, s[i] = Inputs!SYN, NEW e \in Inputs!ToSet(Inputs!Position) \ {Inputs!SYN}
               PROVE  \E j \in 1..(i - 1) : s[j] = e
  BY DEF Inputs!PositionFirst
<1>4. i \in 1..Len(s) /\ Len(s) \in Nat /\ Frames[a][i] = Inputs!SYN
  BY <1>3 DEF Begins
<1>5. i > placed
  BY <1>1, <1>2, <1>4
<1>6. PICK j \in 1..placed : Frames[a][j] = e
  BY <1>2
<1>7. j \in 1..(i - 1) /\ j \in 1..Len(s)
  BY <1>1, <1>4, <1>5
<1>8. s[j] = e
  BY <1>6, <1>7 DEF Begins
<1>. QED
  BY <1>7, <1>8

\* A part of the frame is emitted, or the beginning of it.
LEMMA TouchPart ==
  ASSUME InputsInv, input_pc = "touch", NEW events \in Seq(InputEvents),
         Len(emitted) + Len(events) = Due(action, step + 1), step + 1 \in 0..3,
         \A i \in 1..Len(events) : Frames[action][Len(emitted) + i] = events[i],
         Inputs!Emit(events, "touch"), step' = step + 1, UNCHANGED <<action, keys, p, alpha, code>>
  PROVE  InputsInv'
<1>1. TouchInv /\ emitted \in Seq(InputEvents) /\ Len(emitted) \in Nat /\ Len(events) \in Nat
  BY DEF InputsInv
<1>2. Len(emitted) + Len(events) <= Len(Frames[action]) /\ Frames[action] \in Seq(InputEvents)
  <2>1. action \in 0..2 /\ step \in 0..3 /\ step + 1 \in 0..3
    BY <1>1 DEF TouchInv
  <2>2. Frames[action] \in Seq(InputEvents)
        /\ Len(Frames[action]) = 8 + (IF action = 0 THEN 0 ELSE 1) + (IF action = 1 THEN 0 ELSE 2)
    BY <2>1, FramesAre
  <2>3. Due(action, step + 1) <= 8 + (IF action = 0 THEN 0 ELSE 1) + (IF action = 1 THEN 0 ELSE 2)
    BY <2>1 DEF Due
  <2>4. Len(emitted) + Len(events) = Due(action, step + 1)
    OBVIOUS
  <2>. QED
    BY <2>2, <2>3, <2>4, Zenon
<1>3. ASSUME NEW k \in 0..Len(events), emitted' = emitted \o SubSeq(events, 1, k)
      PROVE  emitted' \in Seq(InputEvents) /\ Begins(emitted', Frames[action])
  <2>. DEFINE part == SubSeq(events, 1, k)
  <2>1. part \in Seq(InputEvents) /\ Len(part) = k /\ \A i \in 1..k : part[i] = events[i]
    OBVIOUS
  <2>. HIDE DEF part
  <2>2. emitted' = emitted \o part
    BY <1>3 DEF part
  <2>3. emitted' \in Seq(InputEvents) /\ Len(emitted') = Len(emitted) + k
    BY <1>1, <2>1, <2>2, Joined
  <2>4. \A i \in 1..Len(emitted) : emitted'[i] = Frames[action][i]
    BY <1>1, <2>1, <2>2, Joined DEF TouchInv, Begins
  <2>5. \A i \in 1..k : emitted'[Len(emitted) + i] = Frames[action][Len(emitted) + i]
    <3>. TAKE i \in 1..k
    <3>1. i \in 1..Len(part) /\ i \in 1..Len(events)
      BY <1>1, <2>1
    <3>2. (emitted \o part)[Len(emitted) + i] = part[i]
      BY <1>1, <2>1, <3>1, Joined
    <3>3. part[i] = events[i] /\ Frames[action][Len(emitted) + i] = events[i]
      BY <2>1, <3>1
    <3>. QED
      BY <2>2, <3>2, <3>3, Zenon
  <2>6. ASSUME NEW i \in 1..(Len(emitted) + k) PROVE emitted'[i] = Frames[action][i]
    <3>1. i \in 1..Len(emitted) \/ (i - Len(emitted) \in 1..k /\ Len(emitted) + (i - Len(emitted)) = i)
      BY <1>1
    <3>. QED
      BY <2>4, <2>5, <3>1
  <2>. QED
    BY <1>1, <1>2, <2>3, <2>6 DEF Begins
<1>4. CASE emitted' = emitted \o events /\ input_pc' = "touch" /\ UNCHANGED ret
  <2>1. events = SubSeq(events, 1, Len(events)) /\ Len(events) \in 0..Len(events)
    BY <1>1
  <2>2. emitted' \in Seq(InputEvents) /\ Begins(emitted', Frames[action])
    BY <1>3, <1>4, <2>1
  <2>3. Len(emitted') = Due(action, step + 1)
    BY <1>1, <1>4, Joined
  <2>4. TouchInv'
    BY <1>1, <1>4, <2>2, <2>3 DEF TouchInv, Due, Begins
  <2>. QED
    BY <1>4, <2>2, <2>4 DEF InputsInv, KeysOK
<1>5. CASE \E k \in 0..(Len(events) - 1) : emitted' = emitted \o SubSeq(events, 1, k) /\ input_pc' = "idle" /\ ret' = "ERROR"
  <2>1. PICK k \in 0..(Len(events) - 1) : emitted' = emitted \o SubSeq(events, 1, k)
    BY <1>5
  <2>2. k \in 0..Len(events)
    BY <1>1
  <2>3. emitted' \in Seq(InputEvents) /\ Begins(emitted', Frames[action])
    BY <1>3, <2>1, <2>2
  <2>4. Inputs!PositionFirst(emitted') /\ action \in 0..2
    BY <1>1, <2>3, BegunIsPlaced DEF TouchInv
  <2>5. Inputs!EventsAsAsked'
    BY <1>5, <2>4 DEF Inputs!EventsAsAsked, Inputs!NoAction
  <2>. QED
    BY <1>5, <2>3, <2>5 DEF InputsInv, KeysOK
<1>. QED
  BY <1>4, <1>5 DEF Inputs!Emit, Inputs!Fail

\* A step of the frame that has nothing to emit for this action.
LEMMA TouchNothing ==
  ASSUME InputsInv, input_pc = "touch", Len(emitted) = Due(action, step + 1), step + 1 \in 0..3,
         Inputs!Emit(<<>>, "touch"), step' = step + 1, UNCHANGED <<action, keys, p, alpha, code>>
  PROVE  InputsInv'
<1>. DEFINE events == <<>>
<1>1. events \in Seq(InputEvents) /\ Len(events) = 0 /\ Inputs!Emit(events, "touch")
  OBVIOUS
<1>. HIDE DEF events
<1>2. \A i \in 1..Len(events) : Frames[action][Len(emitted) + i] = events[i]
  BY <1>1
<1>3. Len(emitted) \in Nat
  BY DEF InputsInv
<1>4. Len(emitted) + Len(events) = Len(emitted)
  BY <1>1, <1>3
<1>5. Len(emitted) + Len(events) = Due(action, step + 1)
  BY <1>4
<1>. QED
  BY <1>1, <1>2, <1>5, TouchPart

LEMMA TouchStartKeeps ==
  ASSUME InputsInv, NEW a \in 0..2, Inputs!set_ctsa(a)
  PROVE  InputsInv'
<1>1. /\ keys' = <<>> /\ p' = 1 /\ alpha' = FALSE /\ code' = "none" /\ emitted' = <<>> /\ action' = a /\ step' = 0
      /\ \/ input_pc' = "touch" /\ ret' = "none"
         \/ input_pc' = "idle" /\ ret' \in {"EPERM", "ERROR"}
  BY DEF Inputs!set_ctsa, Inputs!create_uinput, Inputs!Fail, Inputs!NoKey, InputsInv
<1>2. KeysOK' /\ emitted' \in Seq(InputEvents)
  BY <1>1 DEF KeysOK
<1>3. p' \in 1..(Len(keys') + 1) /\ action' \in 0..3 /\ alpha' \in BOOLEAN
  <2>1. Len(keys') = 0
    BY <1>1
  <2>2. p' \in 1..(Len(keys') + 1)
    BY <1>1, <2>1
  <2>3. action' \in 0..3
    BY <1>1
  <2>4. alpha' \in BOOLEAN
    BY <1>1, Zenon
  <2>. QED
    BY <2>2, <2>3, <2>4
<1>4. code' \in Codes
  BY <1>1 DEF Codes
<1>5. CASE input_pc' = "touch"
  <2>1. Due(a, 0) = 0
    BY DEF Due
  <2>2. Frames[a] \in Seq(InputEvents)
    BY FramesAre
  <2>3. TouchInv'
    BY <1>1, <1>5, <2>1, <2>2 DEF TouchInv, Begins
  <2>. QED
    BY <1>2, <1>3, <1>4, <1>5, <2>3 DEF InputsInv
<1>6. CASE input_pc' = "idle"
  <2>1. Still' /\ Inputs!EventsAsAsked'
    BY <1>1, <1>2, <1>6, Later DEF Still
  <2>. QED
    BY <1>2, <1>3, <1>4, <1>6, <2>1 DEF InputsInv
<1>. QED
  BY <1>1, <1>5, <1>6

LEMMA TouchStepsKeep ==
  ASSUME InputsInv, Inputs!Depress \/ Inputs!Place \/ Inputs!Lift
  PROVE  InputsInv'
<1>1. input_pc = "touch" /\ TouchInv /\ step' = step + 1 /\ UNCHANGED <<action, keys, p, alpha, code>>
  BY DEF InputsInv, Inputs!Depress, Inputs!Place, Inputs!Lift, Inputs!Part, Inputs!keypad
<1>2. action \in 0..2 /\ Len(emitted) = Due(action, step)
  BY <1>1 DEF TouchInv
<1>3. <<"TOUCH", 0>> \in InputEvents /\ <<"TOUCH", 1>> \in InputEvents /\ Inputs!SYN \in InputEvents
  BY DEF InputEvents, Codes, Inputs!SYN
<1>5. CASE Inputs!Depress
  <2>1. step = 0 /\ Inputs!Emit(IF action # 0 THEN <<<<"TOUCH", 1>>>> ELSE <<>>, "touch")
    BY <1>5 DEF Inputs!Depress, Inputs!Part
  <2>2. Len(emitted) = 0
    BY <1>2, <2>1 DEF Due
  <2>3. CASE action = 0
    <3>1. Due(action, step + 1) = 0 /\ Inputs!Emit(<<>>, "touch")
      BY <2>1, <2>3 DEF Due
    <3>2. step + 1 \in 0..3
      BY <2>1
    <3>. QED
      BY <1>1, <2>1, <2>2, <3>1, <3>2, TouchNothing
  <2>4. CASE action # 0
    <3>. DEFINE events == <<<<"TOUCH", 1>>>>
    <3>1. Due(action, step + 1) = 1 /\ Inputs!Emit(events, "touch")
      BY <2>1, <2>4 DEF Due
    <3>2. events \in Seq(InputEvents) /\ Len(events) = 1 /\ events[1] = <<"TOUCH", 1>>
      BY <1>3
    <3>3. Frames[action][1] = <<"TOUCH", 1>>
      BY <1>2, <2>4 DEF Frames
    <3>. HIDE DEF events
    <3>4. \A i \in 1..Len(events) : Frames[action][Len(emitted) + i] = events[i]
      BY <2>2, <3>2, <3>3
    <3>5. Len(emitted) + Len(events) = Due(action, step + 1) /\ step + 1 \in 0..3
      BY <2>1, <2>2, <3>1, <3>2
    <3>. QED
      BY <1>1, <3>1, <3>2, <3>4, <3>5, TouchPart
  <2>. QED
    BY <2>3, <2>4
<1>6. CASE Inputs!Place
  <2>1. step = 1 /\ Inputs!Emit(Inputs!Position, "touch")
    BY <1>6 DEF Inputs!Place, Inputs!Part
  <2>. DEFINE n == IF action = 0 THEN 0 ELSE 1
  <2>2. Len(emitted) = n /\ Due(action, step + 1) = n + 8 /\ n \in Nat
    BY <1>2, <2>1 DEF Due
  <2>3. Inputs!Position \in Seq(InputEvents) /\ Len(Inputs!Position) = 8
    <3>1. \A name \in Codes, v \in {0, 1} : <<name, v>> \in InputEvents
      BY DEF InputEvents
    <3>2. {"ABS_X", "ABS_Y", "MT_X", "MT_Y", "MT_MAJOR", "MT_ID", "MT_SYN"} \subseteq Codes
      BY DEF Codes
    <3>. HIDE DEF Codes
    <3>3. /\ <<"ABS_X", 0>> \in InputEvents /\ <<"ABS_Y", 0>> \in InputEvents /\ <<"MT_X", 0>> \in InputEvents
          /\ <<"MT_Y", 0>> \in InputEvents /\ <<"MT_MAJOR", 1>> \in InputEvents /\ <<"MT_ID", 0>> \in InputEvents
          /\ <<"MT_SYN", 0>> \in InputEvents
      BY <3>1, <3>2
    <3>. QED
      BY <1>3, <3>3 DEF Inputs!Position
  <2>4. \A i \in 1..8 : Frames[action][n + i] = Inputs!Position[i]
    <3>. TAKE i \in 1..8
    <3>1. i = 1 \/ i = 2 \/ i = 3 \/ i = 4 \/ i = 5 \/ i = 6 \/ i = 7 \/ i = 8
      OBVIOUS
    <3>2. CASE action = 0
      BY <3>1, <3>2 DEF Frames, Inputs!Position
    <3>3. CASE action = 1
      BY <3>1, <3>3 DEF Frames, Inputs!Position
    <3>4. CASE action = 2
      BY <3>1, <3>4 DEF Frames, Inputs!Position
    <3>. QED
      BY <1>2, <3>2, <3>3, <3>4
  <2>. HIDE DEF n
  <2>5. \A i \in 1..Len(Inputs!Position) : Frames[action][Len(emitted) + i] = Inputs!Position[i]
    BY <2>2, <2>3, <2>4
  <2>6. Len(emitted) + Len(Inputs!Position) = Due(action, step + 1) /\ step + 1 \in 0..3
    BY <2>1, <2>2, <2>3
  <2>. QED
    BY <1>1, <2>1, <2>3, <2>5, <2>6, TouchPart
<1>7. CASE Inputs!Lift
  <2>1. step = 2 /\ Inputs!Emit(IF action # 1 THEN <<<<"TOUCH", 0>>, Inputs!SYN>> ELSE <<>>, "touch")
    BY <1>7 DEF Inputs!Lift, Inputs!Part
  <2>3. CASE action = 1
    <3>1. Due(action, step + 1) = 9 /\ Len(emitted) = 9 /\ step + 1 \in 0..3
      BY <1>2, <2>1, <2>3 DEF Due
    <3>2. Inputs!Emit(<<>>, "touch")
      BY <2>1, <2>3
    <3>. QED
      BY <1>1, <3>1, <3>2, TouchNothing
  <2>4. CASE action # 1
    <3>. DEFINE events == <<<<"TOUCH", 0>>, Inputs!SYN>>
                n == IF action = 0 THEN 8 ELSE 9
    <3>1. Due(action, step + 1) = n + 2 /\ Len(emitted) = n /\ n \in Nat /\ Inputs!Emit(events, "touch")
      BY <1>2, <2>1, <2>4 DEF Due
    <3>2. events \in Seq(InputEvents) /\ Len(events) = 2 /\ events[1] = <<"TOUCH", 0>> /\ events[2] = Inputs!SYN
      BY <1>3
    <3>3. Frames[action][n + 1] = <<"TOUCH", 0>> /\ Frames[action][n + 2] = Inputs!SYN
      <4>1. CASE action = 0
        BY <4>1 DEF Frames
      <4>2. CASE action = 2
        BY <4>2 DEF Frames
      <4>. QED
        BY <1>2, <2>4, <4>1, <4>2
    <3>. HIDE DEF events, n
    <3>4. \A i \in 1..Len(events) : Frames[action][Len(emitted) + i] = events[i]
      <4>. TAKE i \in 1..Len(events)
      <4>1. i = 1 \/ i = 2
        BY <3>2
      <4>. QED
        BY <3>1, <3>2, <3>3, <4>1, Zenon
    <3>5. Len(emitted) + Len(events) = Due(action, step + 1) /\ step + 1 \in 0..3
      BY <2>1, <3>1, <3>2
    <3>. QED
      BY <1>1, <3>1, <3>2, <3>4, <3>5, TouchPart
  <2>. QED
    BY <2>3, <2>4
<1>. QED
  BY <1>5, <1>6, <1>7

LEMMA TouchedKeeps ==
  ASSUME InputsInv, Inputs!Touched
  PROVE  InputsInv'
<1>1. /\ input_pc = "touch" /\ step = 3 /\ TouchInv /\ input_pc' = "idle" /\ ret' = "OK" /\ emitted \in Seq(InputEvents)
      /\ UNCHANGED <<action, keys, p, alpha, code, emitted>>
  BY DEF InputsInv, Inputs!Touched, Inputs!keypad, Inputs!touch
<1>2. action \in 0..2 /\ Len(emitted) = Due(action, 3) /\ Begins(emitted, Frames[action])
  BY <1>1 DEF TouchInv
<1>3. emitted = Frames[action]
  <2>1. Frames[action] \in Seq(InputEvents)
        /\ Len(Frames[action]) = 8 + (IF action = 0 THEN 0 ELSE 1) + (IF action = 1 THEN 0 ELSE 2)
    BY <1>2, FramesAre
  <2>2. Due(action, 3) = 8 + (IF action = 0 THEN 0 ELSE 1) + (IF action = 1 THEN 0 ELSE 2)
    BY <1>2 DEF Due
  <2>3. Len(emitted) = Len(Frames[action])
    BY <1>2, <2>1, <2>2, Zenon
  <2>4. \A i \in 1..Len(emitted) : emitted[i] = Frames[action][i]
    BY <1>2 DEF Begins
  <2>. QED
    BY <1>1, <2>1, <2>3, <2>4
<1>4. Inputs!IsTouched(emitted) <=> action = 1
  BY <1>2, <1>3, FramesTouch
<1>5. Inputs!PositionFirst(emitted)
  BY <1>1, <1>2, BegunIsPlaced
<1>6. Inputs!IsTouched(emitted) = (action = 1)
  BY <1>4 DEF Inputs!IsTouched
<1>7. Inputs!EventsAsAsked'
  BY <1>1, <1>2, <1>5, <1>6 DEF Inputs!EventsAsAsked, Inputs!NoAction
<1>. QED
  BY <1>1, <1>7 DEF InputsInv, KeysOK

LEMMA InputsRestKeeps ==
  ASSUME InputsInv,
         \/ \E k \in 0..2, t \in 0..2 : Inputs!set_cmec(k, t)
         \/ Inputs!at_plugin_unregister
  PROVE  InputsInv'
<1>1. input_pc' = "idle" /\ ret' \in {"none", "EPERM"} /\ emitted' = <<>> /\ UNCHANGED <<keys, p, alpha, code, action>>
  BY DEF Inputs!set_cmec, Inputs!at_plugin_unregister, Inputs!Fresh, Inputs!keypad, Inputs!touch
<1>2. KeysOK' /\ emitted' \in Seq(InputEvents)
  BY <1>1 DEF InputsInv, KeysOK
<1>3. Still' /\ Inputs!EventsAsAsked'
  BY <1>1, <1>2, Later DEF Still
<1>. QED
  BY <1>1, <1>2, <1>3 DEF InputsInv

\* InputsInv has EventsAsAsked.
LEMMA EventsAgree ==
  ASSUME InputsInv
  PROVE  Inputs!EventsAsAsked
<1>1. CASE input_pc \in {"key", "press", "release"}
  <2>1. KeysInv /\ KeysOK /\ emitted \in Seq(InputEvents) /\ p - 1 \in 0..Len(keys) /\ code \in Codes
    BY <1>1 DEF InputsInv, KeysOK
  <2>2. Inputs!Strokes[p - 1] \in Seq(InputEvents) /\ Inputs!Script \in Seq(InputEvents) /\ Begins(Inputs!Strokes[p - 1], Inputs!Script)
    BY <2>1, StrokesAre, ScriptIs, StrokesGrow DEF ScriptOK
  <2>3. Begins(emitted, Inputs!Strokes[p - 1])
    <3>1. CASE input_pc = "key"
      BY <2>1, <3>1 DEF KeysInv, Begins
    <3>2. CASE input_pc = "press"
      <4>1. Inputs!Stroke(code) \in Seq(InputEvents) /\ 0 \in 0..Len(Inputs!Stroke(code))
        BY <2>1, StrokeIs
      <4>. QED
        BY <2>1, <2>2, <3>2, <4>1, PartsBegin DEF KeysInv
    <3>3. CASE input_pc = "release"
      <4>1. Up(code) \in Seq(InputEvents) /\ 0 \in 0..Len(Up(code))
        BY <2>1, StrokeIsBoth
      <4>. QED
        BY <2>1, <3>3, <4>1, PartsBegin DEF KeysInv
    <3>. QED
      BY <1>1, <3>1, <3>2, <3>3
  <2>4. Inputs!IsPrefix(emitted, Inputs!Script)
    BY <2>1, <2>2, <2>3, BeginsFurther, BeginsIsPrefix
  <2>. QED
    BY <2>1, <2>4 DEF Inputs!EventsAsAsked, KeysInv
<1>2. CASE input_pc = "touch"
  <2>1. TouchInv /\ emitted \in Seq(InputEvents)
    BY <1>2 DEF InputsInv
  <2>2. Inputs!PositionFirst(emitted) /\ action \in 0..2 /\ ret = "none"
    BY <2>1, BegunIsPlaced DEF TouchInv
  <2>. QED
    BY <2>2 DEF Inputs!EventsAsAsked, Inputs!NoAction
<1>. QED
  BY <1>1, <1>2 DEF InputsInv

LEMMA InputsKeep ==
  ASSUME InputsInv, [Inputs!Next]_(Inputs!vars)
  PROVE  InputsInv'
<1>1. CASE UNCHANGED Inputs!vars
  <2>1. UNCHANGED <<keys, p, alpha, code, action, step, emitted, ret, input_pc>>
    BY <1>1 DEF Inputs!vars, Inputs!keypad, Inputs!touch
  <2>2. KeysInv <=> KeysInv'
    BY <2>1, SameScript DEF KeysInv
  <2>3. Inputs!EventsAsAsked <=> Inputs!EventsAsAsked'
    BY <2>1, SameScript DEF Inputs!EventsAsAsked
  <2>. QED
    BY <2>1, <2>2, <2>3 DEF InputsInv, KeysOK, TouchInv
<1>. QED
  BY <1>1, KeypadKeeps, ToggleKeeps, KeyKeeps, PressKeeps, ReleaseKeeps, TypedKeeps, TouchStartKeeps, TouchStepsKeep,
     TouchedKeeps, InputsRestKeeps
  DEF Inputs!Next

\* EventsAsAsked of InputDevices, for strings of any length: the events of
\* AT+CKPD are the strokes that the characters stand for, in their order, when
\* it answers OK, and their beginning when writing an event fails; those of
\* AT+CTSA touch as asked, with the position in its frame.
THEOREM EventsStayAsAsked == Inputs!Spec => []EventsAsAsked
<1>1. InputsInv /\ [Inputs!Next]_(Inputs!vars) => InputsInv'
  BY InputsKeep
<1>2. InputsInv => EventsAsAsked
  BY EventsAgree DEF EventsAsAsked
<1>. QED
  BY <1>1, <1>2, InputsStart, PTL DEF Inputs!Spec
-----------------------------------------------------------------------------
(***************************************************************************)
(* CharacterSets and Phonebooks, for any texts and any number of contacts. *)
(* Decode and FlattenSeq are recursive functions: that they are what their *)
(* definitions say at each place is shown by a set of places that has the  *)
(* first one and, with a place, the next one. No two characters begin at   *)
(* one place, so what is read of the bytes of a text is the text; the      *)
(* conversions of src/charset.c follow, and names that are shown.          *)
(***************************************************************************)

\* What is so at 0, and at a place if it is at the one before, is so everywhere.
LEMMA AllPlaces ==
  ASSUME NEW n \in Nat, NEW S, 0 \in S, \A k \in 0..(n - 1) : k \in S => k + 1 \in S
  PROVE  \A k \in 0..n : k \in S
<1>. DEFINE Missing == {k \in 0..n : k \notin S}
<1>. SUFFICES ASSUME Missing # {} PROVE FALSE
  OBVIOUS
<1>1. Missing \in SUBSET Nat
  OBVIOUS
<1>2. PICK k \in Missing : \A j \in Missing : k <= j
  BY <1>1, LeastIs
<1>3. k # 0 /\ k \in 0..n
  BY <1>2
<1>4. k - 1 \in 0..(n - 1) /\ k - 1 \notin Missing /\ (k - 1) + 1 = k
  BY <1>2, <1>3
<1>. QED
  BY <1>2, <1>4

\* Sequences of bytes, one after the other.
Bytes == {b \in Nat : b < 256}
LEMMA BytesJoined ==
  \A s, t \in Seq(Bytes) : /\ s \o t \in Seq(Bytes) /\ Len(s \o t) = Len(s) + Len(t)
                           /\ \A i \in 1..Len(s) : (s \o t)[i] = s[i]
                           /\ \A i \in 1..Len(t) : (s \o t)[Len(s) + i] = t[i]
<1>. TAKE s, t \in Seq(Bytes)
<1>1. s \o t \in Seq(Bytes) /\ Len(s \o t) = Len(s) + Len(t) /\ \A i \in 1..Len(s) : (s \o t)[i] = s[i]
  BY Joined
<1>2. \A i \in 1..Len(t) : (s \o t)[Len(s) + i] = t[i]
  BY Joined
<1>. QED
  BY <1>1, <1>2, Zenon

Wide == {u \in Nat : u < 65536}
Letters == Phone!Characters \ {0}     \* the characters of a text

LEMMA CharactersAre == \A c \in Phone!Characters : c \in Nat /\ c < 1114112 /\ (c < 55296 \/ c >= 57344)
  BY DevicesAssumption, SMTT(10)
  DEF Phone!Characters, Phone!CharactersAssumption, Phone!PhonebooksAssumption

Utf8Length(c) == IF c < 128 THEN 1 ELSE IF c < 2048 THEN 2 ELSE IF c < 65536 THEN 3 ELSE 4

\* UTF-8 takes one to four bytes for a character, and no nul but for the nul.
LEMMA Utf8Is ==
  ASSUME NEW c \in Phone!Characters
  PROVE  /\ Phone!utf8(c) \in Seq(Bytes)
         /\ Len(Phone!utf8(c)) = Utf8Length(c)
         /\ c < 128 => Phone!utf8(c)[1] = c
         /\ c # 0 => \A k \in 1..Len(Phone!utf8(c)) : Phone!utf8(c)[k] # 0
<1>1. c \in Nat /\ c < 1114112
  BY CharactersAre, SMTT(10)
<1>2. CASE c < 128
  BY <1>1, <1>2, SMTT(10) DEF Phone!utf8, Bytes, Utf8Length
<1>3. CASE c >= 128 /\ c < 2048
  <2>. DEFINE a == 192 + (c \div 64)
              b == Phone!Tail6(c)
  <2>1. a \in Bytes \ {0} /\ b \in Bytes \ {0}
    BY <1>1, <1>3, SMTT(10) DEF Phone!Tail6, Bytes
  <2>2. Phone!utf8(c) = <<a, b>>
    BY <1>1, <1>3, SMTT(10) DEF Phone!utf8
  <2>. HIDE DEF a, b
  <2>3. <<a, b>> \in Seq(Bytes) /\ Len(<<a, b>>) = 2 /\ \A k \in 1..2 : <<a, b>>[k] # 0
    BY <2>1
  <2>. QED
    BY <1>1, <1>3, <2>2, <2>3, SMTT(10) DEF Utf8Length
<1>4. CASE c >= 2048 /\ c < 65536
  <2>. DEFINE a == 224 + (c \div 4096)
              b == Phone!Tail6(c \div 64)
              d == Phone!Tail6(c)
  <2>1. a \in Bytes \ {0} /\ b \in Bytes \ {0} /\ d \in Bytes \ {0}
    BY <1>1, <1>4, SMTT(10) DEF Phone!Tail6, Bytes
  <2>2. Phone!utf8(c) = <<a, b, d>>
    BY <1>1, <1>4, SMTT(10) DEF Phone!utf8
  <2>. HIDE DEF a, b, d
  <2>3. <<a, b, d>> \in Seq(Bytes) /\ Len(<<a, b, d>>) = 3 /\ \A k \in 1..3 : <<a, b, d>>[k] # 0
    BY <2>1
  <2>. QED
    BY <1>1, <1>4, <2>2, <2>3, SMTT(10) DEF Utf8Length
<1>5. CASE c >= 65536
  <2>. DEFINE a == 240 + (c \div 262144)
              b == Phone!Tail6(c \div 4096)
              d == Phone!Tail6(c \div 64)
              e == Phone!Tail6(c)
  <2>1. a \in Bytes \ {0} /\ b \in Bytes \ {0} /\ d \in Bytes \ {0} /\ e \in Bytes \ {0}
    BY <1>1, <1>5, SMTT(10) DEF Phone!Tail6, Bytes
  <2>2. Phone!utf8(c) = <<a, b, d, e>>
    BY <1>1, <1>5, SMTT(10) DEF Phone!utf8
  <2>. HIDE DEF a, b, d, e
  <2>3. /\ <<a, b, d, e>> \in Seq(Bytes) /\ Len(<<a, b, d, e>>) = 4
        /\ \A k \in 1..4 : <<a, b, d, e>>[k] # 0
    BY <2>1
  <2>. QED
    BY <1>1, <1>5, <2>2, <2>3, SMTT(10) DEF Utf8Length
<1>. QED
  BY <1>1, <1>2, <1>3, <1>4, <1>5, SMTT(10)

\* UCS2 takes two bytes, or two halves of two bytes each.
LEMMA Utf16Is ==
  ASSUME NEW c \in Phone!Characters
  PROVE  /\ Phone!utf16(c) \in Seq(Bytes)
         /\ Len(Phone!utf16(c)) = (IF c < 65536 THEN 2 ELSE 4)
<1>1. c \in Nat /\ c < 1114112
  BY CharactersAre, SMTT(10)
<1>2. \A u \in Wide : Phone!Unit(u) \in Seq(Bytes) /\ Len(Phone!Unit(u)) = 2
  BY SMTT(10) DEF Phone!Unit, Bytes, Wide
<1>3. CASE c < 65536
  BY <1>1, <1>2, <1>3, SMTT(10) DEF Phone!utf16, Wide
<1>4. CASE c >= 65536
  <2>1. 55296 + ((c - 65536) \div 1024) \in Wide /\ 56320 + ((c - 65536) % 1024) \in Wide
    BY <1>1, <1>4, SMTT(10) DEF Wide
  <2>. DEFINE a == 55296 + ((c - 65536) \div 1024)
              b == 56320 + ((c - 65536) % 1024)
  <2>2. Phone!utf16(c) = Phone!Unit(a) \o Phone!Unit(b)
    BY <1>1, <1>4, SMTT(10) DEF Phone!utf16
  <2>. HIDE DEF a, b
  <2>3. /\ Phone!Unit(a) \in Seq(Bytes) /\ Len(Phone!Unit(a)) = 2
        /\ Phone!Unit(b) \in Seq(Bytes) /\ Len(Phone!Unit(b)) = 2
    BY <1>2, <2>1, SMTT(10) DEF a, b
  <2>4. /\ Phone!Unit(a) \o Phone!Unit(b) \in Seq(Bytes)
        /\ Len(Phone!Unit(a) \o Phone!Unit(b)) = Len(Phone!Unit(a)) + Len(Phone!Unit(b))
    BY <2>3, BytesJoined, Zenon
  <2>5. Len(Phone!Unit(a) \o Phone!Unit(b)) = 4
    BY <2>3, <2>4
  <2>. QED
    BY <1>1, <1>4, <2>2, <2>4, <2>5, SMTT(10)
<1>. QED
  BY <1>1, <1>3, <1>4, SMTT(10)

\* A character takes at least one byte in any character set.
LEMMA EncodeIs ==
  ASSUME NEW cs \in Phone!Charsets, NEW c \in Phone!Characters
  PROVE  Phone!Encode(cs, c) \in Seq(Bytes) /\ Len(Phone!Encode(cs, c)) \in 1..4
<1>1. c \in Nat /\ c < 1114112
  BY CharactersAre, SMTT(10)
<1>2. CASE cs = "UTF-8"
  BY <1>1, <1>2, Utf8Is, SMTT(10) DEF Phone!Encode, Utf8Length
<1>3. CASE cs = "8859-1"
  <2>1. (Phone!Encode(cs, c) = <<c>> /\ c < 256) \/ Phone!Encode(cs, c) = <<63>>
    BY <1>3 DEF Phone!Encode
  <2>2. c < 256 => <<c>> \in Seq(Bytes)
    BY <1>1 DEF Bytes
  <2>3. <<63>> \in Seq(Bytes)
    BY DEF Bytes
  <2>4. Len(<<c>>) = 1 /\ Len(<<63>>) = 1 /\ 1 \in 1..4
    OBVIOUS
  <2>. QED
    BY <2>1, <2>2, <2>3, <2>4
<1>4. CASE cs = "UCS2"
  BY <1>1, <1>4, Utf16Is, SMTT(10) DEF Phone!Encode
<1>. QED
  BY <1>2, <1>3, <1>4, SMTT(10) DEF Phone!Charsets

\* s is in bytes, from the byte i on.
Occurs(s, bytes, i) == i + Len(s) <= Len(bytes) + 1 /\ \A k \in 1..Len(s) : bytes[i + k - 1] = s[k]

\* That a string is at a place means that its bytes are there.
LEMMA PrefixIs ==
  ASSUME NEW bytes \in Seq(Bytes), NEW i \in 1..(Len(bytes) + 1), NEW s \in Seq(Bytes)
  PROVE  Phone!IsPrefix(s, SubSeq(bytes, i, Len(bytes))) <=> Occurs(s, bytes, i)
<1>. DEFINE rest == SubSeq(bytes, i, Len(bytes))
<1>1. Len(bytes) \in Nat /\ Len(s) \in Nat /\ i \in Nat
  OBVIOUS
<1>2. rest \in Seq(Bytes) /\ Len(rest) = Len(bytes) + 1 - i
  BY <1>1
<1>3. \A k \in 1..(Len(bytes) + 1 - i) : rest[k] = bytes[i + k - 1]
  BY <1>1
<1>. HIDE DEF rest
<1>4. SubSeq(s, 1, Len(s)) = s
  OBVIOUS
<1>5. CASE Len(s) <= Len(rest)
  <2>. DEFINE part == SubSeq(rest, 1, Len(s))
  <2>1. part \in Seq(Bytes) /\ Len(part) = Len(s) /\ \A k \in 1..Len(s) : part[k] = rest[k]
    BY <1>1, <1>2, <1>5
  <2>. HIDE DEF part
  <2>2. \A k \in 1..Len(s) : part[k] = bytes[i + k - 1]
    BY <1>1, <1>2, <1>3, <1>5, <2>1
  <2>3. s = part <=> \A k \in 1..Len(s) : bytes[i + k - 1] = s[k]
    <3>1. s = part => \A k \in 1..Len(s) : bytes[i + k - 1] = s[k]
      BY <2>2
    <3>2. (\A k \in 1..Len(s) : bytes[i + k - 1] = s[k]) => s = part
      BY <2>1, <2>2
    <3>. QED
      BY <3>1, <3>2
  <2>4. Phone!IsPrefix(s, rest) <=> s = part
    BY <1>4, <1>5 DEF part, Phone!IsPrefix
  <2>5. i + Len(s) <= Len(bytes) + 1
    BY <1>1, <1>2, <1>5
  <2>. QED
    BY <2>3, <2>4, <2>5 DEF Occurs, rest
<1>6. CASE ~(Len(s) <= Len(rest))
  <2>1. ~(i + Len(s) <= Len(bytes) + 1)
    BY <1>1, <1>2, <1>6
  <2>. QED
    BY <1>6, <2>1 DEF Occurs, Phone!IsPrefix, rest
<1>. QED
  BY <1>5, <1>6

\* The first byte of a character tells how many there are, and they tell the character.
LEMMA Utf8First ==
  ASSUME NEW c \in Phone!Characters
  PROVE  LET b == Phone!utf8(c)[1]
         IN  IF c < 128 THEN b < 128
             ELSE IF c < 2048 THEN 192 <= b /\ b < 224
             ELSE IF c < 65536 THEN 224 <= b /\ b < 240
             ELSE 240 <= b
<1>1. c \in Nat /\ c < 1114112
  BY CharactersAre, SMTT(10)
<1>. QED
  BY <1>1, SMTT(10) DEF Phone!utf8

\* The bytes of a character in UTF-8 tell it.
LEMMA Utf8Unique ==
  ASSUME NEW c \in Phone!Characters, NEW d \in Phone!Characters, Len(Phone!utf8(c)) = Len(Phone!utf8(d)),
         \A k \in 1..Len(Phone!utf8(c)) : Phone!utf8(c)[k] = Phone!utf8(d)[k]
  PROVE  c = d
<1>1. c \in Nat /\ c < 1114112 /\ d \in Nat /\ d < 1114112
  BY CharactersAre, SMTT(10)
<1>8. Len(Phone!utf8(c)) = Utf8Length(c)
  BY Utf8Is, SMTT(10)
<1>9. Len(Phone!utf8(d)) = Utf8Length(d)
  BY Utf8Is, SMTT(10)
<1>10. Utf8Length(c) = Utf8Length(d)
  BY <1>8, <1>9, Zenon
<1>2. CASE c < 128
  <2>1. d < 128
    BY <1>1, <1>2, <1>8, <1>10, SMTT(10) DEF Utf8Length
  <2>. QED
    BY <1>1, <1>2, <2>1, SMTT(10) DEF Phone!utf8
<1>3. CASE 128 <= c /\ c < 2048
  <2>1. 128 <= d /\ d < 2048 /\ Len(Phone!utf8(c)) = 2
    BY <1>1, <1>3, <1>8, <1>10, SMTT(10) DEF Utf8Length
  <2>2. Phone!utf8(c) = <<192 + (c \div 64), Phone!Tail6(c)>> /\ Phone!utf8(d) = <<192 + (d \div 64), Phone!Tail6(d)>>
    BY <1>1, <1>3, <2>1, SMTT(10) DEF Phone!utf8
  <2>3. 192 + (c \div 64) = 192 + (d \div 64) /\ Phone!Tail6(c) = Phone!Tail6(d)
    BY <2>1, <2>2
  <2>. QED
    BY <1>1, <2>3, SMTT(10) DEF Phone!Tail6
<1>4. CASE 2048 <= c /\ c < 65536
  <2>1. 2048 <= d /\ d < 65536 /\ Len(Phone!utf8(c)) = 3
    BY <1>1, <1>4, <1>8, <1>10, SMTT(10) DEF Utf8Length
  <2>2. /\ Phone!utf8(c) = <<224 + (c \div 4096), Phone!Tail6(c \div 64), Phone!Tail6(c)>>
        /\ Phone!utf8(d) = <<224 + (d \div 4096), Phone!Tail6(d \div 64), Phone!Tail6(d)>>
    BY <1>1, <1>4, <2>1, SMTT(10) DEF Phone!utf8
  <2>3. /\ 224 + (c \div 4096) = 224 + (d \div 4096)
        /\ Phone!Tail6(c \div 64) = Phone!Tail6(d \div 64) /\ Phone!Tail6(c) = Phone!Tail6(d)
    BY <2>1, <2>2
  <2>. QED
    BY <1>1, <2>3, SMTT(10) DEF Phone!Tail6
<1>5. CASE 65536 <= c
  <2>1. 65536 <= d /\ Len(Phone!utf8(c)) = 4
    BY <1>1, <1>5, <1>8, <1>10, SMTT(10) DEF Utf8Length
  <2>2. /\ Phone!utf8(c) = <<240 + (c \div 262144), Phone!Tail6(c \div 4096), Phone!Tail6(c \div 64), Phone!Tail6(c)>>
        /\ Phone!utf8(d) = <<240 + (d \div 262144), Phone!Tail6(d \div 4096), Phone!Tail6(d \div 64), Phone!Tail6(d)>>
    BY <1>1, <1>5, <2>1, SMTT(10) DEF Phone!utf8
  <2>3. /\ 240 + (c \div 262144) = 240 + (d \div 262144) /\ Phone!Tail6(c \div 4096) = Phone!Tail6(d \div 4096)
        /\ Phone!Tail6(c \div 64) = Phone!Tail6(d \div 64) /\ Phone!Tail6(c) = Phone!Tail6(d)
    BY <2>1, <2>2, SMTT(10)
  <2>. QED
    BY <1>1, <2>3, SMTT(10) DEF Phone!Tail6
<1>. QED
  BY <1>1, <1>2, <1>3, <1>4, <1>5, SMTT(10)

\* The two halves of a character that is a pair.
HighHalf(x) == IF x < 65536 THEN x ELSE 55296 + ((x - 65536) \div 1024)
LowHalf(x) == 56320 + ((x - 65536) % 1024)

LEMMA HalvesAre ==
  ASSUME NEW x \in Phone!Characters
  PROVE  /\ HighHalf(x) \in Wide /\ (x < 65536 => HighHalf(x) = x /\ (x < 55296 \/ x >= 57344))
         /\ x >= 65536 => /\ HighHalf(x) >= 55296 /\ HighHalf(x) < 57344 /\ LowHalf(x) \in Wide
                          /\ x = 65536 + 1024 * (HighHalf(x) - 55296) + (LowHalf(x) - 56320)
<1>1. x \in Nat /\ x < 1114112 /\ (x < 55296 \/ x >= 57344)
  BY CharactersAre, SMTT(10)
<1>. QED
  BY <1>1, SMTT(10) DEF HighHalf, LowHalf, Wide

LEMMA UnitIs ==
  ASSUME NEW u \in Wide
  PROVE  /\ Phone!Unit(u) \in Seq(Bytes) /\ Len(Phone!Unit(u)) = 2
         /\ \A v \in Wide : Phone!Unit(u)[1] = Phone!Unit(v)[1] /\ Phone!Unit(u)[2] = Phone!Unit(v)[2] => u = v
<1>1. Phone!Unit(u) \in Seq(Bytes) /\ Len(Phone!Unit(u)) = 2
  BY SMTT(10) DEF Phone!Unit, Bytes, Wide
<1>2. \A v \in Wide : Phone!Unit(u)[1] = Phone!Unit(v)[1] /\ Phone!Unit(u)[2] = Phone!Unit(v)[2] => u = v
  BY SMTT(10) DEF Phone!Unit, Wide
<1>. QED
  BY <1>1, <1>2

\* The bytes of the halves are those of the character.
LEMMA Utf16Parts ==
  ASSUME NEW x \in Phone!Characters
  PROVE  /\ Phone!utf16(x)[1] = Phone!Unit(HighHalf(x))[1] /\ Phone!utf16(x)[2] = Phone!Unit(HighHalf(x))[2]
         /\ x >= 65536 => /\ Len(Phone!utf16(x)) = 4 /\ Phone!utf16(x)[3] = Phone!Unit(LowHalf(x))[1]
                          /\ Phone!utf16(x)[4] = Phone!Unit(LowHalf(x))[2]
<1>1. x \in Nat /\ x < 1114112
  BY CharactersAre, SMTT(10)
<1>2. CASE x < 65536
  BY <1>1, <1>2, SMTT(10) DEF Phone!utf16, HighHalf
<1>3. CASE ~(x < 65536)
  <2>1. HighHalf(x) \in Wide /\ LowHalf(x) \in Wide
    BY <1>1, <1>3, HalvesAre, SMTT(10)
  <2>2. Phone!utf16(x) = Phone!Unit(HighHalf(x)) \o Phone!Unit(LowHalf(x))
    BY <1>3, SMTT(10) DEF Phone!utf16, HighHalf, LowHalf
  <2>. DEFINE a == Phone!Unit(HighHalf(x))
              b == Phone!Unit(LowHalf(x))
  <2>3. a \in Seq(Bytes) /\ Len(a) = 2 /\ b \in Seq(Bytes) /\ Len(b) = 2
    BY <2>1, UnitIs
  <2>. HIDE DEF a, b
  <2>4. Len(a \o b) = Len(a) + Len(b)
    BY <2>3, BytesJoined, Zenon
  <2>9. \A i \in 1..Len(a) : (a \o b)[i] = a[i]
    BY <2>3, BytesJoined, Zenon
  <2>10. \A i \in 1..Len(b) : (a \o b)[Len(a) + i] = b[i]
    BY <2>3, BytesJoined, Zenon
  <2>5. 1 \in 1..Len(a) /\ 2 \in 1..Len(a) /\ 1 \in 1..Len(b) /\ 2 \in 1..Len(b)
    BY <2>3
  <2>6. (a \o b)[1] = a[1] /\ (a \o b)[2] = a[2] /\ (a \o b)[Len(a) + 1] = b[1] /\ (a \o b)[Len(a) + 2] = b[2]
    BY <2>9, <2>10, <2>5, Zenon
  <2>7. Len(a) + 1 = 3 /\ Len(a) + 2 = 4 /\ Len(a) + Len(b) = 4
    BY <2>3
  <2>8. (a \o b)[3] = b[1] /\ (a \o b)[4] = b[2] /\ Len(a \o b) = 4
    BY <2>4, <2>6, <2>7, Zenon
  <2>11. /\ Phone!utf16(x)[1] = a[1] /\ Phone!utf16(x)[2] = a[2]
         /\ Len(Phone!utf16(x)) = 4 /\ Phone!utf16(x)[3] = b[1] /\ Phone!utf16(x)[4] = b[2]
    BY <2>2, <2>6, <2>8 DEF a, b
  <2>. QED
    BY <2>11, SMTT(10) DEF a, b
<1>. QED
  BY <1>2, <1>3

\* Half of a pair is not a character.
LEMMA Utf16Unique ==
  ASSUME NEW c \in Phone!Characters, NEW d \in Phone!Characters,
         \A k \in 1..2 : Phone!utf16(c)[k] = Phone!utf16(d)[k],
         Len(Phone!utf16(c)) = 4 /\ Len(Phone!utf16(d)) = 4 => \A k \in 3..4 : Phone!utf16(c)[k] = Phone!utf16(d)[k]
  PROVE  c = d
<1>1. c \in Nat /\ d \in Nat
  BY CharactersAre, SMTT(10)
<1>2. /\ Phone!Unit(HighHalf(c))[1] = Phone!Unit(HighHalf(d))[1]
      /\ Phone!Unit(HighHalf(c))[2] = Phone!Unit(HighHalf(d))[2]
  <2>1. Phone!utf16(c)[1] = Phone!utf16(d)[1] /\ Phone!utf16(c)[2] = Phone!utf16(d)[2]
    OBVIOUS
  <2>2. Phone!utf16(c)[1] = Phone!Unit(HighHalf(c))[1] /\ Phone!utf16(c)[2] = Phone!Unit(HighHalf(c))[2]
    BY Utf16Parts, SMTT(10)
  <2>3. Phone!utf16(d)[1] = Phone!Unit(HighHalf(d))[1] /\ Phone!utf16(d)[2] = Phone!Unit(HighHalf(d))[2]
    BY Utf16Parts, SMTT(10)
  <2>. QED
    BY <2>1, <2>2, <2>3, Zenon
<1>3. HighHalf(c) \in Wide /\ HighHalf(d) \in Wide
  BY HalvesAre, SMTT(10)
<1>4. HighHalf(c) = HighHalf(d)
  BY <1>2, <1>3, UnitIs, SMTT(10)
<1>5. c < 65536 <=> d < 65536
  <2>1. c < 65536 => HighHalf(c) < 55296 \/ HighHalf(c) >= 57344
    BY HalvesAre, SMTT(10)
  <2>2. d < 65536 => HighHalf(d) < 55296 \/ HighHalf(d) >= 57344
    BY HalvesAre, SMTT(10)
  <2>3. c >= 65536 => HighHalf(c) >= 55296 /\ HighHalf(c) < 57344
    BY HalvesAre, SMTT(10)
  <2>4. d >= 65536 => HighHalf(d) >= 55296 /\ HighHalf(d) < 57344
    BY HalvesAre, SMTT(10)
  <2>5. HighHalf(c) \in Nat /\ HighHalf(d) \in Nat
    BY <1>3 DEF Wide
  <2>. QED
    BY <1>1, <1>4, <2>1, <2>2, <2>3, <2>4, <2>5, SMTT(10)
<1>6. CASE c < 65536
  <2>1. HighHalf(c) = c /\ HighHalf(d) = d
    BY <1>5, <1>6, HalvesAre, SMTT(10)
  <2>. QED
    BY <1>4, <2>1
<1>7. CASE ~(c < 65536)
  <2>1. c >= 65536 /\ d >= 65536
    BY <1>1, <1>5, <1>7, SMTT(10)
  <2>2. /\ Len(Phone!utf16(c)) = 4 /\ Phone!utf16(c)[3] = Phone!Unit(LowHalf(c))[1]
        /\ Phone!utf16(c)[4] = Phone!Unit(LowHalf(c))[2]
    BY <2>1, Utf16Parts, SMTT(10)
  <2>3. /\ Len(Phone!utf16(d)) = 4 /\ Phone!utf16(d)[3] = Phone!Unit(LowHalf(d))[1]
        /\ Phone!utf16(d)[4] = Phone!Unit(LowHalf(d))[2]
    BY <2>1, Utf16Parts, SMTT(10)
  <2>4. Phone!utf16(c)[3] = Phone!utf16(d)[3] /\ Phone!utf16(c)[4] = Phone!utf16(d)[4]
    BY <2>2, <2>3
  <2>5. LowHalf(c) \in Wide /\ LowHalf(d) \in Wide
    BY <2>1, HalvesAre, SMTT(10)
  <2>6. Phone!Unit(LowHalf(c))[1] = Phone!Unit(LowHalf(d))[1] /\ Phone!Unit(LowHalf(c))[2] = Phone!Unit(LowHalf(d))[2]
    BY <2>2, <2>3, <2>4, Zenon
  <2>7. LowHalf(c) = LowHalf(d)
    BY <2>5, <2>6, UnitIs, SMTT(10)
  <2>8. c = 65536 + 1024 * (HighHalf(c) - 55296) + (LowHalf(c) - 56320)
    BY <2>1, HalvesAre, SMTT(10)
  <2>9. d = 65536 + 1024 * (HighHalf(d) - 55296) + (LowHalf(d) - 56320)
    BY <2>1, HalvesAre, SMTT(10)
  <2>. QED
    BY <1>4, <2>7, <2>8, <2>9, SMTT(10)
<1>. QED
  BY <1>6, <1>7

\* What a character is told by, where it begins.
Fitting(cs, bytes, i, x) == Occurs(Phone!Encode(cs, x), bytes, i) /\ (cs = "8859-1" => x < 256)

\* At most one character is to be read at a place.
LEMMA OneFits ==
  ASSUME NEW cs \in Phone!Charsets, NEW bytes \in Seq(Bytes), NEW i \in 1..Len(bytes),
         NEW c \in Phone!Characters, Fitting(cs, bytes, i, c), NEW d \in Phone!Characters, Fitting(cs, bytes, i, d)
  PROVE  c = d
<1>. DEFINE s == Phone!Encode(cs, c)
            t == Phone!Encode(cs, d)
<1>1. s \in Seq(Bytes) /\ t \in Seq(Bytes)
  BY EncodeIs
<1>2. (\A k \in 1..Len(s) : bytes[i + k - 1] = s[k]) /\ (\A k \in 1..Len(t) : bytes[i + k - 1] = t[k])
  BY DEF Fitting, Occurs
<1>3. \A k \in 1..Len(s) : k \in 1..Len(t) => s[k] = t[k]
  BY <1>2
<1>4. c \in Nat /\ d \in Nat
  BY CharactersAre, SMTT(10)
<1>5. CASE cs = "UTF-8"
  <2>1. s = Phone!utf8(c) /\ t = Phone!utf8(d)
    BY <1>5 DEF Phone!Encode
  <2>. HIDE DEF s, t
  <2>2. Len(Phone!utf8(c)) = Utf8Length(c)
    BY Utf8Is, SMTT(10)
  <2>3. Len(Phone!utf8(d)) = Utf8Length(d)
    BY Utf8Is, SMTT(10)
  <2>4. 1 \in 1..Len(Phone!utf8(c)) /\ 1 \in 1..Len(Phone!utf8(d))
    BY <2>2, <2>3, SMTT(10) DEF Utf8Length
  <2>5. Phone!utf8(c)[1] = Phone!utf8(d)[1]
    BY <1>3, <2>1, <2>4, Zenon
  <2>6. Utf8Length(c) = Utf8Length(d)
    <3>. DEFINE a == Phone!utf8(c)[1]
                b == Phone!utf8(d)[1]
    <3>1. a = b /\ a \in Nat
      BY <1>1, <2>1, <2>4, <2>5 DEF Bytes
    <3>2. IF c < 128 THEN a < 128
          ELSE IF c < 2048 THEN 192 <= a /\ a < 224 ELSE IF c < 65536 THEN 224 <= a /\ a < 240 ELSE 240 <= a
      BY Utf8First, SMTT(10)
    <3>3. IF d < 128 THEN b < 128
          ELSE IF d < 2048 THEN 192 <= b /\ b < 224 ELSE IF d < 65536 THEN 224 <= b /\ b < 240 ELSE 240 <= b
      BY Utf8First, SMTT(10)
    <3>. HIDE DEF a, b
    <3>. QED
      BY <1>4, <3>1, <3>2, <3>3, SMTT(10) DEF Utf8Length
  <2>7. \A k \in 1..Len(Phone!utf8(c)) : Phone!utf8(c)[k] = Phone!utf8(d)[k]
    BY <1>3, <2>1, <2>2, <2>3, <2>6
  <2>8. Len(Phone!utf8(c)) = Len(Phone!utf8(d))
    BY <2>2, <2>3, <2>6
  <2>. QED
    BY <2>7, <2>8, Utf8Unique
<1>6. CASE cs = "8859-1"
  <2>1. c < 256 /\ d < 256
    BY <1>6 DEF Fitting
  <2>2. s = <<c>> /\ t = <<d>>
    BY <1>6, <2>1 DEF Phone!Encode
  <2>. HIDE DEF s, t
  <2>. QED
    BY <1>3, <2>2
<1>7. CASE cs = "UCS2"
  <2>1. s = Phone!utf16(c) /\ t = Phone!utf16(d)
    BY <1>7 DEF Phone!Encode
  <2>2. Len(Phone!utf16(c)) \in {2, 4}
    BY <1>4, Utf16Is, SMTT(10)
  <2>3. Len(Phone!utf16(d)) \in {2, 4}
    BY <1>4, Utf16Is, SMTT(10)
  <2>. HIDE DEF s, t
  <2>4. \A k \in 1..2 : Phone!utf16(c)[k] = Phone!utf16(d)[k]
    BY <1>3, <2>1, <2>2, <2>3
  <2>5. Len(Phone!utf16(c)) = 4 /\ Len(Phone!utf16(d)) = 4 => \A k \in 3..4 : Phone!utf16(c)[k] = Phone!utf16(d)[k]
    BY <1>3, <2>1
  <2>. QED
    BY <2>4, <2>5, Utf16Unique
<1>. QED
  BY <1>5, <1>6, <1>7 DEF Phone!Charsets

\* The characters from i on: of the one that begins there, and of where it ends.
Legible(cs, bytes, i, x) ==
  Phone!IsPrefix(Phone!Encode(cs, x), SubSeq(bytes, i, Len(bytes))) /\ (cs = "8859-1" => x < 256)
Chosen(cs, bytes, i) == CHOOSE x \in Phone!Characters : Legible(cs, bytes, i, x)
Stuck(cs, bytes, i) == \A x \in Phone!Characters : ~Legible(cs, bytes, i, x)
EndOf(cs, bytes, i) == i + Len(Phone!Encode(cs, Chosen(cs, bytes, i)))
ReadFrom(f, cs, bytes, i) ==
  IF i > Len(bytes) THEN <<>>
  ELSE IF Stuck(cs, bytes, i) \/ f[EndOf(cs, bytes, i)] = Phone!None THEN Phone!None
  ELSE <<Chosen(cs, bytes, i)>> \o f[EndOf(cs, bytes, i)]
IsReading(f, cs, bytes) == f = [i \in 1..(Len(bytes) + 1) |-> ReadFrom(f, cs, bytes, i)]

\* Decode is one of the functions that give, for each place, what is read from there.
LEMMA DecodeIs == \A cs, bytes : Phone!Decode(cs, bytes) = (CHOOSE f : IsReading(f, cs, bytes))[1]
  BY DEF Phone!Decode, IsReading, ReadFrom, EndOf, Stuck, Chosen, Legible

LEMMA LegibleIs ==
  ASSUME NEW cs \in Phone!Charsets, NEW bytes \in Seq(Bytes), NEW i \in 1..(Len(bytes) + 1),
         NEW x \in Phone!Characters
  PROVE  Legible(cs, bytes, i, x) <=> Fitting(cs, bytes, i, x)
<1>1. Phone!Encode(cs, x) \in Seq(Bytes)
  BY EncodeIs
<1>. QED
  BY <1>1, PrefixIs DEF Legible, Fitting

\* The character that is read is at its place, and there is one byte of it or more.
LEMMA ChosenIs ==
  ASSUME NEW cs \in Phone!Charsets, NEW bytes \in Seq(Bytes), NEW i \in 1..Len(bytes), ~Stuck(cs, bytes, i)
  PROVE  /\ Chosen(cs, bytes, i) \in Phone!Characters /\ Fitting(cs, bytes, i, Chosen(cs, bytes, i))
         /\ EndOf(cs, bytes, i) \in (i + 1)..(Len(bytes) + 1)
<1>1. Chosen(cs, bytes, i) \in Phone!Characters /\ Legible(cs, bytes, i, Chosen(cs, bytes, i))
  BY DEF Stuck, Chosen
<1>2. i \in 1..(Len(bytes) + 1)
  OBVIOUS
<1>3. Fitting(cs, bytes, i, Chosen(cs, bytes, i))
  BY <1>1, <1>2, LegibleIs
<1>4. Len(Phone!Encode(cs, Chosen(cs, bytes, i))) \in 1..4
  BY <1>1, EncodeIs
<1>. DEFINE l == Len(Phone!Encode(cs, Chosen(cs, bytes, i)))
<1>5. l \in Nat /\ l >= 1 /\ i + l <= Len(bytes) + 1
  <2>1. i + l <= Len(bytes) + 1
    BY <1>3 DEF Fitting, Occurs
  <2>2. l \in 1..4
    BY <1>4
  <2>. HIDE DEF l
  <2>. QED
    BY <2>1, <2>2
<1>6. EndOf(cs, bytes, i) = i + l
  BY DEF EndOf
<1>. HIDE DEF l
<1>7. EndOf(cs, bytes, i) \in (i + 1)..(Len(bytes) + 1)
  BY <1>5, <1>6
<1>. QED
  BY <1>1, <1>3, <1>7

\* A part of the solution, for the bytes from i on.
IsReadingFrom(f, i, cs, bytes) == f = [j \in i..(Len(bytes) + 1) |-> ReadFrom(f, cs, bytes, j)]

\* What is read from a place on gives what is read from the place before.
LEMMA ReadingFurther ==
  ASSUME NEW cs \in Phone!Charsets, NEW bytes \in Seq(Bytes), NEW i \in 1..Len(bytes),
         NEW f, IsReadingFrom(f, i + 1, cs, bytes)
  PROVE  \E g : IsReadingFrom(g, i, cs, bytes)
<1>. DEFINE g == [j \in i..(Len(bytes) + 1) |-> IF j = i THEN ReadFrom(f, cs, bytes, i) ELSE f[j]]
            F == [j \in (i + 1)..(Len(bytes) + 1) |-> ReadFrom(f, cs, bytes, j)]
<1>1. \A j \in (i + 1)..(Len(bytes) + 1) : f[j] = ReadFrom(f, cs, bytes, j) /\ g[j] = f[j]
  <2>1. f = F
    BY DEF IsReadingFrom
  <2>. TAKE j \in (i + 1)..(Len(bytes) + 1)
  <2>2. F[j] = ReadFrom(f, cs, bytes, j)
    OBVIOUS
  <2>3. j \in i..(Len(bytes) + 1) /\ j # i
    OBVIOUS
  <2>4. g[j] = f[j]
    BY <2>3
  <2>. HIDE DEF F, g
  <2>. QED
    BY <2>1, <2>2, <2>4, Zenon
<1>2. g[i] = ReadFrom(f, cs, bytes, i)
  OBVIOUS
<1>3. \A j \in i..(Len(bytes) + 1) : ReadFrom(g, cs, bytes, j) = ReadFrom(f, cs, bytes, j)
  <2>. TAKE j \in i..(Len(bytes) + 1)
  <2>. HIDE DEF g
  <2>1. CASE j > Len(bytes)
    BY <2>1 DEF ReadFrom
  <2>2. CASE Stuck(cs, bytes, j)
    BY <2>2 DEF ReadFrom
  <2>3. CASE ~(j > Len(bytes)) /\ ~Stuck(cs, bytes, j)
    <3>1. j \in 1..Len(bytes)
      BY <2>3
    <3>2. EndOf(cs, bytes, j) \in (j + 1)..(Len(bytes) + 1)
      BY <2>3, <3>1, ChosenIs
    <3>3. EndOf(cs, bytes, j) \in (i + 1)..(Len(bytes) + 1)
      BY <3>2
    <3>4. g[EndOf(cs, bytes, j)] = f[EndOf(cs, bytes, j)]
      BY <1>1, <3>3, Zenon
    <3>. QED
      BY <3>4 DEF ReadFrom
  <2>. QED
    BY <2>1, <2>2, <2>3
<1>4. \A j \in i..(Len(bytes) + 1) : g[j] = ReadFrom(g, cs, bytes, j)
  <2>. TAKE j \in i..(Len(bytes) + 1)
  <2>1. j = i \/ j \in (i + 1)..(Len(bytes) + 1)
    OBVIOUS
  <2>. HIDE DEF g
  <2>. QED
    BY <1>1, <1>2, <1>3, <2>1, Zenon
<1>5. g = [j \in i..(Len(bytes) + 1) |-> g[j]]
  OBVIOUS
<1>. HIDE DEF g
<1>6. [j \in i..(Len(bytes) + 1) |-> g[j]] = [j \in i..(Len(bytes) + 1) |-> ReadFrom(g, cs, bytes, j)]
  BY <1>4, Zenon
<1>7. IsReadingFrom(g, i, cs, bytes)
  BY <1>5, <1>6, Zenon DEF IsReadingFrom
<1>. QED
  BY <1>7

\* There is such a function, so that Decode is what its definition says at each place.
LEMMA ReadingIs ==
  ASSUME NEW cs \in Phone!Charsets, NEW bytes \in Seq(Bytes)
  PROVE  \E f : Phone!Decode(cs, bytes) = f[1] /\ \A i \in 1..(Len(bytes) + 1) : f[i] = ReadFrom(f, cs, bytes, i)
<1>. DEFINE n == Len(bytes)
            S == {m \in 0..n : \E f : IsReadingFrom(f, n + 1 - m, cs, bytes)}
<1>1. n \in Nat
  OBVIOUS
<1>2. 0 \in S
  <2>. DEFINE f == [j \in (n + 1)..(n + 1) |-> <<>>]
  <2>1. \A j \in (n + 1)..(n + 1) : ReadFrom(f, cs, bytes, j) = <<>>
    BY <1>1 DEF ReadFrom
  <2>2. f = [j \in (n + 1)..(n + 1) |-> ReadFrom(f, cs, bytes, j)]
    BY <2>1, Zenon
  <2>. HIDE DEF f
  <2>3. n + 1 - 0 = n + 1
    BY <1>1
  <2>4. IsReadingFrom(f, n + 1 - 0, cs, bytes)
    BY <2>2, <2>3, Zenon DEF IsReadingFrom
  <2>. QED
    BY <1>1, <2>4
<1>3. ASSUME NEW m \in 0..(n - 1), m \in S PROVE m + 1 \in S
  <2>1. PICK f : IsReadingFrom(f, n + 1 - m, cs, bytes)
    BY <1>3
  <2>2. n - m \in 1..n /\ n + 1 - m = (n - m) + 1 /\ n + 1 - (m + 1) = n - m /\ m + 1 \in 0..n
    BY <1>1
  <2>. HIDE DEF n
  <2>3. \E g : IsReadingFrom(g, n - m, cs, bytes)
    BY <2>1, <2>2, ReadingFurther DEF n
  <2>. QED
    BY <2>2, <2>3
<1>4. n \in S
  <2>. HIDE DEF S
  <2>1. \A k \in 0..n : k \in S
    BY <1>1, <1>2, <1>3, AllPlaces
  <2>. QED
    BY <1>1, <2>1
<1>5. PICK h : IsReadingFrom(h, n + 1 - n, cs, bytes)
  BY <1>4
<1>6. n + 1 - n = 1
  BY <1>1
<1>7. IsReading(h, cs, bytes)
  BY <1>5, <1>6, Zenon DEF IsReadingFrom, IsReading
<1>. DEFINE f == CHOOSE f : IsReading(f, cs, bytes)
<1>8. IsReading(f, cs, bytes) /\ Phone!Decode(cs, bytes) = f[1]
  BY <1>7, DecodeIs, Zenon
<1>. HIDE DEF f
<1>. DEFINE F == [i \in 1..(Len(bytes) + 1) |-> ReadFrom(f, cs, bytes, i)]
<1>9. f = F
  BY <1>8 DEF IsReading
<1>10. \A i \in 1..(Len(bytes) + 1) : F[i] = ReadFrom(f, cs, bytes, i)
  OBVIOUS
<1>. HIDE DEF F
<1>11. \A i \in 1..(Len(bytes) + 1) : f[i] = ReadFrom(f, cs, bytes, i)
  BY <1>9, <1>10, Zenon
<1>. QED
  BY <1>8, <1>11

\* Whatever is read is made of the characters that the bytes spell somewhere.
LEMMA DecodedIs ==
  ASSUME NEW cs \in Phone!Charsets, NEW bytes \in Seq(Bytes), NEW C \in SUBSET Phone!Characters,
         \A i \in 1..Len(bytes), x \in Phone!Characters : Fitting(cs, bytes, i, x) => x \in C
  PROVE  Phone!Decode(cs, bytes) = Phone!None \/ Phone!Decode(cs, bytes) \in Seq(C)
<1>. DEFINE n == Len(bytes)
<1>1. n \in Nat
  OBVIOUS
<1>2. PICK f : Phone!Decode(cs, bytes) = f[1] /\ \A i \in 1..(n + 1) : f[i] = ReadFrom(f, cs, bytes, i)
  BY ReadingIs
<1>. DEFINE Read(j) == f[j] = Phone!None \/ f[j] \in Seq(C)
            S == {m \in 0..n : \A j \in (n + 1 - m)..(n + 1) : Read(j)}
<1>3. 0 \in S
  <2>1. f[n + 1] = <<>>
    <3>1. n + 1 \in 1..(n + 1) /\ n + 1 > Len(bytes)
      BY <1>1
    <3>2. f[n + 1] = ReadFrom(f, cs, bytes, n + 1)
      BY <1>2, <3>1
    <3>3. ReadFrom(f, cs, bytes, n + 1) = <<>>
      BY <3>1 DEF ReadFrom
    <3>. QED
      BY <3>2, <3>3
  <2>2. <<>> \in Seq(C)
    OBVIOUS
  <2>3. Read(n + 1)
    BY <2>1, <2>2
  <2>. HIDE DEF Read, n
  <2>. QED
    BY <1>1, <2>3
<1>4. ASSUME NEW m \in 0..(n - 1), m \in S PROVE m + 1 \in S
  <2>. DEFINE i == n - m
  <2>1. i \in 1..n /\ i \in 1..(n + 1) /\ n + 1 - m = i + 1 /\ n + 1 - (m + 1) = i /\ m + 1 \in 0..n
    BY <1>1
  <2>2. \A j \in (i + 1)..(n + 1) : Read(j)
    BY <1>4, <2>1
  <2>. HIDE DEF Read, i
  <2>3. Read(i)
    <3>1. f[i] = ReadFrom(f, cs, bytes, i)
      BY <1>2, <2>1
    <3>2. CASE Stuck(cs, bytes, i)
      BY <2>1, <3>1, <3>2 DEF ReadFrom, Read
    <3>3. CASE ~Stuck(cs, bytes, i)
      <4>1. /\ Chosen(cs, bytes, i) \in Phone!Characters /\ Fitting(cs, bytes, i, Chosen(cs, bytes, i))
            /\ EndOf(cs, bytes, i) \in (i + 1)..(n + 1)
        BY <2>1, <3>3, ChosenIs
      <4>2. Chosen(cs, bytes, i) \in C
        BY <2>1, <4>1
      <4>3. Read(EndOf(cs, bytes, i))
        BY <2>2, <4>1
      <4>. DEFINE c == Chosen(cs, bytes, i)
                  rest == f[EndOf(cs, bytes, i)]
      <4>4. f[i] = IF rest = Phone!None THEN Phone!None ELSE <<c>> \o rest
        BY <2>1, <3>1, <3>3 DEF ReadFrom
      <4>5. rest = Phone!None \/ rest \in Seq(C)
        BY <4>3 DEF Read
      <4>6. c \in C
        BY <4>2
      <4>. HIDE DEF c, rest
      <4>7. rest \in Seq(C) => <<c>> \o rest \in Seq(C)
        BY <4>6
      <4>. QED
        BY <4>4, <4>5, <4>7 DEF Read
    <3>. QED
      BY <3>2, <3>3
  <2>4. \A j \in i..(n + 1) : j = i \/ j \in (i + 1)..(n + 1)
    BY <2>1
  <2>. QED
    BY <2>1, <2>2, <2>3, <2>4
<1>5. n \in S
  <2>. HIDE DEF S
  <2>1. \A k \in 0..n : k \in S
    BY <1>1, <1>3, <1>4, AllPlaces
  <2>. QED
    BY <1>1, <2>1
<1>6. Read(1)
  BY <1>1, <1>5
<1>. QED
  BY <1>2, <1>6

\* The bytes of the first k characters of a text.
Spells(F, cs, t) ==
  /\ F \in [0..Len(t) -> Seq(Bytes)] /\ F[0] = <<>>
  /\ \A k \in 1..Len(t) : F[k] = F[k - 1] \o Phone!Encode(cs, t[k])

\* There are these bytes, for each text.
LEMMA SpellingIs ==
  ASSUME NEW cs \in Phone!Charsets, NEW t \in Seq(Phone!Characters)
  PROVE  \E F : Spells(F, cs, t)
<1>. DEFINE n == Len(t)
            after == [i \in 1..n |-> [s \in Seq(Bytes) |-> s \o Phone!Encode(cs, t[i])]]
<1>1. n \in Nat
  OBVIOUS
<1>2. \A i \in 1..n : Phone!Encode(cs, t[i]) \in Seq(Bytes)
  BY EncodeIs
<1>3. \A i \in 1..n : [s \in Seq(Bytes) |-> s \o Phone!Encode(cs, t[i])] \in [Seq(Bytes) -> Seq(Bytes)]
  BY <1>2, BytesJoined
<1>4. after \in [1..n -> [Seq(Bytes) -> Seq(Bytes)]]
  BY <1>3
<1>5. \A i \in 1..n : \A s \in Seq(Bytes) : after[i][s] = s \o Phone!Encode(cs, t[i])
  OBVIOUS
<1>6. <<>> \in Seq(Bytes)
  OBVIOUS
<1>. HIDE DEF after
<1>7. PICK F \in [0..n -> Seq(Bytes)] : Follows(F, n, <<>>, after)
  BY <1>1, <1>4, <1>6, RecursionIs
<1>. HIDE DEF n
<1>8. \A i \in 0..n : F[i] = IF i = 0 THEN <<>> ELSE after[i][F[i - 1]]
  BY <1>7 DEF Follows
<1>9. F[0] = <<>>
  BY <1>1, <1>8
<1>10. \A k \in 1..n : k \in 0..n /\ k - 1 \in 0..n /\ k # 0
  BY <1>1
<1>11. \A k \in 1..n : F[k] = F[k - 1] \o Phone!Encode(cs, t[k])
  BY <1>5, <1>7, <1>8, <1>10
<1>. QED
  BY <1>7, <1>9, <1>11 DEF Spells, n

\* The solutions that FlattenSeq chooses from.
IsFlattened(g, e) == g = [i \in 1..Len(e) |-> IF i = 1 THEN e[i] ELSE g[i - 1] \o e[i]]
LEMMA FlattenIs == \A e : Len(e) # 0 => Phone!FlattenSeq(e) = (CHOOSE g : IsFlattened(g, e))[Len(e)]
  BY DEF Phone!FlattenSeq, IsFlattened

\* The bytes of a text are those of its characters.
LEMMA SpelledIs ==
  ASSUME NEW cs \in Phone!Charsets, NEW t \in Seq(Phone!Characters), NEW F, Spells(F, cs, t)
  PROVE  Phone!EncodeText(cs, t) = F[Len(t)]
<1>. DEFINE n == Len(t)
            e == [i \in DOMAIN t |-> Phone!Encode(cs, t[i])]
<1>1. n \in Nat /\ DOMAIN t = 1..n
  OBVIOUS
<1>2. \A i \in 1..n : Phone!Encode(cs, t[i]) \in Seq(Bytes)
  BY EncodeIs
<1>3. e \in Seq(Seq(Bytes)) /\ Len(e) = n /\ \A i \in 1..n : e[i] = Phone!Encode(cs, t[i])
  <2>1. e \in [1..n -> Seq(Bytes)]
    BY <1>1, <1>2
  <2>. QED
    BY <1>1, <2>1
<1>4. Phone!EncodeText(cs, t) = Phone!FlattenSeq(e)
  BY DEF Phone!EncodeText
<1>5. F \in [0..n -> Seq(Bytes)] /\ F[0] = <<>> /\ \A k \in 1..n : F[k] = F[k - 1] \o e[k]
  BY <1>3 DEF Spells
<1>. HIDE DEF e
<1>6. CASE n = 0
  <2>1. e = <<>>
    BY <1>3, <1>6
  <2>2. Phone!FlattenSeq(e) = <<>>
    BY <2>1, <1>3, <1>6 DEF Phone!FlattenSeq
  <2>. QED
    BY <1>4, <1>5, <1>6, <2>2
<1>7. CASE n # 0
  <2>. HIDE DEF n
  <2>. DEFINE G == [i \in 1..n |-> F[i]]
  <2>1. \A i \in 1..n : G[i] = IF i = 1 THEN e[i] ELSE G[i - 1] \o e[i]
    <3>. TAKE i \in 1..n
    <3>1. G[i] = F[i] /\ F[i] = F[i - 1] \o e[i] /\ e[i] \in Seq(Bytes)
      BY <1>3, <1>5
    <3>2. CASE i = 1
      <4>1. <<>> \o e[i] = e[i]
        BY <3>1
      <4>2. F[i - 1] = <<>>
        BY <1>5, <3>2
      <4>. HIDE DEF G
      <4>. QED
        BY <3>1, <3>2, <4>1, <4>2
    <3>3. CASE i # 1
      <4>1. i - 1 \in 1..n
        BY <1>1, <3>3
      <4>2. G[i - 1] = F[i - 1]
        BY <4>1
      <4>. HIDE DEF G
      <4>. QED
        BY <3>1, <3>3, <4>2
    <3>. QED
      BY <3>2, <3>3
  <2>2. IsFlattened(G, e)
    <3>1. G = [i \in 1..n |-> G[i]]
      OBVIOUS
    <3>. HIDE DEF G
    <3>2. [i \in 1..n |-> G[i]] = [i \in 1..n |-> IF i = 1 THEN e[i] ELSE G[i - 1] \o e[i]]
      BY <2>1, Zenon
    <3>. QED
      BY <1>3, <3>1, <3>2, Zenon DEF IsFlattened
  <2>. DEFINE g == CHOOSE g : IsFlattened(g, e)
  <2>3. IsFlattened(g, e) /\ Phone!FlattenSeq(e) = g[n]
    BY <1>3, <1>7, <2>2, FlattenIs, Zenon
  <2>. HIDE DEF g, G
  <2>4. \A i \in 1..n : g[i] = IF i = 1 THEN e[i] ELSE g[i - 1] \o e[i]
    <3>. DEFINE H == [i \in 1..n |-> IF i = 1 THEN e[i] ELSE g[i - 1] \o e[i]]
    <3>1. g = H
      BY <1>3, <2>3 DEF IsFlattened
    <3>2. \A i \in 1..n : H[i] = IF i = 1 THEN e[i] ELSE g[i - 1] \o e[i]
      OBVIOUS
    <3>. HIDE DEF H
    <3>. QED
      BY <3>1, <3>2, Zenon
  <2>. DEFINE S == {m \in 0..n : m # 0 => g[m] = F[m]}
  <2>5. 0 \in S
    BY <1>1
  <2>6. ASSUME NEW k \in 0..(n - 1), k \in S PROVE k + 1 \in S
    <3>1. k + 1 \in 1..n /\ (k + 1) - 1 = k /\ k + 1 \in 0..n
      BY <1>1
    <3>2. F[k + 1] = F[k] \o e[k + 1]
      BY <1>5, <3>1
    <3>3. CASE k = 0
      <4>1. e[1] \in Seq(Bytes) /\ <<>> \o e[1] = e[1]
        BY <1>3, <3>1, <3>3
      <4>2. g[1] = e[1] /\ F[1] = <<>> \o e[1]
        BY <2>4, <3>1, <3>2, <3>3, <1>5
      <4>. QED
        BY <3>1, <3>3, <4>1, <4>2
    <3>4. CASE k # 0
      <4>1. g[k] = F[k]
        BY <2>6, <3>4
      <4>2. k + 1 # 1
        BY <3>4
      <4>3. g[k + 1] = g[k] \o e[k + 1]
        BY <2>4, <3>1, <4>2
      <4>. QED
        BY <3>1, <3>2, <4>1, <4>3
    <3>. QED
      BY <3>3, <3>4
  <2>7. n \in S
    <3>. HIDE DEF S
    <3>1. \A k \in 0..n : k \in S
      BY <1>1, <2>5, <2>6, AllPlaces
    <3>. QED
      BY <1>1, <3>1
  <2>8. g[n] = F[n]
    BY <1>7, <2>7
  <2>. QED
    BY <1>4, <2>3, <2>8 DEF n
<1>. QED
  BY <1>6, <1>7

LEMMA EncodedIs ==
  ASSUME NEW cs \in Phone!Charsets, NEW t \in Seq(Phone!Characters)
  PROVE  Phone!EncodeText(cs, t) \in Seq(Bytes)
<1>1. PICK F : Spells(F, cs, t)
  BY SpellingIs
<1>2. Phone!EncodeText(cs, t) = F[Len(t)]
  BY <1>1, SpelledIs
<1>3. F \in [0..Len(t) -> Seq(Bytes)] /\ Len(t) \in 0..Len(t)
  BY <1>1 DEF Spells
<1>. QED
  BY <1>2, <1>3

\* Texts are spelled one character after the other.
LEMMA OneMore ==
  ASSUME NEW cs \in Phone!Charsets, NEW t \in Seq(Phone!Characters), NEW c \in Phone!Characters
  PROVE  Phone!EncodeText(cs, Append(t, c)) = Phone!EncodeText(cs, t) \o Phone!Encode(cs, c)
<1>. DEFINE n == Len(t)
            u == Append(t, c)
<1>1. u \in Seq(Phone!Characters) /\ Len(u) = n + 1 /\ n \in Nat /\ u[n + 1] = c /\ \A k \in 1..n : u[k] = t[k]
  OBVIOUS
<1>. HIDE DEF u
<1>2. PICK F : Spells(F, cs, u)
  BY <1>1, SpellingIs
<1>3. /\ F \in [0..(n + 1) -> Seq(Bytes)] /\ F[0] = <<>>
      /\ \A k \in 1..(n + 1) : F[k] = F[k - 1] \o Phone!Encode(cs, u[k])
  BY <1>1, <1>2 DEF Spells
<1>. DEFINE G == [k \in 0..n |-> F[k]]
<1>4. G \in [0..n -> Seq(Bytes)] /\ G[0] = <<>> /\ \A k \in 0..n : G[k] = F[k]
  BY <1>1, <1>3
<1>. HIDE DEF G
<1>5. \A k \in 1..n : G[k] = G[k - 1] \o Phone!Encode(cs, t[k])
  <2>. TAKE k \in 1..n
  <2>1. k \in 1..(n + 1) /\ k \in 0..n /\ k - 1 \in 0..n
    BY <1>1
  <2>2. F[k] = F[k - 1] \o Phone!Encode(cs, u[k]) /\ u[k] = t[k]
    BY <1>1, <1>3, <2>1
  <2>. QED
    BY <1>4, <2>1, <2>2
<1>6. Spells(G, cs, t)
  BY <1>4, <1>5 DEF Spells
<1>7. Phone!EncodeText(cs, t) = G[n]
  BY <1>6, SpelledIs
<1>8. Phone!EncodeText(cs, u) = F[n + 1]
  BY <1>1, <1>2, SpelledIs
<1>9. n + 1 \in 1..(n + 1) /\ (n + 1) - 1 = n /\ n \in 0..n
  BY <1>1
<1>10. F[n + 1] = F[n] \o Phone!Encode(cs, c)
  BY <1>1, <1>3, <1>9
<1>. QED
  BY <1>4, <1>7, <1>8, <1>9, <1>10 DEF u

\* The bytes of a character, in one character set and in another.
LEMMA WidthsAre ==
  ASSUME NEW cs \in Phone!Charsets, NEW c \in Phone!Characters
  PROVE  /\ Len(Phone!Encode(cs, c)) <= 2 * Len(Phone!Encode("UTF-8", c))
         /\ (cs = "8859-1" => c < 256) => Len(Phone!Encode("UTF-8", c)) <= 3 * Len(Phone!Encode(cs, c))
<1>1. c \in Nat
  BY CharactersAre, SMTT(10)
<1>2. Len(Phone!utf8(c)) = Utf8Length(c)
  BY Utf8Is, SMTT(10)
<1>3. Len(Phone!utf16(c)) = IF c < 65536 THEN 2 ELSE 4
  BY Utf16Is, SMTT(10)
<1>4. Phone!Encode("UTF-8", c) = Phone!utf8(c)
  BY DEF Phone!Encode
<1>5. /\ Len(Phone!utf8(c)) \in Nat /\ Len(Phone!utf8(c)) >= 1 /\ (c < 256 => Len(Phone!utf8(c)) <= 3)
      /\ Len(Phone!utf16(c)) <= 2 * Len(Phone!utf8(c)) /\ Len(Phone!utf8(c)) <= 3 * Len(Phone!utf16(c))
  BY <1>1, <1>2, <1>3, SMTT(10) DEF Utf8Length
<1>6. CASE cs = "UTF-8"
  BY <1>4, <1>5, <1>6
<1>7. CASE cs = "8859-1"
  <2>1. Len(Phone!Encode(cs, c)) = 1
    BY <1>7 DEF Phone!Encode
  <2>2. 1 <= 2 * Len(Phone!utf8(c)) /\ (c < 256 => Len(Phone!utf8(c)) <= 3 * 1)
    BY <1>1, <1>5
  <2>. QED
    BY <1>4, <1>7, <2>1, <2>2, Zenon
<1>8. CASE cs = "UCS2"
  <2>1. Phone!Encode(cs, c) = Phone!utf16(c)
    BY <1>8 DEF Phone!Encode
  <2>. QED
    BY <1>4, <1>5, <1>8, <2>1
<1>. QED
  BY <1>6, <1>7, <1>8 DEF Phone!Charsets

\* A text takes so many times the bytes that it takes in another character set, or less.
LEMMA RoomIs ==
  ASSUME NEW cs \in Phone!Charsets, NEW other \in Phone!Charsets, NEW t \in Seq(Phone!Characters),
         NEW times \in {2, 3},
         \A k \in 1..Len(t) : Len(Phone!Encode(cs, t[k])) <= times * Len(Phone!Encode(other, t[k]))
  PROVE  Len(Phone!EncodeText(cs, t)) <= times * Len(Phone!EncodeText(other, t))
<1>. DEFINE n == Len(t)
<1>1. PICK F : Spells(F, cs, t)
  BY SpellingIs
<1>2. PICK G : Spells(G, other, t)
  BY SpellingIs
<1>3. Phone!EncodeText(cs, t) = F[n] /\ Phone!EncodeText(other, t) = G[n]
  BY <1>1, <1>2, SpelledIs
<1>4. /\ n \in Nat /\ F \in [0..n -> Seq(Bytes)] /\ G \in [0..n -> Seq(Bytes)]
      /\ F[0] = <<>> /\ G[0] = <<>>
  BY <1>1, <1>2 DEF Spells
<1>5. \A k \in 1..n : F[k] = F[k - 1] \o Phone!Encode(cs, t[k]) /\ G[k] = G[k - 1] \o Phone!Encode(other, t[k])
  BY <1>1, <1>2 DEF Spells
<1>6. \A k \in 1..n : /\ Phone!Encode(cs, t[k]) \in Seq(Bytes) /\ Phone!Encode(other, t[k]) \in Seq(Bytes)
                      /\ Len(Phone!Encode(cs, t[k])) <= times * Len(Phone!Encode(other, t[k]))
  BY EncodeIs
<1>. HIDE DEF n
<1>. DEFINE S == {m \in 0..n : Len(F[m]) <= times * Len(G[m])}
<1>7. 0 \in S
  BY <1>4
<1>8. ASSUME NEW k \in 0..(n - 1), k \in S PROVE k + 1 \in S
  <2>1. k + 1 \in 1..n /\ (k + 1) - 1 = k /\ k \in 0..n /\ k + 1 \in 0..n
    BY <1>4
  <2>. DEFINE a == Phone!Encode(cs, t[k + 1])
              b == Phone!Encode(other, t[k + 1])
  <2>2. F[k + 1] = F[k] \o a /\ G[k + 1] = G[k] \o b
    BY <1>5, <2>1
  <2>3. a \in Seq(Bytes) /\ b \in Seq(Bytes) /\ Len(a) <= times * Len(b)
    BY <1>6, <2>1
  <2>4. F[k] \in Seq(Bytes) /\ G[k] \in Seq(Bytes) /\ Len(F[k]) <= times * Len(G[k])
    BY <1>4, <1>8, <2>1
  <2>. HIDE DEF a, b
  <2>5. Len(F[k] \o a) = Len(F[k]) + Len(a) /\ Len(G[k] \o b) = Len(G[k]) + Len(b)
    BY <2>3, <2>4, BytesJoined, Zenon
  <2>6. Len(a) \in Nat /\ Len(b) \in Nat /\ Len(F[k]) \in Nat /\ Len(G[k]) \in Nat
    BY <2>3, <2>4
  <2>7. Len(F[k + 1]) <= times * Len(G[k + 1])
    <3>1. CASE times = 2
      BY <2>2, <2>3, <2>4, <2>5, <2>6, <3>1
    <3>2. CASE times = 3
      BY <2>2, <2>3, <2>4, <2>5, <2>6, <3>2
    <3>. QED
      BY <3>1, <3>2
  <2>. QED
    BY <2>1, <2>7
<1>. HIDE DEF S
<1>9. \A k \in 0..n : k \in S
  BY <1>4, <1>7, <1>8, AllPlaces
<1>10. n \in S
  BY <1>4, <1>9
<1>. QED
  BY <1>3, <1>10 DEF S

\* But for UCS2, the bytes of a text have no nul.
NonZero == Bytes \ {0}
LEMMA EncodedNonZero ==
  ASSUME NEW cs \in {"UTF-8", "8859-1"}, NEW t \in Seq(Letters)
  PROVE  Phone!EncodeText(cs, t) \in Seq(NonZero)
<1>. DEFINE n == Len(t)
<1>1. cs \in Phone!Charsets /\ t \in Seq(Phone!Characters) /\ n \in Nat
  BY DEF Phone!Charsets, Letters
<1>2. PICK F : Spells(F, cs, t)
  BY <1>1, SpellingIs
<1>3. Phone!EncodeText(cs, t) = F[n]
  BY <1>1, <1>2, SpelledIs
<1>4. F[0] = <<>> /\ \A k \in 1..n : F[k] = F[k - 1] \o Phone!Encode(cs, t[k])
  BY <1>2 DEF Spells
<1>5. \A k \in 1..n : Phone!Encode(cs, t[k]) \in Seq(NonZero)
  <2>. TAKE k \in 1..n
  <2>. DEFINE c == t[k]
  <2>1. c \in Letters
    OBVIOUS
  <2>. HIDE DEF c
  <2>2. c \in Phone!Characters /\ c # 0
    BY <2>1 DEF Letters
  <2>3. c \in Nat
    BY <2>2, CharactersAre, SMTT(10)
  <2>4. CASE cs = "UTF-8"
    <3>1. Phone!utf8(c) \in Seq(Bytes) /\ \A j \in 1..Len(Phone!utf8(c)) : Phone!utf8(c)[j] # 0
      BY <2>2, Utf8Is, SMTT(10)
    <3>. DEFINE s == Phone!utf8(c)
    <3>. HIDE DEF s
    <3>2. s \in Seq(Bytes) /\ (\A j \in 1..Len(s) : s[j] # 0) => s \in Seq(NonZero)
      BY DEF NonZero
    <3>3. Phone!Encode(cs, c) = s
      BY <2>4 DEF Phone!Encode, s
    <3>. QED
      BY <3>1, <3>2, <3>3 DEF s, c
  <2>5. CASE cs = "8859-1"
    <3>1. (Phone!Encode(cs, c) = <<c>> /\ c < 256) \/ Phone!Encode(cs, c) = <<63>>
      BY <2>5 DEF Phone!Encode
    <3>2. c < 256 => c \in NonZero
      BY <2>2, <2>3 DEF NonZero, Bytes
    <3>3. 63 \in NonZero
      BY DEF NonZero, Bytes
    <3>4. <<63>> \in Seq(NonZero) /\ (c < 256 => <<c>> \in Seq(NonZero))
      BY <3>2, <3>3
    <3>. QED
      BY <3>1, <3>4 DEF c
  <2>. QED
    BY <2>4, <2>5
<1>. HIDE DEF n
<1>. DEFINE S == {m \in 0..n : F[m] \in Seq(NonZero)}
<1>6. 0 \in S
  <2>1. <<>> \in Seq(NonZero)
    OBVIOUS
  <2>2. F[0] \in Seq(NonZero)
    BY <1>4, <2>1
  <2>3. 0 \in 0..n
    BY <1>1
  <2>. QED
    BY <2>2, <2>3
<1>7. ASSUME NEW k \in 0..(n - 1), k \in S PROVE k + 1 \in S
  <2>1. k + 1 \in 1..n /\ (k + 1) - 1 = k /\ k + 1 \in 0..n
    BY <1>1
  <2>2. F[k + 1] = F[k] \o Phone!Encode(cs, t[k + 1]) /\ Phone!Encode(cs, t[k + 1]) \in Seq(NonZero)
    BY <1>4, <1>5, <2>1
  <2>3. F[k] \in Seq(NonZero)
    BY <1>7
  <2>4. F[k + 1] \in Seq(NonZero)
    BY <2>2, <2>3
  <2>. QED
    BY <2>1, <2>4
<1>. HIDE DEF S
<1>8. \A k \in 0..n : k \in S
  BY <1>1, <1>6, <1>7, AllPlaces
<1>9. n \in S
  BY <1>1, <1>8
<1>. QED
  BY <1>3, <1>9 DEF S

\* What begins with a string begins with the first part of it, and has the rest behind it.
LEMMA BeginsWithParts ==
  ASSUME NEW s \in Seq(Bytes), NEW e \in Seq(Bytes), NEW b \in Seq(Bytes), Occurs(s \o e, b, 1)
  PROVE  Occurs(s, b, 1) /\ Occurs(e, b, 1 + Len(s)) /\ Len(s) + Len(e) <= Len(b)
<1>1. Len(s) \in Nat /\ Len(e) \in Nat /\ Len(b) \in Nat
  OBVIOUS
<1>2. Len(s \o e) = Len(s) + Len(e)
  BY BytesJoined, Zenon
<1>3. \A k \in 1..Len(s) : (s \o e)[k] = s[k]
  BY BytesJoined, Zenon
<1>4. \A k \in 1..Len(e) : (s \o e)[Len(s) + k] = e[k]
  BY BytesJoined, Zenon
<1>. DEFINE u == s \o e
<1>. HIDE DEF u
<1>5. Len(u) = Len(s) + Len(e) /\ 1 + Len(u) <= Len(b) + 1 /\ \A k \in 1..Len(u) : b[1 + k - 1] = u[k]
  BY <1>2 DEF Occurs, u
<1>6. \A k \in 1..Len(s) : b[1 + k - 1] = s[k]
  <2>. TAKE k \in 1..Len(s)
  <2>1. k \in 1..Len(u)
    BY <1>1, <1>5
  <2>2. u[k] = s[k]
    BY <1>3 DEF u
  <2>. QED
    BY <1>5, <2>1, <2>2
<1>7. \A k \in 1..Len(e) : b[(1 + Len(s)) + k - 1] = e[k]
  <2>. TAKE k \in 1..Len(e)
  <2>1. Len(s) + k \in 1..Len(u) /\ (1 + Len(s)) + k - 1 = 1 + (Len(s) + k) - 1
    BY <1>1, <1>5
  <2>2. u[Len(s) + k] = e[k]
    BY <1>4 DEF u
  <2>. QED
    BY <1>5, <2>1, <2>2
<1>8. 1 + Len(s) <= Len(b) + 1 /\ (1 + Len(s)) + Len(e) <= Len(b) + 1 /\ Len(s) + Len(e) <= Len(b)
  BY <1>1, <1>5
<1>. QED
  BY <1>6, <1>7, <1>8 DEF Occurs

\* Where each character of a text is.
LEMMA SpelledAt ==
  ASSUME NEW cs \in Phone!Charsets, NEW t \in Seq(Phone!Characters), NEW F, Spells(F, cs, t)
  PROVE  LET bytes == F[Len(t)]
         IN  \A k \in 1..Len(t) :
               /\ Occurs(Phone!Encode(cs, t[k]), bytes, 1 + Len(F[k - 1]))
               /\ 1 + Len(F[k - 1]) \in 1..Len(bytes)
               /\ 1 + Len(F[k]) = (1 + Len(F[k - 1])) + Len(Phone!Encode(cs, t[k]))
<1>. DEFINE n == Len(t)
            b == F[n]
<1>1. n \in Nat
  OBVIOUS
<1>2. F \in [0..n -> Seq(Bytes)] /\ \A k \in 1..n : F[k] = F[k - 1] \o Phone!Encode(cs, t[k])
  BY DEF Spells
<1>3. \A k \in 1..n : Phone!Encode(cs, t[k]) \in Seq(Bytes) /\ Len(Phone!Encode(cs, t[k])) \in 1..4
  BY EncodeIs
<1>4. b \in Seq(Bytes)
  BY <1>1, <1>2
<1>. HIDE DEF n, b
<1>5. ASSUME NEW k \in 1..n, Occurs(F[k], b, 1)
      PROVE  /\ Occurs(F[k - 1], b, 1) /\ Occurs(Phone!Encode(cs, t[k]), b, 1 + Len(F[k - 1]))
             /\ Len(F[k - 1]) + Len(Phone!Encode(cs, t[k])) <= Len(b)
             /\ Len(F[k]) = Len(F[k - 1]) + Len(Phone!Encode(cs, t[k]))
  <2>. DEFINE s == F[k - 1]
              e == Phone!Encode(cs, t[k])
  <2>1. k - 1 \in 0..n
    BY <1>1
  <2>2. s \in Seq(Bytes) /\ e \in Seq(Bytes) /\ F[k] = s \o e
    BY <1>2, <1>3, <2>1
  <2>. HIDE DEF s, e
  <2>3. Occurs(s \o e, b, 1)
    BY <1>5, <2>2
  <2>4. Len(s \o e) = Len(s) + Len(e)
    BY <2>2, BytesJoined, Zenon
  <2>5. Occurs(s, b, 1) /\ Occurs(e, b, 1 + Len(s)) /\ Len(s) + Len(e) <= Len(b)
    BY <1>4, <2>2, <2>3, BeginsWithParts
  <2>. QED
    BY <2>2, <2>4, <2>5 DEF s, e
<1>. DEFINE S == {m \in 0..n : Occurs(F[n - m], b, 1)}
<1>6. 0 \in S
  <2>1. Occurs(b, b, 1)
    BY <1>4 DEF Occurs
  <2>2. n - 0 = n /\ 0 \in 0..n
    BY <1>1
  <2>. QED
    BY <2>1, <2>2 DEF b
<1>7. ASSUME NEW m \in 0..(n - 1), m \in S PROVE m + 1 \in S
  <2>1. n - m \in 1..n /\ (n - m) - 1 = n - (m + 1) /\ m + 1 \in 0..n
    BY <1>1
  <2>2. Occurs(F[(n - m) - 1], b, 1)
    BY <1>5, <1>7, <2>1
  <2>. QED
    BY <2>1, <2>2
<1>. HIDE DEF S
<1>8. \A m \in 0..n : m \in S
  BY <1>1, <1>6, <1>7, AllPlaces
<1>9. \A k \in 1..n : Occurs(F[k], b, 1)
  <2>. TAKE k \in 1..n
  <2>1. n - k \in 0..n /\ n - (n - k) = k
    BY <1>1
  <2>. QED
    BY <1>8, <2>1 DEF S
<1>10. \A k \in 1..n :
         /\ Occurs(Phone!Encode(cs, t[k]), b, 1 + Len(F[k - 1]))
         /\ 1 + Len(F[k - 1]) \in 1..Len(b)
         /\ 1 + Len(F[k]) = (1 + Len(F[k - 1])) + Len(Phone!Encode(cs, t[k]))
  <2>. TAKE k \in 1..n
  <2>. DEFINE x == Len(F[k - 1])
              l == Len(Phone!Encode(cs, t[k]))
  <2>1. Occurs(Phone!Encode(cs, t[k]), b, 1 + x) /\ x + l <= Len(b) /\ Len(F[k]) = x + l
    BY <1>5, <1>9
  <2>2. k - 1 \in 0..n
    BY <1>1
  <2>3. x \in Nat /\ Len(b) \in Nat
    BY <1>2, <1>4, <2>2
  <2>4. l \in 1..4
    BY <1>3
  <2>. HIDE DEF x, l
  <2>5. 1 + x \in 1..Len(b) /\ 1 + Len(F[k]) = (1 + x) + l
    BY <2>1, <2>3, <2>4
  <2>. QED
    BY <2>1, <2>5 DEF x, l
<1>. QED
  BY <1>10 DEF n, b

LEMMA RestIs ==
  ASSUME NEW t \in Seq(Phone!Characters), NEW k \in 1..Len(t)
  PROVE  <<t[k]>> \o SubSeq(t, k + 1, Len(t)) = SubSeq(t, k, Len(t))
  OBVIOUS

\* An error is neither a text nor a string.
LEMMA NoneIsNoText == \A s \in Seq(Phone!Characters) : s # Phone!None
<1>. TAKE s \in Seq(Phone!Characters)
<1>. SUFFICES ASSUME s = Phone!None PROVE FALSE
  OBVIOUS
<1>1. s = <<-1>>
  BY DEF Phone!None
<1>2. s[1] \in Phone!Characters /\ s[1] = -1
  BY <1>1
<1>. QED
  BY <1>2, CharactersAre, SMTT(10)

\* What is read of the bytes of a text is the text, if all of it can be told.
LEMMA DecodeUndoes ==
  ASSUME NEW cs \in Phone!Charsets, NEW t \in Seq(Phone!Characters),
         cs = "8859-1" => \A k \in 1..Len(t) : t[k] < 256
  PROVE  Phone!Decode(cs, Phone!EncodeText(cs, t)) = t
<1>. DEFINE n == Len(t)
            bytes == Phone!EncodeText(cs, t)
<1>1. n \in Nat /\ bytes \in Seq(Bytes)
  BY EncodedIs
<1>2. PICK F : Spells(F, cs, t)
  BY SpellingIs
<1>3. bytes = F[n]
  BY <1>2, SpelledIs
<1>4. F[0] = <<>>
  BY <1>2 DEF Spells
<1>. DEFINE start(k) == 1 + Len(F[k])
<1>. HIDE DEF bytes
<1>5. \A k \in 1..n : /\ Occurs(Phone!Encode(cs, t[k]), bytes, start(k - 1))
                      /\ start(k - 1) \in 1..Len(bytes)
                      /\ start(k) = start(k - 1) + Len(Phone!Encode(cs, t[k]))
  BY <1>2, <1>3, SpelledAt
<1>6. PICK f : Phone!Decode(cs, bytes) = f[1] /\ \A i \in 1..(Len(bytes) + 1) : f[i] = ReadFrom(f, cs, bytes, i)
  BY <1>1, ReadingIs
<1>. DEFINE S == {m \in 0..n : f[start(n - m)] = SubSeq(t, n - m + 1, n)}
<1>7. 0 \in S
  <2>1. start(n) = Len(bytes) + 1 /\ n - 0 = n /\ 0 \in 0..n
    BY <1>1, <1>3
  <2>2. f[Len(bytes) + 1] = <<>>
    <3>1. Len(bytes) + 1 \in 1..(Len(bytes) + 1) /\ Len(bytes) + 1 > Len(bytes)
      BY <1>1
    <3>2. ReadFrom(f, cs, bytes, Len(bytes) + 1) = <<>>
      BY <3>1 DEF ReadFrom
    <3>. QED
      BY <1>6, <3>1, <3>2
  <2>3. SubSeq(t, n + 1, n) = <<>>
    BY <1>1
  <2>. HIDE DEF start, n
  <2>. QED
    BY <2>1, <2>2, <2>3
<1>8. ASSUME NEW m \in 0..(n - 1), m \in S PROVE m + 1 \in S
  <2>. DEFINE k == n - m
              i == start(k - 1)
              c == t[k]
              rest == SubSeq(t, k + 1, n)
  <2>1. k \in 1..n /\ k - 1 = n - (m + 1) /\ n - (m + 1) + 1 = k /\ m + 1 \in 0..n
    BY <1>1
  <2>2. f[start(k)] = rest
    BY <1>8
  <2>3. c \in Phone!Characters /\ rest \in Seq(Phone!Characters) /\ <<c>> \o rest = SubSeq(t, k, n)
    BY <2>1, RestIs
  <2>. HIDE DEF n, start, k, rest
  <2>4. Occurs(Phone!Encode(cs, c), bytes, i) /\ i \in 1..Len(bytes) /\ start(k) = i + Len(Phone!Encode(cs, c))
    BY <1>5, <2>1
  <2>5. cs = "8859-1" => c < 256
    BY <2>1 DEF n
  <2>. HIDE DEF c, i
  <2>6. Fitting(cs, bytes, i, c)
    BY <2>4, <2>5 DEF Fitting
  <2>7. i \in 1..(Len(bytes) + 1)
    BY <1>1, <2>4
  <2>8. ~Stuck(cs, bytes, i)
    BY <1>1, <2>3, <2>6, <2>7, LegibleIs DEF Stuck
  <2>9. Chosen(cs, bytes, i) \in Phone!Characters /\ Fitting(cs, bytes, i, Chosen(cs, bytes, i))
    BY <1>1, <2>4, <2>8, ChosenIs
  <2>10. Chosen(cs, bytes, i) = c
    BY <1>1, <2>3, <2>4, <2>6, <2>9, OneFits
  <2>11. EndOf(cs, bytes, i) = start(k)
    BY <2>4, <2>10 DEF EndOf
  <2>12. ~(i > Len(bytes)) /\ rest # Phone!None
    BY <1>1, <2>3, <2>4, NoneIsNoText
  <2>13. ReadFrom(f, cs, bytes, i) = <<c>> \o rest
    BY <2>2, <2>8, <2>10, <2>11, <2>12, Zenon DEF ReadFrom
  <2>14. f[i] = <<c>> \o rest
    BY <1>6, <2>7, <2>13
  <2>15. f[start(n - (m + 1))] = SubSeq(t, n - (m + 1) + 1, n)
    BY <2>1, <2>3, <2>14, Zenon DEF i
  <2>. QED
    BY <2>1, <2>15
<1>9. n \in S
  <2>. HIDE DEF S, n
  <2>1. \A k \in 0..n : k \in S
    BY <1>1, <1>7, <1>8, AllPlaces
  <2>. QED
    BY <1>1, <2>1
<1>10. start(0) = 1 /\ n - n = 0 /\ 0 + 1 = 1
  BY <1>1, <1>4
<1>11. SubSeq(t, 1, n) = t
  OBVIOUS
<1>12. f[start(n - n)] = SubSeq(t, n - n + 1, n)
  BY <1>9
<1>. HIDE DEF start, n
<1>13. f[1] = t
  BY <1>10, <1>11, <1>12
<1>. QED
  BY <1>6, <1>13 DEF bytes

\* Digits that stand for bytes are read as those.
LEMMA DigitIs == \A d \in Nat : d < 16 => Phone!tab(d) \in NonZero /\ Phone!hexdigit(Phone!tab(d)) = d
  BY SMTT(10) DEF Phone!tab, Phone!hexdigit, NonZero, Bytes

\* Hexadecimal digits that are written are read as the bytes they were written for.
LEMMA HexIs ==
  ASSUME NEW b \in Seq(Bytes), NEW len \in 0..Len(b)
  PROVE  /\ Phone!at_hex_encode(b, len) \in Seq(NonZero)
         /\ Phone!at_hex_decode(Phone!at_hex_encode(b, len)) = SubSeq(b, 1, len)
<1>. DEFINE s == Phone!at_hex_encode(b, len)
<1>1. len \in Nat
  OBVIOUS
<1>2. \A i \in 1..len : /\ b[i] \div 16 \in Nat /\ b[i] \div 16 < 16 /\ b[i] % 16 \in Nat /\ b[i] % 16 < 16
                        /\ 16 * (b[i] \div 16) + (b[i] % 16) = b[i]
  <2>1. \A x \in Bytes : /\ x \div 16 \in Nat /\ x \div 16 < 16 /\ x % 16 \in Nat /\ x % 16 < 16
                         /\ 16 * (x \div 16) + (x % 16) = x
    BY DEF Bytes
  <2>2. \A i \in 1..len : b[i] \in Bytes
    BY <1>1
  <2>. QED
    BY <2>1, <2>2, Zenon
<1>3. \A k \in 1..(2 * len) : /\ (k + 1) \div 2 \in 1..len
                              /\ s[k] = Phone!tab(IF k % 2 = 1 THEN b[(k + 1) \div 2] \div 16
                                                  ELSE b[(k + 1) \div 2] % 16)
  BY <1>1 DEF Phone!at_hex_encode
<1>4. \A k \in 1..(2 * len) : s[k] \in NonZero
  BY <1>2, <1>3, DigitIs
<1>5. s = [k \in 1..(2 * len) |-> s[k]] /\ Len(s) = 2 * len
  BY <1>1 DEF Phone!at_hex_encode
<1>. HIDE DEF s
<1>6. s \in Seq(NonZero)
  <2>1. [k \in 1..(2 * len) |-> s[k]] \in Seq(NonZero)
    BY <1>1, <1>4
  <2>. QED
    BY <1>5, <2>1, Zenon
<1>7. \A i \in 1..len : /\ 2 * i - 1 \in 1..(2 * len) /\ 2 * i \in 1..(2 * len)
                        /\ Phone!hexdigit(s[2 * i - 1]) = b[i] \div 16 /\ Phone!hexdigit(s[2 * i]) = b[i] % 16
  <2>. TAKE i \in 1..len
  <2>1. /\ 2 * i - 1 \in 1..(2 * len) /\ ((2 * i - 1) + 1) \div 2 = i /\ (2 * i - 1) % 2 = 1
        /\ 2 * i \in 1..(2 * len) /\ (2 * i + 1) \div 2 = i /\ (2 * i) % 2 # 1
    BY <1>1
  <2>2. s[2 * i - 1] = Phone!tab(b[i] \div 16)
    BY <1>3, <2>1
  <2>3. s[2 * i] = Phone!tab(b[i] % 16)
    BY <1>3, <2>1
  <2>4. Phone!hexdigit(Phone!tab(b[i] \div 16)) = b[i] \div 16 /\ Phone!hexdigit(Phone!tab(b[i] % 16)) = b[i] % 16
    BY <1>2, DigitIs
  <2>. QED
    BY <2>1, <2>2, <2>3, <2>4
<1>8. \A k \in 1..(2 * len) : ~(Phone!hexdigit(s[k]) < 0)
  <2>. TAKE k \in 1..(2 * len)
  <2>. DEFINE i == (k + 1) \div 2
  <2>1. i \in 1..len /\ (k = 2 * i - 1 \/ k = 2 * i)
    BY <1>1
  <2>. HIDE DEF i
  <2>2. b[i] \div 16 \in Nat /\ b[i] % 16 \in Nat
    BY <1>2, <2>1
  <2>3. Phone!hexdigit(s[2 * i - 1]) \in Nat /\ Phone!hexdigit(s[2 * i]) \in Nat
    BY <1>7, <2>1, <2>2, Zenon
  <2>4. Phone!hexdigit(s[k]) \in Nat
    BY <2>1, <2>3, Zenon
  <2>5. \A x \in Nat : ~(x < 0)
    OBVIOUS
  <2>. QED
    BY <2>4, <2>5, Zenon
<1>9. Len(s) \div 2 = len
  BY <1>1, <1>5
<1>10. Phone!at_hex_decode(s) = [i \in 1..len |-> 16 * Phone!hexdigit(s[2 * i - 1]) + Phone!hexdigit(s[2 * i])]
  BY <1>8, <1>9 DEF Phone!at_hex_decode
<1>11. \A i \in 1..len : 16 * Phone!hexdigit(s[2 * i - 1]) + Phone!hexdigit(s[2 * i]) = b[i]
  BY <1>2, <1>7
<1>12. [i \in 1..len |-> 16 * Phone!hexdigit(s[2 * i - 1]) + Phone!hexdigit(s[2 * i])] = [i \in 1..len |-> b[i]]
  BY <1>11, Zenon
<1>13. SubSeq(b, 1, len) = [i \in 1..len |-> b[i]]
  BY <1>1
<1>. QED
  BY <1>6, <1>10, <1>12, <1>13, Zenon DEF s

\* What has no nul is as it is, also before a nul.
LEMMA CStringIs ==
  ASSUME NEW b \in Seq(NonZero)
  PROVE  Phone!CString(b) = b /\ Phone!CString(b \o <<0>>) = b
<1>. DEFINE u == b \o <<0>>
            n == Len(b)
<1>1. n \in Nat /\ \A i \in 1..n : b[i] # 0 /\ u[i] = b[i]
  BY DEF NonZero
<1>2. Len(u) = n + 1 /\ u[n + 1] = 0 /\ DOMAIN u = 1..(n + 1) /\ DOMAIN b = 1..n
  OBVIOUS
<1>3. SubSeq(u, 1, n) = b
  OBVIOUS
<1>. HIDE DEF u, n
<1>4. Phone!CString(b) = b
  BY <1>1, <1>2 DEF Phone!CString, Phone!ToSet
<1>5. n + 1 \in 1..(n + 1)
  BY <1>1
<1>6. 0 \in Phone!ToSet(u)
  BY <1>2, <1>5 DEF Phone!ToSet
<1>. DEFINE I == {i \in 1..Len(u) : u[i] = 0}
<1>7. I = {n + 1}
  BY <1>1, <1>2
<1>8. Phone!SelectInSeq(u, LAMBDA x : x = 0) = IF I # {} THEN Phone!Min(I) ELSE 0
  BY DEF Phone!SelectInSeq
<1>. HIDE DEF I
<1>9. Phone!Min(I) = n + 1
  BY <1>1, <1>7 DEF Phone!Min
<1>10. Phone!SelectInSeq(u, LAMBDA x : x = 0) - 1 = n
  BY <1>1, <1>7, <1>8, <1>9
<1>11. Phone!CString(u) = SubSeq(u, 1, Phone!SelectInSeq(u, LAMBDA x : x = 0) - 1)
  BY <1>6 DEF Phone!CString
<1>. QED
  BY <1>3, <1>4, <1>10, <1>11 DEF u

\* The texts that can be told in a character set.
Tellable(cs, t) == cs = "8859-1" => \A k \in 1..Len(t) : t[k] < 256

\* The nul in each character set.
LEMMA NulIs ==
  0 \in Phone!Characters /\ \A cs \in Phone!Charsets : Phone!Encode(cs, 0) = IF cs = "UCS2" THEN <<0, 0>> ELSE <<0>>
<1>1. 0 \in Phone!Characters
  BY DEF Phone!Characters
<1>2. Phone!utf8(0) = <<0>>
  BY SMTT(10) DEF Phone!utf8
<1>3. Phone!utf16(0) = <<0, 0>>
  BY SMTT(10) DEF Phone!utf16, Phone!Unit
<1>4. Phone!Encode("UTF-8", 0) = <<0>> /\ Phone!Encode("8859-1", 0) = <<0>> /\ Phone!Encode("UCS2", 0) = <<0, 0>>
  BY <1>2, <1>3 DEF Phone!Encode
<1>. QED
  BY <1>1, <1>4 DEF Phone!Charsets

\* The conversion of a text for the terminal is that of all of it, and of the nul.
LEMMA CsetEncodeIs ==
  ASSUME NEW cs \in Phone!Charsets, NEW name \in Seq(Letters)
  PROVE  Phone!at_cset_encode(cs, Phone!EncodeText("UTF-8", name)) = Phone!EncodeText(cs, name) \o Phone!Encode(cs, 0)
<1>. DEFINE in == Phone!EncodeText("UTF-8", name)
            t == Append(name, 0)
            out == Phone!EncodeText(cs, t)
<1>1. "UTF-8" \in Phone!Charsets /\ name \in Seq(Phone!Characters)
  BY DEF Phone!Charsets, Letters
<1>2. t \in Seq(Phone!Characters)
  BY <1>1, NulIs
<1>3. in \o <<0>> = Phone!EncodeText("UTF-8", t)
  <2>1. Phone!Encode("UTF-8", 0) = <<0>>
    BY <1>1, NulIs
  <2>. QED
    BY <1>1, <2>1, OneMore, NulIs
<1>4. out = Phone!EncodeText(cs, name) \o Phone!Encode(cs, 0)
  BY <1>1, OneMore, NulIs
<1>5. in \in Seq(Bytes) /\ out \in Seq(Bytes)
  BY <1>1, <1>2, EncodedIs
<1>. HIDE DEF in, t, out
<1>6. Phone!Decode("UTF-8", in \o <<0>>) = t
  <2>1. Phone!Decode("UTF-8", Phone!EncodeText("UTF-8", t)) = t
    BY <1>1, <1>2, DecodeUndoes
  <2>. QED
    BY <1>3, <2>1, Zenon
<1>7. t # Phone!None
  BY <1>2, NoneIsNoText
<1>8. Len(out) <= 2 * (Len(in) + 1)
  <2>1. Len(out) <= 2 * Len(Phone!EncodeText("UTF-8", t))
    <3>1. \A k \in 1..Len(t) : Len(Phone!Encode(cs, t[k])) <= 2 * Len(Phone!Encode("UTF-8", t[k]))
      BY <1>2, WidthsAre
    <3>. QED
      BY <1>1, <1>2, <3>1, RoomIs DEF out
  <2>2. Len(in \o <<0>>) = Len(in) + 1
    BY <1>5
  <2>. QED
    BY <1>3, <2>1, <2>2
<1>9. Phone!Fits(out, 2 * (Len(in) + 1)) = out
  <2>1. ~(Len(out) > 2 * (Len(in) + 1))
    BY <1>5, <1>8
  <2>. QED
    BY <2>1, Zenon DEF Phone!Fits
<1>10. Phone!at_cset_encode(cs, in) = out
  BY <1>6, <1>7, <1>9, Zenon DEF Phone!at_cset_encode, out
<1>. QED
  BY <1>4, <1>10, Zenon DEF in

LEMMA NoneIsNoString == \A s \in Seq(Bytes) : s # Phone!None
<1>. TAKE s \in Seq(Bytes)
<1>. SUFFICES ASSUME s = Phone!None PROVE FALSE
  OBVIOUS
<1>1. s = <<-1>>
  BY DEF Phone!None
<1>2. s[1] \in Bytes /\ s[1] = -1
  BY <1>1
<1>. QED
  BY <1>2 DEF Bytes

\* The terminal is sent all of a text, and understands it.
LEMMA ShownIsUnderstood ==
  ASSUME NEW cs \in Phone!Charsets, NEW name \in Seq(Letters), Tellable(cs, name)
  PROVE  LET sent == Phone!at_from_utf8(cs, Phone!EncodeText("UTF-8", name))
         IN  sent # Phone!None /\ Phone!Understood(cs, sent) = name
<1>. DEFINE in == Phone!EncodeText("UTF-8", name)
            b == Phone!EncodeText(cs, name)
            e == Phone!Encode(cs, 0)
            out == Phone!at_cset_encode(cs, in)
            sent == Phone!at_from_utf8(cs, in)
<1>1. name \in Seq(Phone!Characters)
  BY DEF Letters
<1>2. b \in Seq(Bytes)
  BY <1>1, EncodedIs
<1>3. out = b \o e
  BY CsetEncodeIs
<1>4. Phone!Decode(cs, b) = name
  BY <1>1, DecodeUndoes DEF Tellable
<1>5. sent = IF out = Phone!None THEN Phone!None
             ELSE IF Phone!hex(cs) > 0 THEN Phone!at_hex_encode(out, Len(out) - Phone!hex(cs)) ELSE Phone!CString(out)
  BY DEF Phone!at_from_utf8
<1>6. out # Phone!None
  <2>1. 0 \in Bytes /\ e \in Seq(Bytes) /\ Len(e) >= 1
    <3>1. e = <<0>> \/ e = <<0, 0>>
      BY NulIs
    <3>2. 0 \in Bytes
      BY DEF Bytes
    <3>. HIDE DEF e
    <3>3. CASE e = <<0>>
      BY <3>2, <3>3
    <3>4. CASE e = <<0, 0>>
      BY <3>2, <3>4
    <3>. QED
      BY <3>1, <3>3, <3>4
  <2>. HIDE DEF b, e
  <2>2. b \o e \in Seq(Bytes)
    BY <1>2, <2>1, BytesJoined, Zenon
  <2>. QED
    BY <1>3, <2>2, NoneIsNoString
<1>. HIDE DEF in, out, sent
<1>7. CASE cs = "UCS2"
  <2>1. e = <<0, 0>> /\ Phone!hex(cs) = 2 /\ Phone!hex(cs) > 0
    BY <1>7, NulIs DEF Phone!hex
  <2>. HIDE DEF b, e
  <2>2. /\ Len(out) = Len(b) + 2 /\ Len(b) \in Nat /\ SubSeq(out, 1, Len(b)) = b /\ out \in Seq(Bytes)
    <3>1. 0 \in Bytes
      BY DEF Bytes
    <3>2. e \in Seq(Bytes) /\ Len(e) = 2
      BY <2>1, <3>1
    <3>3. b \o e \in Seq(Bytes) /\ Len(b \o e) = Len(b) + Len(e) /\ \A i \in 1..Len(b) : (b \o e)[i] = b[i]
      BY <1>2, <3>2, BytesJoined, Zenon
    <3>4. SubSeq(b \o e, 1, Len(b)) = b
      BY <1>2, <3>2
    <3>. QED
      BY <1>2, <1>3, <3>2, <3>3, <3>4
  <2>3. sent = Phone!at_hex_encode(out, Len(b))
    <3>1. Len(out) - Phone!hex(cs) = Len(b)
      BY <2>1, <2>2
    <3>. QED
      BY <1>5, <1>6, <2>1, <3>1, Zenon
  <2>4. Len(b) \in 0..Len(out)
    BY <2>2
  <2>5. sent \in Seq(NonZero) /\ Phone!at_hex_decode(sent) = b
    BY <2>2, <2>3, <2>4, HexIs
  <2>6. Phone!Understood(cs, sent) = name
    BY <1>4, <1>7, <2>5, Zenon DEF Phone!Understood
  <2>. QED
    BY <2>5, <2>6, NoneIsNoString DEF sent, in, NonZero
<1>8. CASE cs # "UCS2"
  <2>1. e = <<0>> /\ Phone!hex(cs) = 0 /\ ~(Phone!hex(cs) > 0) /\ cs \in {"UTF-8", "8859-1"}
    BY <1>8, NulIs DEF Phone!hex, Phone!Charsets
  <2>2. b \in Seq(NonZero)
    BY <2>1, EncodedNonZero
  <2>. HIDE DEF b, e
  <2>3. Phone!CString(out) = b
    BY <1>3, <2>1, <2>2, CStringIs
  <2>4. sent = b
    BY <1>5, <1>6, <2>1, <2>3, Zenon
  <2>5. Phone!Understood(cs, sent) = name
    BY <1>4, <1>8, <2>4, Zenon DEF Phone!Understood
  <2>. QED
    BY <2>2, <2>4, <2>5, NoneIsNoString DEF sent, in, NonZero
<1>. QED
  BY <1>7, <1>8

\* What the terminal sends is a string, and so is a name that is read from it a text.
LEMMA SentIs ==
  ASSUME NEW cs \in Phone!Charsets, NEW text \in Seq(Letters)
  PROVE  Phone!Sent(cs, text) \in Seq(NonZero)
<1>1. CASE cs = "UCS2"
  <2>. DEFINE b == Phone!EncodeText(cs, text)
  <2>1. text \in Seq(Phone!Characters)
    BY DEF Letters
  <2>2. b \in Seq(Bytes)
    BY <2>1, EncodedIs
  <2>3. Phone!Sent(cs, text) = Phone!at_hex_encode(b, Len(b))
    BY <1>1 DEF Phone!Sent
  <2>. HIDE DEF b
  <2>4. Len(b) \in 0..Len(b)
    BY <2>2
  <2>. QED
    BY <2>2, <2>3, <2>4, HexIs
<1>2. CASE cs # "UCS2"
  <2>1. cs \in {"UTF-8", "8859-1"}
    BY <1>2 DEF Phone!Charsets
  <2>2. Phone!Sent(cs, text) = Phone!EncodeText(cs, text)
    BY <1>2 DEF Phone!Sent
  <2>. QED
    BY <2>1, <2>2, EncodedNonZero
<1>. QED
  BY <1>1, <1>2

\* fromUtf8() makes a text of any string.
LEMMA NameIs ==
  ASSUME NEW txt \in Seq(NonZero)
  PROVE  Phone!fromUtf8(txt) \in Seq(Letters)
<1>1. txt \in Seq(Bytes) /\ "UTF-8" \in Phone!Charsets /\ Letters \in SUBSET Phone!Characters
  BY DEF NonZero, Phone!Charsets, Letters
<1>2. ASSUME NEW i \in 1..Len(txt), NEW x \in Phone!Characters, Fitting("UTF-8", txt, i, x)
      PROVE  x \in Letters
  <2>. SUFFICES ASSUME x = 0 PROVE FALSE
    BY DEF Letters
  <2>1. Phone!Encode("UTF-8", 0) = <<0>>
    BY <1>1, NulIs
  <2>2. Occurs(<<0>>, txt, i)
    BY <1>2, <2>1, Zenon DEF Fitting
  <2>3. txt[i + 1 - 1] = 0
    BY <2>2 DEF Occurs
  <2>4. txt[i] = 0 /\ txt[i] \in NonZero
    BY <2>3
  <2>. QED
    BY <2>4 DEF NonZero
<1>3. Phone!Decode("UTF-8", txt) = Phone!None \/ Phone!Decode("UTF-8", txt) \in Seq(Letters)
  BY <1>1, <1>2, DecodedIs
<1>4. <<65533>> \in Seq(Letters)
  <2>1. 65533 \in Letters
    BY SMTT(10) DEF Letters, Phone!Characters
  <2>. QED
    BY <2>1, SMTT(10)
<1>. QED
  BY <1>3, <1>4, SMTT(10) DEF Phone!fromUtf8

\* The other way round: what the terminal sends is all of the text, in UTF-8.
LEMMA ReadIsSent ==
  ASSUME NEW cs \in Phone!Charsets, NEW text \in Seq(Letters), Tellable(cs, text)
  PROVE  Phone!at_to_utf8(cs, Phone!Sent(cs, text)) = Phone!EncodeText("UTF-8", text)
<1>. DEFINE b == Phone!EncodeText(cs, text)
            out == Phone!EncodeText("UTF-8", text)
            raw == IF Phone!hex(cs) > 0 THEN Phone!at_hex_decode(Phone!Sent(cs, text)) ELSE Phone!Sent(cs, text)
<1>1. text \in Seq(Phone!Characters) /\ "UTF-8" \in Phone!Charsets
  BY DEF Letters, Phone!Charsets
<1>2. b \in Seq(Bytes) /\ out \in Seq(Bytes)
  BY <1>1, EncodedIs
<1>3. raw = b
  <2>1. CASE cs = "UCS2"
    <3>1. Phone!Sent(cs, text) = Phone!at_hex_encode(b, Len(b)) /\ Phone!hex(cs) = 2
      BY <2>1 DEF Phone!Sent, Phone!hex
    <3>. HIDE DEF b
    <3>2. Len(b) \in 0..Len(b) /\ SubSeq(b, 1, Len(b)) = b
      BY <1>2
    <3>3. Phone!at_hex_decode(Phone!Sent(cs, text)) = b
      BY <1>2, <3>1, <3>2, HexIs
    <3>. QED
      BY <3>1, <3>3
  <2>2. CASE cs # "UCS2"
    BY <2>2 DEF Phone!Sent, Phone!hex
  <2>. QED
    BY <2>1, <2>2
<1>4. Phone!Decode(cs, b) = text
  BY <1>1, DecodeUndoes DEF Tellable
<1>5. Len(out) <= 3 * Len(b)
  <2>1. \A k \in 1..Len(text) : Len(Phone!Encode("UTF-8", text[k])) <= 3 * Len(Phone!Encode(cs, text[k]))
    <3>. TAKE k \in 1..Len(text)
    <3>1. text[k] \in Phone!Characters /\ (cs = "8859-1" => text[k] < 256)
      BY <1>1 DEF Tellable
    <3>. QED
      BY <3>1, WidthsAre
  <2>. QED
    BY <1>1, <2>1, RoomIs
<1>6. out \in Seq(NonZero)
  BY EncodedNonZero
<1>7. Phone!at_to_utf8(cs, Phone!Sent(cs, text))
      = LET read == IF raw = Phone!None THEN Phone!None ELSE Phone!at_cset_decode(cs, raw)
        IN  IF read = Phone!None THEN Phone!None ELSE Phone!CString(read)
  BY DEF Phone!at_to_utf8
<1>8. text # Phone!None /\ b # Phone!None /\ out # Phone!None
  BY <1>1, <1>2, NoneIsNoText, NoneIsNoString
<1>. HIDE DEF b, out, raw
<1>9. Phone!at_cset_decode(cs, b) = out
  <2>1. ~(Len(out) > 3 * Len(b))
    BY <1>2, <1>5
  <2>2. Phone!Fits(out, 3 * Len(b)) = out
    BY <2>1, Zenon DEF Phone!Fits
  <2>. QED
    BY <1>4, <1>8, <2>2, Zenon DEF Phone!at_cset_decode, out
<1>10. Phone!CString(out) = out
  BY <1>6, CStringIs
<1>. QED
  BY <1>3, <1>7, <1>8, <1>9, <1>10, Zenon DEF out

\* For every text of Unicode, and every character set that has its characters: what the terminal
\* sends is converted to the text in UTF-8, and what the terminal is sent is understood as the
\* text. The buffers of the conversions, three bytes for one and two bytes for one
\* (charset.c:131-156, 162-189), are large enough, with the nul, and nothing is lost at either end
\* (charset.c:229-265).
THEOREM TextsConvert ==
  ASSUME NEW cs \in Phone!Charsets, NEW text \in Seq(Unicode), Tellable(cs, text)
  PROVE  LET utf == Phone!EncodeText("UTF-8", text)
         IN  Phone!at_to_utf8(cs, Phone!Sent(cs, text)) = utf /\ Phone!Understood(cs, Phone!at_from_utf8(cs, utf)) = text
<1>1. Unicode \in SUBSET Letters
  BY DevicesAssumption, SMTT(10) DEF Phone!PhonebooksAssumption, Phone!CharactersAssumption, Letters, Phone!Characters
<1>2. text \in Seq(Letters)
  BY <1>1
<1>. QED
  BY <1>2, ReadIsSent, ShownIsUnderstood

\* Contacts have names that are texts, whoever wrote them.
Entry == [name : Seq(Letters), phones : Seq({Phone!Number, Phone!Empty})]
NamesInv == charset \in Phone!Charsets /\ contacts \in Seq(Entry) /\ Phone!NamesReadable

LEMMA TextsAre == \A text \in Phone!Texts : text \in Seq(Letters)
<1>1. Unicode \in SUBSET Letters
  BY DevicesAssumption, SMTT(10) DEF Phone!PhonebooksAssumption, Phone!CharactersAssumption, Letters, Phone!Characters
<1>2. \A text \in Phone!Texts : text \in Seq(Unicode)
  BY DEF Phone!Texts, Phone!BoundedSeq, Phone!SeqOf
<1>. QED
  BY <1>1, <1>2

\* Nothing at all is the text without characters.
LEMMA NothingIsReadable == Phone!Understood("UTF-8", <<>>) = <<>>
<1>1. "UTF-8" \in Phone!Charsets /\ <<>> \in Seq(Phone!Characters)
  BY DEF Phone!Charsets
<1>2. Phone!EncodeText("UTF-8", <<>>) = <<>>
  BY DEF Phone!EncodeText, Phone!FlattenSeq
<1>3. Phone!Decode("UTF-8", Phone!EncodeText("UTF-8", <<>>)) = <<>>
  BY <1>1, DecodeUndoes
<1>4. Phone!Decode("UTF-8", <<>>) = <<>>
  BY <1>2, <1>3, Zenon
<1>. QED
  BY <1>4 DEF Phone!Understood

\* Where nothing is shown, nothing is understood.
LEMMA QuietIsReadable == ASSUME Phone!Quiet PROVE Phone!NamesReadable'
<1>1. shown'.charset = "UTF-8" /\ shown'.text = <<>> /\ shown'.name = <<>>
  BY DEF Phone!Quiet, Phone!Nothing
<1>. QED
  BY <1>1, NothingIsReadable DEF Phone!NamesReadable

LEMMA InsertKeeps ==
  ASSUME contacts \in Seq(Entry), NEW contact \in Entry, Phone!Insert(contact)
  PROVE  contacts' \in Seq(Entry)
  BY DEF Phone!Insert

LEMMA RemoveKeeps ==
  ASSUME contacts \in Seq(Entry), NEW idx \in Nat, Phone!remove(idx)
  PROVE  contacts' \in Seq(Entry)
<1>1. idx < Len(contacts) /\ contacts' = SubSeq(contacts, 1, idx) \o SubSeq(contacts, idx + 2, Len(contacts))
  <2>1. (idx + 1) - 1 = idx /\ (idx + 1) + 1 = idx + 2
    OBVIOUS
  <2>. QED
    BY <2>1 DEF Phone!remove, Phone!RemoveAt
<1>. DEFINE a == SubSeq(contacts, 1, idx)
            b == SubSeq(contacts, idx + 2, Len(contacts))
<1>2. a \in Seq(Entry) /\ b \in Seq(Entry)
  BY <1>1
<1>. HIDE DEF a, b
<1>3. a \o b \in Seq(Entry)
  BY <1>2
<1>. QED
  BY <1>1, <1>3 DEF a, b

\* A name that is written is a text, whether or not it is the one that was meant.
LEMMA WriteKeeps ==
  ASSUME NamesInv, NEW idx \in Nat, NEW num \in {Phone!Number, Phone!Empty}, NEW text \in Seq(Letters),
         NEW num2 \in {Phone!Number, Phone!Empty}, Phone!pb_write(idx, num, text, num2)
  PROVE  NamesInv'
<1>. DEFINE txt == Phone!Sent(charset, text)
<1>1. charset \in Phone!Charsets /\ contacts \in Seq(Entry)
  BY DEF NamesInv
<1>2. charset' = charset /\ Phone!Quiet /\ \E written : Phone!writeCb(idx, num, txt, num2, written)
  BY DEF Phone!pb_write
<1>3. PICK written : Phone!writeCb(idx, num, txt, num2, written)
  BY <1>2
<1>4. txt \in Seq(NonZero)
  BY <1>1, SentIs
<1>. HIDE DEF txt
<1>5. Phone!remove(idx) \/ Phone!add(num, txt, num2)
  BY <1>3, Zenon DEF Phone!writeCb
<1>6. ASSUME Phone!remove(idx) PROVE contacts' \in Seq(Entry)
  BY <1>1, <1>6, RemoveKeeps
<1>7. ASSUME Phone!add(num, txt, num2) PROVE contacts' \in Seq(Entry)
  <2>. DEFINE contact == [name |-> Phone!fromUtf8(txt), phones |-> <<num, num2>>]
  <2>1. Phone!fromUtf8(txt) \in Seq(Letters)
    BY <1>4, NameIs
  <2>2. <<num, num2>> \in Seq({Phone!Number, Phone!Empty})
    OBVIOUS
  <2>3. contact \in Entry
    BY <2>1, <2>2, Zenon DEF Entry
  <2>4. Phone!Insert(contact)
    BY <1>7 DEF Phone!add
  <2>. HIDE DEF contact
  <2>. QED
    BY <1>1, <2>3, <2>4, InsertKeeps
<1>8. contacts' \in Seq(Entry)
  BY <1>5, <1>6, <1>7
<1>9. Phone!NamesReadable'
  BY <1>2, QuietIsReadable
<1>. QED
  BY <1>1, <1>2, <1>8, <1>9 DEF NamesInv

\* A name that is shown is understood.
LEMMA ReadKeeps ==
  ASSUME NamesInv, NEW idx \in Nat, Phone!pb_read(idx)
  PROVE  NamesInv'
<1>. DEFINE name == contacts[idx + 1].name
            text == Phone!at_from_utf8(charset, Phone!EncodeText("UTF-8", name))
<1>1. charset \in Phone!Charsets /\ contacts \in Seq(Entry)
  BY DEF NamesInv
<1>2. idx < Len(contacts) /\ charset' = charset /\ contacts' = contacts
  BY DEF Phone!pb_read
<1>3. shown'.charset = charset /\ shown'.text = (IF text = Phone!None THEN <<>> ELSE text) /\ shown'.name = name
  BY DEF Phone!pb_read
<1>4. name \in Seq(Letters)
  <2>1. contacts[idx + 1] \in Entry
    BY <1>1, <1>2
  <2>. QED
    BY <2>1 DEF Entry
<1>. HIDE DEF name
<1>5. Tellable(charset, name) => text # Phone!None /\ Phone!Understood(charset, text) = name
  BY <1>1, <1>4, ShownIsUnderstood
<1>. HIDE DEF text
<1>6. DOMAIN name = 1..Len(name)
  BY <1>4
<1>7. Phone!NamesReadable'
  <2>1. SUFFICES ASSUME shown'.charset = "8859-1" => \A i \in DOMAIN shown'.name : shown'.name[i] < 256
                 PROVE  Phone!Understood(shown'.charset, shown'.text) = shown'.name
    BY DEF Phone!NamesReadable
  <2>2. Tellable(charset, name)
    BY <1>3, <1>6, <2>1 DEF Tellable
  <2>. QED
    BY <1>3, <1>5, <2>2, Zenon
<1>. QED
  BY <1>1, <1>2, <1>7 DEF NamesInv

LEMMA NamesKept == NamesInv /\ [Phone!Next]_(Phone!vars) => NamesInv'
<1>. SUFFICES ASSUME NamesInv, [Phone!Next]_(Phone!vars) PROVE NamesInv'
  OBVIOUS
<1>1. charset \in Phone!Charsets /\ contacts \in Seq(Entry) /\ Phone!NamesReadable
  BY DEF NamesInv
<1>2. ASSUME Phone!Quiet, charset' \in Phone!Charsets, contacts' \in Seq(Entry) PROVE NamesInv'
  BY <1>2, QuietIsReadable DEF NamesInv
<1>3. ASSUME NEW name \in Phone!Books, Phone!at_phonebooks_register(name) \/ Phone!pb_select(name) PROVE NamesInv'
  <2>1. Phone!Quiet /\ charset' = charset /\ contacts' = contacts
    BY <1>3 DEF Phone!at_phonebooks_register, Phone!pb_select
  <2>. QED
    BY <1>1, <1>2, <2>1
<1>4. ASSUME NEW cs \in Phone!Charsets, Phone!set_cscs(cs) PROVE NamesInv'
  <2>1. Phone!Quiet /\ charset' = cs /\ contacts' = contacts
    BY <1>4 DEF Phone!set_cscs
  <2>. QED
    BY <1>1, <1>2, <2>1
<1>5. \A idx \in Phone!Indices \cup {Phone!NoIndex} : idx \in Nat
  BY DEF Phone!Indices, Phone!NoIndex
<1>6. ASSUME NEW idx \in Phone!Indices \cup {Phone!NoIndex}, NEW text \in Phone!Texts,
             Phone!pb_write(idx, Phone!Number, text, Phone!Empty)
      PROVE  NamesInv'
  BY <1>5, <1>6, TextsAre, WriteKeeps
<1>7. ASSUME NEW idx \in Phone!Indices, Phone!pb_write(idx, Phone!Empty, <<>>, Phone!Empty) PROVE NamesInv'
  <2>1. <<>> \in Seq(Letters)
    OBVIOUS
  <2>. QED
    BY <1>5, <1>7, <2>1, WriteKeeps
<1>8. ASSUME NEW idx \in Phone!Indices, Phone!pb_read(idx) PROVE NamesInv'
  BY <1>5, <1>8, ReadKeeps
<1>9. ASSUME NEW idx \in Phone!Indices, Phone!Deleted(idx) PROVE NamesInv'
  <2>1. Phone!remove(idx) /\ Phone!Quiet /\ charset' = charset
    BY <1>9 DEF Phone!Deleted
  <2>2. contacts' \in Seq(Entry)
    BY <1>1, <1>5, <2>1, RemoveKeeps
  <2>. QED
    BY <1>1, <1>2, <2>1, <2>2
<1>10. ASSUME NEW name \in Phone!Texts, NEW phones \in {<<>>, <<Phone!Number>>}, Phone!Imported(name, phones)
       PROVE  NamesInv'
  <2>. DEFINE contact == [name |-> name, phones |-> phones]
  <2>1. Phone!Insert(contact) /\ Phone!Quiet /\ charset' = charset
    BY <1>10 DEF Phone!Imported
  <2>2. phones \in Seq({Phone!Number, Phone!Empty})
    <3>1. <<>> \in Seq({Phone!Number, Phone!Empty}) /\ <<Phone!Number>> \in Seq({Phone!Number, Phone!Empty})
      OBVIOUS
    <3>. QED
      BY <3>1, Zenon
  <2>3. contact \in Entry
    BY <2>2, TextsAre DEF Entry
  <2>. HIDE DEF contact
  <2>4. contacts' \in Seq(Entry)
    BY <1>1, <2>1, <2>3, InsertKeeps
  <2>. QED
    BY <1>1, <1>2, <2>1, <2>4
<1>11. CASE Phone!Reset
  <2>1. Phone!Quiet /\ charset' = "UTF-8" /\ contacts' = contacts
    BY <1>11 DEF Phone!Reset
  <2>2. "UTF-8" \in Phone!Charsets
    BY DEF Phone!Charsets
  <2>. QED
    BY <1>1, <1>2, <2>1, <2>2
<1>12. CASE UNCHANGED Phone!vars
  BY <1>1, <1>12 DEF Phone!vars, NamesInv, Phone!NamesReadable
<1>. QED
  BY <1>3, <1>4, <1>6, <1>7, <1>8, <1>9, <1>10, <1>11, <1>12 DEF Phone!Next

LEMMA NamesStart == Phone!Init => NamesInv
<1>. SUFFICES ASSUME Phone!Init PROVE NamesInv
  OBVIOUS
<1>1. shown.charset = "UTF-8" /\ shown.text = <<>> /\ shown.name = <<>> /\ charset = "UTF-8" /\ contacts = <<>>
  BY DEF Phone!Init, Phone!Nothing
<1>2. Phone!NamesReadable
  BY <1>1, NothingIsReadable DEF Phone!NamesReadable
<1>3. charset \in Phone!Charsets /\ contacts \in Seq(Entry)
  BY <1>1 DEF Phone!Charsets
<1>. QED
  BY <1>2, <1>3 DEF NamesInv

\* AnswersTrue of Phonebooks, for any texts and any number of contacts: the index that AT+CPBW?
\* answers is of the book that is selected (phonebook.c:107-108, 291-292, 301-309), and every
\* name that is shown in a character set that has its characters is understood as the name,
\* whoever entered the contact, however it was written (charset.c:162-189, 249-265).
THEOREM BookAnswersStayTrue == Phone!Spec => []AnswersTrue
<1>1. NamesInv => Phone!NamesReadable
  BY DEF NamesInv
<1>2. Phone!Spec => []Phone!NamesReadable
  BY <1>1, NamesStart, NamesKept, PTL DEF Phone!Spec
<1>3. Phone!OffsetIsLast /\ Phone!NamesReadable => AnswersTrue
  BY DEF AnswersTrue, Phone!AnswersTrue
<1>. QED
  BY <1>2, <1>3, IndexIsOfBook, PTL

-----------------------------------------------------------------------------
(***************************************************************************)
(* Devices: each of its behaviours is one of the loader and of every       *)
(* plugin, most of which do nothing in it.                                 *)
(***************************************************************************)

\* A step of the process is one of the loader and of each plugin, or leaves it alone.
LEMMA StepsAreOfAll ==
  ASSUME [AllNext]_allVars
  PROVE  /\ [Next]_vars
         /\ [Light!Next]_(Light!vars) /\ [Events!Next]_(Events!vars) /\ [Inputs!Next]_(Inputs!vars)
         /\ [Serial!Next]_(Serial!vars) /\ [Phone!Next]_(Phone!vars) /\ [Zone!Next]_(Zone!vars)
<1>0. Next \/ UNCHANGED vars
  BY DEF AllNext, allVars
<1>1. Light!Next \/ UNCHANGED lightVars
  BY DEF AllNext, allVars
<1>2. Events!Next \/ UNCHANGED eventVars
  BY DEF AllNext, allVars
<1>3. Inputs!Next \/ UNCHANGED inputVars
  BY DEF AllNext, allVars
<1>4. Serial!Next \/ UNCHANGED serialVars
  BY DEF AllNext, allVars
<1>5. Phone!Next \/ UNCHANGED phoneVars
  BY DEF AllNext, allVars
<1>6. Zone!Next \/ UNCHANGED zoneVars
  BY DEF AllNext, allVars
<1>7. UNCHANGED lightVars => UNCHANGED Light!vars
  BY DEF lightVars, Light!vars, Light!settings, Light!thread, Light!command
<1>8. UNCHANGED eventVars => UNCHANGED Events!vars
  BY DEF eventVars, Events!vars, Events!fds, Events!thread, Events!command
<1>9. UNCHANGED inputVars => UNCHANGED Inputs!vars
  BY DEF inputVars, Inputs!vars, Inputs!device, Inputs!keypad, Inputs!touch
<1>10. UNCHANGED serialVars => UNCHANGED Serial!vars
  BY DEF serialVars, Serial!vars, Serial!attr, Serial!asked
<1>11. UNCHANGED phoneVars => UNCHANGED Phone!vars
  BY DEF phoneVars, Phone!vars, Phone!books
<1>12. UNCHANGED zoneVars => UNCHANGED Zone!vars
  BY DEF zoneVars, Zone!vars, Zone!world, Zone!thread
<1>. QED
  BY <1>0, <1>1, <1>2, <1>3, <1>4, <1>5, <1>6, <1>7, <1>8, <1>9, <1>10, <1>11, <1>12

\* What the loader and the plugins promise, each of its own, is so of the process that has
\* loaded them all: every property of the modules that Devices puts together.
THEOREM DevicesStayTrue ==
  AllSpec => /\ [](TypeOK /\ ReferencesCounted /\ BanksKeepPlugins /\ OneWalk)
             /\ LoadedListFreedOnce
             /\ [](LightAsAsked /\ KeypadAsAsked /\ EventsAsAsked /\ FramingReadsBack /\ AnswersTrue /\ ZoneReported)
<1>1. AllInit => Init /\ Light!Init /\ Events!Init /\ Inputs!Init /\ Serial!Init /\ Phone!Init /\ Zone!Init
  BY DEF AllInit
<1>2. AllSpec => Safety /\ Light!Spec /\ Events!Spec /\ Inputs!Spec
  BY <1>1, StepsAreOfAll, PTL DEF AllSpec, Safety, Light!Spec, Events!Spec, Inputs!Spec
<1>3. AllSpec => Serial!Spec /\ Phone!Spec /\ Zone!Spec
  BY <1>1, StepsAreOfAll, PTL DEF AllSpec, Serial!Spec, Phone!Spec, Zone!Spec
<1>4. Safety => /\ [](TypeOK /\ ReferencesCounted /\ BanksKeepPlugins /\ OneWalk)
                /\ LoadedListFreedOnce
  BY TypeCorrect, ReferencesAreCounted, BanksKeepTheirPlugins, OneWalkAtATime, ListIsFreedOnce, PTL
<1>. QED
  BY <1>2, <1>3, <1>4, LightStaysAsAsked, KeypadStaysAsAsked, EventsStayAsAsked, FramingIsReadBack,
     BookAnswersStayTrue, ZoneStaysReported, PTL
=============================================================================
