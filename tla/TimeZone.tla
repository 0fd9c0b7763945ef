------------------------------ MODULE TimeZone ------------------------------
(***************************************************************************)
(* AT+CTZR of plugins/timezone.c: a thread watches the file with the time  *)
(* zone and reports each new one with +CTZV. The watch goes with the file, *)
(* and other programs replace the file as well as writing to it.           *)
(***************************************************************************)
EXTENDS Naturals, Sequences

CONSTANTS
  Zones,       \* time zones; 0 is that of a process without the file
  MaxChanges   \* bound: changes of the file in all

VARIABLES
  file,        \* the zone in the file, or NoFile
  watched,     \* the inotify descriptor has a watch on the file that is there
  queue,       \* what it has to be read: "modify", "delete", "ignored"
  dying,       \* the file that was watched is gone, "ignored" is still to come
  changes,     \* so far
  at,          \* the thread: "none", "init", "watch", "tzset", "read", "sleep", "rewatch", "ended"
  mask,        \* the first event of the last read
  current_tz,  \* what it has reported last
  enabled,     \* ctzr->enabled
  blind        \* history: the watch was lost for good

world == <<file, dying, changes>>
thread == <<at, mask, current_tz>>
vars == <<world, watched, queue, thread, enabled, blind>>

NoFile == 99
Zone == IF file = NoFile THEN 0 ELSE file

\* So many events fit into one read.
Room == 3

-----------------------------------------------------------------------------
(***************************************************************************)
(* ctzr_thread()                                                           *)
(***************************************************************************)
Go(from, to) == at = from /\ at' = to

\* Without a descriptor the thread ends, and is enabled all the same.
inotify_init ==
  /\ Go("init", "watch") \/ Go("init", "ended")
  /\ UNCHANGED <<world, watched, queue, mask, current_tz, enabled, blind>>

\* A file that is not there cannot be watched.
inotify_add_watch ==
  /\ watched' = (file # NoFile)
  /\ blind' = (blind \/ file = NoFile)
  /\ UNCHANGED <<world, queue, mask, current_tz, enabled>>

AddWatch == Go("watch", "tzset") /\ inotify_add_watch

\* +CTZV is printed when the zone is another one.
tzset ==
  /\ Go("tzset", "read")
  /\ current_tz' = Zone
  /\ UNCHANGED <<world, watched, queue, mask, enabled, blind>>

\* All events that are there are read, and only the first one is looked at.
Read ==
  LET taken == IF Len(queue) > Room THEN Room ELSE Len(queue)
  IN  /\ Go("read", "sleep") /\ taken > 0
      /\ mask' = queue[1]
      /\ queue' = SubSeq(queue, taken + 1, Len(queue))
      /\ blind' = (blind \/ \E i \in 2..taken : queue[i] = "ignored")
      /\ UNCHANGED <<world, watched, current_tz, enabled>>

\* Mutated: the watch is not made again.
Sleep_Ignores ==
  /\ Go("sleep", "tzset")
  /\ UNCHANGED <<world, watched, queue, mask, current_tz, enabled, blind>>

\* A tenth of a second, for the file to be there again.
Sleep ==
  /\ Go("sleep", IF mask = "ignored" THEN "rewatch" ELSE "tzset")
  /\ UNCHANGED <<world, watched, queue, mask, current_tz, enabled, blind>>

Rewatch == Go("rewatch", "tzset") /\ inotify_add_watch

-----------------------------------------------------------------------------
\* set_ctzr(): the thread is made, or cancelled, wherever it waits, and joined.
set_ctzr(onoff) ==
  /\ enabled # onoff /\ enabled' = onoff
  /\ at' = IF onoff THEN "init" ELSE "none"
  /\ ~onoff => at \in {"read", "sleep", "ended"}
  /\ watched' = FALSE /\ queue' = <<>> /\ dying' = FALSE
  /\ mask' = "modify" /\ current_tz' = 0 /\ blind' = FALSE
  /\ UNCHANGED <<file, changes>>

-----------------------------------------------------------------------------
\* Other programs write the file, remove or replace it, or make a new one.
Change(zone) ==
  /\ changes < MaxChanges /\ changes' = changes + 1
  /\ zone # file /\ file' = zone
  /\ \/ /\ file # NoFile /\ zone # NoFile
        /\ queue' = IF watched THEN Append(queue, "modify") ELSE queue
        /\ UNCHANGED <<watched, dying>>
     \/ /\ file # NoFile
        /\ queue' = IF watched THEN Append(queue, "delete") ELSE queue
        /\ watched' = FALSE /\ dying' = (dying \/ watched)
     \/ file = NoFile /\ UNCHANGED <<watched, queue, dying>>
  /\ UNCHANGED <<thread, enabled, blind>>

Ignored ==
  /\ dying /\ dying' = FALSE
  /\ queue' = Append(queue, "ignored")
  /\ UNCHANGED <<file, changes, watched, thread, enabled, blind>>

Init ==
  /\ file \in Zones /\ watched = FALSE /\ queue = <<>> /\ dying = FALSE /\ changes = 0
  /\ at = "none" /\ mask = "modify" /\ current_tz = 0 /\ enabled = FALSE /\ blind = FALSE

Next ==
  \/ inotify_init \/ AddWatch \/ tzset \/ Read \/ Sleep \/ Rewatch
  \/ \E onoff \in BOOLEAN : set_ctzr(onoff)
  \/ \E zone \in Zones \cup {NoFile} : Change(zone)
  \/ Ignored

Spec == Init /\ [][Next]_vars

-----------------------------------------------------------------------------
\* When the thread waits and there is nothing for it to read, what it has reported last is the
\* time zone: no change is lost between the watch and tzset(), or while it sleeps and the file is
\* replaced (timezone.c:84-114), unless it has lost its watch, which it does when the file is not
\* there again in time or the end of the watch is read together with another event.
ZoneReported == (at = "read" /\ queue = <<>> /\ ~dying /\ ~blind) => current_tz = Zone
=============================================================================
