----------------------------- MODULE DataRelay -----------------------------
(***************************************************************************)
(* Data mode: the loop of at_connect_mtu() (src/at_modem.c) between the    *)
(* terminal (0, the DTE) and a file descriptor (1, the DCE). Direction i   *)
(* is what side i sends: from its kernel queue to bufs[i], and from there  *)
(* to the other side. poll() watches four entries: i for reading from side *)
(* i, i + 2 for writing to side i. Module Modem has the rest of data mode. *)
(* The descriptors are those of the repository's callers, a pair of        *)
(* terminals, where a read returns what is there.                          *)
(***************************************************************************)
EXTENDS Naturals, Sequences

CONSTANTS
  Alphabet,   \* bytes the terminal sends; the DCE sends "x"
  Mtu,        \* size of each buffer
  MaxSent,    \* bound: bytes each side sends
  HangsUp     \* the sides that may hang up (POLLHUP), not just end their stream

\* What a caller of at_connect_mtu() may give it.
RelayAssumption ==
  /\ "x" \in Alphabet
  /\ Mtu \in Nat \ {0} /\ MaxSent \in [{0, 1} -> Nat]
  /\ HangsUp \subseteq {0, 1}

VARIABLES
  revents,    \* entries that the last poll() reported and the loop has still to handle
  buf,        \* per direction: what was read and not written, bufs[i] from offset[i]
  quiet,      \* the clock is a second or more past last_rx
  why,        \* why the loop was left: "end", "escape" or "error" and a side, or not yet
  sent,       \* history: all that a side has sent
  queue,      \* what it has sent and the loop has not read
  got,        \* history: what the other side has received of it
  line        \* of each side: "open", "ended" or "hung up"

loop == <<revents, buf, quiet, why>>
peers == <<sent, queue, got, line>>
vars == <<loop, peers>>

Sides == {0, 1}
Escape == <<"+", "+", "+">>

-----------------------------------------------------------------------------
\* The other ends, and the clock.
Send(i, b) ==
  /\ line[i] = "open"
  /\ Len(sent[i]) < MaxSent[i]
  /\ i = 1 => b = "x"
  /\ sent' = [sent EXCEPT ![i] = Append(@, b)]
  /\ queue' = [queue EXCEPT ![i] = Append(@, b)]
  /\ UNCHANGED <<loop, got, line>>

End(i) ==
  /\ line[i] = "open"
  /\ \E l \in {"ended"} \cup (IF i \in HangsUp THEN {"hung up"} ELSE {}) :
       line' = [line EXCEPT ![i] = l]
  /\ UNCHANGED <<loop, sent, queue, got>>

Second ==
  /\ ~quiet
  /\ quiet' = TRUE
  /\ UNCHANGED <<revents, buf, why, peers>>

-----------------------------------------------------------------------------
Looping == why = <<"no", 0>>

\* Mutated: input is asked for while the buffer is still full.
Readable_Always(i) == queue[i] # <<>> \/ line[i] # "open"

\* What poll() may report: a hang-up always, on both entries of the side, the rest only
\* when it is asked for: input when bufs[i] is empty, room for output when it is not.
Readable(i) == buf[i] = <<>> /\ (queue[i] # <<>> \/ line[i] # "open")
HungUp == {e \in 0..3 : line[e % 2] = "hung up"}
Asked == {i \in Sides : Readable(i)} \cup {i + 2 : i \in {k \in Sides : buf[1 - k] # <<>>}}

\* poll() waits for any of this; a side may have no room.
Poll ==
  /\ Looping /\ revents = {}
  /\ \E full \in SUBSET Sides :
       revents' = HungUp \cup (Asked \ {i + 2 : i \in full})
  /\ revents' # {}
  /\ UNCHANGED <<buf, quiet, why, peers>>

\* The entry to handle: side 0 before side 1, and reading before writing.
Turn(e) ==
  /\ Looping /\ e \in revents
  /\ \A f \in revents : e % 2 < f % 2 \/ (e % 2 = f % 2 /\ e <= f)

Handled(e) == revents' = revents \ {e}

Out(reason) == revents' = {} /\ why' = reason

\* read() or write() is interrupted, or has nothing or no room: the rest of the turn of
\* side i is skipped ("continue").
Again(i) ==
  /\ \/ Turn(i) /\ (line[i] = "open" \/ queue[i] # <<>>)
     \/ Turn(i + 2)
  /\ revents' = revents \ {i, i + 2}
  /\ UNCHANGED <<buf, quiet, why, peers>>

\* Mutated: one side is not told that the other has ended.
ReadEnd_Ignored(i) ==
  /\ Turn(i)
  /\ queue[i] = <<>> /\ line[i] # "open"
  /\ Handled(i)
  /\ UNCHANGED <<buf, quiet, why, peers>>

\* End of stream, or the error that a terminal reports after a hang-up.
ReadEnd(i) ==
  /\ Turn(i)
  /\ queue[i] = <<>> /\ line[i] # "open"
  /\ Out(<<"end", i>>)
  /\ UNCHANGED <<buf, quiet, peers>>

\* What is read: the first bytes of the queue, a buffer full at most.
Chunk(i) == SubSeq(queue[i], 1, IF Len(queue[i]) < Mtu THEN Len(queue[i]) ELSE Mtu)
Take(i) == queue' = [queue EXCEPT ![i] = SubSeq(@, Len(Chunk(i)) + 1, Len(@))]

IsEscape(i) == i = 0 /\ Chunk(i) = Escape /\ quiet

ReadEscape(i) ==
  /\ Turn(i)
  /\ IsEscape(i)
  /\ Take(i)
  /\ Out(<<"escape", i>>)
  /\ UNCHANGED <<buf, quiet, sent, got, line>>

\* The buffer is written over, whatever it holds.
Read(i) ==
  /\ Turn(i)
  /\ queue[i] # <<>> /\ ~IsEscape(i)
  /\ Take(i)
  /\ buf' = [buf EXCEPT ![i] = Chunk(i)]
  /\ quiet' = FALSE
  /\ Handled(i)
  /\ UNCHANGED <<why, sent, got, line>>

\* Mutated: what could not be written in one go is forgotten.
Write_Short(i) ==
  /\ Turn(i + 2)
  /\ \E k \in 0..Len(buf[1 - i]) :
       /\ k > 0 \/ buf[1 - i] = <<>>
       /\ got' = [got EXCEPT ![1 - i] = @ \o SubSeq(buf[1 - i], 1, k)]
       /\ buf' = [buf EXCEPT ![1 - i] = <<>>]
  /\ Handled(i + 2)
  /\ UNCHANGED <<quiet, why, sent, queue, line>>

\* Some of what the other side has sent is written to side i; after a hang-up of an idle
\* side that is no byte at all.
Write(i) ==
  /\ Turn(i + 2)
  /\ \E k \in 0..Len(buf[1 - i]) :
       /\ k > 0 \/ buf[1 - i] = <<>>
       /\ got' = [got EXCEPT ![1 - i] = @ \o SubSeq(buf[1 - i], 1, k)]
       /\ buf' = [buf EXCEPT ![1 - i] = SubSeq(@, k + 1, Len(@))]
  /\ Handled(i + 2)
  /\ UNCHANGED <<quiet, why, sent, queue, line>>

WriteFails(i) ==
  /\ Turn(i + 2)
  /\ line[i] # "open"
  /\ Out(<<"error", i>>)
  /\ UNCHANGED <<buf, quiet, peers>>

\* The caller of at_connect_mtu() goes on.
Left == ~Looping /\ UNCHANGED vars

Init ==
  /\ revents = {} /\ buf = [i \in Sides |-> <<>>]
  /\ quiet = TRUE /\ why = <<"no", 0>>
  /\ sent = [i \in Sides |-> <<>>] /\ queue = sent /\ got = sent
  /\ line = [i \in Sides |-> "open"]

Reads(i) == ReadEnd(i) \/ ReadEscape(i) \/ Read(i)
Writes(i) == Write(i) \/ WriteFails(i)

Next ==
  \/ \E i \in Sides : End(i) \/ Reads(i) \/ Writes(i) \/ Again(i)
  \/ \E i \in Sides, b \in Alphabet : Send(i, b)
  \/ Second \/ Poll \/ Left

PollRoom(i) == Poll /\ i + 2 \in revents'

\* The reader thread runs, calls are not interrupted for ever, and a side has room again
\* and again.
Safety == Init /\ [][Next]_vars
Spec ==
  /\ Safety
  /\ WF_vars(Poll)
  /\ \A i \in Sides :
       SF_vars(Reads(i)) /\ SF_vars(Writes(i)) /\ SF_vars(PollRoom(i))

-----------------------------------------------------------------------------
Taken(i) == IF why = <<"escape", i>> THEN Escape ELSE <<>>

\* "Then it will forward data between the DTE and the provided file descriptor"
\* (at_command.h:366): each side gets what the other one has sent, in order, nothing lost,
\* repeated or put in; the rest is in the buffer or still to be read. An escape sequence
\* is not passed on, and all that was sent before it is.
StreamsIntact ==
  \A i \in Sides : got[i] \o buf[i] \o Taken(i) \o queue[i] = sent[i]

\* When data mode ends because the stream of one side has ended, the other side has got
\* all of it.
EndDelivers == \A i \in Sides : why = <<"end", i>> => got[i] = sent[i]

\* Data mode ends once a side has ended its stream (at_command.h:367).
EndEnds == \A i \in Sides : line[i] # "open" ~> ~Looping
=============================================================================
