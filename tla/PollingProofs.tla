--------------------------- MODULE PollingProofs ---------------------------
(***************************************************************************)
(* Proofs about DBusLoop and DataRelay. For any number of threads that     *)
(* make calls, the main loop of D-Bus never sleeps on a set of watches     *)
(* that was changed behind its back, unless somebody is about to wake it   *)
(* up. For buffers of any size, the relay of data mode loses, repeats and  *)
(* reorders nothing that a side sends which does not hang up.              *)
(***************************************************************************)
EXTENDS Polling, SequenceTheorems, TLAPS

Places == {"idle", "toggle", "wake", "waiting"}
PlacesOK == pc \in [Clients -> Places] /\ after \in [Clients -> {"idle", "waiting"}]

\* The poll set is current, or a wake-up is there or on its way.
Current ==
  \/ events \subseteq ufd \/ wakeup
  \/ \E c \in Clients : pc[c] = "wake"

IInv == PlacesOK /\ (at = "poll" => Current)

\* A client that is not the one waking up the thread may go anywhere.
LEMMA OthersWake ==
  ASSUME PlacesOK, NEW c \in Clients, pc[c] # "wake", NEW place,
         pc' = [pc EXCEPT ![c] = place],
         \E d \in Clients : pc[d] = "wake"
  PROVE  \E d \in Clients : pc'[d] = "wake"
BY DEF PlacesOK

\* A step that takes nothing from the poll set, the wake-up or the one on its way keeps it current.
LEMMA StaysCurrent ==
  ASSUME Current, UNCHANGED <<events, ufd>>, wakeup => wakeup',
         (\E c \in Clients : pc[c] = "wake") => \E c \in Clients : pc'[c] = "wake"
  PROVE  Current'
BY DEF Current

\* at_dbus_get(): a new connection starts the thread, which does not poll yet.
LEMMA ConnectedStays ==
  ASSUME PlacesOK, at = "poll" => Current, Connected, UNCHANGED ufd, at' = "poll",
         (\E c \in Clients : pc[c] = "wake") => \E c \in Clients : pc'[c] = "wake"
  PROVE  Current'
<1>1. at = "poll" /\ UNCHANGED events /\ (wakeup => wakeup')
  BY DEF Connected
<1>. QED
  BY <1>1, StaysCurrent

-----------------------------------------------------------------------------
LEMMA ClientKeeps ==
  ASSUME IInv, NEW c \in Clients, Client(c)
  PROVE  IInv'
<1>. USE DEF IInv
<1>1. ASSUME NEW waits \in BOOLEAN, Send(c, waits) PROVE IInv'
  <2>1. PlacesOK'
    BY <1>1 DEF Send, Call, PlacesOK, Places
  <2>2. ASSUME at' = "poll" PROVE Current'
    <3>1. (\E d \in Clients : pc[d] = "wake") => \E d \in Clients : pc'[d] = "wake"
      BY <1>1, OthersWake DEF Send, Call
    <3>. QED
      BY <1>1, <2>2, <3>1, ConnectedStays DEF Send
  <2>. QED
    BY <2>1, <2>2
<1>2. ASSUME SendFails(c) PROVE IInv'
  BY <1>2 DEF SendFails, Call, NoConnection, watch, PlacesOK, Current
<1>3. ASSUME AddFilter(c) \/ RemoveFilter(c) PROVE IInv'
  <2>1. UNCHANGED <<pc, after, ufd>> /\ (Connected \/ NoConnection)
    BY <1>3 DEF AddFilter, RemoveFilter
  <2>2. PlacesOK'
    BY <2>1 DEF PlacesOK
  <2>3. ASSUME at' = "poll", Connected PROVE Current'
    BY <2>1, <2>3, ConnectedStays
  <2>4. ASSUME at' = "poll", NoConnection PROVE Current'
    BY <2>1, <2>4, StaysCurrent DEF NoConnection, watch
  <2>. QED
    BY <2>1, <2>2, <2>3, <2>4
<1>4. ASSUME Toggle(c) PROVE IInv'
  <2>1. pc'[c] = "wake"
    BY <1>4 DEF Toggle, PlacesOK
  <2>2. PlacesOK'
    BY <1>4 DEF Toggle, PlacesOK, Places
  <2>. QED
    BY <2>1, <2>2 DEF Current
<1>5. ASSUME at_dbus_wakeup(c) PROVE IInv'
  BY <1>5 DEF at_dbus_wakeup, PlacesOK, Places, Current
<1>6. ASSUME Flush(c) \/ Reply(c) PROVE IInv'
  <2>1. pc[c] # "wake" /\ UNCHANGED <<events, ufd, at, after>> /\ (wakeup => wakeup')
        /\ \E place \in {"toggle", "idle"} : pc' = [pc EXCEPT ![c] = place]
    <3>1. CASE Flush(c)
      BY <3>1 DEF Flush, thread, watch
    <3>2. CASE Reply(c)
      <4>1. wakeup => wakeup'
        BY <3>2, Zenon DEF Reply
      <4>. QED
        BY <3>2, <4>1 DEF Reply, thread, watch
    <3>. QED
      BY <1>6, <3>1, <3>2
  <2>2. PlacesOK'
    BY <2>1 DEF PlacesOK, Places
  <2>3. (\E d \in Clients : pc[d] = "wake") => \E d \in Clients : pc'[d] = "wake"
    BY <2>1, OthersWake
  <2>. QED
    BY <2>1, <2>2, <2>3, StaysCurrent
<1>. QED
  BY <1>1, <1>2, <1>3, <1>4, <1>5, <1>6 DEF Client

\* The thread polls for what it has just looked at, and is then woken up or goes on.
LEMMA ThreadKeeps ==
  ASSUME IInv, Thread \/ Interrupted
  PROVE  IInv'
<1>1. UNCHANGED <<pc, after>>
  BY DEF Thread, Dispatch, Dispatched, Timer, Look, Poll, Woken, Give, Handle, Interrupted, client
<1>2. PlacesOK'
  BY <1>1 DEF IInv, PlacesOK
<1>3. CASE Look
  BY <1>2, <1>3 DEF IInv, Look, watch, Current
<1>4. CASE Dispatch
  BY <1>2, <1>4 DEF IInv, Dispatch, thread, client, watch, Current
<1>5. CASE Dispatched \/ Timer \/ Poll \/ Woken \/ (\E w \in Sides : Give(w)) \/ Handle \/ Interrupted
  BY <1>2, <1>5 DEF IInv, Dispatched, Timer, Poll, Woken, Give, Handle, Interrupted
<1>. QED
  BY <1>3, <1>4, <1>5 DEF Thread

LEMMA OthersKeep ==
  ASSUME IInv, Timeout \/ Clock \/ Signal \/ Room
  PROVE  IInv'
<1>1. UNCHANGED <<pc, after, at, ufd, events>> /\ (wakeup => wakeup')
  BY DEF Timeout, Clock, Signal, Room, thread, client, watch
<1>. QED
  BY <1>1 DEF IInv, PlacesOK, Current

-----------------------------------------------------------------------------
\* Where a thread sleeps in poll(), the poll set is current or it is about to be woken up: the
\* change of a watch (dbus.c:117-138) may fall anywhere between the look at the list and poll()
\* (dbus.c:305-331), for any number of threads that change one.
THEOREM PollStaysCurrent == Safety => []PollIsCurrent
<1>1. Init => IInv
  BY DEF Init, IInv, PlacesOK, Places
<1>2. IInv /\ [Next]_vars => IInv'
  <2>1. ASSUME IInv, Next PROVE IInv'
    BY <2>1, ClientKeeps, ThreadKeeps, OthersKeep DEF Next
  <2>2. ASSUME IInv, UNCHANGED vars PROVE IInv'
    BY <2>2 DEF IInv, PlacesOK, Current, vars, thread, client, watch
  <2>. QED
    BY <2>1, <2>2
<1>3. IInv => PollIsCurrent
  BY DEF IInv, Current, PollIsCurrent
<1>. QED
  BY <1>1, <1>2, <1>3, PTL DEF Safety

-----------------------------------------------------------------------------
(* The relay of data mode.                                                  *)
Ends == Relay!Sides
Bytes == Alphabet \cup {"+"}

\* A sequence in two parts.
LEMMA Parts ==
  ASSUME NEW S, NEW s \in Seq(S), NEW k \in 0..Len(s)
  PROVE  /\ SubSeq(s, 1, k) \in Seq(S) /\ SubSeq(s, k + 1, Len(s)) \in Seq(S)
         /\ Len(SubSeq(s, 1, k)) = k
         /\ SubSeq(s, 1, k) \o SubSeq(s, k + 1, Len(s)) = s
<1>1. 1 \in 1..Len(s) + 1 /\ k \in 1 - 1..Len(s) /\ Len(s) \in k..Len(s)
  OBVIOUS
<1>2. SubSeq(s, 1, k) \o SubSeq(s, k + 1, Len(s)) = SubSeq(s, 1, Len(s))
  BY <1>1, ConcatAdjacentSubSeq
<1>3. SubSeq(s, 1, Len(s)) = s
  BY SubSeqFull
<1>4. /\ SubSeq(s, 1, k) \in Seq(S) /\ Len(SubSeq(s, 1, k)) = k
      /\ SubSeq(s, k + 1, Len(s)) \in Seq(S)
  <2>1. s = [i \in 1..Len(s) |-> s[i]] /\ \A i \in 1..Len(s) : s[i] \in S
    OBVIOUS
  <2>2. /\ SubSeq(s, 1, k) \in Seq(S)
        /\ Len(SubSeq(s, 1, k)) = IF 1 <= k THEN k - 1 + 1 ELSE 0
    BY <2>1, SubSeqProperties
  <2>3. SubSeq(s, k + 1, Len(s)) \in Seq(S)
    BY <2>1, SubSeqProperties
  <2>4. QED
    BY <2>2, <2>3
<1>5. QED
  BY <1>2, <1>3, <1>4

\* What is written of a buffer goes from it to the end of what was received.
LEMMA WriteMoves ==
  ASSUME NEW S, NEW a \in Seq(S), NEW b \in Seq(S), NEW k \in 0..Len(b)
  PROVE  (a \o SubSeq(b, 1, k)) \o SubSeq(b, k + 1, Len(b)) = a \o b
<1>1. SubSeq(b, 1, k) \in Seq(S) /\ SubSeq(b, k + 1, Len(b)) \in Seq(S)
  BY Parts
<1>2. (a \o SubSeq(b, 1, k)) \o SubSeq(b, k + 1, Len(b)) = a \o (SubSeq(b, 1, k) \o SubSeq(b, k + 1, Len(b)))
  <2>1. \A s, t, u \in Seq(S) : (s \o t) \o u = s \o (t \o u)
    BY ConcatAssociative, SMTT(20)
  <2>2. QED
    BY <1>1, <2>1
<1>3. QED
  BY <1>2, Parts

\* What is read goes from the queue to what is on its way.
LEMMA ReadMoves ==
  ASSUME NEW S, NEW a \in Seq(S), NEW q \in Seq(S), NEW k \in 0..Len(q)
  PROVE  /\ ((a \o SubSeq(q, 1, k)) \o <<>>) \o SubSeq(q, k + 1, Len(q)) = ((a \o <<>>) \o <<>>) \o q
         /\ ((a \o <<>>) \o SubSeq(q, 1, k)) \o SubSeq(q, k + 1, Len(q)) = ((a \o <<>>) \o <<>>) \o q
<1>1. SubSeq(q, 1, k) \in Seq(S) /\ SubSeq(q, k + 1, Len(q)) \in Seq(S) /\ a \o SubSeq(q, 1, k) \in Seq(S)
  BY Parts
<1>2. a \o <<>> = a /\ (a \o SubSeq(q, 1, k)) \o <<>> = a \o SubSeq(q, 1, k)
  BY <1>1, ConcatEmptySeq
<1>3. (a \o SubSeq(q, 1, k)) \o SubSeq(q, k + 1, Len(q)) = a \o q
  BY WriteMoves
<1>4. QED
  BY <1>2, <1>3

RelayType ==
  /\ relay_revents \subseteq 0..3
  /\ buf \in [Ends -> Seq(Bytes)] /\ sent \in [Ends -> Seq(Bytes)]
  /\ queue \in [Ends -> Seq(Bytes)] /\ got \in [Ends -> Seq(Bytes)]
  /\ line \in [Ends -> {"open", "ended", "hung up"}]
  /\ \A i \in Ends : line[i] = "hung up" => i \in HangsUp

\* What side i has sent is where it should be; it is only read when there is room for it; and
\* its stream has ended when it is said to have.
Whole(i) ==
  /\ got[i] \o buf[i] \o Relay!Taken(i) \o queue[i] = sent[i]
  /\ i \in relay_revents => buf[i] = <<>>
  /\ why = <<"end", i>> => got[i] = sent[i] /\ line[i] # "open"

RelayInv == RelayType /\ \A i \in Ends \ HangsUp : Whole(i)

LEMMA ChunkIsPart ==
  ASSUME RelayType, NEW i \in Ends
  PROVE  \E k \in 0..Len(queue[i]) :
           /\ Relay!Chunk(i) = SubSeq(queue[i], 1, k) /\ Relay!Chunk(i) \in Seq(Bytes)
           /\ Len(Relay!Chunk(i)) = k
<1> DEFINE k == IF Len(queue[i]) < Mtu THEN Len(queue[i]) ELSE Mtu
<1>1. queue[i] \in Seq(Bytes) /\ Mtu \in Nat
  BY RelayConstants DEF RelayType, Relay!RelayAssumption
<1>2. k \in 0..Len(queue[i])
  BY <1>1
<1>3. Relay!Chunk(i) = SubSeq(queue[i], 1, k)
  BY DEF Relay!Chunk
<1>4. SubSeq(queue[i], 1, k) \in Seq(Bytes) /\ Len(SubSeq(queue[i], 1, k)) = k
  BY <1>1, <1>2, Parts
<1>5. QED
  BY <1>2, <1>3, <1>4

LEMMA TakenTyped == ASSUME NEW i PROVE Relay!Taken(i) \in Seq(Bytes)
<1>1. "+" \in Bytes
  BY DEF Bytes
<1>2. <<"+", "+", "+">> \in Seq(Bytes) /\ <<>> \in Seq(Bytes)
  BY <1>1
<1>3. QED
  BY <1>2 DEF Relay!Taken, Relay!Escape

LEMMA RelayStarts == Relay!Init => RelayInv
<1> SUFFICES ASSUME Relay!Init PROVE RelayInv
  OBVIOUS
<1>1. \A i \in Ends : got[i] = <<>> /\ buf[i] = <<>> /\ queue[i] = <<>> /\ sent[i] = <<>> /\ Relay!Taken(i) = <<>>
  BY DEF Relay!Init, Relay!Taken, Ends
<1>2. <<>> \o <<>> \o <<>> \o <<>> = <<>>
  <2>1. <<>> \in Seq(Bytes)
    OBVIOUS
  <2>2. QED
    BY <2>1, ConcatEmptySeq
<1>3. RelayType
  BY DEF Relay!Init, RelayType, Ends
<1>4. QED
  BY <1>1, <1>2, <1>3 DEF RelayInv, Whole, Relay!Init

LEMMA PeersKeep ==
  ASSUME RelayInv, NEW j \in Ends, Relay!End(j) \/ \E b \in Alphabet : Relay!Send(j, b)
  PROVE  RelayInv'
<1>1. CASE Relay!End(j)
  <2>1. RelayType'
    BY <1>1 DEF RelayInv, RelayType, Relay!End, Relay!loop
  <2>2. ASSUME NEW i \in Ends \ HangsUp PROVE Whole(i)'
    BY <1>1 DEF RelayInv, RelayType, Whole, Relay!End, Relay!loop, Relay!Taken
  <2>3. QED
    BY <2>1, <2>2 DEF RelayInv
<1>2. ASSUME NEW b \in Alphabet, Relay!Send(j, b) PROVE RelayInv'
  <2>1. RelayType'
    <3>1. b \in Bytes /\ sent[j] \in Seq(Bytes) /\ queue[j] \in Seq(Bytes)
      BY DEF Bytes, RelayInv, RelayType
    <3>2. Append(sent[j], b) \in Seq(Bytes) /\ Append(queue[j], b) \in Seq(Bytes)
      BY <3>1, AppendProperties
    <3>3. QED
      BY <1>2, <3>2 DEF RelayInv, RelayType, Relay!Send, Relay!loop
  <2>2. ASSUME NEW i \in Ends \ HangsUp PROVE Whole(i)'
    <3>1. UNCHANGED <<relay_revents, buf, got, why, line>> /\ Relay!Taken(i)' = Relay!Taken(i)
      BY <1>2 DEF Relay!Send, Relay!loop, Relay!Taken
    <3>2. CASE i # j
      BY <1>2, <3>1, <3>2 DEF RelayInv, RelayType, Whole, Relay!Send
    <3>3. CASE i = j
      <4> DEFINE a == got[i] \o buf[i] \o Relay!Taken(i)
      <4>1. a \in Seq(Bytes) /\ queue[i] \in Seq(Bytes) /\ b \in Bytes
        <5>1. got[i] \in Seq(Bytes) /\ buf[i] \in Seq(Bytes) /\ queue[i] \in Seq(Bytes) /\ b \in Bytes
          BY DEF RelayInv, RelayType, Bytes
        <5>2. Relay!Taken(i) \in Seq(Bytes)
          BY TakenTyped
        <5>3. got[i] \o buf[i] \in Seq(Bytes)
          BY <5>1, ConcatProperties
        <5>4. QED
          BY <5>1, <5>2, <5>3, ConcatProperties
      <4>2. a \o Append(queue[i], b) = Append(a \o queue[i], b)
        <5>1. a \o queue[i] \in Seq(Bytes) /\ <<b>> \in Seq(Bytes)
          BY <4>1, ConcatProperties
        <5>2. Append(queue[i], b) = queue[i] \o <<b>> /\ Append(a \o queue[i], b) = (a \o queue[i]) \o <<b>>
          BY <4>1, <5>1, AppendIsConcat
        <5>3. (a \o queue[i]) \o <<b>> = a \o (queue[i] \o <<b>>)
          <6>1. \A s, t, u \in Seq(Bytes) : (s \o t) \o u = s \o (t \o u)
            BY ConcatAssociative, SMTT(20)
          <6>2. QED
            BY <4>1, <5>1, <6>1
        <5>4. QED
          BY <5>2, <5>3
      <4>3. queue'[i] = Append(queue[i], b) /\ sent'[i] = Append(sent[i], b)
        BY <1>2, <3>3 DEF RelayInv, RelayType, Relay!Send
      <4>4. why # <<"end", i>>
        BY <1>2, <3>3 DEF RelayInv, Whole, Relay!Send
      <4>5. QED
        BY <3>1, <4>2, <4>3, <4>4 DEF RelayInv, Whole
    <3>4. QED
      BY <3>2, <3>3
  <2>3. QED
    BY <2>1, <2>2 DEF RelayInv
<1>3. QED
  BY <1>1, <1>2

LEMMA PollKeeps ==
  ASSUME RelayInv, Relay!Poll
  PROVE  RelayInv'
<1>1. relay_revents' \subseteq Relay!HungUp \cup Relay!Asked
  BY DEF Relay!Poll
<1>2. Relay!HungUp \subseteq 0..3 /\ Relay!Asked \subseteq 0..3
  <2>1. \A i \in {0, 1} : i \in 0..3 /\ i + 2 \in 0..3
    OBVIOUS
  <2>2. QED
    BY <2>1 DEF Relay!HungUp, Relay!Asked, Relay!Sides
<1>3. RelayType'
  BY <1>1, <1>2 DEF RelayInv, RelayType, Relay!Poll, Relay!peers
<1>4. ASSUME NEW i \in Ends \ HangsUp PROVE Whole(i)'
  <2>1. i \in relay_revents' => Relay!Readable(i)
    <3>1. i \in {0, 1} /\ i % 2 = i
      BY DEF Ends, Relay!Sides
    <3>2. i \notin Relay!HungUp
      BY <3>1 DEF RelayInv, RelayType, Relay!HungUp
    <3>3. i \in Relay!Asked => Relay!Readable(i)
      BY <3>1 DEF Relay!Asked, Relay!Sides
    <3>4. QED
      BY <1>1, <3>2, <3>3
  <2>2. QED
    BY <2>1 DEF RelayInv, Whole, Relay!Poll, Relay!peers, Relay!Readable, Relay!Taken
<1>5. QED
  BY <1>3, <1>4 DEF RelayInv

LEMMA ReadsKeep ==
  ASSUME RelayInv, NEW j \in Ends, Relay!Reads(j)
  PROVE  RelayInv'
<1> PICK k \in 0..Len(queue[j]) : /\ Relay!Chunk(j) = SubSeq(queue[j], 1, k) /\ Relay!Chunk(j) \in Seq(Bytes)
                                  /\ Len(Relay!Chunk(j)) = k
  BY ChunkIsPart DEF RelayInv
<1> DEFINE rest == SubSeq(queue[j], k + 1, Len(queue[j]))
<1>1. queue[j] \in Seq(Bytes) /\ got[j] \in Seq(Bytes) /\ rest \in Seq(Bytes)
  <2>1. queue[j] \in Seq(Bytes) /\ got[j] \in Seq(Bytes)
    BY DEF RelayInv, RelayType
  <2>2. QED
    BY <2>1, Parts
<1>2. j \in relay_revents /\ why = <<"no", 0>>
  BY DEF Relay!Reads, Relay!ReadEnd, Relay!ReadEscape, Relay!Read, Relay!Turn, Relay!Looping
<1>3. Relay!Taken(j) = <<>>
  BY <1>2 DEF Relay!Taken
<1>4. CASE Relay!ReadEnd(j)
  <2>1. RelayType'
    BY <1>4 DEF RelayInv, RelayType, Relay!ReadEnd, Relay!Out, Relay!peers
  <2>2. ASSUME NEW i \in Ends \ HangsUp PROVE Whole(i)'
    <3>1. UNCHANGED <<buf, sent, queue, got, line>> /\ relay_revents' = {} /\ why' = <<"end", j>>
      BY <1>4 DEF Relay!ReadEnd, Relay!Out, Relay!peers
    <3>2. Relay!Taken(i)' = <<>> /\ Relay!Taken(i) = <<>>
      BY <1>2, <3>1 DEF Relay!Taken
    <3>3. i = j => got[i] = sent[i] /\ line[i] # "open"
      <4>1. got[j] \o <<>> \o <<>> \o <<>> = got[j]
        BY <1>1, ConcatEmptySeq
      <4>2. QED
        BY <1>2, <1>3, <1>4, <4>1 DEF RelayInv, Whole, Relay!ReadEnd
    <3>4. QED
      BY <3>1, <3>2, <3>3 DEF RelayInv, Whole
  <2>3. QED
    BY <2>1, <2>2 DEF RelayInv
<1>5. CASE Relay!ReadEscape(j)
  <2>1. queue' = [queue EXCEPT ![j] = rest] /\ UNCHANGED <<buf, sent, got, line>>
        /\ relay_revents' = {} /\ why' = <<"escape", j>> /\ Relay!Chunk(j) = Relay!Escape
    BY <1>5 DEF Relay!ReadEscape, Relay!Take, Relay!Out, Relay!IsEscape
  <2>2. RelayType'
    BY <1>1, <2>1 DEF RelayInv, RelayType
  <2>3. ASSUME NEW i \in Ends \ HangsUp PROVE Whole(i)'
    <3>1. CASE i # j
      <4>1. Relay!Taken(i)' = <<>> /\ Relay!Taken(i) = <<>>
        BY <1>2, <2>1, <3>1 DEF Relay!Taken
      <4>2. QED
        BY <2>1, <3>1, <4>1 DEF RelayInv, RelayType, Whole
    <3>2. CASE i = j
      <4>1. Relay!Taken(j)' = Relay!Chunk(j) /\ queue'[j] = rest
        BY <2>1 DEF Relay!Taken, RelayInv, RelayType
      <4>2. buf[j] = <<>>
        BY <1>2, <3>2 DEF RelayInv, Whole
      <4>3. ((got[j] \o <<>>) \o SubSeq(queue[j], 1, k)) \o rest = ((got[j] \o <<>>) \o <<>>) \o queue[j]
        BY <1>1, ReadMoves
      <4>4. QED
        BY <1>3, <2>1, <3>2, <4>1, <4>2, <4>3 DEF RelayInv, Whole
    <3>3. QED
      BY <3>1, <3>2
  <2>4. QED
    BY <2>2, <2>3 DEF RelayInv
<1>6. CASE Relay!Read(j)
  <2>1. queue' = [queue EXCEPT ![j] = rest] /\ buf' = [buf EXCEPT ![j] = Relay!Chunk(j)]
        /\ UNCHANGED <<sent, got, line, why>> /\ relay_revents' = relay_revents \ {j}
    BY <1>6 DEF Relay!Read, Relay!Take, Relay!Handled
  <2>2. RelayType'
    BY <1>1, <2>1 DEF RelayInv, RelayType
  <2>3. ASSUME NEW i \in Ends \ HangsUp PROVE Whole(i)'
    <3>1. Relay!Taken(i)' = <<>> /\ Relay!Taken(i) = <<>>
      BY <1>2, <2>1 DEF Relay!Taken
    <3>2. CASE i # j
      BY <2>1, <3>1, <3>2 DEF RelayInv, RelayType, Whole
    <3>3. CASE i = j
      <4>1. buf'[j] = SubSeq(queue[j], 1, k) /\ queue'[j] = rest
        BY <2>1 DEF RelayInv, RelayType
      <4>2. buf[j] = <<>>
        BY <1>2, <3>3 DEF RelayInv, Whole
      <4>3. ((got[j] \o SubSeq(queue[j], 1, k)) \o <<>>) \o rest = ((got[j] \o <<>>) \o <<>>) \o queue[j]
        BY <1>1, ReadMoves
      <4>4. QED
        BY <1>2, <2>1, <3>1, <3>3, <4>1, <4>2, <4>3 DEF RelayInv, Whole
    <3>4. QED
      BY <3>2, <3>3
  <2>4. QED
    BY <2>2, <2>3 DEF RelayInv
<1>7. QED
  BY <1>4, <1>5, <1>6 DEF Relay!Reads

LEMMA WritesKeep ==
  ASSUME RelayInv, NEW j \in Ends, Relay!Writes(j)
  PROVE  RelayInv'
<1>1. CASE Relay!WriteFails(j)
  <2>1. UNCHANGED <<buf, sent, queue, got, line>> /\ relay_revents' = {} /\ why' = <<"error", j>> /\ why = <<"no", 0>>
    BY <1>1 DEF Relay!WriteFails, Relay!Out, Relay!peers, Relay!Turn, Relay!Looping
  <2>2. ASSUME NEW i \in Ends PROVE Relay!Taken(i)' = Relay!Taken(i)
    BY <2>1 DEF Relay!Taken
  <2>3. QED
    BY <2>1, <2>2 DEF RelayInv, RelayType, Whole
<1>2. CASE Relay!Write(j)
  <2> DEFINE o == 1 - j
  <2>1. o \in Ends /\ buf[o] \in Seq(Bytes) /\ got[o] \in Seq(Bytes)
    <3>1. j \in {0, 1} /\ Ends = {0, 1}
      BY DEF Ends, Relay!Sides
    <3>2. o \in Ends
      BY <3>1
    <3>3. QED
      BY <3>2 DEF RelayInv, RelayType
  <2>2. PICK k \in 0..Len(buf[o]) :
          /\ got' = [got EXCEPT ![o] = @ \o SubSeq(buf[o], 1, k)]
          /\ buf' = [buf EXCEPT ![o] = SubSeq(@, k + 1, Len(@))]
    BY <1>2 DEF Relay!Write
  <2>3. UNCHANGED <<sent, queue, line, why>> /\ relay_revents' \subseteq relay_revents /\ why = <<"no", 0>>
    BY <1>2 DEF Relay!Write, Relay!Handled, Relay!Turn, Relay!Looping
  <2>4. SubSeq(buf[o], 1, k) \in Seq(Bytes) /\ SubSeq(buf[o], k + 1, Len(buf[o])) \in Seq(Bytes)
    BY <2>1, Parts
  <2>5. got'[o] = got[o] \o SubSeq(buf[o], 1, k) /\ buf'[o] = SubSeq(buf[o], k + 1, Len(buf[o]))
        /\ \A i \in Ends : i # o => got'[i] = got[i] /\ buf'[i] = buf[i]
    BY <2>1, <2>2 DEF RelayInv, RelayType
  <2>6. RelayType'
    <3>1. got[o] \o SubSeq(buf[o], 1, k) \in Seq(Bytes)
      BY <2>1, <2>4, ConcatProperties
    <3>2. relay_revents' \subseteq 0..3
      BY <2>3 DEF RelayInv, RelayType
    <3>3. got' \in [Ends -> Seq(Bytes)] /\ buf' \in [Ends -> Seq(Bytes)]
      BY <2>1, <2>2, <2>4, <3>1 DEF RelayInv, RelayType
    <3>4. QED
      BY <2>3, <3>2, <3>3 DEF RelayInv, RelayType
  <2>7. ASSUME NEW i \in Ends \ HangsUp PROVE Whole(i)'
    <3>1. Relay!Taken(i)' = Relay!Taken(i)
      BY <2>3 DEF Relay!Taken
    <3>2. got'[i] \o buf'[i] = got[i] \o buf[i]
      <4>1. got'[o] \o buf'[o] = got[o] \o buf[o]
        <5>1. k \in 0..Len(buf[o]) /\ got[o] \in Seq(Bytes) /\ buf[o] \in Seq(Bytes)
          BY <2>1
        <5>2. (got[o] \o SubSeq(buf[o], 1, k)) \o SubSeq(buf[o], k + 1, Len(buf[o])) = got[o] \o buf[o]
          BY <5>1, WriteMoves, Zenon
        <5>3. QED
          BY <2>5, <5>2, Zenon
      <4>2. QED
        BY <2>5, <4>1
    <3>3. i \in relay_revents' => buf'[i] = <<>>
      <4>1. CASE i # o
        BY <2>3, <2>5, <4>1 DEF RelayInv, Whole
      <4>2. CASE i = o /\ buf[o] = <<>>
        BY <2>5, <4>2
      <4>3. CASE i = o /\ buf[o] # <<>>
        BY <2>3, <4>3 DEF RelayInv, Whole
      <4>4. QED
        BY <4>1, <4>2, <4>3
    <3>4. QED
      BY <2>3, <3>1, <3>2, <3>3 DEF RelayInv, Whole
  <2>8. QED
    BY <2>6, <2>7 DEF RelayInv
<1>3. QED
  BY <1>1, <1>2 DEF Relay!Writes

LEMMA RelayKeeps == RelayInv /\ [Relay!Next]_(Relay!vars) => RelayInv'
<1> SUFFICES ASSUME RelayInv, [Relay!Next]_(Relay!vars) PROVE RelayInv'
  OBVIOUS
<1>1. ASSUME \/ UNCHANGED <<buf, sent, queue, got, line, why>> /\ relay_revents' \subseteq relay_revents
      PROVE  RelayInv'
  BY <1>1 DEF RelayInv, RelayType, Whole, Relay!Taken
<1>2. ASSUME NEW j \in Ends, Relay!Again(j) PROVE RelayInv'
  BY <1>1, <1>2 DEF Relay!Again, Relay!peers
<1>3. CASE Relay!Second \/ Relay!Left \/ UNCHANGED Relay!vars
  BY <1>1, <1>3 DEF Relay!Second, Relay!Left, Relay!vars, Relay!loop, Relay!peers
<1>4. QED
  BY <1>2, <1>3, PeersKeep, PollKeeps, ReadsKeep, WritesKeep DEF Relay!Next, Ends

\* For buffers of any size and any bytes: the relay of data mode (at_modem.c:553-646) passes on
\* what a side sends, with nothing lost, repeated, reordered or put in, if no side hangs up.
THEOREM StreamsStayIntact ==
  ASSUME HangsUp = {}
  PROVE  Relay!Safety => []StreamsIntact
<1>1. RelayInv => StreamsIntact
  BY DEF RelayInv, Whole, StreamsIntact, Relay!StreamsIntact, Ends
<1>2. QED
  BY <1>1, RelayStarts, RelayKeeps, PTL DEF Relay!Safety

\* For buffers of any size and any bytes: when data mode ends because the stream of one side has
\* ended, the other side has got all of it, if no side hangs up.
THEOREM EndIsDelivered ==
  ASSUME HangsUp = {}
  PROVE  Relay!Safety => []EndDelivers
<1>1. RelayInv => EndDelivers
  BY DEF RelayInv, Whole, EndDelivers, Relay!EndDelivers, Ends
<1>2. QED
  BY <1>1, RelayStarts, RelayKeeps, PTL DEF Relay!Safety

\* For buffers of any size and any bytes, whoever hangs up: what is sent by a side that does not
\* is passed on intact, and all of it if its stream is what ends data mode (at_modem.c:553-646).
THEOREM OthersStayIntact ==
  Relay!Safety => [](\A i \in Ends \ HangsUp :
    /\ got[i] \o buf[i] \o Relay!Taken(i) \o queue[i] = sent[i]
    /\ why = <<"end", i>> => got[i] = sent[i])
<1>1. RelayInv => \A i \in Ends \ HangsUp :
        /\ got[i] \o buf[i] \o Relay!Taken(i) \o queue[i] = sent[i]
        /\ why = <<"end", i>> => got[i] = sent[i]
  BY DEF RelayInv, Whole
<1>2. QED
  BY <1>1, RelayStarts, RelayKeeps, PTL DEF Relay!Safety

-----------------------------------------------------------------------------
(* Polling: each of its behaviours is one of the loop of the connection and *)
(* of that of the relay, one of which does nothing in it.                   *)

\* What is so of each of the two loops is so of both.
THEOREM LoopsStayTrue ==
  ASSUME HangsUp = {}
  PROVE  AllSpec => [](PollIsCurrent /\ StreamsIntact /\ EndDelivers)
<1>1. AllInit => Init /\ Relay!Init
  BY DEF AllInit
<1>2. [AllNext]_allVars => [Next]_vars /\ [Relay!Next]_(Relay!vars)
  <2>. SUFFICES ASSUME [AllNext]_allVars PROVE [Next]_vars /\ [Relay!Next]_(Relay!vars)
    OBVIOUS
  <2>1. Next \/ UNCHANGED vars
    BY DEF AllNext, allVars
  <2>2. Relay!Next \/ UNCHANGED relayVars
    BY DEF AllNext, allVars
  <2>3. UNCHANGED relayVars => UNCHANGED Relay!vars
    BY DEF relayVars, Relay!vars, Relay!loop, Relay!peers
  <2>. QED
    BY <2>1, <2>2, <2>3
<1>3. AllInit /\ [][AllNext]_allVars => Safety /\ Relay!Safety
  BY <1>1, <1>2, PTL DEF Safety, Relay!Safety
<1>4. AllSpec => AllInit /\ [][AllNext]_allVars
  BY PTL DEF AllSpec
<1>. QED
  BY <1>3, <1>4, PollStaysCurrent, StreamsStayIntact, EndIsDelivered, PTL
=============================================================================
