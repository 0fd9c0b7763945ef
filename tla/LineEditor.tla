----------------------------- MODULE LineEditor -----------------------------
(***************************************************************************)
(* What at_parser_push() promises the rest of the modem: a line editor     *)
(* with one line of memory. A command line is what was typed and not       *)
(* erased, from its first "AT" on; "A/" gives the previous command line    *)
(* again; a line that is too long is dropped, with the previous one.       *)
(* Module Parser implements it.                                            *)
(***************************************************************************)
EXTENDS Naturals, Sequences

CONSTANTS Printable,   \* the characters that can be typed
          Capacity,    \* a line must be shorter than this
          Lost         \* stands for a character typed past the capacity

VARIABLES line,        \* what was typed and not erased
          last,        \* the previous command line, or <<>>
          given        \* the command line that the last character completed, or <<>>

vars == <<line, last, given>>

\* Where an "AT" is in a line, and the line from there on.
Starts == {i \in 1..(Len(line) - 1) : line[i] = "A" /\ line[i + 1] = "T"}
From(i) == [k \in 1..(Len(line) - i + 1) |-> line[i + k - 1]]

Init == line = <<>> /\ last = <<>> /\ given = <<>>

EndsIn(c) == line # <<>> /\ line[Len(line)] = c

Type(c) ==
  /\ ~(c = "/" /\ EndsIn("A"))
  /\ line' = Append(line, IF Len(line) < Capacity THEN c ELSE Lost)
  /\ given' = <<>>
  /\ UNCHANGED last

Erase ==
  /\ line' = IF line = <<>> THEN <<>> ELSE [k \in 1..(Len(line) - 1) |-> line[k]]
  /\ given' = <<>>
  /\ UNCHANGED last

\* Nobody promises what follows a lost character.
Repeat ==
  /\ EndsIn("A") \/ EndsIn(Lost)
  /\ given' = last
  /\ line' = <<>>
  /\ UNCHANGED last

\* A line counts from its first "AT" on; without any it is nothing.
EnterCommand ==
  /\ Len(line) < Capacity
  /\ \E i \in Starts : (\A j \in Starts : i <= j) /\ given' = From(i)
  /\ last' = given'
  /\ line' = <<>>

EnterNothing ==
  /\ Len(line) < Capacity /\ Starts = {}
  /\ given' = <<>>
  /\ line' = <<>>
  /\ UNCHANGED last

EnterTooLong ==
  /\ Len(line) >= Capacity
  /\ given' = <<>> /\ last' = <<>> /\ line' = <<>>

Ignore == given' = <<>> /\ UNCHANGED <<line, last>>

Next == (\E c \in Printable : Type(c)) \/ Erase \/ Repeat \/ Ignore
        \/ EnterCommand \/ EnterNothing \/ EnterTooLong

Spec == Init /\ [][Next]_vars
=============================================================================
