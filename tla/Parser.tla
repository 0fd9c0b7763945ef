------------------------------- MODULE Parser -------------------------------
(***************************************************************************)
(* The command line parser of src/parser.c, one character at a time. The   *)
(* two buffers of struct at_parser follow one another in memory: buf is    *)
(* memory[0 .. MaxLine-1], old is memory[MaxLine .. 2*MaxLine-1].          *)
(* The letter "A" stands for both cases, each character for both values    *)
(* of its high-order bit (c &= 0x7f), and "ctl" for any other control      *)
(* character. The parser is on the stack: at first its buffers hold        *)
(* anything.                                                               *)
(***************************************************************************)
EXTENDS Integers, Sequences

CONSTANTS
  MaxLine,      \* AT_MAXLINE
  MaxLength,    \* bound: the longest line, erased characters apart
  Printable     \* characters from " " to "~"

SizeAssumption ==
  /\ MaxLine \in Nat /\ MaxLine >= 3
  /\ MaxLength \in MaxLine..(2 * MaxLine)

CharAssumption ==
  /\ {"A", "T", "/"} \subseteq Printable
  /\ {"BS", "DEL", "CR", "LF", "ctl", "nul", "junk", "lost"} \cap Printable = {}

VARIABLES
  length,       \* of the line being typed: it counts on past the end of buf
  oldlength,
  memory,       \* buf, then old
  ret,          \* what the last call returned: an index into memory, or Null
  plen          \* ... and *plen

vars == <<length, oldlength, memory, ret, plen>>

Null == -1
Cells == 0..(2 * MaxLine - 1)
Chars == Printable \cup {"BS", "DEL", "CR", "LF", "ctl"}

\* Delete is a backspace, a line feed is a carriage return.
Translate(c) == IF c = "DEL" THEN "BS" ELSE IF c = "LF" THEN "CR" ELSE c

NoLine == ret' = Null /\ UNCHANGED plen

\* The character before this one, wherever buf[length - 1] is.
AfterA == length >= 1 /\ memory[length - 1] = "A"

Backspace(c) ==
  /\ Translate(c) = "BS"
  /\ length' = IF length > 0 THEN length - 1 ELSE 0
  /\ NoLine
  /\ UNCHANGED <<oldlength, memory>>

\* "A/": the previous command line, if there is one, again.
Repeat(c) ==
  /\ c = "/" /\ AfterA
  /\ length' = 0
  /\ IF oldlength = 0 THEN NoLine ELSE ret' = MaxLine /\ plen' = oldlength
  /\ UNCHANGED <<oldlength, memory>>

Control(c) ==
  /\ c = "ctl"
  /\ NoLine
  /\ UNCHANGED <<length, oldlength, memory>>

\* Mutated: the character past the end is stored as well.
Store_Past(c) ==
  /\ c \in Printable /\ ~(c = "/" /\ AfterA)
  /\ length < MaxLength
  /\ memory' = IF length <= MaxLine THEN [memory EXCEPT ![length] = c] ELSE memory
  /\ length' = length + 1
  /\ NoLine
  /\ UNCHANGED oldlength

Store(c) ==
  /\ c \in Printable /\ ~(c = "/" /\ AfterA)
  /\ length < MaxLength
  /\ memory' = IF length < MaxLine THEN [memory EXCEPT ![length] = c] ELSE memory
  /\ length' = length + 1
  /\ NoLine
  /\ UNCHANGED oldlength

\* A line that is too long is dropped, and the previous one with it.
Overflow(c) ==
  /\ Translate(c) = "CR"
  /\ length >= MaxLine
  /\ oldlength' = 0 /\ length' = 0
  /\ NoLine
  /\ UNCHANGED memory

\* at_find_prefix(): where an "AT" is.
Prefixes == {i \in 0..(length - 2) : memory[i] = "A" /\ memory[i + 1] = "T"}

\* The line is terminated in buf, and saved in old with its nul.
Saved(from, n) ==
  [i \in Cells |-> IF i = length \/ i = MaxLine + n THEN "nul"
                   ELSE IF i \in MaxLine..(MaxLine + n - 1) THEN memory[from + i - MaxLine]
                   ELSE memory[i]]

\* The command line is what follows the first "AT" of the line.
Enter(c) ==
  /\ Translate(c) = "CR"
  /\ length < MaxLine
  /\ \E start \in Prefixes :
       /\ \A i \in Prefixes : start <= i
       /\ memory' = Saved(start, length - start)
       /\ oldlength' = length - start
       /\ ret' = start /\ plen' = length - start
  /\ length' = 0

\* A line without any is nothing.
EnterNothing(c) ==
  /\ Translate(c) = "CR"
  /\ length < MaxLine
  /\ Prefixes = {}
  /\ memory' = [memory EXCEPT ![length] = "nul"]
  /\ ret' = Null /\ plen' = IF length < 2 THEN length ELSE 1
  /\ length' = 0
  /\ UNCHANGED oldlength

\* at_parser_push()
Push(c) ==
  \/ Backspace(c) \/ Repeat(c) \/ Control(c) \/ Store(c)
  \/ Overflow(c) \/ Enter(c) \/ EnterNothing(c)

\* at_parser_init(), on whatever the stack holds.
Init ==
  /\ length = 0 /\ oldlength = 0
  /\ memory \in {[i \in Cells |-> c] : c \in {"A", "junk"}}
  /\ ret = Null /\ plen = 0

Next == \E c \in Chars : Push(c)

Spec == Init /\ [][Next]_vars

-----------------------------------------------------------------------------
\* The values of the variables.
TypeOK ==
  /\ length \in 0..MaxLength
  /\ oldlength \in 0..(MaxLine - 1)
  /\ memory \in [Cells -> Printable \cup {"nul", "junk"}]
  /\ ret \in {Null} \cup Cells
  /\ plen \in 0..(MaxLine - 1)

\* The line that is returned starts with "AT" and its only nul is the one that ends it,
\* *plen characters on, inside the buffer it is in: what at_iterate_first() asserts
\* (parser.c:184-185) and what the readers past *plen rely on (parser.c:226-233).
LineTerminated ==
  ret # Null =>
    /\ plen >= 2
    /\ memory[ret] = "A" /\ memory[ret + 1] = "T"
    /\ \A i \in ret..(ret + plen - 1) : memory[i] # "nul"
    /\ memory[ret + plen] = "nul"
    /\ ret < MaxLine => ret + plen < MaxLine

(***************************************************************************)
(* The parser implements the line editor.                                  *)
(***************************************************************************)
Typed == [k \in 1..length |-> IF k <= MaxLine THEN memory[k - 1] ELSE "lost"]
Previous == [k \in 1..oldlength |-> memory[MaxLine + k - 1]]
Given == IF ret = Null THEN <<>> ELSE [k \in 1..plen |-> memory[ret + k - 1]]

Editor == INSTANCE LineEditor WITH Capacity <- MaxLine, Lost <- "lost", line <- Typed,
                                   last <- Previous, given <- Given

\* What is returned is what the line editor of LineEditor would return.
EditorSpec == Editor!Spec
=============================================================================
